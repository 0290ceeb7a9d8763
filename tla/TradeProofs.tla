---------------------------- MODULE TradeProofs ----------------------------
(***************************************************************************)
(* Proofs that, for any number of characters, people, trades and goods, a  *)
(* character's pointer to its trade is never stale, an approval is never   *)
(* older than the offers, trading makes no coins, and goods change hands   *)
(* only as both sides approved.                                            *)
(*                                                                         *)
(* The coins are those in the hands of the characters and those on offer,  *)
(* a sum over a finite set of places of which a step changes at most two.  *)
(***************************************************************************)
EXTENDS Trade, SumTheorems

IInv == TypeOK /\ Linked /\ ApprovalCurrent

-----------------------------------------------------------------------------
(***************************************************************************)
(* Goods.                                                                  *)
(***************************************************************************)
LEMMA NothingType == Nothing \in Goods
BY DEF Nothing, Goods

LEMMA PlusType ==
  ASSUME NEW g \in Goods, NEW h \in Goods
  PROVE  Plus(g, h) \in Goods
BY DEF Plus, Goods

LEMMA MinusType ==
  ASSUME NEW g \in Goods, NEW h \in Goods,
         \A c \in Currencies : h.coins[c] <= g.coins[c]
  PROVE  Minus(g, h) \in Goods
<1>1. \A c \in Currencies : g.coins[c] - h.coins[c] \in Nat
  BY DEF Goods
<1> QED
  BY <1>1 DEF Minus, Goods

LEMMA CoinsType ==
  ASSUME NEW c \in Currencies, NEW n \in Nat
  PROVE  /\ Coins(c, n) \in Goods
         /\ \A b \in Currencies : Coins(c, n).coins[b] = IF b = c THEN n ELSE 0
BY DEF Coins, Nothing, Goods

LEMMA ItemType ==
  ASSUME NEW i \in Items
  PROVE  Item(i) \in Goods /\ \A b \in Currencies : Item(i).coins[b] = 0
BY DEF Item, Nothing, Goods

LEMMA DeliveredType ==
  ASSUME TypeOK, NEW t \in Trades, NEW to
  PROVE  Delivered(t, to) \in [Slots -> Goods]
<1> SUFFICES ASSUME NEW s \in Slots PROVE Plus(has[s], Due(t, to, s)) \in Goods
  BY DEF Delivered
<1>1. has[s] \in Goods /\ offer[t][0] \in Goods /\ offer[t][1] \in Goods
  BY DEF TypeOK, Sides
<1>2. Due(t, to, s) \in Goods
  BY <1>1, NothingType, PlusType DEF Due
<1> QED
  BY <1>1, <1>2, PlusType

-----------------------------------------------------------------------------
(***************************************************************************)
(* What a command does to the trade it works on.                           *)
(***************************************************************************)
LEMMA SideType ==
  ASSUME NEW s
  PROVE  Side(s) \in Sides /\ 1 - Side(s) \in Sides
BY DEF Side, Sides

\* Trades whose offers and approvals are both reset.
LEMMA EmptiedStep ==
  ASSUME IInv, NEW t \in Trades, Emptied(t)
  PROVE  /\ offer' \in [Trades -> [Sides -> Goods]]
         /\ approved' \in [Trades -> [Sides -> BOOLEAN]]
         /\ seen' \in [Trades -> [Sides -> Goods]]
         /\ ApprovalCurrent'
<1>1. Empty \in [Sides -> Goods] /\ Unapproved \in [Sides -> BOOLEAN]
  BY NothingType DEF Empty, Unapproved
<1>2. /\ offer' \in [Trades -> [Sides -> Goods]]
      /\ approved' \in [Trades -> [Sides -> BOOLEAN]]
      /\ seen' \in [Trades -> [Sides -> Goods]]
  BY <1>1 DEF Emptied, IInv, TypeOK
<1>3. ApprovalCurrent'
  <2> SUFFICES ASSUME NEW x \in Trades, NEW k \in Sides, approved'[x][k]
               PROVE  seen'[x] = offer'[x]
    BY DEF ApprovalCurrent
  <2>1. CASE x = t
    BY <2>1 DEF Emptied, IInv, TypeOK
  <2>2. CASE x # t
    BY <2>2 DEF Emptied, IInv, TypeOK, ApprovalCurrent
  <2> QED
    BY <2>1, <2>2
<1> QED
  BY <1>2, <1>3

\* Letting both traders go leaves no pointer to the freed trade.
LEMMA ReleasedStep ==
  ASSUME IInv, NEW t \in Trades, Released(t)
  PROVE  /\ trade' \in [Slots -> Trades \cup {None}]
         /\ used' \subseteq Trades
         /\ trader' \in [Trades -> [Sides -> Slots \cup {None}]]
         /\ offer' \in [Trades -> [Sides -> Goods]]
         /\ approved' \in [Trades -> [Sides -> BOOLEAN]]
         /\ seen' \in [Trades -> [Sides -> Goods]]
         /\ Linked' /\ ApprovalCurrent'
<1>1. /\ trade' \in [Slots -> Trades \cup {None}]
      /\ used' \subseteq Trades
      /\ trader' \in [Trades -> [Sides -> Slots \cup {None}]]
  BY DEF Released, IInv, TypeOK
<1>2. Linked'
  <2> SUFFICES ASSUME NEW s \in Slots, trade'[s] # None
               PROVE  /\ trade'[s] \in used'
                      /\ s \in {trader'[trade'[s]][0], trader'[trade'[s]][1]}
    BY DEF Linked
  <2>1. trade'[s] = trade[s] /\ s \notin {trader[t][0], trader[t][1]}
    BY DEF Released, IInv, TypeOK
  <2>2. trade[s] \in used /\ s \in {trader[trade[s]][0], trader[trade[s]][1]}
    BY <2>1 DEF IInv, Linked
  <2>3. trade[s] # t /\ trade[s] \in Trades
    BY <2>1, <2>2 DEF IInv, TypeOK
  <2>4. trader'[trade[s]] = trader[trade[s]] /\ trade[s] \in used'
    BY <2>2, <2>3 DEF Released, IInv, TypeOK
  <2> QED
    BY <2>1, <2>2, <2>4
<1> QED
  BY <1>1, <1>2, EmptiedStep DEF Released

\* One offer changes, and the approvals are reset.
LEMMA ResetStep ==
  ASSUME IInv, NEW t \in Trades, NEW k \in Sides, NEW g \in Goods,
         offer' = [offer EXCEPT ![t][k] = g], Reset(t, k)
  PROVE  /\ offer' \in [Trades -> [Sides -> Goods]]
         /\ approved' \in [Trades -> [Sides -> BOOLEAN]]
         /\ seen' \in [Trades -> [Sides -> Goods]]
         /\ ApprovalCurrent'
<1>1. Empty \in [Sides -> Goods] /\ Unapproved \in [Sides -> BOOLEAN]
  BY NothingType DEF Empty, Unapproved
<1>2. /\ offer' \in [Trades -> [Sides -> Goods]]
      /\ approved' \in [Trades -> [Sides -> BOOLEAN]]
      /\ seen' \in [Trades -> [Sides -> Goods]]
  BY <1>1 DEF Reset, IInv, TypeOK
<1>3. ApprovalCurrent'
  <2> SUFFICES ASSUME NEW x \in Trades, NEW j \in Sides, approved'[x][j]
               PROVE  seen'[x] = offer'[x]
    BY DEF ApprovalCurrent
  <2>1. x # t
    BY DEF Reset, Unapproved, IInv, TypeOK
  <2> QED
    BY <2>1 DEF Reset, IInv, TypeOK, ApprovalCurrent
<1> QED
  BY <1>2, <1>3

\* A command that changes what a character carries and what it offers.
LEMMA OfferStep ==
  ASSUME IInv, UNCHANGED robes, NEW s \in Slots, trade[s] # None,
         NEW g \in Goods, NEW h \in Goods,
         has' = [has EXCEPT ![s] = g],
         offer' = [offer EXCEPT ![trade[s]][Side(s)] = h],
         Reset(trade[s], Side(s)),
         UNCHANGED <<who, room, req, trade, used, trader, file>>
  PROVE  IInv'
<1>1. trade[s] \in Trades
  BY DEF IInv, TypeOK
<1>2. /\ offer' \in [Trades -> [Sides -> Goods]]
      /\ approved' \in [Trades -> [Sides -> BOOLEAN]]
      /\ seen' \in [Trades -> [Sides -> Goods]]
      /\ ApprovalCurrent'
  BY <1>1, SideType, ResetStep
<1>3. has' \in [Slots -> Goods]
  BY DEF IInv, TypeOK
<1>4. TypeOK'
  BY <1>2, <1>3 DEF IInv, TypeOK
<1>5. Linked'
  BY DEF IInv, Linked
<1> QED
  BY <1>2, <1>4, <1>5 DEF IInv

-----------------------------------------------------------------------------
(***************************************************************************)
(* One lemma per command.                                                  *)
(***************************************************************************)
LEMMA InvitationStep ==
  ASSUME IInv, UNCHANGED robes, NEW s \in Slots,
         Decline(s) \/ \E v \in Slots : Request(s, v)
  PROVE  IInv'
<1>1. /\ req' \in [Slots -> Slots \cup {None}]
      /\ UNCHANGED <<who, room, has, trade, tradeVars, file>>
  BY DEF Decline, Request, IInv, TypeOK
<1> QED
  BY <1>1 DEF IInv, TypeOK, Linked, ApprovalCurrent, tradeVars

LEMMA AcceptStep ==
  ASSUME IInv, UNCHANGED robes, NEW s \in Slots, NEW t \in Trades, Accept(s, t)
  PROVE  IInv'
<1> DEFINE v == req[s]
<1>1. v \in Slots /\ t \notin used
  BY DEF Accept, IInv, TypeOK
<1>2. /\ used' = used \cup {t}
      /\ trader' = [trader EXCEPT ![t] = [k \in Sides |-> IF k = 0 THEN s ELSE v]]
      /\ trade' = [trade EXCEPT ![s] = t, ![v] = t]
      /\ UNCHANGED <<offer, approved, seen>>
  BY DEF Accept
<1>3. TypeOK'
  BY <1>1, <1>2 DEF Accept, IInv, TypeOK
<1> HIDE DEF v
<1>4. Linked'
  <2> SUFFICES ASSUME NEW x \in Slots, trade'[x] # None
               PROVE  /\ trade'[x] \in used'
                      /\ x \in {trader'[trade'[x]][0], trader'[trade'[x]][1]}
    BY DEF Linked
  <2>1. CASE x \in {s, v}
    <3>1. trade'[x] = t
      BY <2>1, <1>1, <1>2 DEF IInv, TypeOK
    <3>2. trader'[t][0] = s /\ trader'[t][1] = v
      BY <1>2 DEF IInv, TypeOK, Sides
    <3> QED
      BY <2>1, <3>1, <3>2, <1>2
  <2>2. CASE x \notin {s, v}
    <3>1. trade'[x] = trade[x]
      BY <2>2, <1>2 DEF IInv, TypeOK
    <3>2. trade[x] \in used /\ x \in {trader[trade[x]][0], trader[trade[x]][1]}
      BY <3>1 DEF IInv, Linked
    <3>3. trade[x] # t
      BY <3>2, <1>1
    <3>4. trader'[trade[x]] = trader[trade[x]]
      BY <3>2, <3>3, <1>2 DEF IInv, TypeOK
    <3> QED
      BY <3>1, <3>2, <3>4, <1>2
  <2> QED
    BY <2>1, <2>2
<1>5. ApprovalCurrent'
  BY <1>2 DEF IInv, ApprovalCurrent
<1> QED
  BY <1>3, <1>4, <1>5 DEF IInv

\* The trade ends and goods are delivered, back or across.
LEMMA EndStep ==
  ASSUME IInv, UNCHANGED robes, NEW s \in Slots, trade[s] # None,
         NEW h \in [Slots -> Goods], has' = h,
         Released(trade[s]),
         who' \in [Slots -> Persons \cup {None}],
         room' \in [Slots -> Rooms \cup {None}],
         req' \in [Slots -> Slots \cup {None}],
         file' \in [Persons -> Goods]
  PROVE  IInv'
<1>1. trade[s] \in Trades
  BY DEF IInv, TypeOK
<1>2. Linked' /\ ApprovalCurrent'
  BY <1>1, ReleasedStep
<1>3. TypeOK'
  BY <1>1, ReleasedStep DEF IInv, TypeOK
<1> QED
  BY <1>2, <1>3 DEF IInv

LEMMA CancelFinalStep ==
  ASSUME IInv, UNCHANGED robes, NEW s \in Slots, Cancel(s) \/ Final(s)
  PROVE  IInv'
<1>1. trade[s] # None /\ trade[s] \in Trades
  BY DEF Cancel, Final, IInv, TypeOK
<1>2. has' \in [Slots -> Goods]
  BY <1>1, DeliveredType DEF Cancel, Final, Destruct, IInv
<1>3. Released(trade[s]) /\ UNCHANGED <<who, room, req, file>>
  BY DEF Cancel, Final, Destruct
<1> QED
  BY <1>1, <1>2, <1>3, EndStep DEF IInv, TypeOK

LEMMA ClearStep ==
  ASSUME IInv, UNCHANGED robes, NEW s \in Slots, Clear(s)
  PROVE  IInv'
<1>1. trade[s] \in Trades /\ Emptied(trade[s])
      /\ UNCHANGED <<who, room, req, trade, used, trader, file>>
  BY DEF Clear, IInv, TypeOK
<1>2. has' \in [Slots -> Goods]
  BY <1>1, DeliveredType DEF Clear, IInv
<1>3. TypeOK'
  BY <1>1, <1>2, EmptiedStep DEF IInv, TypeOK
<1>4. Linked'
  BY <1>1 DEF IInv, Linked
<1> QED
  BY <1>1, <1>3, <1>4, EmptiedStep DEF IInv

LEMMA ApproveStep ==
  ASSUME IInv, UNCHANGED robes, NEW s \in Slots, Approve(s)
  PROVE  IInv'
<1> DEFINE t == trade[s]
<1>1. t \in Trades /\ Side(s) \in Sides
  BY SideType DEF Approve, IInv, TypeOK
<1>2. /\ approved' = [approved EXCEPT ![t][Side(s)] = TRUE]
      /\ seen' = [seen EXCEPT ![t] = offer[t]]
      /\ UNCHANGED <<who, room, has, req, trade, used, trader, offer, file>>
  BY DEF Approve
<1>3. approved' \in [Trades -> [Sides -> BOOLEAN]] /\ seen' \in [Trades -> [Sides -> Goods]]
  BY <1>1, <1>2 DEF IInv, TypeOK
<1>4. TypeOK'
  BY <1>2, <1>3 DEF IInv, TypeOK
<1> HIDE DEF t
<1>5. ApprovalCurrent'
  <2> SUFFICES ASSUME NEW x \in Trades, NEW k \in Sides, approved'[x][k]
               PROVE  seen'[x] = offer[x]
    BY <1>2 DEF ApprovalCurrent
  <2>1. CASE x = t
    BY <2>1, <1>1, <1>2 DEF IInv, TypeOK
  <2>2. CASE x # t
    BY <2>2, <1>2 DEF IInv, TypeOK, ApprovalCurrent
  <2> QED
    BY <2>1, <2>2
<1>6. Linked'
  BY <1>2 DEF IInv, Linked
<1> QED
  BY <1>4, <1>5, <1>6 DEF IInv

\* Goods go from what the character carries into its offer or back.
LEMMA AddStep ==
  ASSUME IInv, UNCHANGED robes, NEW s \in Slots, trade[s] # None, NEW g \in Goods,
         \A c \in Currencies : g.coins[c] <= has[s].coins[c],
         has' = [has EXCEPT ![s] = Minus(@, g)],
         offer' = [offer EXCEPT ![trade[s]][Side(s)] = Plus(@, g)],
         Reset(trade[s], Side(s)),
         UNCHANGED <<who, room, req, trade, used, trader, file>>
  PROVE  IInv'
<1>1. trade[s] \in Trades /\ has[s] \in Goods /\ offer[trade[s]][Side(s)] \in Goods
  BY SideType DEF IInv, TypeOK
<1>2. Minus(has[s], g) \in Goods /\ Plus(offer[trade[s]][Side(s)], g) \in Goods
  BY <1>1, PlusType, MinusType
<1>3. /\ has' = [has EXCEPT ![s] = Minus(has[s], g)]
      /\ offer' = [offer EXCEPT ![trade[s]][Side(s)] = Plus(offer[trade[s]][Side(s)], g)]
  BY <1>1, SideType DEF IInv, TypeOK
<1> QED
  BY <1>2, <1>3, OfferStep

LEMMA RemoveStep ==
  ASSUME IInv, UNCHANGED robes, NEW s \in Slots, trade[s] # None, NEW g \in Goods,
         \A c \in Currencies : g.coins[c] <= offer[trade[s]][Side(s)].coins[c],
         has' = [has EXCEPT ![s] = Plus(@, g)],
         offer' = [offer EXCEPT ![trade[s]][Side(s)] = Minus(@, g)],
         Reset(trade[s], Side(s)),
         UNCHANGED <<who, room, req, trade, used, trader, file>>
  PROVE  IInv'
<1>1. trade[s] \in Trades /\ has[s] \in Goods /\ offer[trade[s]][Side(s)] \in Goods
  BY SideType DEF IInv, TypeOK
<1>2. Plus(has[s], g) \in Goods /\ Minus(offer[trade[s]][Side(s)], g) \in Goods
  BY <1>1, PlusType, MinusType
<1>3. /\ has' = [has EXCEPT ![s] = Plus(has[s], g)]
      /\ offer' = [offer EXCEPT ![trade[s]][Side(s)] = Minus(offer[trade[s]][Side(s)], g)]
  BY <1>1, SideType DEF IInv, TypeOK
<1> QED
  BY <1>2, <1>3, OfferStep

LEMMA CoinsStep ==
  ASSUME IInv, UNCHANGED robes, NEW s \in Slots, NEW c \in Currencies,
         AddCoins(s, c) \/ RemoveCoins(s, c)
  PROVE  IInv'
<1>1. trade[s] \in Trades /\ has[s] \in Goods /\ offer[trade[s]][Side(s)] \in Goods
  BY SideType DEF AddCoins, RemoveCoins, IInv, TypeOK
<1>2. has[s].coins \in [Currencies -> Nat] /\ offer[trade[s]][Side(s)].coins \in [Currencies -> Nat]
  BY <1>1 DEF Goods
<1>3. CASE AddCoins(s, c)
  <2>1. PICK n \in 0 .. has[s].coins[c] :
          /\ has' = [has EXCEPT ![s] = Minus(@, Coins(c, n))]
          /\ offer' = [offer EXCEPT ![trade[s]][Side(s)] = Plus(@, Coins(c, n))]
    BY <1>3 DEF AddCoins
  <2>2. Coins(c, n) \in Goods /\ \A b \in Currencies : Coins(c, n).coins[b] <= has[s].coins[b]
    <3>1. \A b \in Currencies : has[s].coins[b] \in Nat
      BY <1>2
    <3>2. n \in Nat /\ n <= has[s].coins[c]
      BY <3>1
    <3> QED
      BY <3>1, <3>2, CoinsType
  <2> QED
    BY <1>3, <2>1, <2>2, AddStep DEF AddCoins
<1>4. CASE RemoveCoins(s, c)
  <2>1. PICK n \in 1 .. offer[trade[s]][Side(s)].coins[c] :
          /\ has' = [has EXCEPT ![s] = Plus(@, Coins(c, n))]
          /\ offer' = [offer EXCEPT ![trade[s]][Side(s)] = Minus(@, Coins(c, n))]
    BY <1>4 DEF RemoveCoins
  <2>2. Coins(c, n) \in Goods
        /\ \A b \in Currencies : Coins(c, n).coins[b] <= offer[trade[s]][Side(s)].coins[b]
    <3>1. \A b \in Currencies : offer[trade[s]][Side(s)].coins[b] \in Nat
      BY <1>2
    <3>2. n \in Nat /\ n <= offer[trade[s]][Side(s)].coins[c]
      BY <3>1
    <3> QED
      BY <3>1, <3>2, CoinsType
  <2> QED
    BY <1>4, <2>1, <2>2, RemoveStep DEF RemoveCoins
<1> QED
  BY <1>3, <1>4

LEMMA ItemStep ==
  ASSUME IInv, UNCHANGED robes, NEW s \in Slots, NEW i \in Items,
         AddItem(s, i) \/ RemoveItem(s, i)
  PROVE  IInv'
<1>1. trade[s] \in Trades /\ has[s] \in Goods /\ offer[trade[s]][Side(s)] \in Goods
  BY SideType DEF AddItem, RemoveItem, IInv, TypeOK
<1>2. has[s].coins \in [Currencies -> Nat] /\ offer[trade[s]][Side(s)].coins \in [Currencies -> Nat]
  BY <1>1 DEF Goods
<1>3. Item(i) \in Goods
      /\ \A b \in Currencies : /\ Item(i).coins[b] <= has[s].coins[b]
                               /\ Item(i).coins[b] <= offer[trade[s]][Side(s)].coins[b]
  BY <1>2, ItemType
<1>4. CASE AddItem(s, i)
  BY <1>3, <1>4, AddStep DEF AddItem
<1>5. CASE RemoveItem(s, i)
  BY <1>3, <1>5, RemoveStep DEF RemoveItem
<1> QED
  BY <1>4, <1>5

LEMMA RobeStep ==
  ASSUME IInv, UNCHANGED robes, NEW s \in Slots, NEW i \in Items, AddRobe(s, i)
  PROVE  IInv'
<1> DEFINE t == trade[s]
           k == Side(s)
<1>1. t \in Trades /\ k \in Sides /\ has[s] \in Goods /\ offer[t][k] \in Goods
  BY SideType DEF AddRobe, IInv, TypeOK
<1>2. \A b \in Currencies : Item(i).coins[b] <= has[s].coins[b]
  BY <1>1, ItemType DEF Goods
<1>3. Minus(has[s], Item(i)) \in Goods
  BY <1>1, <1>2, ItemType, MinusType
<1>4. has' = [has EXCEPT ![s] = Minus(has[s], Item(i))]
  BY DEF AddRobe, IInv, TypeOK
<1>5. offer' = [offer EXCEPT ![t][k] = offer[t][k]]
  BY <1>1 DEF AddRobe, IInv, TypeOK
<1> QED
  BY <1>1, <1>3, <1>4, <1>5, OfferStep DEF AddRobe

LEMMA MoveStep ==
  ASSUME IInv, UNCHANGED robes, NEW s \in Slots, NEW r \in Rooms, Move(s, r)
  PROVE  IInv'
<1>1. room' \in [Slots -> Rooms \cup {None}] /\ UNCHANGED <<who, req, file>>
  BY DEF Move, IInv, TypeOK
<1>2. CASE trade[s] = None
  BY <1>1, <1>2 DEF Move, IInv, TypeOK, Linked, ApprovalCurrent, tradeVars
<1>3. CASE trade[s] # None
  <2>1. trade[s] \in Trades
    BY <1>3 DEF IInv, TypeOK
  <2>2. has' \in [Slots -> Goods] /\ Released(trade[s])
    BY <1>3, <2>1, DeliveredType DEF Move, Destruct, IInv
  <2> QED
    BY <1>1, <1>3, <2>2, EndStep DEF IInv, TypeOK
<1> QED
  BY <1>2, <1>3

LEMMA QuitStep ==
  ASSUME IInv, UNCHANGED robes, NEW s \in Slots, Quit(s)
  PROVE  IInv'
<1>1. /\ who' \in [Slots -> Persons \cup {None}]
      /\ room' \in [Slots -> Rooms \cup {None}]
      /\ req' \in [Slots -> Slots \cup {None}]
  BY DEF Quit, IInv, TypeOK
<1>2. file' \in [Persons -> Goods]
  <2>1. has[s] \in Goods
    BY DEF IInv, TypeOK
  <2> QED
    BY <2>1 DEF Quit, IInv, TypeOK
<1>3. CASE trade[s] = None
  <2>1. has' \in [Slots -> Goods] /\ UNCHANGED <<trade, tradeVars>>
    BY <1>3, NothingType DEF Quit, IInv, TypeOK
  <2> QED
    BY <1>1, <1>2, <2>1 DEF IInv, TypeOK, Linked, ApprovalCurrent, tradeVars
<1>4. CASE trade[s] # None
  <2>1. trade[s] \in Trades
    BY <1>4 DEF IInv, TypeOK
  <2>2. Released(trade[s])
        /\ has' = [Delivered(trade[s], trader[trade[s]]) EXCEPT ![s] = Nothing]
    BY <1>4 DEF Quit
  <2>3. has' \in [Slots -> Goods]
    BY <2>1, <2>2, DeliveredType, NothingType DEF IInv
  <2> QED
    BY <1>1, <1>2, <1>4, <2>2, <2>3, EndStep
<1> QED
  BY <1>3, <1>4

LEMMA LoginStep ==
  ASSUME IInv, UNCHANGED robes, NEW s \in Slots, NEW p \in Persons, NEW r \in Rooms, Login(s, p, r)
  PROVE  IInv'
<1>1. TypeOK'
  BY DEF Login, IInv, TypeOK, tradeVars
<1>2. Linked'
  BY DEF Login, IInv, TypeOK, Linked, tradeVars
<1>3. ApprovalCurrent'
  BY DEF Login, IInv, ApprovalCurrent, tradeVars
<1> QED
  BY <1>1, <1>2, <1>3 DEF IInv

-----------------------------------------------------------------------------
LEMMA InitIInv == Init => IInv
<1> SUFFICES ASSUME Init PROVE IInv
  OBVIOUS
<1>1. TypeOK
  <2>1. \A g : g \in [coins : [Currencies -> {1}], items : SUBSET Items] => g \in Goods
    BY DEF Goods
  <2>2. file \in [Persons -> Goods]
    BY <2>1 DEF Init
  <2> QED
    BY <2>2, NothingType DEF Init, TypeOK, Empty, Unapproved
<1>2. Linked
  BY DEF Init, Linked
<1>3. ApprovalCurrent
  BY DEF Init, ApprovalCurrent, Unapproved
<1> QED
  BY <1>1, <1>2, <1>3 DEF IInv

LEMMA Inductive == IInv /\ [Next]_vars => IInv'
<1> SUFFICES ASSUME IInv, [Next]_vars PROVE IInv'
  OBVIOUS
<1>1. ASSUME NEW s \in Slots, Command(s), UNCHANGED robes PROVE IInv'
  BY <1>1, InvitationStep, AcceptStep, CancelFinalStep, ClearStep, ApproveStep,
     CoinsStep, ItemStep, RobeStep DEF Command
<1>2. CASE UNCHANGED vars
  BY <1>2 DEF vars, IInv, TypeOK, Linked, ApprovalCurrent
<1> QED
  BY <1>1, <1>2, MoveStep, QuitStep, LoginStep DEF Next

THEOREM Invariance == Spec => []IInv
BY InitIInv, Inductive, PTL DEF Spec

\* Every variable keeps its type; in particular no purse and no offer ever
\* goes below zero.
THEOREM TypeCorrect == Spec => []TypeOK
<1>1. IInv => TypeOK
  BY DEF IInv
<1> QED
  BY <1>1, Invariance, PTL

\* No character ever points to a freed trade or to one it is no party of,
\* however many invitations overlap and whoever leaves meanwhile.
THEOREM TradesLinked == Spec => []Linked
<1>1. IInv => Linked
  BY DEF IInv
<1> QED
  BY <1>1, Invariance, PTL

\* An approval stands only as long as both offers are what they were.
THEOREM ApprovalsCurrent == Spec => []ApprovalCurrent
<1>1. IInv => ApprovalCurrent
  BY DEF IInv
<1> QED
  BY <1>1, Invariance, PTL

-----------------------------------------------------------------------------
(***************************************************************************)
(* No item is in two places.  Sole says so of one item, by the kinds of    *)
(* places; a trade that is not in use offers nothing, so that taking one   *)
(* for use adds no place with goods.                                       *)
(***************************************************************************)
AtChar(i, s) == s \in Live /\ i \in has[s].items
AtFile(i, p) == p \in OffLine /\ i \in file[p].items
AtTrade(i, t, k) == t \in used /\ k \in Sides /\ i \in offer[t][k].items

Sole(i) ==
  /\ \A s, v \in Slots : AtChar(i, s) /\ AtChar(i, v) => s = v
  /\ \A p, q \in Persons : AtFile(i, p) /\ AtFile(i, q) => p = q
  /\ \A t, u \in Trades, j, k \in Sides :
       AtTrade(i, t, j) /\ AtTrade(i, u, k) => t = u /\ j = k
  /\ \A s \in Slots, p \in Persons : ~(AtChar(i, s) /\ AtFile(i, p))
  /\ \A s \in Slots, t \in Trades, k \in Sides : ~(AtChar(i, s) /\ AtTrade(i, t, k))
  /\ \A p \in Persons, t \in Trades, k \in Sides : ~(AtFile(i, p) /\ AtTrade(i, t, k))

FreeEmpty == \A t \in Trades \ used, k \in Sides : offer[t][k].items = {}

SInv == FreeEmpty /\ \A i \in Items : Sole(i)

\* What Delivered brings: to[k] gets what side k offered.
LEMMA DeliveredItems ==
  ASSUME NEW t, NEW to, NEW s \in Slots, NEW i
  PROVE  i \in Delivered(t, to)[s].items <=>
           \/ i \in has[s].items
           \/ \E k \in Sides : to[k] = s /\ i \in offer[t][k].items
<1>1. Delivered(t, to)[s].items = has[s].items \cup Due(t, to, s).items
  BY DEF Delivered, Plus
<1>2. Due(t, to, s).items = (IF to[0] = s THEN offer[t][0] ELSE Nothing).items
                              \cup (IF to[1] = s THEN offer[t][1] ELSE Nothing).items
  BY DEF Due, Plus
<1>3. Nothing.items = {}
  BY DEF Nothing
<1> QED
  BY <1>1, <1>2, <1>3 DEF Sides

\* A trade is emptied for good or for the next one, and its offers go to to.
LEMMA SoleDelivered ==
  ASSUME IInv, SInv, NEW t \in Trades, t \in used, NEW to,
         Emptied(t), used' \subseteq used, used \ {t} \subseteq used',
         \A s \in Slots : s \in Live' => s \in Live /\ has'[s] = Delivered(t, to)[s],
         \A p \in OffLine' :
           \/ p \in OffLine /\ file'[p] = file[p]
           \/ \E s \in Slots : s \in Live /\ s \notin Live' /\ who[s] = p /\ file'[p] = has[s]
  PROVE  SInv'
<1>1. \A u \in Trades, k \in Sides :
        offer'[u][k].items = IF u = t THEN {} ELSE offer[u][k].items
  BY DEF Emptied, Empty, Nothing, IInv, TypeOK
<1>2. FreeEmpty'
  BY <1>1 DEF FreeEmpty, SInv
<1>3. ASSUME NEW i \in Items PROVE Sole(i)'
  <2>1. Sole(i)
    BY DEF SInv
  <2>2. \A s \in Slots : AtChar(i, s)' =>
          /\ s \in Live'
          /\ AtChar(i, s) \/ \E k \in Sides : to[k] = s /\ AtTrade(i, t, k)
    BY DeliveredItems DEF AtChar, AtTrade
  <2>3. \A u \in Trades, k \in Sides : AtTrade(i, u, k)' => AtTrade(i, u, k) /\ u # t
    BY <1>1 DEF AtTrade
  <2>4. \A p \in Persons : AtFile(i, p)' =>
          \/ AtFile(i, p)
          \/ \E s \in Slots : s \notin Live' /\ who[s] = p /\ AtChar(i, s)
    BY DEF AtFile, AtChar
  <2> QED
    BY <2>1, <2>2, <2>3, <2>4 DEF Sole
<1> QED
  BY <1>2, <1>3 DEF SInv

LEMMA SoleImplies ==
  ASSUME TypeOK, \A i \in Items : Sole(i)
  PROVE  ItemsApart
<1> SUFFICES ASSUME NEW x \in Places, NEW y \in Places, NEW i,
                    i \in At(x).items, i \in At(y).items
             PROVE  x = y
  BY DEF ItemsApart
<1>1. \A z \in Places : \A j : j \in At(z).items =>
        \/ \E s \in Slots : z = <<"char", s>> /\ AtChar(j, s)
        \/ \E p \in Persons : z = <<"file", p>> /\ AtFile(j, p)
        \/ \E t \in Trades, k \in Sides : z = <<"trade", t, k>> /\ AtTrade(j, t, k)
  BY DEF Places, At, AtChar, AtFile, AtTrade, Live, OffLine, TypeOK
<1>2. i \in Items
  <2>1. \A s \in Slots : \A j : AtChar(j, s) => j \in Items
    BY DEF AtChar, TypeOK, Goods
  <2>2. \A p \in Persons : \A j : AtFile(j, p) => j \in Items
    BY DEF AtFile, TypeOK, Goods
  <2>3. \A t \in Trades, k \in Sides : \A j : AtTrade(j, t, k) => j \in Items
    BY DEF AtTrade, TypeOK, Goods
  <2> QED
    BY <1>1, <2>1, <2>2, <2>3
<1>3. Sole(i)
  BY <1>2
<1>4. CASE \E s \in Slots : x = <<"char", s>> /\ AtChar(i, s)
  BY <1>1, <1>3, <1>4 DEF Sole
<1>5. CASE \E p \in Persons : x = <<"file", p>> /\ AtFile(i, p)
  BY <1>1, <1>3, <1>5 DEF Sole
<1>6. CASE \E t \in Trades, k \in Sides : x = <<"trade", t, k>> /\ AtTrade(i, t, k)
  BY <1>1, <1>3, <1>6 DEF Sole
<1> QED
  BY <1>1, <1>4, <1>5, <1>6

\* One item, or none, goes from what a character carries into its offer, or
\* back, or is lost.
LEMMA SoleMoved ==
  ASSUME IInv, SInv, NEW s \in Live, trade[s] # None,
         UNCHANGED <<who, used, file>>,
         NEW g, NEW h,
         has' = [has EXCEPT ![s] = g],
         offer' = [offer EXCEPT ![trade[s]][Side(s)] = h],
         g.items \cap h.items = {},
         g.items \cup h.items \subseteq has[s].items \cup offer[trade[s]][Side(s)].items
  PROVE  SInv'
<1> DEFINE t == trade[s]
           j == Side(s)
<1>1. s \in Slots /\ t \in Trades /\ t \in used /\ j \in Sides
  BY SideType DEF IInv, TypeOK, Linked, Live
<1>2. /\ Live' = Live /\ OffLine' = OffLine
      /\ \A v \in Slots : has'[v] = IF v = s THEN g ELSE has[v]
  BY DEF Live, OffLine, IInv, TypeOK
<1>3. \A u \in Trades, k \in Sides :
        offer'[u][k] = IF u = t /\ k = j THEN h ELSE offer[u][k]
  BY <1>1 DEF IInv, TypeOK
<1> HIDE DEF t, j
<1>4. FreeEmpty'
  BY <1>1, <1>3 DEF FreeEmpty, SInv
<1>5. ASSUME NEW i \in Items PROVE Sole(i)'
  <2>1. Sole(i)
    BY DEF SInv
  <2>2. \A v \in Slots : AtChar(i, v)' =>
          IF v = s THEN i \in g.items ELSE AtChar(i, v)
    BY <1>2 DEF AtChar
  <2>3. \A u \in Trades, k \in Sides : AtTrade(i, u, k)' =>
          IF u = t /\ k = j THEN i \in h.items ELSE AtTrade(i, u, k)
    BY <1>3 DEF AtTrade
  <2>4. \A p \in Persons : AtFile(i, p)' => AtFile(i, p)
    BY <1>2 DEF AtFile
  <2>5. i \in g.items \cup h.items => AtChar(i, s) \/ AtTrade(i, t, j)
    BY <1>1 DEF AtChar, AtTrade, t, j
  <2>6. ~(i \in g.items /\ i \in h.items)
    OBVIOUS
  <2> QED
    BY <1>1, <2>1, <2>2, <2>3, <2>4, <2>5, <2>6 DEF Sole
<1> QED
  BY <1>4, <1>5 DEF SInv

\* Goods stay where they are.
LEMMA SoleStill ==
  ASSUME IInv, SInv, UNCHANGED <<who, has, offer, file>>,
         \A t \in Trades : t \in used => t \in used'
  PROVE  SInv'
<1>1. FreeEmpty'
  BY DEF FreeEmpty, SInv
<1>2. ASSUME NEW i \in Items PROVE Sole(i)'
  <2>1. Sole(i) /\ FreeEmpty
    BY DEF SInv
  <2>2. Live' = Live /\ OffLine' = OffLine
    BY DEF Live, OffLine
  <2>3. \A s \in Slots : AtChar(i, s)' <=> AtChar(i, s)
    BY <2>2 DEF AtChar
  <2>4. \A p \in Persons : AtFile(i, p)' <=> AtFile(i, p)
    BY <2>2 DEF AtFile
  <2>5. \A t \in Trades, k \in Sides : AtTrade(i, t, k)' => AtTrade(i, t, k)
    BY <2>1 DEF AtTrade, FreeEmpty
  <2> QED
    BY <2>1, <2>3, <2>4, <2>5 DEF Sole
<1> QED
  BY <1>1, <1>2 DEF SInv

LEMMA SoleQuit ==
  ASSUME IInv, SInv, NEW s \in Slots, Quit(s)
  PROVE  SInv'
<1>1. /\ s \in Live /\ s \notin Live' /\ Live' \subseteq Live
      /\ \A v \in Live : v # s => v \in Live'
      /\ \A p \in Persons : file'[p] = IF p = who[s] THEN has[s] ELSE file[p]
  BY DEF Quit, Live, IInv, TypeOK
<1>2. \A p \in OffLine' : p = who[s] \/ (p \in OffLine /\ p # who[s])
  BY DEF Quit, OffLine, IInv, TypeOK
<1>3. \A p \in OffLine' :
        \/ p \in OffLine /\ file'[p] = file[p]
        \/ \E v \in Slots : v \in Live /\ v \notin Live' /\ who[v] = p /\ file'[p] = has[v]
  BY <1>1, <1>2 DEF OffLine
<1>4. CASE trade[s] # None
  <2>1. trade[s] \in Trades /\ trade[s] \in used
    BY <1>4 DEF IInv, TypeOK, Linked
  <2>2. /\ has' = [Delivered(trade[s], trader[trade[s]]) EXCEPT ![s] = Nothing]
        /\ Released(trade[s])
    BY <1>4 DEF Quit
  <2>3. \A v \in Slots : v # s => has'[v] = Delivered(trade[s], trader[trade[s]])[v]
    BY <2>2 DEF Delivered
  <2> QED
    BY <1>1, <1>3, <2>1, <2>2, <2>3, SoleDelivered DEF Released
<1>5. CASE trade[s] = None
  <2>1. UNCHANGED <<used, offer>> /\ \A v \in Slots : v # s => has'[v] = has[v]
    BY <1>5 DEF Quit, tradeVars, IInv, TypeOK
  <2>2. FreeEmpty'
    BY <2>1 DEF FreeEmpty, SInv
  <2>3. ASSUME NEW i \in Items PROVE Sole(i)'
    <3>1. Sole(i)
      BY DEF SInv
    <3>2. \A v \in Slots : AtChar(i, v)' => AtChar(i, v) /\ v # s
      BY <1>1, <2>1 DEF AtChar
    <3>3. \A t \in Trades, k \in Sides : AtTrade(i, t, k)' => AtTrade(i, t, k)
      BY <2>1 DEF AtTrade
    <3>4. \A p \in Persons : AtFile(i, p)' => AtFile(i, p) \/ (p = who[s] /\ AtChar(i, s))
      BY <1>1, <1>2 DEF AtFile, AtChar
    <3> QED
      BY <3>1, <3>2, <3>3, <3>4 DEF Sole
  <2> QED
    BY <2>2, <2>3 DEF SInv
<1> QED
  BY <1>4, <1>5

LEMMA SoleLogin ==
  ASSUME IInv, SInv, NEW s \in Slots, NEW p \in Persons, NEW r \in Rooms, Login(s, p, r)
  PROVE  SInv'
<1>1. /\ UNCHANGED <<used, offer, file>>
      /\ \A v \in Slots : who'[v] = IF v = s THEN p ELSE who[v]
      /\ \A v \in Slots : has'[v] = IF v = s THEN file[p] ELSE has[v]
      /\ p \in OffLine
  BY DEF Login, tradeVars, OffLine, IInv, TypeOK
<1>2. FreeEmpty'
  BY <1>1 DEF FreeEmpty, SInv
<1>3. \A q \in OffLine' : q \in OffLine /\ q # p
  <2> SUFFICES ASSUME NEW q \in Persons, \A v \in Slots : who'[v] # q
               PROVE  q \in OffLine /\ q # p
    BY DEF OffLine
  <2>1. q # p
    BY <1>1
  <2>2. \A v \in Slots : v # s => who[v] # q
    BY <1>1
  <2>3. who[s] # q
    BY TradeAssumption DEF Login
  <2> QED
    BY <2>1, <2>2, <2>3 DEF OffLine
<1>4. ASSUME NEW i \in Items PROVE Sole(i)'
  <2>1. Sole(i)
    BY DEF SInv
  <2>2. \A v \in Slots : AtChar(i, v)' => IF v = s THEN AtFile(i, p) ELSE AtChar(i, v)
    BY <1>1 DEF AtChar, AtFile, Live
  <2>3. \A t \in Trades, k \in Sides : AtTrade(i, t, k)' => AtTrade(i, t, k)
    BY <1>1 DEF AtTrade
  <2>4. \A q \in Persons : AtFile(i, q)' => AtFile(i, q) /\ q # p
    BY <1>1, <1>3 DEF AtFile
  <2> QED
    BY <2>1, <2>2, <2>3, <2>4 DEF Sole
<1> QED
  BY <1>2, <1>4 DEF SInv

\* The commands on a trade.
LEMMA SoleEnd ==
  ASSUME IInv, SInv, NEW s \in Slots,
         \/ Cancel(s) \/ Clear(s) \/ Final(s)
         \/ trade[s] # None /\ \E r \in Rooms : Move(s, r)
  PROVE  SInv'
<1> DEFINE t == trade[s]
<1>1. t # None
  BY DEF Cancel, Clear, Final
<1>2. t \in Trades /\ t \in used
  BY <1>1 DEF IInv, TypeOK, Linked
<1>3. UNCHANGED <<who, file>> /\ (Clear(s) \/ Released(t))
  BY <1>1 DEF Cancel, Clear, Final, Move, Destruct
<1>4. Live' = Live /\ OffLine' = OffLine
  BY <1>3 DEF Live, OffLine
<1>5. Emptied(t) /\ used' \subseteq used /\ used \ {t} \subseteq used'
  BY <1>3 DEF Released, Clear
<1>6. has' = Delivered(t, trader[t]) \/ has' = Delivered(t, Swapped(t))
  BY <1>1 DEF Cancel, Clear, Final, Move, Destruct
<1> HIDE DEF t
<1>7. CASE has' = Delivered(t, trader[t])
  BY <1>2, <1>3, <1>4, <1>5, <1>7, SoleDelivered
<1>8. CASE has' = Delivered(t, Swapped(t))
  BY <1>2, <1>3, <1>4, <1>5, <1>8, SoleDelivered
<1> QED
  BY <1>6, <1>7, <1>8

LEMMA SoleCoins ==
  ASSUME IInv, SInv, NEW s \in Slots, NEW c \in Currencies,
         AddCoins(s, c) \/ RemoveCoins(s, c)
  PROVE  SInv'
<1> DEFINE g == has[s]
           h == offer[trade[s]][Side(s)]
<1>1. trade[s] \in Trades /\ Side(s) \in Sides /\ s \in Live /\ trade[s] # None
      /\ UNCHANGED <<who, used, file>>
  BY SideType DEF AddCoins, RemoveCoins, IInv, TypeOK
<1>2. \A n : Coins(c, n).items = {}
  BY DEF Coins, Nothing
<1>3. \A a, n : Plus(a, Coins(c, n)).items = a.items /\ Minus(a, Coins(c, n)).items = a.items
  BY <1>2 DEF Plus, Minus
<1>4. \E a, b : /\ has' = [has EXCEPT ![s] = a] /\ a.items = g.items
                /\ offer' = [offer EXCEPT ![trade[s]][Side(s)] = b] /\ b.items = h.items
  <2>1. CASE AddCoins(s, c)
    <3>1. PICK n : /\ has' = [has EXCEPT ![s] = Minus(@, Coins(c, n))]
                   /\ offer' = [offer EXCEPT ![trade[s]][Side(s)] = Plus(@, Coins(c, n))]
      BY <2>1 DEF AddCoins
    <3>2. /\ has' = [has EXCEPT ![s] = Minus(g, Coins(c, n))]
          /\ offer' = [offer EXCEPT ![trade[s]][Side(s)] = Plus(h, Coins(c, n))]
      BY <1>1, <3>1 DEF IInv, TypeOK
    <3> QED
      BY <1>3, <3>2
  <2>2. CASE RemoveCoins(s, c)
    <3>1. PICK n : /\ has' = [has EXCEPT ![s] = Plus(@, Coins(c, n))]
                   /\ offer' = [offer EXCEPT ![trade[s]][Side(s)] = Minus(@, Coins(c, n))]
      BY <2>2 DEF RemoveCoins
    <3>2. /\ has' = [has EXCEPT ![s] = Plus(g, Coins(c, n))]
          /\ offer' = [offer EXCEPT ![trade[s]][Side(s)] = Minus(h, Coins(c, n))]
      BY <1>1, <3>1 DEF IInv, TypeOK
    <3> QED
      BY <1>3, <3>2
  <2> QED
    BY <2>1, <2>2
<1>5. g.items \cap h.items = {}
  <2>1. trade[s] \in used /\ s \in Slots
    BY <1>1 DEF IInv, Linked
  <2>2. g.items \subseteq Items
    BY DEF IInv, TypeOK, Goods
  <2>3. \A i \in Items : ~(AtChar(i, s) /\ AtTrade(i, trade[s], Side(s)))
    BY <1>1, <2>1 DEF SInv, Sole
  <2> QED
    BY <1>1, <2>1, <2>2, <2>3 DEF AtChar, AtTrade
<1>6. PICK a, b : /\ has' = [has EXCEPT ![s] = a] /\ a.items = g.items
                  /\ offer' = [offer EXCEPT ![trade[s]][Side(s)] = b] /\ b.items = h.items
  BY <1>4
<1>7. /\ a.items \cap b.items = {}
      /\ a.items \cup b.items \subseteq has[s].items \cup offer[trade[s]][Side(s)].items
  BY <1>5, <1>6
<1> QED
  BY <1>1, <1>6, <1>7, SoleMoved

LEMMA SoleItem ==
  ASSUME IInv, SInv, NEW s \in Slots, NEW i \in Items,
         AddItem(s, i) \/ AddRobe(s, i) \/ RemoveItem(s, i)
  PROVE  SInv'
<1> DEFINE g == has[s]
           h == offer[trade[s]][Side(s)]
<1>1. /\ trade[s] \in Trades /\ Side(s) \in Sides /\ s \in Live /\ trade[s] # None
      /\ UNCHANGED <<who, used, file>>
  BY SideType DEF AddItem, AddRobe, RemoveItem, IInv, TypeOK
<1>2. \A a : Plus(a, Item(i)).items = a.items \cup {i} /\ Minus(a, Item(i)).items = a.items \ {i}
  BY DEF Plus, Minus, Item, Nothing
<1>3. g.items \cap h.items = {}
  <2>1. trade[s] \in used /\ s \in Slots
    BY <1>1 DEF IInv, Linked
  <2>2. g.items \subseteq Items
    BY DEF IInv, TypeOK, Goods
  <2>3. \A x \in Items : ~(AtChar(x, s) /\ AtTrade(x, trade[s], Side(s)))
    BY <1>1, <2>1 DEF SInv, Sole
  <2> QED
    BY <1>1, <2>1, <2>2, <2>3 DEF AtChar, AtTrade
<1>4. CASE AddItem(s, i)
  <2>1. /\ has' = [has EXCEPT ![s] = Minus(g, Item(i))]
        /\ offer' = [offer EXCEPT ![trade[s]][Side(s)] = Plus(h, Item(i))]
        /\ i \in g.items
    BY <1>1, <1>4 DEF AddItem, IInv, TypeOK
  <2>2. /\ Minus(g, Item(i)).items \cap Plus(h, Item(i)).items = {}
        /\ Minus(g, Item(i)).items \cup Plus(h, Item(i)).items \subseteq g.items \cup h.items
    BY <1>2, <1>3, <2>1
  <2> QED
    BY <1>1, <2>1, <2>2, SoleMoved
<1>5. CASE AddRobe(s, i)
  <2>1. /\ has' = [has EXCEPT ![s] = Minus(g, Item(i))]
        /\ offer' = [offer EXCEPT ![trade[s]][Side(s)] = h]
    BY <1>1, <1>5 DEF AddRobe, IInv, TypeOK
  <2> QED
    BY <1>1, <1>2, <1>3, <2>1, SoleMoved
<1>6. CASE RemoveItem(s, i)
  <2>1. /\ has' = [has EXCEPT ![s] = Plus(g, Item(i))]
        /\ offer' = [offer EXCEPT ![trade[s]][Side(s)] = Minus(h, Item(i))]
        /\ i \in h.items
    BY <1>1, <1>6 DEF RemoveItem, IInv, TypeOK
  <2>2. /\ Plus(g, Item(i)).items \cap Minus(h, Item(i)).items = {}
        /\ Plus(g, Item(i)).items \cup Minus(h, Item(i)).items \subseteq g.items \cup h.items
    BY <1>2, <1>3, <2>1
  <2> QED
    BY <1>1, <2>1, <2>2, SoleMoved
<1> QED
  BY <1>4, <1>5, <1>6

LEMMA InitSInv == Init => SInv
<1> SUFFICES ASSUME Init PROVE SInv
  OBVIOUS
<1>1. \A s \in Slots : \A i : ~AtChar(i, s)
  BY DEF Init, AtChar, Live
<1>2. \A t \in Trades, k \in Sides : \A i : ~AtTrade(i, t, k)
  BY DEF Init, AtTrade
<1>3. \A p, q \in Persons : \A i : AtFile(i, p) /\ AtFile(i, q) => p = q
  BY DEF Init, AtFile
<1>4. FreeEmpty
  BY DEF Init, FreeEmpty, Empty, Nothing
<1> QED
  BY <1>1, <1>2, <1>3, <1>4 DEF SInv, Sole

LEMMA SoleInductive == IInv /\ SInv /\ [Next]_vars => SInv'
<1> SUFFICES ASSUME IInv, SInv, [Next]_vars PROVE SInv'
  OBVIOUS
<1>1. CASE UNCHANGED vars
  BY <1>1, SoleStill DEF vars
<1>2. CASE Next
  <2>1. PICK s \in Slots :
          \/ Command(s)
          \/ \E r \in Rooms : Move(s, r)
          \/ Quit(s)
          \/ \E p \in Persons, r \in Rooms : Login(s, p, r)
    BY <1>2 DEF Next
  <2>2. CASE \/ \E v \in Slots : Request(s, v)
             \/ \E t \in Trades : Accept(s, t)
             \/ Decline(s) \/ Approve(s)
    BY <2>2, SoleStill DEF Request, Accept, Decline, Approve, tradeVars
  <2>3. CASE Cancel(s) \/ Clear(s) \/ Final(s)
    BY <2>3, SoleEnd
  <2>4. CASE \E c \in Currencies : AddCoins(s, c) \/ RemoveCoins(s, c)
    BY <2>4, SoleCoins
  <2>5. CASE \E i \in Items : AddItem(s, i) \/ AddRobe(s, i) \/ RemoveItem(s, i)
    BY <2>5, SoleItem
  <2>6. CASE \E r \in Rooms : Move(s, r)
    <3>1. CASE trade[s] = None
      BY <2>6, <3>1, SoleStill DEF Move, tradeVars
    <3>2. CASE trade[s] # None
      BY <2>6, <3>2, SoleEnd
    <3> QED
      BY <3>1, <3>2
  <2> QED
    BY <2>1, <2>2, <2>3, <2>4, <2>5, <2>6, SoleQuit, SoleLogin DEF Command
<1> QED
  BY <1>1, <1>2

\* No item is ever in two places, however trades overlap, are swapped, given
\* back or left behind.
THEOREM ItemsNotDoubled == Spec => []ItemsApart
<1>1. IInv /\ SInv => ItemsApart
  BY SoleImplies DEF IInv, SInv
<1> QED
  BY <1>1, InitIInv, Inductive, InitSInv, SoleInductive, PTL DEF Spec
-----------------------------------------------------------------------------
(***************************************************************************)
(* No coin is made.  The coins are summed over all places there may be,    *)
(* one that does not exist counting nothing; every command then is up to   *)
(* three moves between places, some of which lose what they move.          *)
(***************************************************************************)
CharAt(s) == <<"char", s>>
FileAt(p) == <<"file", p>>
TradeAt(t, k) == <<"trade", t, k>>
All == {CharAt(s) : s \in Slots} \cup {FileAt(p) : p \in Persons}
         \cup {TradeAt(t, k) : t \in Trades, k \in Sides}

Held(c) == [x \in All |-> IF x \in Places THEN At(x).coins[c] ELSE 0]

\* A trade that is not in use offers no coins.
FreeNoCoins == \A t \in Trades \ used, k \in Sides, c \in Currencies : offer[t][k].coins[c] = 0

CInv ==
  /\ FreeNoCoins
  /\ \A c \in Currencies : SumFunctionOnSet(Held(c), All) <= Cardinality(Persons)

LEMMA ImageFinite ==
  ASSUME NEW S, IsFiniteSet(S), NEW T, NEW f \in [S -> T], \A y \in T : \E x \in S : f[x] = y
  PROVE  IsFiniteSet(T)
<1>1. f \in Surjection(S, T)
  BY DEF Surjection
<1> QED
  BY <1>1, FS_Surjection

LEMMA AllFinite == IsFiniteSet(All)
<1> DEFINE C == {CharAt(s) : s \in Slots}
           F == {FileAt(p) : p \in Persons}
           T == {TradeAt(t, k) : t \in Trades, k \in Sides}
<1>1. IsFiniteSet(C)
  <2>1. [s \in Slots |-> CharAt(s)] \in [Slots -> C]
        /\ \A y \in C : \E s \in Slots : [x \in Slots |-> CharAt(x)][s] = y
    OBVIOUS
  <2> HIDE DEF C
  <2> QED
    BY <2>1, ImageFinite, TradeAssumption
<1>2. IsFiniteSet(F)
  <2>1. [p \in Persons |-> FileAt(p)] \in [Persons -> F]
        /\ \A y \in F : \E p \in Persons : [x \in Persons |-> FileAt(x)][p] = y
    OBVIOUS
  <2> HIDE DEF F
  <2> QED
    BY <2>1, ImageFinite, TradeAssumption
<1>3. IsFiniteSet(T)
  <2> DEFINE g == [m \in Trades \X Sides |-> TradeAt(m[1], m[2])]
  <2>1. g \in [Trades \X Sides -> T]
    OBVIOUS
  <2>2. ASSUME NEW y \in T PROVE \E m \in Trades \X Sides : g[m] = y
    <3>1. PICK t \in Trades, k \in Sides : y = TradeAt(t, k)
      OBVIOUS
    <3>2. <<t, k>> \in Trades \X Sides /\ g[<<t, k>>] = TradeAt(t, k)
      OBVIOUS
    <3> QED
      BY <3>1, <3>2
  <2>3. IsFiniteSet(Sides)
    <3>1. Sides = {0} \cup {1}
      BY DEF Sides
    <3>2. IsFiniteSet({0}) /\ IsFiniteSet({1})
      BY FS_Singleton
    <3> QED
      BY <3>1, <3>2, FS_Union
  <2>4. IsFiniteSet(Trades \X Sides)
    BY <2>3, TradeAssumption, FS_Product
  <2> HIDE DEF T, g
  <2> QED
    BY <2>1, <2>2, <2>4, ImageFinite
<1>4. All = (C \cup F) \cup T
  BY DEF All
<1> HIDE DEF C, F, T
<1> QED
  BY <1>1, <1>2, <1>3, <1>4, FS_Union

\* The kinds of places differ, and so do places of one kind.
LEMMA Kinds ==
  /\ \A s \in Slots : CharAt(s) \in All
  /\ \A p \in Persons : FileAt(p) \in All
  /\ \A t \in Trades, k \in Sides : TradeAt(t, k) \in All
  /\ \A x \in All : \/ \E s \in Slots : x = CharAt(s)
                    \/ \E p \in Persons : x = FileAt(p)
                    \/ \E t \in Trades, k \in Sides : x = TradeAt(t, k)
  /\ \A s, v : CharAt(s) = CharAt(v) => s = v
  /\ \A p, q : FileAt(p) = FileAt(q) => p = q
  /\ \A t, j : \A u, k : TradeAt(t, j) = TradeAt(u, k) => t = u /\ j = k
  /\ \A s, p : CharAt(s) # FileAt(p)
  /\ \A s, t : \A k : CharAt(s) # TradeAt(t, k)
  /\ \A p, t : \A k : FileAt(p) # TradeAt(t, k)
BY DEF All, CharAt, FileAt, TradeAt

\* What is counted at each kind of place.
LEMMA HeldAt ==
  ASSUME TypeOK, NEW c \in Currencies
  PROVE  /\ \A s \in Slots : Held(c)[CharAt(s)] = IF s \in Live THEN has[s].coins[c] ELSE 0
         /\ \A p \in Persons : Held(c)[FileAt(p)] = IF p \in OffLine THEN file[p].coins[c] ELSE 0
         /\ \A t \in Trades, k \in Sides :
              Held(c)[TradeAt(t, k)] = IF t \in used THEN offer[t][k].coins[c] ELSE 0
<1>1. ASSUME NEW s \in Slots
      PROVE  Held(c)[CharAt(s)] = IF s \in Live THEN has[s].coins[c] ELSE 0
  <2>1. CharAt(s) \in Places <=> s \in Live
    BY DEF Places, CharAt
  <2>2. At(CharAt(s)) = has[s]
    BY DEF At, CharAt
  <2> QED
    BY <2>1, <2>2, Kinds DEF Held
<1>2. ASSUME NEW p \in Persons
      PROVE  Held(c)[FileAt(p)] = IF p \in OffLine THEN file[p].coins[c] ELSE 0
  <2>1. FileAt(p) \in Places <=> p \in OffLine
    BY DEF Places, FileAt
  <2>2. At(FileAt(p)) = file[p]
    BY DEF At, FileAt
  <2> QED
    BY <2>1, <2>2, Kinds DEF Held
<1>3. ASSUME NEW t \in Trades, NEW k \in Sides
      PROVE  Held(c)[TradeAt(t, k)] = IF t \in used THEN offer[t][k].coins[c] ELSE 0
  <2>1. TradeAt(t, k) \in Places <=> t \in used
    BY DEF Places, TradeAt
  <2>2. At(TradeAt(t, k)) = offer[t][k]
    BY DEF At, TradeAt
  <2> QED
    BY <2>1, <2>2, Kinds DEF Held
<1> QED
  BY <1>1, <1>2, <1>3

LEMMA CoinsNat ==
  ASSUME TypeOK, NEW c \in Currencies
  PROVE  /\ \A s \in Slots : has[s].coins[c] \in Nat
         /\ \A p \in Persons : file[p].coins[c] \in Nat
         /\ \A t \in Trades, k \in Sides : offer[t][k].coins[c] \in Nat
BY DEF TypeOK, Goods

LEMMA HeldNat ==
  ASSUME TypeOK, NEW c \in Currencies
  PROVE  \A x \in All : Held(c)[x] \in Nat
BY HeldAt, CoinsNat, Kinds

\* The sum over the places that exist is the one over all.
LEMMA CInvImplies ==
  ASSUME TypeOK, CInv
  PROVE  CoinsNotMade
<1> SUFFICES ASSUME NEW c \in Currencies
             PROVE  SumFunction([x \in Places |-> At(x).coins[c]]) <= Cardinality(Persons)
  BY DEF CoinsNotMade
<1> DEFINE F == [x \in Places |-> At(x).coins[c]]
<1>1. Places \in SUBSET All
  BY DEF Places, All, CharAt, FileAt, TradeAt, Live, OffLine, TypeOK
<1>2. \A x \in All : Held(c)[x] = IF x \in Places THEN F[x] ELSE 0
  BY DEF Held
<1>3. \A x \in Places : F[x] \in Int
  BY <1>1, <1>2, HeldNat
<1>4. DOMAIN F = Places
  OBVIOUS
<1> HIDE DEF F
<1>5. SumFunctionOnSet(Held(c), All) = SumFunctionOnSet(F, Places)
  BY <1>1, <1>2, <1>3, AllFinite, SumExtend
<1>6. SumFunctionOnSet(F, Places) <= Cardinality(Persons)
  BY <1>5 DEF CInv
<1> QED
  BY <1>4, <1>6 DEF SumFunction, F

LEMMA InitCInv == Init => CInv
<1> SUFFICES ASSUME Init PROVE CInv
  OBVIOUS
<1>1. TypeOK
  BY InitIInv DEF IInv
<1>2. FreeNoCoins
  BY DEF Init, FreeNoCoins, Empty, Nothing
<1>3. ASSUME NEW c \in Currencies
      PROVE  SumFunctionOnSet(Held(c), All) <= Cardinality(Persons)
  <2> DEFINE P == {FileAt(p) : p \in Persons}
             One == [x \in P |-> 1]
             f == [p \in Persons |-> FileAt(p)]
  <2>1. P \in SUBSET All /\ IsFiniteSet(P)
    BY AllFinite, FS_Subset DEF All
  <2>2. \A x \in P : One[x] = 1 /\ One[x] \in Int
    OBVIOUS
  <2>3. \A x \in All : Held(c)[x] = IF x \in P THEN One[x] ELSE 0
    <3>1. \A s \in Slots : Held(c)[CharAt(s)] = 0 /\ CharAt(s) \notin P
      BY <1>1, HeldAt, Kinds DEF Init, Live
    <3>2. \A p \in Persons : Held(c)[FileAt(p)] = 1 /\ FileAt(p) \in P
      <4>1. \A p \in Persons : file[p].coins[c] = 1
        BY DEF Init
      <4>2. \A p \in Persons : p \in OffLine
        BY TradeAssumption DEF Init, OffLine
      <4> QED
        BY <1>1, <4>1, <4>2, HeldAt
    <3>3. \A t \in Trades, k \in Sides : Held(c)[TradeAt(t, k)] = 0 /\ TradeAt(t, k) \notin P
      BY <1>1, HeldAt, Kinds DEF Init
    <3> HIDE DEF P
    <3> QED
      BY <3>1, <3>2, <3>3, <2>2, Kinds
  <2>4. Cardinality(P) <= Cardinality(Persons)
    <3>1. f \in [Persons -> P] /\ \A y \in P : \E p \in Persons : f[p] = y
      OBVIOUS
    <3> HIDE DEF P, f
    <3>2. f \in Surjection(Persons, P)
      BY <3>1 DEF Surjection
    <3> QED
      BY <3>2, TradeAssumption, FS_Surjection
  <2> HIDE DEF P, One
  <2>5. SumFunctionOnSet(Held(c), All) = SumFunctionOnSet(One, P)
    BY <2>1, <2>2, <2>3, AllFinite, SumExtend
  <2>6. SumFunctionOnSet(One, P) = Cardinality(P)
    BY <2>1, <2>2, SumOnes
  <2> QED
    BY <2>4, <2>5, <2>6
<1> QED
  BY <1>2, <1>3 DEF CInv

\* A step that only moves coins, l from a to u, m from b to v and n from d to
\* w, makes none.
LEMMA HeldNats == TypeOK => \A c \in Currencies : \A x \in All : Held(c)[x] \in Nat
BY HeldNat

LEMMA HeldNatsNext == (TypeOK => \A c \in Currencies : \A x \in All : Held(c)[x] \in Nat)'
BY HeldNats, PTL

LEMMA MovedNotMade ==
  ASSUME TypeOK, TypeOK', CInv, NEW c \in Currencies,
         NEW a \in All, NEW u, NEW l \in Nat, NEW b \in All, NEW v, NEW m \in Nat,
         NEW d \in All, NEW w, NEW n \in Nat,
         Moves(Held(c), Held(c)', All, a, u, l, b, v, m, d, w, n)
  PROVE  (SumFunctionOnSet(Held(c), All) <= Cardinality(Persons))'
<1> DEFINE F == Held(c)
           G == Held(c)'
<1>1. \A z \in All : F[z] \in Int /\ G[z] \in Int
  <2>1. \A z \in All : F[z] \in Nat
    BY HeldNat
  <2>2. \A z \in All : G[z] \in Nat
    BY HeldNatsNext
  <2> QED
    BY <2>1, <2>2
<1>2. Moves(F, G, All, a, u, l, b, v, m, d, w, n)
  OBVIOUS
<1>3. SumFunctionOnSet(F, All) <= Cardinality(Persons)
  BY DEF CInv
<1> HIDE DEF F, G
<1>4. SumFunctionOnSet(G, All) <= SumFunctionOnSet(F, All)
  BY <1>1, <1>2, AllFinite, SumMoves
<1>5. SumFunctionOnSet(F, All) \in Int /\ SumFunctionOnSet(G, All) \in Int /\ Cardinality(Persons) \in Int
  BY <1>1, AllFinite, SumInt, TradeAssumption, FS_CardinalityType
<1>6. SumFunctionOnSet(G, All) <= Cardinality(Persons)
  BY <1>3, <1>4, <1>5
<1> QED
  BY <1>6 DEF G

\* The same, when nothing moves.
LEMMA NoneNotMade ==
  ASSUME TypeOK, TypeOK', CInv, NEW c \in Currencies,
         \A z \in All : Held(c)'[z] <= Held(c)[z]
  PROVE  (SumFunctionOnSet(Held(c), All) <= Cardinality(Persons))'
<1> DEFINE F == Held(c)
           G == Held(c)'
<1>1. \A z \in All : F[z] \in Nat /\ G[z] \in Nat /\ G[z] <= F[z]
  <2>1. \A z \in All : F[z] \in Nat
    BY HeldNat
  <2>2. \A z \in All : G[z] \in Nat
    BY HeldNatsNext
  <2> QED
    BY <2>1, <2>2
<1>2. SumFunctionOnSet(F, All) <= Cardinality(Persons)
  BY DEF CInv
<1> HIDE DEF F, G
<1>3. \A z \in All : F[z] \in Int /\ G[z] \in Int /\ G[z] <= F[z]
  BY <1>1
<1>4. SumFunctionOnSet(G, All) <= SumFunctionOnSet(F, All)
  BY <1>3, AllFinite, SumMonotone
<1>5. SumFunctionOnSet(F, All) \in Int /\ SumFunctionOnSet(G, All) \in Int /\ Cardinality(Persons) \in Int
  BY <1>3, AllFinite, SumInt, TradeAssumption, FS_CardinalityType
<1>6. SumFunctionOnSet(G, All) <= Cardinality(Persons)
  BY <1>2, <1>4, <1>5
<1> QED
  BY <1>6 DEF G

\* The coins at each kind of place, before and after a step.
CoinsAt ==
  \A c \in Currencies :
    /\ \A s \in Slots : Held(c)[CharAt(s)] = IF s \in Live THEN has[s].coins[c] ELSE 0
    /\ \A p \in Persons : Held(c)[FileAt(p)] = IF p \in OffLine THEN file[p].coins[c] ELSE 0
    /\ \A t \in Trades, k \in Sides :
         Held(c)[TradeAt(t, k)] = IF t \in used THEN offer[t][k].coins[c] ELSE 0
    /\ \A s \in Slots : has[s].coins[c] \in Nat
    /\ \A p \in Persons : file[p].coins[c] \in Nat
    /\ \A t \in Trades, k \in Sides : offer[t][k].coins[c] \in Nat

LEMMA CoinsAts == TypeOK => CoinsAt
BY HeldAt, CoinsNat DEF CoinsAt

LEMMA CoinsAtsNext == (TypeOK => CoinsAt)'
BY CoinsAts, PTL

\* Commands that leave all goods where they are.
LEMMA CoinsStill ==
  ASSUME TypeOK, TypeOK', CInv, UNCHANGED <<who, has, offer, file>>,
         \A t \in Trades : t \in used => t \in used'
  PROVE  CInv'
<1>1. FreeNoCoins'
  BY DEF FreeNoCoins, CInv
<1>2. CoinsAt /\ CoinsAt' /\ Live' = Live /\ OffLine' = OffLine
  BY CoinsAts, CoinsAtsNext DEF Live, OffLine
<1>3. ASSUME NEW c \in Currencies
      PROVE  (SumFunctionOnSet(Held(c), All) <= Cardinality(Persons))'
  <2>1. \A s \in Slots : Held(c)'[CharAt(s)] <= Held(c)[CharAt(s)]
    BY <1>2 DEF CoinsAt
  <2>2. \A p \in Persons : Held(c)'[FileAt(p)] <= Held(c)[FileAt(p)]
    BY <1>2 DEF CoinsAt
  <2>3. \A t \in Trades, k \in Sides : Held(c)'[TradeAt(t, k)] <= Held(c)[TradeAt(t, k)]
    <3> SUFFICES ASSUME NEW t \in Trades, NEW k \in Sides
                 PROVE  Held(c)'[TradeAt(t, k)] <= Held(c)[TradeAt(t, k)]
      OBVIOUS
    <3>1. t \notin used => offer[t][k].coins[c] = 0
      BY DEF CInv, FreeNoCoins
    <3> QED
      BY <3>1, <1>2 DEF CoinsAt
  <2>4. \A z \in All : Held(c)'[z] <= Held(c)[z]
    BY <2>1, <2>2, <2>3, Kinds
  <2> QED
    BY <2>4, NoneNotMade
<1> QED
  BY <1>1, <1>3 DEF CInv

\* What Delivered brings, in coins.
LEMMA DeliveredCoins ==
  ASSUME TypeOK, NEW t \in Trades, NEW to, NEW v \in Slots, NEW c \in Currencies
  PROVE  Delivered(t, to)[v].coins[c] =
           has[v].coins[c] + (IF to[0] = v THEN offer[t][0].coins[c] ELSE 0)
                           + (IF to[1] = v THEN offer[t][1].coins[c] ELSE 0)
<1>1. Delivered(t, to)[v].coins[c] = has[v].coins[c] + Due(t, to, v).coins[c]
  BY DEF Delivered, Plus
<1>2. Due(t, to, v).coins[c] = (IF to[0] = v THEN offer[t][0] ELSE Nothing).coins[c]
                                 + (IF to[1] = v THEN offer[t][1] ELSE Nothing).coins[c]
  BY DEF Due, Plus
<1>3. Nothing.coins[c] = 0
  BY DEF Nothing
<1>4. /\ has[v].coins[c] \in Nat
      /\ offer[t][0].coins[c] \in Nat /\ offer[t][1].coins[c] \in Nat
  BY CoinsNat DEF Sides
<1> QED
  BY <1>1, <1>2, <1>3, <1>4

\* The offers of a trade go to to, and s may quit meanwhile.
LEMMA CoinsDelivered ==
  ASSUME TypeOK, TypeOK', CInv, NEW t \in Trades, t \in used, NEW to, NEW s \in Slots,
         Emptied(t), used' \subseteq used, used \ {t} \subseteq used',
         \A v \in Slots : v \in Live' => v \in Live /\ has'[v] = Delivered(t, to)[v],
         \A p \in OffLine' :
           \/ p \in OffLine /\ file'[p] = file[p]
           \/ s \in Live /\ s \notin Live' /\ who[s] = p /\ file'[p] = has[s]
  PROVE  CInv'
<1>1. \A u \in Trades, k \in Sides : \A c \in Currencies :
        offer'[u][k].coins[c] = IF u = t THEN 0 ELSE offer[u][k].coins[c]
  BY DEF Emptied, Empty, Nothing, TypeOK
<1>2. FreeNoCoins'
  BY <1>1 DEF FreeNoCoins, CInv
<1>3. CoinsAt /\ CoinsAt'
  BY CoinsAts, CoinsAtsNext
<1>4. 0 \in Sides /\ 1 \in Sides
  BY DEF Sides
<1>5. ASSUME NEW c \in Currencies
      PROVE  (SumFunctionOnSet(Held(c), All) <= Cardinality(Persons))'
  <2> DEFINE l == offer[t][0].coins[c]
             m == offer[t][1].coins[c]
             n == IF s \in Live /\ s \notin Live' THEN has[s].coins[c] ELSE 0
             F == Held(c)
             G == Held(c)'
             a == TradeAt(t, 0)
             b == TradeAt(t, 1)
             d == CharAt(s)
             u == CharAt(to[0])
             v == CharAt(to[1])
             w == FileAt(who[s])
  <2>1. l \in Nat /\ m \in Nat /\ n \in Nat /\ a \in All /\ b \in All /\ d \in All
    BY <1>3, <1>4, Kinds DEF CoinsAt
  <2>2. \A x \in Slots :
          G[CharAt(x)] <= F[CharAt(x)] + (IF to[0] = x THEN l ELSE 0)
                            + (IF to[1] = x THEN m ELSE 0) - (IF x = s THEN n ELSE 0)
    <3> SUFFICES ASSUME NEW x \in Slots
                 PROVE  G[CharAt(x)] <= F[CharAt(x)] + (IF to[0] = x THEN l ELSE 0)
                            + (IF to[1] = x THEN m ELSE 0) - (IF x = s THEN n ELSE 0)
      OBVIOUS
    <3>1. G[CharAt(x)] = IF x \in Live' THEN has'[x].coins[c] ELSE 0
      BY <1>3 DEF CoinsAt
    <3>2. F[CharAt(x)] = IF x \in Live THEN has[x].coins[c] ELSE 0
      BY <1>3 DEF CoinsAt
    <3>3. x \in Live' => x \in Live /\ has'[x].coins[c] =
            has[x].coins[c] + (IF to[0] = x THEN l ELSE 0) + (IF to[1] = x THEN m ELSE 0)
      BY DeliveredCoins
    <3>4. has[x].coins[c] \in Nat
      BY <1>3 DEF CoinsAt
    <3> HIDE DEF F, G, l, m
    <3> QED
      BY <3>1, <3>2, <3>3, <3>4, <2>1
  <2>3. \A p \in Persons : G[FileAt(p)] <= F[FileAt(p)] + (IF p = who[s] THEN n ELSE 0)
    <3> SUFFICES ASSUME NEW p \in Persons
                 PROVE  G[FileAt(p)] <= F[FileAt(p)] + (IF p = who[s] THEN n ELSE 0)
      OBVIOUS
    <3>1. G[FileAt(p)] = IF p \in OffLine' THEN file'[p].coins[c] ELSE 0
      BY <1>3 DEF CoinsAt
    <3>2. F[FileAt(p)] = IF p \in OffLine THEN file[p].coins[c] ELSE 0
      BY <1>3 DEF CoinsAt
    <3>3. file[p].coins[c] \in Nat /\ has[s].coins[c] \in Nat
      BY <1>3 DEF CoinsAt
    <3> HIDE DEF F, G
    <3> QED
      BY <3>1, <3>2, <3>3
  <2>4. \A x \in Trades, k \in Sides :
          G[TradeAt(x, k)] <= F[TradeAt(x, k)]
                              - (IF x = t THEN IF k = 0 THEN l ELSE m ELSE 0)
    <3> SUFFICES ASSUME NEW x \in Trades, NEW k \in Sides
                 PROVE  G[TradeAt(x, k)] <= F[TradeAt(x, k)]
                              - (IF x = t THEN IF k = 0 THEN l ELSE m ELSE 0)
      OBVIOUS
    <3>1. G[TradeAt(x, k)] = IF x \in used' THEN offer'[x][k].coins[c] ELSE 0
      BY <1>3 DEF CoinsAt
    <3>2. F[TradeAt(x, k)] = IF x \in used THEN offer[x][k].coins[c] ELSE 0
      BY <1>3 DEF CoinsAt
    <3>3. offer[x][k].coins[c] \in Nat
      BY <1>3 DEF CoinsAt
    <3>4. k = 0 \/ k = 1
      BY DEF Sides
    <3> HIDE DEF F, G
    <3> QED
      BY <3>1, <3>2, <3>3, <3>4, <1>1
  <2>5. \A z \in All : F[z] \in Nat /\ G[z] \in Nat
    BY HeldNat, HeldNatsNext
  <2> HIDE DEF F, G, l, m, n
  <2>6. ASSUME NEW z \in All
        PROVE  G[z] <= F[z] + (IF z = u THEN l ELSE 0) - (IF z = a THEN l ELSE 0)
                            + (IF z = v THEN m ELSE 0) - (IF z = b THEN m ELSE 0)
                            + (IF z = w THEN n ELSE 0) - (IF z = d THEN n ELSE 0)
    <3>1. CASE \E x \in Slots : z = CharAt(x)
      <4>1. PICK x \in Slots : z = CharAt(x)
        BY <3>1
      <4>2. z # a /\ z # b /\ z # w /\ (z = u <=> to[0] = x) /\ (z = v <=> to[1] = x) /\ (z = d <=> x = s)
        BY <4>1, Kinds
      <4> HIDE DEF a, b, d, u, v, w
      <4> QED
        BY <4>1, <4>2, <2>1, <2>2, <2>5
    <3>2. CASE \E p \in Persons : z = FileAt(p)
      <4>1. PICK p \in Persons : z = FileAt(p)
        BY <3>2
      <4>2. z # a /\ z # b /\ z # u /\ z # v /\ z # d /\ (z = w <=> p = who[s])
        BY <4>1, Kinds
      <4> HIDE DEF a, b, d, u, v, w
      <4> QED
        BY <4>1, <4>2, <2>1, <2>3, <2>5
    <3>3. CASE \E x \in Trades, k \in Sides : z = TradeAt(x, k)
      <4>1. PICK x \in Trades, k \in Sides : z = TradeAt(x, k)
        BY <3>3
      <4>2. z # u /\ z # v /\ z # w /\ z # d
        BY <4>1, Kinds
      <4>3. (z = a <=> x = t /\ k = 0) /\ (z = b <=> x = t /\ k = 1) /\ k \in {0, 1}
        BY <4>1, Kinds DEF Sides
      <4> HIDE DEF a, b, d, u, v, w
      <4> QED
        BY <4>1, <4>2, <4>3, <2>1, <2>4, <2>5
    <3> QED
      BY <3>1, <3>2, <3>3, Kinds
  <2>7. Moves(F, G, All, a, u, l, b, v, m, d, w, n)
    BY <2>6 DEF Moves
  <2> HIDE DEF a, b, d, u, v, w
  <2>8. Moves(Held(c), Held(c)', All, a, u, l, b, v, m, d, w, n)
    BY <2>7 DEF F, G
  <2> QED
    BY <2>1, <2>8, MovedNotMade
<1> QED
  BY <1>2, <1>5 DEF CInv

\* One move, from x to y.
LEMMA OneNotMade ==
  ASSUME TypeOK, TypeOK', CInv, NEW c \in Currencies,
         NEW x \in All, NEW y \in All, NEW n \in Nat,
         \A z \in All : Held(c)'[z] <= Held(c)[z] + (IF z = y THEN n ELSE 0)
                                                  - (IF z = x THEN n ELSE 0)
  PROVE  (SumFunctionOnSet(Held(c), All) <= Cardinality(Persons))'
<1> DEFINE F == Held(c)
           G == Held(c)'
<1>1. \A z \in All : F[z] \in Nat /\ G[z] \in Nat
  <2>1. \A z \in All : F[z] \in Nat
    BY HeldNat
  <2>2. \A z \in All : G[z] \in Nat
    BY HeldNatsNext
  <2> QED
    BY <2>1, <2>2
<1> HIDE DEF F, G
<1>2. \A z \in All : G[z] <= F[z] + (IF z = y THEN n ELSE 0) - (IF z = x THEN n ELSE 0)
  BY DEF F, G
<1>3. Moves(F, G, All, x, y, n, x, y, 0, x, y, 0)
  BY <1>1, <1>2 DEF Moves
<1>4. Moves(Held(c), Held(c)', All, x, y, n, x, y, 0, x, y, 0)
  BY <1>3 DEF F, G
<1>5. 0 \in Nat
  OBVIOUS
<1> QED
  BY <1>4, <1>5, MovedNotMade

\* g and h have as many coins as s carries and offers.
AsMany(s, g, h) ==
  \A c \in Currencies : g.coins[c] + h.coins[c] =
    has[s].coins[c] + offer[trade[s]][Side(s)].coins[c]

\* Coins go between what a character carries and what it offers.
LEMMA CoinsOffered ==
  ASSUME TypeOK, TypeOK', Linked, CInv, NEW s \in Live, trade[s] # None,
         UNCHANGED <<who, used, file>>,
         NEW g, NEW h,
         has' = [has EXCEPT ![s] = g],
         offer' = [offer EXCEPT ![trade[s]][Side(s)] = h],
         AsMany(s, g, h)
  PROVE  CInv'
<1> DEFINE t == trade[s]
           j == Side(s)
<1>1. s \in Slots /\ t \in Trades /\ t \in used /\ j \in Sides
  BY SideType DEF TypeOK, Linked, Live
<1>2. /\ Live' = Live /\ OffLine' = OffLine
      /\ \A v \in Slots : has'[v] = IF v = s THEN g ELSE has[v]
  BY DEF Live, OffLine, TypeOK
<1>3. \A u \in Trades, k \in Sides :
        offer'[u][k] = IF u = t /\ k = j THEN h ELSE offer[u][k]
  BY <1>1 DEF TypeOK
<1>4. \A c \in Currencies : g.coins[c] + h.coins[c] = has[s].coins[c] + offer[t][j].coins[c]
  BY DEF AsMany
<1> HIDE DEF t, j
<1>5. FreeNoCoins'
  BY <1>1, <1>3 DEF FreeNoCoins, CInv
<1>6. CoinsAt /\ CoinsAt'
  BY CoinsAts, CoinsAtsNext
<1>7. ASSUME NEW c \in Currencies
      PROVE  (SumFunctionOnSet(Held(c), All) <= Cardinality(Persons))'
  <2> DEFINE F == Held(c)
             G == Held(c)'
             x == CharAt(s)
             y == TradeAt(t, j)
  <2>1. x \in All /\ y \in All /\ x # y
    BY <1>1, Kinds
  <2>2. \A z \in All : z # x /\ z # y => G[z] = F[z]
    <3>1. \A v \in Slots : v # s => G[CharAt(v)] = F[CharAt(v)]
      BY <1>2, <1>6 DEF CoinsAt
    <3>2. \A p \in Persons : G[FileAt(p)] = F[FileAt(p)]
      BY <1>2, <1>6 DEF CoinsAt
    <3>3. \A u \in Trades, k \in Sides : ~(u = t /\ k = j) => G[TradeAt(u, k)] = F[TradeAt(u, k)]
      BY <1>3, <1>6 DEF CoinsAt
    <3> HIDE DEF F, G
    <3> QED
      BY <3>1, <3>2, <3>3, Kinds
  <2>3. /\ G[x] = g.coins[c] /\ F[x] = has[s].coins[c]
        /\ G[y] = h.coins[c] /\ F[y] = offer[t][j].coins[c]
    BY <1>1, <1>2, <1>3, <1>6 DEF CoinsAt
  <2>4. \A z \in All : F[z] \in Nat /\ G[z] \in Nat
    <3>1. \A z \in All : F[z] \in Nat
      BY HeldNat
    <3>2. \A z \in All : G[z] \in Nat
      BY HeldNatsNext
    <3> QED
      BY <3>1, <3>2
  <2> HIDE DEF F, G, x, y
  <2>5. G[x] + G[y] = F[x] + F[y]
    BY <1>4, <2>3
  <2>6. F[x] \in Nat /\ F[y] \in Nat /\ G[x] \in Nat /\ G[y] \in Nat
    BY <2>1, <2>4
  <2>7. CASE G[x] <= F[x]
    <3>1. PICK n \in Nat : n = F[x] - G[x]
      BY <2>6, <2>7
    <3>2. \A z \in All : G[z] <= F[z] + (IF z = y THEN n ELSE 0) - (IF z = x THEN n ELSE 0)
      BY <2>1, <2>2, <2>4, <2>5, <2>6, <3>1
    <3>3. \A z \in All : Held(c)'[z] <= Held(c)[z] + (IF z = y THEN n ELSE 0) - (IF z = x THEN n ELSE 0)
      BY <3>2 DEF F, G
    <3> QED
      BY <2>1, <3>3, OneNotMade
  <2>8. CASE F[x] <= G[x]
    <3>1. PICK n \in Nat : n = G[x] - F[x]
      BY <2>6, <2>8
    <3>2. \A z \in All : G[z] <= F[z] + (IF z = x THEN n ELSE 0) - (IF z = y THEN n ELSE 0)
      BY <2>1, <2>2, <2>4, <2>5, <2>6, <3>1
    <3>3. \A z \in All : Held(c)'[z] <= Held(c)[z] + (IF z = x THEN n ELSE 0) - (IF z = y THEN n ELSE 0)
      BY <3>2 DEF F, G
    <3> QED
      BY <2>1, <3>3, OneNotMade
  <2> QED
    BY <2>6, <2>7, <2>8
<1> QED
  BY <1>5, <1>7 DEF CInv

\* The commands add and remove, in the form of CoinsOffered.
LEMMA OfferCommands ==
  ASSUME TypeOK, NEW s \in Slots,
         \/ \E c \in Currencies : AddCoins(s, c) \/ RemoveCoins(s, c)
         \/ \E i \in Items : AddItem(s, i) \/ AddRobe(s, i) \/ RemoveItem(s, i)
  PROVE  \E g, h :
           /\ has' = [has EXCEPT ![s] = g]
           /\ offer' = [offer EXCEPT ![trade[s]][Side(s)] = h]
           /\ AsMany(s, g, h)
<1> DEFINE a == has[s]
           b == offer[trade[s]][Side(s)]
<1>1. trade[s] \in Trades /\ Side(s) \in Sides
  BY SideType DEF AddCoins, RemoveCoins, AddItem, AddRobe, RemoveItem, TypeOK
<1>2. \A c \in Currencies : a.coins[c] \in Nat /\ b.coins[c] \in Nat
  BY <1>1, CoinsNat
<1>3. \A d, n : \A c \in Currencies : Coins(d, n).coins[c] = IF c = d THEN n ELSE 0
  BY DEF Coins, Nothing
<1>4. \A i : \A c \in Currencies : Item(i).coins[c] = 0
  BY DEF Item, Nothing
<1>5. \A x, y : \A c \in Currencies : /\ Plus(x, y).coins[c] = x.coins[c] + y.coins[c]
                                      /\ Minus(x, y).coins[c] = x.coins[c] - y.coins[c]
  BY DEF Plus, Minus
<1>6. CASE \E d \in Currencies : AddCoins(s, d)
  <2>1. PICK d \in Currencies : AddCoins(s, d)
    BY <1>6
  <2>2. PICK n \in 0 .. a.coins[d] :
          /\ has' = [has EXCEPT ![s] = Minus(@, Coins(d, n))]
          /\ offer' = [offer EXCEPT ![trade[s]][Side(s)] = Plus(@, Coins(d, n))]
    BY <2>1 DEF AddCoins
  <2>3. /\ has' = [has EXCEPT ![s] = Minus(a, Coins(d, n))]
        /\ offer' = [offer EXCEPT ![trade[s]][Side(s)] = Plus(b, Coins(d, n))]
    BY <1>1, <2>2 DEF TypeOK
  <2>4. n \in Nat
    BY <1>2, <2>2
  <2> HIDE DEF a, b
  <2>5. \A c \in Currencies : Minus(a, Coins(d, n)).coins[c] + Plus(b, Coins(d, n)).coins[c]
                              = a.coins[c] + b.coins[c]
    BY <1>2, <1>3, <1>5, <2>4
  <2> QED
    BY <2>3, <2>5 DEF a, b, AsMany
<1>7. CASE \E d \in Currencies : RemoveCoins(s, d)
  <2>1. PICK d \in Currencies : RemoveCoins(s, d)
    BY <1>7
  <2>2. PICK n \in 1 .. b.coins[d] :
          /\ has' = [has EXCEPT ![s] = Plus(@, Coins(d, n))]
          /\ offer' = [offer EXCEPT ![trade[s]][Side(s)] = Minus(@, Coins(d, n))]
    BY <2>1 DEF RemoveCoins
  <2>3. /\ has' = [has EXCEPT ![s] = Plus(a, Coins(d, n))]
        /\ offer' = [offer EXCEPT ![trade[s]][Side(s)] = Minus(b, Coins(d, n))]
    BY <1>1, <2>2 DEF TypeOK
  <2>4. n \in Nat
    BY <1>2, <2>2
  <2> HIDE DEF a, b
  <2>5. \A c \in Currencies : Plus(a, Coins(d, n)).coins[c] + Minus(b, Coins(d, n)).coins[c]
                              = a.coins[c] + b.coins[c]
    BY <1>2, <1>3, <1>5, <2>4
  <2> QED
    BY <2>3, <2>5 DEF a, b, AsMany
<1>8. CASE \E i \in Items : AddItem(s, i)
  <2>1. PICK i \in Items : AddItem(s, i)
    BY <1>8
  <2>2. /\ has' = [has EXCEPT ![s] = Minus(a, Item(i))]
        /\ offer' = [offer EXCEPT ![trade[s]][Side(s)] = Plus(b, Item(i))]
    BY <1>1, <2>1 DEF AddItem, TypeOK
  <2> HIDE DEF a, b
  <2>3. \A c \in Currencies : Minus(a, Item(i)).coins[c] + Plus(b, Item(i)).coins[c]
                              = a.coins[c] + b.coins[c]
    BY <1>2, <1>4, <1>5
  <2> QED
    BY <2>2, <2>3 DEF a, b, AsMany
<1>9. CASE \E i \in Items : AddRobe(s, i)
  <2>1. PICK i \in Items : AddRobe(s, i)
    BY <1>9
  <2>2. /\ has' = [has EXCEPT ![s] = Minus(a, Item(i))]
        /\ offer' = [offer EXCEPT ![trade[s]][Side(s)] = b]
    BY <1>1, <2>1 DEF AddRobe, TypeOK
  <2> HIDE DEF a, b
  <2>3. \A c \in Currencies : Minus(a, Item(i)).coins[c] + b.coins[c] = a.coins[c] + b.coins[c]
    BY <1>2, <1>4, <1>5
  <2> QED
    BY <2>2, <2>3 DEF a, b, AsMany
<1>10. CASE \E i \in Items : RemoveItem(s, i)
  <2>1. PICK i \in Items : RemoveItem(s, i)
    BY <1>10
  <2>2. /\ has' = [has EXCEPT ![s] = Plus(a, Item(i))]
        /\ offer' = [offer EXCEPT ![trade[s]][Side(s)] = Minus(b, Item(i))]
    BY <1>1, <2>1 DEF RemoveItem, TypeOK
  <2> HIDE DEF a, b
  <2>3. \A c \in Currencies : Plus(a, Item(i)).coins[c] + Minus(b, Item(i)).coins[c]
                              = a.coins[c] + b.coins[c]
    BY <1>2, <1>4, <1>5
  <2> QED
    BY <2>2, <2>3 DEF a, b, AsMany
<1> QED
  BY <1>6, <1>7, <1>8, <1>9, <1>10

LEMMA CoinsQuit ==
  ASSUME IInv, TypeOK', CInv, NEW s \in Slots, Quit(s)
  PROVE  CInv'
<1>1. /\ s \in Live /\ s \notin Live' /\ Live' \subseteq Live
      /\ \A v \in Live : v # s => v \in Live'
      /\ \A p \in Persons : file'[p] = IF p = who[s] THEN has[s] ELSE file[p]
      /\ who[s] \in Persons
  BY DEF Quit, Live, IInv, TypeOK
<1>2. \A p \in OffLine' : p = who[s] \/ (p \in OffLine /\ p # who[s])
  BY DEF Quit, OffLine, IInv, TypeOK
<1>3. \A p \in OffLine' :
        \/ p \in OffLine /\ file'[p] = file[p]
        \/ s \in Live /\ s \notin Live' /\ who[s] = p /\ file'[p] = has[s]
  BY <1>1, <1>2 DEF OffLine
<1>4. CASE trade[s] # None
  <2>1. trade[s] \in Trades /\ trade[s] \in used
    BY <1>4 DEF IInv, TypeOK, Linked
  <2>2. /\ has' = [Delivered(trade[s], trader[trade[s]]) EXCEPT ![s] = Nothing]
        /\ Released(trade[s])
    BY <1>4 DEF Quit
  <2>3. \A v \in Slots : v \in Live' => v \in Live /\ has'[v] = Delivered(trade[s], trader[trade[s]])[v]
    BY <1>1, <2>2 DEF Delivered
  <2> QED
    BY <1>3, <2>1, <2>2, <2>3, CoinsDelivered DEF Released, IInv
<1>5. CASE trade[s] = None
  <2>1. UNCHANGED <<used, offer>> /\ \A v \in Slots : v # s => has'[v] = has[v]
    BY <1>5 DEF Quit, tradeVars, IInv, TypeOK
  <2>2. FreeNoCoins'
    BY <2>1 DEF FreeNoCoins, CInv
  <2>3. CoinsAt /\ CoinsAt'
    BY CoinsAts, CoinsAtsNext DEF IInv
  <2>4. ASSUME NEW c \in Currencies
        PROVE  (SumFunctionOnSet(Held(c), All) <= Cardinality(Persons))'
    <3> DEFINE F == Held(c)
               G == Held(c)'
               x == CharAt(s)
               y == FileAt(who[s])
               n == has[s].coins[c]
    <3>1. x \in All /\ y \in All /\ n \in Nat /\ TypeOK
      BY <1>1, <2>3, Kinds DEF CoinsAt, IInv
    <3>2. /\ F[x] = n /\ G[x] = 0 /\ F[y] = 0 /\ G[y] <= n
      <4>1. who[s] \notin OffLine
        BY DEF OffLine
      <4> QED
        BY <1>1, <2>3, <4>1 DEF CoinsAt
    <3>3. \A v \in Slots : v # s => G[CharAt(v)] <= F[CharAt(v)]
      BY <1>1, <2>1, <2>3 DEF CoinsAt
    <3>4. \A p \in Persons : p # who[s] => G[FileAt(p)] <= F[FileAt(p)]
      BY <1>1, <1>2, <2>3 DEF CoinsAt
    <3>5. \A u \in Trades, k \in Sides : G[TradeAt(u, k)] <= F[TradeAt(u, k)]
      BY <2>1, <2>3 DEF CoinsAt
    <3>6. \A z \in All : F[z] \in Nat /\ G[z] \in Nat
      <4>1. \A z \in All : F[z] \in Nat
        BY <3>1, HeldNat
      <4>2. \A z \in All : G[z] \in Nat
        BY HeldNatsNext
      <4> QED
        BY <4>1, <4>2
    <3> HIDE DEF F, G, n
    <3>7. \A z \in All : z # x /\ z # y => G[z] <= F[z]
      BY <3>3, <3>4, <3>5, Kinds
    <3>8. x # y
      BY Kinds
    <3> HIDE DEF x, y
    <3>9. \A z \in All : G[z] <= F[z] + (IF z = y THEN n ELSE 0) - (IF z = x THEN n ELSE 0)
      BY <3>1, <3>2, <3>6, <3>7, <3>8
    <3>10. \A z \in All : Held(c)'[z] <= Held(c)[z] + (IF z = y THEN n ELSE 0) - (IF z = x THEN n ELSE 0)
      BY <3>9 DEF F, G
    <3> QED
      BY <3>1, <3>10, OneNotMade
  <2> QED
    BY <2>2, <2>4 DEF CInv
<1> QED
  BY <1>4, <1>5

LEMMA CoinsLogin ==
  ASSUME TypeOK, TypeOK', CInv, NEW s \in Slots, NEW p \in Persons, NEW r \in Rooms, Login(s, p, r)
  PROVE  CInv'
<1>1. /\ UNCHANGED <<used, offer, file>>
      /\ \A v \in Slots : who'[v] = IF v = s THEN p ELSE who[v]
      /\ \A v \in Slots : has'[v] = IF v = s THEN file[p] ELSE has[v]
      /\ p \in OffLine /\ s \notin Live
  BY DEF Login, tradeVars, OffLine, Live, TypeOK
<1>2. FreeNoCoins'
  BY <1>1 DEF FreeNoCoins, CInv
<1>3. s \in Live' /\ \A v \in Slots : v # s => (v \in Live' <=> v \in Live)
  BY <1>1, TradeAssumption DEF Live
<1>4. p \notin OffLine' /\ \A q \in Persons : q \in OffLine' => q \in OffLine
  <2>1. p \notin OffLine'
    BY <1>1 DEF OffLine
  <2>2. ASSUME NEW q \in Persons, q \in OffLine' PROVE q \in OffLine
    <3>1. \A v \in Slots : who'[v] # q
      BY <2>2 DEF OffLine
    <3>2. who[s] # q
      BY TradeAssumption DEF Login
    <3> QED
      BY <1>1, <3>1, <3>2 DEF OffLine
  <2> QED
    BY <2>1, <2>2
<1>5. CoinsAt /\ CoinsAt'
  BY CoinsAts, CoinsAtsNext
<1>6. ASSUME NEW c \in Currencies
      PROVE  (SumFunctionOnSet(Held(c), All) <= Cardinality(Persons))'
  <2> DEFINE F == Held(c)
             G == Held(c)'
             x == FileAt(p)
             y == CharAt(s)
             n == file[p].coins[c]
  <2>1. x \in All /\ y \in All /\ n \in Nat
    BY <1>5, Kinds DEF CoinsAt
  <2>2. F[x] = n /\ G[x] = 0 /\ F[y] = 0 /\ G[y] = n
    BY <1>1, <1>3, <1>4, <1>5 DEF CoinsAt
  <2>3. \A v \in Slots : v # s => G[CharAt(v)] <= F[CharAt(v)]
    BY <1>1, <1>3, <1>5 DEF CoinsAt
  <2>4. \A q \in Persons : q # p => G[FileAt(q)] <= F[FileAt(q)]
    BY <1>1, <1>4, <1>5 DEF CoinsAt
  <2>5. \A u \in Trades, k \in Sides : G[TradeAt(u, k)] <= F[TradeAt(u, k)]
    BY <1>1, <1>5 DEF CoinsAt
  <2>6. \A z \in All : F[z] \in Nat /\ G[z] \in Nat
    <3>1. \A z \in All : F[z] \in Nat
      BY HeldNat
    <3>2. \A z \in All : G[z] \in Nat
      BY HeldNatsNext
    <3> QED
      BY <3>1, <3>2
  <2> HIDE DEF F, G, n
  <2>7. \A z \in All : z # x /\ z # y => G[z] <= F[z]
    BY <2>3, <2>4, <2>5, Kinds
  <2>8. x # y
    BY Kinds
  <2> HIDE DEF x, y
  <2>9. \A z \in All : G[z] <= F[z] + (IF z = y THEN n ELSE 0) - (IF z = x THEN n ELSE 0)
    BY <2>1, <2>2, <2>6, <2>7, <2>8
  <2>10. \A z \in All : Held(c)'[z] <= Held(c)[z] + (IF z = y THEN n ELSE 0) - (IF z = x THEN n ELSE 0)
    BY <2>9 DEF F, G
  <2> QED
    BY <2>1, <2>10, OneNotMade
<1> QED
  BY <1>2, <1>6 DEF CInv

LEMMA CoinsEnd ==
  ASSUME IInv, TypeOK', CInv, NEW s \in Slots,
         \/ Cancel(s) \/ Clear(s) \/ Final(s)
         \/ trade[s] # None /\ \E r \in Rooms : Move(s, r)
  PROVE  CInv'
<1> DEFINE t == trade[s]
<1>1. t # None
  BY DEF Cancel, Clear, Final
<1>2. t \in Trades /\ t \in used /\ TypeOK
  BY <1>1 DEF IInv, TypeOK, Linked
<1>3. UNCHANGED <<who, file>> /\ (Clear(s) \/ Released(t))
  BY <1>1 DEF Cancel, Clear, Final, Move, Destruct
<1>4. Live' = Live /\ OffLine' = OffLine
  BY <1>3 DEF Live, OffLine
<1>5. Emptied(t) /\ used' \subseteq used /\ used \ {t} \subseteq used'
  BY <1>3 DEF Released, Clear
<1>6. has' = Delivered(t, trader[t]) \/ has' = Delivered(t, Swapped(t))
  BY <1>1 DEF Cancel, Clear, Final, Move, Destruct
<1>7. \A p \in OffLine' : p \in OffLine /\ file'[p] = file[p]
  BY <1>3, <1>4
<1> HIDE DEF t
<1>8. CASE has' = Delivered(t, trader[t])
  BY <1>2, <1>4, <1>5, <1>7, <1>8, CoinsDelivered
<1>9. CASE has' = Delivered(t, Swapped(t))
  BY <1>2, <1>4, <1>5, <1>7, <1>9, CoinsDelivered
<1> QED
  BY <1>6, <1>8, <1>9

LEMMA CoinsInductive == IInv /\ CInv /\ [Next]_vars => CInv'
<1> SUFFICES ASSUME IInv, CInv, [Next]_vars PROVE CInv'
  OBVIOUS
<1>0. TypeOK /\ Linked /\ TypeOK'
  BY Inductive DEF IInv
<1>1. CASE UNCHANGED vars
  BY <1>0, <1>1, CoinsStill DEF vars
<1>2. CASE Next
  <2>1. PICK s \in Slots :
          \/ Command(s)
          \/ \E r \in Rooms : Move(s, r)
          \/ Quit(s)
          \/ \E p \in Persons, r \in Rooms : Login(s, p, r)
    BY <1>2 DEF Next
  <2>2. CASE \/ \E v \in Slots : Request(s, v)
             \/ \E t \in Trades : Accept(s, t)
             \/ Decline(s) \/ Approve(s)
    BY <1>0, <2>2, CoinsStill DEF Request, Accept, Decline, Approve, tradeVars
  <2>3. CASE Cancel(s) \/ Clear(s) \/ Final(s)
    BY <1>0, <2>3, CoinsEnd
  <2>4. CASE \/ \E c \in Currencies : AddCoins(s, c) \/ RemoveCoins(s, c)
             \/ \E i \in Items : AddItem(s, i) \/ AddRobe(s, i) \/ RemoveItem(s, i)
    <3>1. PICK g, h : /\ has' = [has EXCEPT ![s] = g]
                      /\ offer' = [offer EXCEPT ![trade[s]][Side(s)] = h]
                      /\ AsMany(s, g, h)
      BY <1>0, <2>4, OfferCommands
    <3>2. s \in Live /\ trade[s] # None /\ UNCHANGED <<who, used, file>>
      BY <2>4 DEF AddCoins, RemoveCoins, AddItem, AddRobe, RemoveItem
    <3> QED
      BY <1>0, <3>1, <3>2, CoinsOffered
  <2>5. CASE \E r \in Rooms : Move(s, r)
    <3>1. CASE trade[s] = None
      BY <1>0, <2>5, <3>1, CoinsStill DEF Move, tradeVars
    <3>2. CASE trade[s] # None
      BY <1>0, <2>5, <3>2, CoinsEnd
    <3> QED
      BY <3>1, <3>2
  <2>6. CASE Quit(s)
    BY <1>0, <2>6, CoinsQuit
  <2>7. CASE \E p \in Persons, r \in Rooms : Login(s, p, r)
    BY <1>0, <2>7, CoinsLogin
  <2> QED
    BY <2>1, <2>2, <2>3, <2>4, <2>5, <2>6, <2>7 DEF Command
<1> QED
  BY <1>1, <1>2

\* However coins are put into offers, taken back, swapped, given back and left
\* behind, there are never more of a currency than the files had at first.
THEOREM NoCoinsMade == Spec => []CoinsNotMade
<1>1. IInv /\ CInv => CoinsNotMade
  BY CInvImplies DEF IInv
<1> QED
  BY <1>1, InitIInv, Inductive, InitCInv, CoinsInductive, PTL DEF Spec

-----------------------------------------------------------------------------
(***************************************************************************)
(* Consent.  What belongs to a character is counted over all sides of all  *)
(* trades, those of others counting nothing.  What a trade offers is no    *)
(* robe, and by Sole nowhere else, so that a swap gives and takes exactly  *)
(* what was on offer.                                                      *)
(***************************************************************************)
Pairs == Trades \X Sides

\* What s has put into side k of the trade t.
Put(s, t, k) == IF t \in used /\ trader[t][k] = s THEN offer[t][k] ELSE Nothing

Offered(s, c) == [m \in Pairs |-> Put(s, m[1], m[2]).coins[c]]
CoinWorth(s, c) == has[s].coins[c] + SumFunctionOnSet(Offered(s, c), Pairs)
HasItem(s, i) ==
  /\ i \notin robes
  /\ i \in has[s].items \/ \E t \in Trades, k \in Sides : i \in Put(s, t, k).items

NoRobes == \A t \in Trades, k \in Sides : offer[t][k].items \cap robes = {}

LEMMA PairsFinite == IsFiniteSet(Pairs)
<1>1. Sides = {0} \cup {1}
  BY DEF Sides
<1>2. IsFiniteSet({0}) /\ IsFiniteSet({1})
  BY FS_Singleton
<1>3. IsFiniteSet(Sides)
  BY <1>1, <1>2, FS_Union
<1> QED
  BY <1>3, TradeAssumption, FS_Product DEF Pairs

LEMMA PairsAre ==
  /\ \A t \in Trades, k \in Sides : <<t, k>> \in Pairs
  /\ \A m \in Pairs : m = <<m[1], m[2]>> /\ m[1] \in Trades /\ m[2] \in Sides
BY DEF Pairs

\* The parts that a worth is counted from.
WorthParts ==
  /\ \A s \in Slots, c \in Currencies :
       /\ \A t \in Trades, k \in Sides : Offered(s, c)[<<t, k>>] = Put(s, t, k).coins[c]
       /\ \A m \in Pairs : Offered(s, c)[m] \in Int
       /\ SumFunctionOnSet(Offered(s, c), Pairs) \in Int
  /\ \A s \in Slots : \A t \in Trades, k \in Sides : Put(s, t, k) \in Goods
  /\ \A s \in Slots :
       /\ Worth(s) = [coins |-> Worth(s).coins, items |-> Worth(s).items]
       /\ Worth(s).coins = [c \in Currencies |-> CoinWorth(s, c)]
       /\ \A i : i \in Worth(s).items <=> HasItem(s, i)

LEMMA PutType ==
  ASSUME TypeOK, NEW s, NEW t \in Trades, NEW k \in Sides
  PROVE  Put(s, t, k) \in Goods
BY NothingType DEF Put, TypeOK

LEMMA OfferedAt ==
  ASSUME TypeOK, NEW c \in Currencies, NEW s
  PROVE  /\ \A t \in Trades, k \in Sides : Offered(s, c)[<<t, k>>] = Put(s, t, k).coins[c]
         /\ \A m \in Pairs : Offered(s, c)[m] \in Int
         /\ SumFunctionOnSet(Offered(s, c), Pairs) \in Int
<1>1. \A t \in Trades, k \in Sides : Offered(s, c)[<<t, k>>] = Put(s, t, k).coins[c]
  BY PairsAre DEF Offered
<1>2. ASSUME NEW m \in Pairs PROVE Offered(s, c)[m] \in Int
  <2>1. Put(s, m[1], m[2]).coins \in [Currencies -> Nat]
    BY PairsAre, PutType DEF Goods
  <2>2. Put(s, m[1], m[2]).coins[c] \in Nat
    BY <2>1
  <2> QED
    BY <2>2 DEF Offered
<1> QED
  BY <1>1, <1>2, PairsFinite, SumInt

LEMMA WorthIs ==
  ASSUME TypeOK, NEW s \in Slots
  PROVE  /\ Worth(s) = [coins |-> Worth(s).coins, items |-> Worth(s).items]
         /\ Worth(s).coins = [c \in Currencies |-> CoinWorth(s, c)]
         /\ \A i : i \in Worth(s).items <=> HasItem(s, i)
<1> DEFINE mine == {m \in used \X Sides : trader[m[1]][m[2]] = s}
<1>1. mine \in SUBSET Pairs
  BY DEF Pairs, TypeOK
<1>2. \A m \in Pairs : Put(s, m[1], m[2]) = IF m \in mine THEN offer[m[1]][m[2]] ELSE Nothing
  BY DEF Pairs, Put
<1>3. ASSUME NEW c \in Currencies
      PROVE  SumFunction([m \in mine |-> offer[m[1]][m[2]].coins[c]])
               = SumFunctionOnSet(Offered(s, c), Pairs)
  <2> DEFINE F == [m \in mine |-> offer[m[1]][m[2]].coins[c]]
  <2>1. \A m \in Pairs : Offered(s, c)[m] = IF m \in mine THEN F[m] ELSE 0
    BY <1>2 DEF Offered, Nothing
  <2>2. \A m \in mine : F[m] \in Int
    BY <1>1, <2>1, OfferedAt
  <2>3. DOMAIN F = mine
    OBVIOUS
  <2> HIDE DEF F, mine
  <2>4. SumFunctionOnSet(Offered(s, c), Pairs) = SumFunctionOnSet(F, mine)
    BY <1>1, <2>1, <2>2, PairsFinite, SumExtend
  <2>5. SumFunction(F) = SumFunctionOnSet(F, mine)
    BY <2>3 DEF SumFunction
  <2> QED
    BY <2>4, <2>5 DEF F
<1>4. Worth(s) = [coins |-> [c \in Currencies |->
                    has[s].coins[c] + SumFunction([m \in mine |-> offer[m[1]][m[2]].coins[c]])],
                  items |-> (has[s].items \cup UNION {offer[m[1]][m[2]].items : m \in mine}) \ robes]
  BY DEF Worth
<1>5. Worth(s).coins = [c \in Currencies |->
        has[s].coins[c] + SumFunction([m \in mine |-> offer[m[1]][m[2]].coins[c]])]
  BY <1>4
<1>6. Worth(s).items = (has[s].items \cup UNION {offer[m[1]][m[2]].items : m \in mine}) \ robes
  BY <1>4
<1>7. \A i : i \in UNION {offer[m[1]][m[2]].items : m \in mine} <=>
        \E t \in Trades, k \in Sides : i \in Put(s, t, k).items
  <2> SUFFICES ASSUME NEW i
               PROVE  i \in UNION {offer[m[1]][m[2]].items : m \in mine} <=>
                        \E t \in Trades, k \in Sides : i \in Put(s, t, k).items
    OBVIOUS
  <2>1. ASSUME NEW m \in mine, i \in offer[m[1]][m[2]].items
        PROVE  \E t \in Trades, k \in Sides : i \in Put(s, t, k).items
    <3>1. i \in Put(s, m[1], m[2]).items
      BY <1>1, <1>2, <2>1
    <3> QED
      BY <1>1, <3>1, PairsAre
  <2>2. ASSUME NEW t \in Trades, NEW k \in Sides, i \in Put(s, t, k).items
        PROVE  \E m \in mine : i \in offer[m[1]][m[2]].items
    <3>1. t \in used /\ trader[t][k] = s /\ i \in offer[t][k].items
      BY <2>2 DEF Put, Nothing
    <3>2. <<t, k>> \in mine
      BY <3>1
    <3>3. i \in offer[<<t, k>>[1]][<<t, k>>[2]].items
      BY <3>1
    <3> QED
      BY <3>2, <3>3
  <2> QED
    BY <2>1, <2>2
<1>8. Worth(s).coins = [c \in Currencies |-> CoinWorth(s, c)]
  BY <1>3, <1>5 DEF CoinWorth
<1>9. \A i : i \in Worth(s).items <=> HasItem(s, i)
  BY <1>6, <1>7 DEF HasItem
<1> QED
  BY <1>4, <1>8, <1>9

LEMMA WorthPartsAre == TypeOK => WorthParts
BY WorthIs, OfferedAt, PutType DEF WorthParts

LEMMA WorthPartsNext == (TypeOK => WorthParts)'
BY WorthPartsAre, PTL

\* What a character owns is the same after a step.
LEMMA SameWorth ==
  ASSUME TypeOK, TypeOK', NEW s \in Slots,
         \A c \in Currencies : CoinWorth(s, c)' = CoinWorth(s, c),
         \A i : HasItem(s, i)' <=> HasItem(s, i)
  PROVE  Worth(s)' = Worth(s)
<1>1. WorthParts /\ WorthParts'
  BY WorthPartsAre, WorthPartsNext
<1>2. Worth(s)'.coins = Worth(s).coins
  <2>1. Worth(s)'.coins = [c \in Currencies |-> CoinWorth(s, c)']
    BY <1>1 DEF WorthParts
  <2>2. Worth(s).coins = [c \in Currencies |-> CoinWorth(s, c)]
    BY <1>1 DEF WorthParts
  <2>3. [c \in Currencies |-> CoinWorth(s, c)'] = [c \in Currencies |-> CoinWorth(s, c)]
    OBVIOUS
  <2> QED
    BY <2>1, <2>2, <2>3
<1>3. Worth(s)'.items = Worth(s).items
  BY <1>1 DEF WorthParts
<1> QED
  BY <1>1, <1>2, <1>3 DEF WorthParts

\* Nothing is done to what it carries and what it has put into trades.
LEMMA StillWorth ==
  ASSUME TypeOK, TypeOK', UNCHANGED robes, NEW s \in Slots, has'[s] = has[s],
         \A t \in Trades, k \in Sides : Put(s, t, k)' = Put(s, t, k)
  PROVE  Worth(s)' = Worth(s)
<1>1. WorthParts /\ WorthParts'
  BY WorthPartsAre, WorthPartsNext
<1>2. ASSUME NEW c \in Currencies PROVE CoinWorth(s, c)' = CoinWorth(s, c)
  <2> DEFINE F == Offered(s, c)
             G == Offered(s, c)'
  <2>1. \A m \in Pairs : F[m] = G[m]
    BY <1>1, PairsAre DEF WorthParts
  <2>2. CoinWorth(s, c)' = has'[s].coins[c] + SumFunctionOnSet(G, Pairs)
    BY DEF CoinWorth
  <2>3. CoinWorth(s, c) = has[s].coins[c] + SumFunctionOnSet(F, Pairs)
    BY DEF CoinWorth
  <2> HIDE DEF F, G
  <2>4. SumFunctionOnSet(F, Pairs) = SumFunctionOnSet(G, Pairs)
    BY <2>1, PairsFinite, SumSame
  <2> QED
    BY <2>2, <2>3, <2>4
<1>3. \A i : HasItem(s, i)' <=> HasItem(s, i)
  BY DEF HasItem
<1> QED
  BY <1>2, <1>3, SameWorth

\* Goods go between what it carries and one offer; a robe may be lost.
LEMMA MovedWorth ==
  ASSUME TypeOK, TypeOK', UNCHANGED robes, NEW s \in Slots,
         NEW t \in Trades, NEW k \in Sides,
         \A u \in Trades, j \in Sides : ~(u = t /\ j = k) => Put(s, u, j)' = Put(s, u, j),
         \A c \in Currencies : has'[s].coins[c] + Put(s, t, k)'.coins[c]
                                 = has[s].coins[c] + Put(s, t, k).coins[c],
         (has'[s].items \cup Put(s, t, k)'.items) \ robes
           = (has[s].items \cup Put(s, t, k).items) \ robes
  PROVE  Worth(s)' = Worth(s)
<1>1. WorthParts /\ WorthParts' /\ CoinsAt /\ CoinsAt'
  BY WorthPartsAre, WorthPartsNext, CoinsAts, CoinsAtsNext
<1>2. ASSUME NEW c \in Currencies PROVE CoinWorth(s, c)' = CoinWorth(s, c)
  <2> DEFINE F == Offered(s, c)
             G == Offered(s, c)'
             e == <<t, k>>
  <2>1. /\ \A m \in Pairs : F[m] \in Int /\ G[m] \in Int
        /\ SumFunctionOnSet(F, Pairs) \in Int
        /\ F[e] = Put(s, t, k).coins[c] /\ G[e] = Put(s, t, k)'.coins[c]
    BY <1>1 DEF WorthParts
  <2>2. \A m \in Pairs \ {e} : G[m] = F[m]
    <3> SUFFICES ASSUME NEW m \in Pairs, m # e PROVE G[m] = F[m]
      OBVIOUS
    <3>1. m = <<m[1], m[2]>> /\ m[1] \in Trades /\ m[2] \in Sides
      BY PairsAre
    <3>2. F[<<m[1], m[2]>>] = Put(s, m[1], m[2]).coins[c]
      BY <1>1, <3>1 DEF WorthParts
    <3>3. G[<<m[1], m[2]>>] = Put(s, m[1], m[2])'.coins[c]
      BY <1>1, <3>1 DEF WorthParts
    <3>4. Put(s, m[1], m[2])' = Put(s, m[1], m[2])
      BY <3>1
    <3> QED
      BY <3>1, <3>2, <3>3, <3>4
  <2>3. e \in Pairs
    BY PairsAre
  <2>4. CoinWorth(s, c)' = has'[s].coins[c] + SumFunctionOnSet(G, Pairs)
    BY DEF CoinWorth
  <2>5. CoinWorth(s, c) = has[s].coins[c] + SumFunctionOnSet(F, Pairs)
    BY DEF CoinWorth
  <2>6. has[s].coins[c] \in Nat /\ has'[s].coins[c] \in Nat
    BY <1>1 DEF CoinsAt
  <2>7. has'[s].coins[c] + G[e] = has[s].coins[c] + F[e]
    BY <2>1
  <2> HIDE DEF F, G, e
  <2>8. SumFunctionOnSet(G, Pairs) = SumFunctionOnSet(F, Pairs) + G[e] - F[e]
    BY <2>1, <2>2, <2>3, PairsFinite, SumChange
  <2> QED
    BY <2>1, <2>3, <2>4, <2>5, <2>6, <2>7, <2>8
<1>3. \A i : HasItem(s, i)' <=> HasItem(s, i)
  <2> SUFFICES ASSUME NEW i, i \notin robes PROVE HasItem(s, i)' <=> HasItem(s, i)
    BY DEF HasItem
  <2>1. i \in has'[s].items \/ i \in Put(s, t, k)'.items
          <=> i \in has[s].items \/ i \in Put(s, t, k).items
    OBVIOUS
  <2> QED
    BY <2>1 DEF HasItem
<1> QED
  BY <1>2, <1>3, SameWorth

\* What a step that ends or clears the trade t does to what s has put there.
Withdrawn(s, t) ==
  \A u \in Trades, k \in Sides : Put(s, u, k)' = IF u = t THEN Nothing ELSE Put(s, u, k)

LEMMA WithdrawnCoins ==
  ASSUME TypeOK, TypeOK', NEW s \in Slots, NEW t \in Trades, NEW c \in Currencies,
         Withdrawn(s, t)
  PROVE  CoinWorth(s, c)' = CoinWorth(s, c) + (has'[s].coins[c] - has[s].coins[c])
                              - Put(s, t, 0).coins[c] - Put(s, t, 1).coins[c]
<1>1. WorthParts /\ WorthParts' /\ CoinsAt /\ CoinsAt'
  BY WorthPartsAre, WorthPartsNext, CoinsAts, CoinsAtsNext
<1> DEFINE F == Offered(s, c)
           G == Offered(s, c)'
           e == <<t, 0>>
           f == <<t, 1>>
<1>2. 0 \in Sides /\ 1 \in Sides /\ \A k \in Sides : k = 0 \/ k = 1
  BY DEF Sides
<1>3. e \in Pairs /\ f \in Pairs /\ e # f
  BY <1>2, PairsAre
<1>4. Nothing.coins[c] = 0
  BY DEF Nothing
<1>5. F[e] = Put(s, t, 0).coins[c] /\ F[f] = Put(s, t, 1).coins[c]
  BY <1>1, <1>2 DEF WorthParts
<1>6. G[e] = 0 /\ G[f] = 0
  <2>1. G[e] = Put(s, t, 0)'.coins[c] /\ G[f] = Put(s, t, 1)'.coins[c]
    BY <1>1, <1>2 DEF WorthParts
  <2> QED
    BY <1>2, <1>4, <2>1 DEF Withdrawn
<1>7. \A m \in Pairs : m # e /\ m # f => G[m] = F[m]
  <2> SUFFICES ASSUME NEW m \in Pairs, m # e, m # f PROVE G[m] = F[m]
    OBVIOUS
  <2>1. m = <<m[1], m[2]>> /\ m[1] \in Trades /\ m[2] \in Sides
    BY PairsAre
  <2>2. F[<<m[1], m[2]>>] = Put(s, m[1], m[2]).coins[c]
    BY <1>1, <2>1 DEF WorthParts
  <2>3. G[<<m[1], m[2]>>] = Put(s, m[1], m[2])'.coins[c]
    BY <1>1, <2>1 DEF WorthParts
  <2>4. m[1] # t
    BY <1>2, <2>1
  <2>5. Put(s, m[1], m[2])' = Put(s, m[1], m[2])
    BY <2>1, <2>4 DEF Withdrawn
  <2> QED
    BY <2>1, <2>2, <2>3, <2>5
<1>8. \A m \in Pairs : F[m] \in Int /\ G[m] \in Int
  BY <1>1 DEF WorthParts
<1>9. SumFunctionOnSet(F, Pairs) \in Int
  BY <1>1 DEF WorthParts
<1>10. CoinWorth(s, c)' = has'[s].coins[c] + SumFunctionOnSet(G, Pairs)
  BY DEF CoinWorth
<1>11. CoinWorth(s, c) = has[s].coins[c] + SumFunctionOnSet(F, Pairs)
  BY DEF CoinWorth
<1>12. has[s].coins[c] \in Nat /\ has'[s].coins[c] \in Nat
  BY <1>1 DEF CoinsAt
<1> HIDE DEF F, G, e, f
<1>13. SumFunctionOnSet(G, Pairs) = SumFunctionOnSet(F, Pairs) + (G[e] - F[e]) + (G[f] - F[f])
  <2>1. DifferAt(F, G, Pairs, e, f)
    BY <1>7, <1>8 DEF DifferAt
  <2> QED
    BY <1>3, <2>1, PairsFinite, SumChangeTwo
<1>14. F[e] \in Int /\ F[f] \in Int
  BY <1>3, <1>8
<1> QED
  BY <1>5, <1>6, <1>9, <1>10, <1>11, <1>12, <1>13, <1>14

LEMMA EndWithdraws ==
  ASSUME TypeOK, NEW t \in Trades, Emptied(t), used' \subseteq used, used \ {t} \subseteq used',
         \A u \in Trades : u # t => trader'[u] = trader[u], NEW s \in Slots
  PROVE  Withdrawn(s, t)
<1>1. \A u \in Trades, k \in Sides : offer'[u][k] = IF u = t THEN Nothing ELSE offer[u][k]
  BY DEF Emptied, Empty, TypeOK
<1>2. \A u \in Trades : u # t => (u \in used' <=> u \in used)
  OBVIOUS
<1> QED
  BY <1>1, <1>2 DEF Withdrawn, Put

\* The items after the goods of the trade t have been delivered to to.
LEMMA WithdrawnItems ==
  ASSUME UNCHANGED robes, NEW s \in Slots, NEW t \in Trades, Withdrawn(s, t),
         NEW to, has'[s] = Delivered(t, to)[s], NEW i
  PROVE  HasItem(s, i)' <=>
           /\ i \notin robes
           /\ \/ i \in has[s].items
              \/ \E k \in Sides : to[k] = s /\ i \in offer[t][k].items
              \/ \E u \in Trades, k \in Sides : u # t /\ i \in Put(s, u, k).items
<1>1. i \in has'[s].items <=>
        \/ i \in has[s].items
        \/ \E k \in Sides : to[k] = s /\ i \in offer[t][k].items
  BY DeliveredItems
<1>2. (\E u \in Trades, k \in Sides : i \in Put(s, u, k)'.items) <=>
        \E u \in Trades, k \in Sides : u # t /\ i \in Put(s, u, k).items
  BY DEF Withdrawn, Nothing
<1> QED
  BY <1>1, <1>2 DEF HasItem

\* Who gets its own offer back owns what it owned.
LEMMA GivenBack ==
  ASSUME TypeOK, TypeOK', UNCHANGED robes, NEW s \in Slots, NEW t \in Trades, t \in used,
         Withdrawn(s, t), has'[s] = Delivered(t, trader[t])[s]
  PROVE  Worth(s)' = Worth(s)
<1>1. ASSUME NEW c \in Currencies PROVE CoinWorth(s, c)' = CoinWorth(s, c)
  <2> DEFINE l == offer[t][0].coins[c]
             m == offer[t][1].coins[c]
  <2>1. has'[s].coins[c] = has[s].coins[c] + (IF trader[t][0] = s THEN l ELSE 0)
                                           + (IF trader[t][1] = s THEN m ELSE 0)
    BY DeliveredCoins
  <2>2. /\ Put(s, t, 0).coins[c] = IF trader[t][0] = s THEN l ELSE 0
        /\ Put(s, t, 1).coins[c] = IF trader[t][1] = s THEN m ELSE 0
    BY DEF Put, Nothing
  <2>3. CoinWorth(s, c)' = CoinWorth(s, c) + (has'[s].coins[c] - has[s].coins[c])
                              - Put(s, t, 0).coins[c] - Put(s, t, 1).coins[c]
    BY WithdrawnCoins
  <2>4. l \in Nat /\ m \in Nat /\ has[s].coins[c] \in Nat /\ CoinWorth(s, c) \in Int
    BY CoinsNat, OfferedAt DEF CoinWorth, Sides
  <2> HIDE DEF l, m
  <2> QED
    BY <2>1, <2>2, <2>3, <2>4
<1>2. ASSUME NEW i PROVE HasItem(s, i)' <=> HasItem(s, i)
  <2>1. HasItem(s, i)' <=>
           /\ i \notin robes
           /\ \/ i \in has[s].items
              \/ \E k \in Sides : trader[t][k] = s /\ i \in offer[t][k].items
              \/ \E u \in Trades, k \in Sides : u # t /\ i \in Put(s, u, k).items
    BY WithdrawnItems
  <2>2. \A k \in Sides : i \in Put(s, t, k).items <=> trader[t][k] = s /\ i \in offer[t][k].items
    BY DEF Put, Nothing
  <2> QED
    BY <2>1, <2>2 DEF HasItem
<1> QED
  BY <1>1, <1>2, SameWorth

\* One who is not on exactly one side of the trade owns after the swap what
\* it owned before.
LEMMA NotOneSide ==
  ASSUME TypeOK, TypeOK', UNCHANGED robes, NEW s \in Slots, NEW t \in Trades, t \in used,
         Withdrawn(s, t), has'[s] = Delivered(t, Swapped(t))[s],
         trader[t][0] = s <=> trader[t][1] = s
  PROVE  Worth(s)' = Worth(s)
<1>1. Swapped(t)[0] = trader[t][1] /\ Swapped(t)[1] = trader[t][0]
  BY DEF Swapped, Sides
<1>2. Due(t, Swapped(t), s) = Due(t, trader[t], s)
  BY <1>1 DEF Due
<1>3. has'[s] = Delivered(t, trader[t])[s]
  BY <1>2 DEF Delivered
<1> QED
  BY <1>3, GivenBack

\* One who is gives its offer for the other one.
LEMMA OneSide ==
  ASSUME IInv, SInv, NoRobes, TypeOK', UNCHANGED robes,
         NEW s \in Live, NEW t \in Trades, t \in used, Withdrawn(s, t),
         has'[s] = Delivered(t, Swapped(t))[s],
         NEW k \in Sides, trader[t][k] = s, trader[t][1 - k] # s
  PROVE  Worth(s)' = Minus(Plus(Worth(s), offer[t][1 - k]), offer[t][k])
<1> DEFINE g == offer[t][k]
           h == offer[t][1 - k]
<1>0. TypeOK /\ s \in Slots /\ 1 - k \in Sides /\ 1 - (1 - k) = k
      /\ \A j \in Sides : j = k \/ j = 1 - k
  BY DEF IInv, Live, Sides
<1>1. Swapped(t)[k] # s /\ Swapped(t)[1 - k] = s
  BY <1>0 DEF Swapped
<1>2. ASSUME NEW c \in Currencies
      PROVE  CoinWorth(s, c)' = (CoinWorth(s, c) + h.coins[c]) - g.coins[c]
  <2>1. has'[s].coins[c] = has[s].coins[c] + h.coins[c]
    <3>1. has'[s].coins[c] = has[s].coins[c]
              + (IF Swapped(t)[0] = s THEN offer[t][0].coins[c] ELSE 0)
              + (IF Swapped(t)[1] = s THEN offer[t][1].coins[c] ELSE 0)
      BY <1>0, DeliveredCoins
    <3>2. has[s].coins[c] \in Nat /\ offer[t][0].coins[c] \in Nat /\ offer[t][1].coins[c] \in Nat
      BY <1>0, CoinsNat DEF Sides
    <3>3. k = 0 \/ k = 1
      BY DEF Sides
    <3>4. CASE k = 0
      <4>1. 1 - k = 1
        BY <3>4
      <4> QED
        BY <1>1, <3>1, <3>2, <3>4, <4>1
    <3>5. CASE k = 1
      <4>1. 1 - k = 0
        BY <3>5
      <4> QED
        BY <1>1, <3>1, <3>2, <3>5, <4>1
    <3> QED
      BY <3>3, <3>4, <3>5
  <2>2. Put(s, t, k).coins[c] = g.coins[c] /\ Put(s, t, 1 - k).coins[c] = 0
    BY DEF Put, Nothing
  <2>3. CoinWorth(s, c)' = CoinWorth(s, c) + (has'[s].coins[c] - has[s].coins[c])
                              - Put(s, t, k).coins[c] - Put(s, t, 1 - k).coins[c]
    <3>1. CoinWorth(s, c)' = CoinWorth(s, c) + (has'[s].coins[c] - has[s].coins[c])
                              - Put(s, t, 0).coins[c] - Put(s, t, 1).coins[c]
      BY <1>0, WithdrawnCoins
    <3>2. CoinWorth(s, c) \in Int /\ has[s].coins[c] \in Nat
          /\ h.coins[c] \in Nat /\ g.coins[c] \in Nat
      BY <1>0, CoinsNat, OfferedAt DEF CoinWorth
    <3>3. (k = 0 /\ 1 - k = 1) \/ (k = 1 /\ 1 - k = 0)
      BY DEF Sides
    <3> HIDE DEF g, h
    <3>4. CASE k = 0 /\ 1 - k = 1
      BY <3>1, <3>4
    <3>5. CASE k = 1 /\ 1 - k = 0
      <4>1. Put(s, t, 1).coins[c] = g.coins[c] /\ Put(s, t, 0).coins[c] = 0
        BY <2>2, <3>5
      <4> QED
        BY <2>1, <2>2, <3>1, <3>2, <4>1
    <3> QED
      BY <3>3, <3>4, <3>5
  <2>4. CoinWorth(s, c) \in Int /\ has[s].coins[c] \in Nat
        /\ h.coins[c] \in Nat /\ g.coins[c] \in Nat
    BY <1>0, CoinsNat, OfferedAt DEF CoinWorth
  <2> HIDE DEF g, h
  <2> QED
    BY <2>1, <2>2, <2>3, <2>4
<1>3. ASSUME NEW i
      PROVE  HasItem(s, i)' <=> (HasItem(s, i) \/ i \in h.items) /\ i \notin g.items
  <2>1. HasItem(s, i)' <=>
           /\ i \notin robes
           /\ \/ i \in has[s].items
              \/ i \in h.items
              \/ \E u \in Trades, j \in Sides : u # t /\ i \in Put(s, u, j).items
    <3>1. HasItem(s, i)' <=>
             /\ i \notin robes
             /\ \/ i \in has[s].items
                \/ \E j \in Sides : Swapped(t)[j] = s /\ i \in offer[t][j].items
                \/ \E u \in Trades, j \in Sides : u # t /\ i \in Put(s, u, j).items
      BY <1>0, WithdrawnItems
    <3>2. (\E j \in Sides : Swapped(t)[j] = s /\ i \in offer[t][j].items) <=> i \in h.items
      BY <1>0, <1>1
    <3> QED
      BY <3>1, <3>2
  <2>2. HasItem(s, i) <=>
           /\ i \notin robes
           /\ \/ i \in has[s].items
              \/ i \in g.items
              \/ \E u \in Trades, j \in Sides : u # t /\ i \in Put(s, u, j).items
    <3>1. Put(s, t, k) = g /\ Put(s, t, 1 - k).items = {}
      BY DEF Put, Nothing
    <3>2. (\E u \in Trades, j \in Sides : i \in Put(s, u, j).items) <=>
             i \in g.items \/ \E u \in Trades, j \in Sides : u # t /\ i \in Put(s, u, j).items
      BY <1>0, <3>1
    <3> QED
      BY <3>2 DEF HasItem
  <2>3. i \in h.items => i \notin robes
    BY <1>0 DEF NoRobes
  <2>4. i \in g.items => i \notin h.items /\ i \notin has[s].items
                         /\ \A u \in Trades, j \in Sides : u # t => i \notin Put(s, u, j).items
    <3> SUFFICES ASSUME i \in g.items
                 PROVE  /\ i \notin h.items /\ i \notin has[s].items
                        /\ \A u \in Trades, j \in Sides : u # t => i \notin Put(s, u, j).items
      OBVIOUS
    <3>1. Sole(i)
      BY <1>0 DEF TypeOK, Goods, SInv
    <3>2. AtTrade(i, t, k)
      BY DEF AtTrade
    <3>3. i \notin has[s].items
      BY <1>0, <3>1, <3>2 DEF Sole, AtChar
    <3>4. i \notin h.items
      <4>1. ~AtTrade(i, t, 1 - k)
        BY <1>0, <3>1, <3>2 DEF Sole, Sides
      <4> QED
        BY <1>0, <4>1 DEF AtTrade
    <3>5. ASSUME NEW u \in Trades, NEW j \in Sides, u # t PROVE i \notin Put(s, u, j).items
      <4>1. ~AtTrade(i, u, j)
        BY <3>1, <3>2, <3>5 DEF Sole
      <4> QED
        BY <4>1 DEF AtTrade, Put, Nothing
    <3> QED
      BY <3>3, <3>4, <3>5
  <2> HIDE DEF g, h
  <2> QED
    BY <2>1, <2>2, <2>3, <2>4
<1>4. WorthParts /\ WorthParts'
  BY <1>0, WorthPartsAre, WorthPartsNext
<1> DEFINE W == Worth(s)
           V == Worth(s)'
<1>5. \A c \in Currencies : W.coins[c] = CoinWorth(s, c)
  <2>1. W.coins = [c \in Currencies |-> CoinWorth(s, c)]
    BY <1>0, <1>4 DEF WorthParts
  <2> QED
    BY <2>1
<1>6. V.coins = [c \in Currencies |-> CoinWorth(s, c)']
  BY <1>0, <1>4 DEF WorthParts
<1>7. /\ \A i : i \in W.items <=> HasItem(s, i)
      /\ \A i : i \in V.items <=> HasItem(s, i)'
      /\ V = [coins |-> V.coins, items |-> V.items]
  BY <1>0, <1>4 DEF WorthParts
<1> HIDE DEF W, V, g, h
<1>8. V.coins = [c \in Currencies |-> (W.coins[c] + h.coins[c]) - g.coins[c]]
  <2>1. \A c \in Currencies : CoinWorth(s, c)' = (W.coins[c] + h.coins[c]) - g.coins[c]
    BY <1>2, <1>5
  <2>2. [c \in Currencies |-> CoinWorth(s, c)']
          = [c \in Currencies |-> (W.coins[c] + h.coins[c]) - g.coins[c]]
    BY <2>1
  <2> QED
    BY <1>6, <2>2
<1>9. V.items = (W.items \cup h.items) \ g.items
  BY <1>3, <1>7
<1>10. Minus(Plus(W, h), g) = [coins |-> [c \in Currencies |-> (W.coins[c] + h.coins[c]) - g.coins[c]],
                               items |-> (W.items \cup h.items) \ g.items]
  BY DEF Plus, Minus
<1>11. V = Minus(Plus(W, h), g)
  BY <1>7, <1>8, <1>9, <1>10
<1> QED
  BY <1>11 DEF V, W, g, h

-----------------------------------------------------------------------------
\* A robe is never on offer.
LEMMA InitNoRobes == Init => NoRobes
BY DEF Init, NoRobes, Empty, Nothing

\* The items a command puts into an offer or takes out of it.
LEMMA OfferItems ==
  ASSUME TypeOK, NEW s \in Slots, trade[s] # None,
         \/ \E c \in Currencies : AddCoins(s, c) \/ RemoveCoins(s, c)
         \/ \E i \in Items : AddItem(s, i) \/ AddRobe(s, i) \/ RemoveItem(s, i)
  PROVE  LET g == has'[s]
             h == offer'[trade[s]][Side(s)]
             b == offer[trade[s]][Side(s)]
         IN  /\ (g.items \cup h.items) \ robes = (has[s].items \cup b.items) \ robes
             /\ h.items \cap robes \subseteq b.items
<1> DEFINE t == trade[s]
           k == Side(s)
           a == has[s]
           b == offer[t][k]
           g == has'[s]
           h == offer'[t][k]
<1>1. t \in Trades /\ k \in Sides
  BY SideType DEF TypeOK
<1>2. /\ \A x, y : Plus(x, y).items = x.items \cup y.items
      /\ \A x, y : Minus(x, y).items = x.items \ y.items
  BY DEF Plus, Minus
<1>3. /\ \A c, n : Coins(c, n).items = {}
      /\ \A i : Item(i).items = {i}
  BY DEF Coins, Item, Nothing
<1>4. /\ \A x : has' = [has EXCEPT ![s] = x] => g = x
      /\ \A y : offer' = [offer EXCEPT ![t][k] = y] => h = y
  BY <1>1 DEF TypeOK
<1> SUFFICES /\ (g.items \cup h.items) \ robes = (a.items \cup b.items) \ robes
             /\ h.items \cap robes \subseteq b.items
  OBVIOUS
<1>5. CASE \E c \in Currencies : AddCoins(s, c) \/ RemoveCoins(s, c)
  <2>1. PICK c \in Currencies : AddCoins(s, c) \/ RemoveCoins(s, c)
    BY <1>5
  <2>2. CASE AddCoins(s, c)
    <3>1. PICK n \in 0 .. has[s].coins[c] :
            /\ has' = [has EXCEPT ![s] = Minus(@, Coins(c, n))]
            /\ offer' = [offer EXCEPT ![t][k] = Plus(@, Coins(c, n))]
      BY <2>2 DEF AddCoins
    <3>2. g = Minus(a, Coins(c, n)) /\ h = Plus(b, Coins(c, n))
      BY <1>1, <3>1 DEF TypeOK
    <3> HIDE DEF a, b, g, h
    <3> QED
      BY <1>2, <1>3, <3>2
  <2>3. CASE RemoveCoins(s, c)
    <3>1. PICK n \in 1 .. offer[t][k].coins[c] :
            /\ has' = [has EXCEPT ![s] = Plus(@, Coins(c, n))]
            /\ offer' = [offer EXCEPT ![t][k] = Minus(@, Coins(c, n))]
      BY <2>3 DEF RemoveCoins
    <3>2. g = Plus(a, Coins(c, n)) /\ h = Minus(b, Coins(c, n))
      BY <1>1, <3>1 DEF TypeOK
    <3> HIDE DEF a, b, g, h
    <3> QED
      BY <1>2, <1>3, <3>2
  <2> QED
    BY <2>1, <2>2, <2>3
<1>6. CASE \E i \in Items : AddItem(s, i) \/ AddRobe(s, i) \/ RemoveItem(s, i)
  <2>1. PICK i \in Items : AddItem(s, i) \/ AddRobe(s, i) \/ RemoveItem(s, i)
    BY <1>6
  <2>2. CASE AddItem(s, i)
    <3>1. g = Minus(a, Item(i)) /\ h = Plus(b, Item(i)) /\ i \in a.items /\ i \notin robes
      BY <1>1, <2>2 DEF AddItem, TypeOK
    <3> HIDE DEF a, b, g, h
    <3> QED
      BY <1>2, <1>3, <3>1
  <2>3. CASE AddRobe(s, i)
    <3>1. g = Minus(a, Item(i)) /\ h = b /\ i \in robes
      BY <1>1, <2>3 DEF AddRobe, TypeOK
    <3> HIDE DEF a, b, g, h
    <3> QED
      BY <1>2, <1>3, <3>1
  <2>4. CASE RemoveItem(s, i)
    <3>1. g = Plus(a, Item(i)) /\ h = Minus(b, Item(i)) /\ i \in b.items
      BY <1>1, <2>4 DEF RemoveItem, TypeOK
    <3> HIDE DEF a, b, g, h
    <3> QED
      BY <1>2, <1>3, <3>1
  <2> QED
    BY <2>1, <2>2, <2>3, <2>4
<1> QED
  BY <1>5, <1>6

\* What a command that changes an offer does.
LEMMA OfferOnly ==
  ASSUME NEW s \in Slots,
         \/ \E c \in Currencies : AddCoins(s, c) \/ RemoveCoins(s, c)
         \/ \E i \in Items : AddItem(s, i) \/ AddRobe(s, i) \/ RemoveItem(s, i)
  PROVE  /\ s \in Live /\ trade[s] # None
         /\ UNCHANGED <<who, trade, used, trader, file>>
BY DEF AddCoins, RemoveCoins, AddItem, AddRobe, RemoveItem

LEMMA RobesInductive == IInv /\ NoRobes /\ [Next]_vars => NoRobes'
<1> SUFFICES ASSUME IInv, NoRobes, [Next]_vars PROVE NoRobes'
  OBVIOUS
<1>0. TypeOK /\ UNCHANGED robes
  BY DEF IInv, Next, vars
<1>1. ASSUME UNCHANGED offer PROVE NoRobes'
  BY <1>0, <1>1 DEF NoRobes
<1>2. ASSUME NEW t, Emptied(t) PROVE NoRobes'
  BY <1>0, <1>2 DEF NoRobes, Emptied, Empty, Nothing, TypeOK
<1>3. CASE UNCHANGED vars
  BY <1>1, <1>3 DEF vars
<1>4. CASE Next
  <2>1. PICK s \in Slots :
          \/ Command(s)
          \/ \E r \in Rooms : Move(s, r)
          \/ Quit(s)
          \/ \E p \in Persons, r \in Rooms : Login(s, p, r)
    BY <1>4 DEF Next
  <2>2. CASE \/ \E v \in Slots : Request(s, v)
             \/ \E t \in Trades : Accept(s, t)
             \/ Decline(s) \/ Approve(s)
    BY <1>1, <2>2 DEF Request, Accept, Decline, Approve, tradeVars
  <2>3. CASE Cancel(s) \/ Clear(s) \/ Final(s)
    BY <1>2, <2>3 DEF Cancel, Clear, Final, Destruct, Released
  <2>4. CASE \/ \E c \in Currencies : AddCoins(s, c) \/ RemoveCoins(s, c)
             \/ \E i \in Items : AddItem(s, i) \/ AddRobe(s, i) \/ RemoveItem(s, i)
    <3> DEFINE t == trade[s]
               k == Side(s)
    <3>1. t \in Trades /\ k \in Sides /\ trade[s] # None
      BY <1>0, <2>4, OfferOnly, SideType DEF TypeOK
    <3>2. PICK g, h : /\ has' = [has EXCEPT ![s] = g]
                      /\ offer' = [offer EXCEPT ![t][k] = h]
                      /\ AsMany(s, g, h)
      BY <1>0, <2>4, <3>1, OfferCommands
    <3>3. \A u \in Trades, j \in Sides : ~(u = t /\ j = k) => offer'[u][j] = offer[u][j]
      BY <1>0, <3>1, <3>2 DEF TypeOK
    <3>4. offer'[t][k].items \cap robes \subseteq offer[t][k].items
      BY <1>0, <2>4, <3>1, OfferItems
    <3> HIDE DEF t, k
    <3> QED
      BY <1>0, <3>1, <3>3, <3>4 DEF NoRobes
  <2>5. CASE \E r \in Rooms : Move(s, r)
    BY <1>1, <1>2, <2>5 DEF Move, Destruct, Released, tradeVars
  <2>6. CASE Quit(s)
    BY <1>1, <1>2, <2>6 DEF Quit, Released, tradeVars
  <2>7. CASE \E p \in Persons, r \in Rooms : Login(s, p, r)
    BY <1>1, <2>7 DEF Login, tradeVars
  <2> QED
    BY <2>1, <2>2, <2>3, <2>4, <2>5, <2>6, <2>7 DEF Command
<1> QED
  BY <1>3, <1>4

-----------------------------------------------------------------------------
(***************************************************************************)
(* One lemma per kind of step: what belongs to v, who stays, afterwards.   *)
(***************************************************************************)
LEMMA ConsentStill ==
  ASSUME TypeOK, TypeOK', NEW v \in Live, UNCHANGED <<used, trader, offer, robes>>, has'[v] = has[v]
  PROVE  Worth(v)' = Worth(v)
BY StillWorth DEF Put, Live

\* A trade that is handed out offers nothing.
LEMMA ConsentAccept ==
  ASSUME IInv, SInv, CInv, TypeOK', UNCHANGED robes,
         NEW s \in Slots, NEW t \in Trades, Accept(s, t), NEW v \in Live
  PROVE  Worth(v)' = Worth(v)
<1>1. TypeOK /\ v \in Slots
  BY DEF IInv, Live
<1>2. /\ t \notin used /\ used' = used \cup {t}
      /\ \A u \in Trades : u # t => trader'[u] = trader[u]
      /\ UNCHANGED <<has, offer>>
  BY <1>1 DEF Accept, TypeOK
<1>3. ASSUME NEW k \in Sides PROVE offer[t][k] = Nothing
  <2> DEFINE g == offer[t][k]
  <2>1. g \in Goods /\ g.items = {} /\ \A c \in Currencies : g.coins[c] = 0
    BY <1>1, <1>2 DEF TypeOK, SInv, FreeEmpty, CInv, FreeNoCoins
  <2> HIDE DEF g
  <2>2. /\ g = [coins |-> g.coins, items |-> g.items]
        /\ g.coins = [c \in Currencies |-> g.coins[c]]
    BY <2>1 DEF Goods
  <2>3. g.coins = [c \in Currencies |-> 0]
    BY <2>1, <2>2
  <2> QED
    BY <2>1, <2>2, <2>3 DEF Nothing, g
<1>4. \A u \in Trades, k \in Sides : Put(v, u, k)' = Put(v, u, k)
  BY <1>2, <1>3 DEF Put
<1> QED
  BY <1>1, <1>2, <1>4, StillWorth

LEMMA ConsentOffer ==
  ASSUME IInv, TypeOK', UNCHANGED robes, NEW s \in Slots, NEW v \in Live,
         \/ \E c \in Currencies : AddCoins(s, c) \/ RemoveCoins(s, c)
         \/ \E i \in Items : AddItem(s, i) \/ AddRobe(s, i) \/ RemoveItem(s, i)
  PROVE  Worth(v)' = Worth(v)
<1>1. TypeOK /\ v \in Slots
  BY DEF IInv, Live
<1>2. trade[s] # None /\ UNCHANGED <<used, trader>>
  BY OfferOnly
<1>3. PICK t \in Trades, k \in Sides :
        t = trade[s] /\ k = Side(s) /\ t \in used /\ trader[t][k] = s
  BY <1>1, <1>2, SideType DEF IInv, TypeOK, Linked, Side
<1>4. PICK g, h : /\ has' = [has EXCEPT ![s] = g]
                  /\ offer' = [offer EXCEPT ![t][k] = h]
                  /\ AsMany(s, g, h)
  BY <1>1, <1>2, <1>3, OfferCommands
<1>5. has'[s] = g /\ offer'[t][k] = h
  BY <1>1, <1>3, <1>4 DEF TypeOK
<1>6. \A u \in Trades, j \in Sides : ~(u = t /\ j = k) => offer'[u][j] = offer[u][j]
  BY <1>1, <1>3, <1>4 DEF TypeOK
<1>7. \A c \in Currencies : has'[s].coins[c] + offer'[t][k].coins[c]
                              = has[s].coins[c] + offer[t][k].coins[c]
  BY <1>3, <1>4, <1>5 DEF AsMany
<1>8. (has'[s].items \cup offer'[t][k].items) \ robes = (has[s].items \cup offer[t][k].items) \ robes
  BY <1>1, <1>2, <1>3, OfferItems
<1>9. \A u \in Trades, j \in Sides : ~(u = t /\ j = k) => Put(v, u, j)' = Put(v, u, j)
  BY <1>2, <1>6 DEF Put
<1>10. CASE v = s
  <2>1. Put(s, t, k) = offer[t][k] /\ Put(s, t, k)' = offer'[t][k]
    BY <1>2, <1>3 DEF Put
  <2> QED
    BY <1>1, <1>3, <1>7, <1>8, <1>9, <1>10, <2>1, MovedWorth
<1>11. CASE v # s
  <2>1. Put(v, t, k) = Nothing /\ Put(v, t, k)' = Nothing
    BY <1>2, <1>3, <1>11 DEF Put, Nothing
  <2>2. has'[v] = has[v]
    BY <1>1, <1>4, <1>11 DEF TypeOK
  <2> QED
    BY <1>1, <1>9, <2>1, <2>2, StillWorth
<1> QED
  BY <1>10, <1>11

\* The trade ends, or is cleared: everybody gets its own goods back.
LEMMA ConsentEnd ==
  ASSUME IInv, TypeOK', UNCHANGED robes, NEW s \in Slots, NEW v \in Live, who'[v] = who[v],
         \/ Cancel(s) \/ Clear(s)
         \/ trade[s] # None /\ (Quit(s) \/ \E r \in Rooms : Move(s, r))
  PROVE  Worth(v)' = Worth(v)
<1> DEFINE t == trade[s]
<1>1. TypeOK /\ v \in Slots /\ t # None
  BY DEF IInv, Live, Cancel, Clear
<1>2. t \in Trades /\ t \in used
  BY <1>1 DEF IInv, TypeOK, Linked
<1>3. Released(t) \/ (Emptied(t) /\ UNCHANGED <<used, trader>>)
  BY <1>1 DEF Cancel, Clear, Move, Quit, Destruct
<1>4. /\ Emptied(t) /\ used' \subseteq used /\ used \ {t} \subseteq used'
      /\ \A u \in Trades : u # t => trader'[u] = trader[u]
  BY <1>1, <1>3 DEF Released, TypeOK
<1>5. Withdrawn(v, t)
  BY <1>1, <1>2, <1>4, EndWithdraws
<1>6. has'[v] = Delivered(t, trader[t])[v]
  <2>1. CASE Quit(s)
    <3>1. v # s
      BY <1>1, <2>1 DEF Quit, Live, TypeOK
    <3>2. has' = [Delivered(t, trader[t]) EXCEPT ![s] = Nothing]
      BY <1>1, <2>1 DEF Quit
    <3> QED
      BY <1>1, <3>1, <3>2 DEF Delivered
  <2>2. CASE Cancel(s) \/ Clear(s) \/ \E r \in Rooms : Move(s, r)
    BY <1>1, <2>2 DEF Cancel, Clear, Move, Destruct
  <2> QED
    BY <2>1, <2>2
<1> HIDE DEF t
<1> QED
  BY <1>1, <1>2, <1>5, <1>6, GivenBack

\* The swap, which the other one has approved, offers being what they were.
LEMMA ConsentFinal ==
  ASSUME IInv, SInv, NoRobes, TypeOK', UNCHANGED robes, NEW s \in Slots, Final(s), NEW v \in Live
  PROVE  Worth(v)' = Worth(v) \/ \E t \in used, k \in Sides : Exchanged(v, t, k)
<1> DEFINE t == trade[s]
<1>1. TypeOK /\ v \in Slots /\ t # None
  BY DEF IInv, Live, Final
<1>2. t \in Trades /\ t \in used
  BY <1>1 DEF IInv, TypeOK, Linked
<1>3. /\ Emptied(t) /\ used' \subseteq used /\ used \ {t} \subseteq used'
      /\ \A u \in Trades : u # t => trader'[u] = trader[u]
      /\ has'[v] = Delivered(t, Swapped(t))[v]
  BY <1>1 DEF Final, Released, TypeOK
<1>4. Withdrawn(v, t)
  BY <1>1, <1>2, <1>3, EndWithdraws
<1>5. /\ \E j \in Sides : approved[t][j]
      /\ seen[t] = offer[t]
  <2>1. approved[t][1 - Side(s)] /\ 1 - Side(s) \in Sides
    BY SideType DEF Final
  <2> QED
    BY <1>2, <2>1 DEF IInv, ApprovalCurrent
<1> HIDE DEF t
<1>6. CASE trader[t][0] = v <=> trader[t][1] = v
  BY <1>1, <1>2, <1>3, <1>4, <1>6, NotOneSide
<1>7. CASE ~(trader[t][0] = v <=> trader[t][1] = v)
  <2>1. PICK k \in Sides : trader[t][k] = v /\ trader[t][1 - k] # v
    <3>1. 0 \in Sides /\ 1 \in Sides /\ 1 - 0 = 1 /\ 1 - 1 = 0
      BY DEF Sides
    <3>2. CASE trader[t][0] = v
      BY <1>7, <3>1, <3>2
    <3>3. CASE trader[t][1] = v
      BY <1>7, <3>1, <3>3
    <3> QED
      BY <1>7, <3>2, <3>3
  <2>2. Worth(v)' = Minus(Plus(Worth(v), offer[t][1 - k]), offer[t][k])
    BY <1>2, <1>3, <1>4, <2>1, OneSide
  <2>3. Exchanged(v, t, k)
    BY <1>5, <2>1, <2>2 DEF Exchanged
  <2> QED
    BY <1>2, <2>3
<1> QED
  BY <1>6, <1>7

LEMMA ConsentKept ==
  IInv /\ SInv /\ CInv /\ NoRobes /\ IInv' /\ [Next]_vars => [ConsentedStep]_vars
<1> SUFFICES ASSUME IInv, SInv, CInv, NoRobes, IInv', Next PROVE ConsentedStep
  BY DEF vars
<1>0. TypeOK /\ TypeOK' /\ UNCHANGED robes
  BY DEF IInv, Next
<1> SUFFICES ASSUME NEW v \in Live, who'[v] = who[v]
             PROVE  Worth(v)' = Worth(v) \/ \E t \in used, k \in Sides : Exchanged(v, t, k)
  BY DEF ConsentedStep
<1>1. PICK s \in Slots :
        \/ Command(s)
        \/ \E r \in Rooms : Move(s, r)
        \/ Quit(s)
        \/ \E p \in Persons, r \in Rooms : Login(s, p, r)
  BY DEF Next
<1>2. CASE (\E x \in Slots : Request(s, x)) \/ Decline(s) \/ Approve(s)
  BY <1>0, <1>2, ConsentStill DEF Request, Decline, Approve, tradeVars
<1>3. CASE \E t \in Trades : Accept(s, t)
  BY <1>0, <1>3, ConsentAccept
<1>4. CASE Cancel(s) \/ Clear(s)
  BY <1>0, <1>4, ConsentEnd
<1>5. CASE Final(s)
  BY <1>0, <1>5, ConsentFinal
<1>6. CASE \/ \E c \in Currencies : AddCoins(s, c) \/ RemoveCoins(s, c)
           \/ \E i \in Items : AddItem(s, i) \/ AddRobe(s, i) \/ RemoveItem(s, i)
  BY <1>0, <1>6, ConsentOffer
<1>7. CASE \E r \in Rooms : Move(s, r)
  <2>1. CASE trade[s] = None
    BY <1>0, <1>7, <2>1, ConsentStill DEF Move, tradeVars
  <2>2. CASE trade[s] # None
    BY <1>0, <1>7, <2>2, ConsentEnd
  <2> QED
    BY <2>1, <2>2
<1>8. CASE Quit(s)
  <2>1. CASE trade[s] = None
    <3>1. v # s
      BY <1>0, <1>8 DEF Quit, Live, TypeOK
    <3>2. has'[v] = has[v] /\ UNCHANGED <<used, trader, offer>>
      BY <1>0, <1>8, <2>1, <3>1 DEF Quit, Live, tradeVars, TypeOK
    <3> QED
      BY <1>0, <3>2, ConsentStill
  <2>2. CASE trade[s] # None
    BY <1>0, <1>8, <2>2, ConsentEnd
  <2> QED
    BY <2>1, <2>2
<1>9. CASE \E p \in Persons, r \in Rooms : Login(s, p, r)
  <2>1. v # s
    BY <1>9 DEF Login, Live
  <2>2. has'[v] = has[v] /\ UNCHANGED <<used, trader, offer>>
    BY <1>0, <1>9, <2>1 DEF Login, tradeVars, TypeOK
  <2> QED
    BY <1>0, <2>2, ConsentStill
<1> QED
  BY <1>1, <1>2, <1>3, <1>4, <1>5, <1>6, <1>7, <1>8, <1>9 DEF Command

\* What belongs to somebody who stays changes by nothing but a swap that one
\* of the two had approved, and then by exactly what was on offer at that
\* approval: whatever is offered, taken back, cancelled or given back, and
\* whoever walks away or quits meanwhile.
THEOREM SwapsByConsent == Spec => Consent
<1>1. Init => IInv /\ SInv /\ CInv /\ NoRobes
  BY InitIInv, InitSInv, InitCInv, InitNoRobes
<1>2. IInv /\ SInv /\ CInv /\ NoRobes /\ [Next]_vars
        => IInv' /\ SInv' /\ CInv' /\ NoRobes' /\ [ConsentedStep]_vars
  BY Inductive, SoleInductive, CoinsInductive, RobesInductive, ConsentKept
<1> QED
  BY <1>1, <1>2, PTL DEF Spec, Consent
=============================================================================
