------------------------------- MODULE Trade -------------------------------
(***************************************************************************)
(* The trade command: two players in a room put coins and items into a     *)
(* TRADE_DATA, approve what the other one offers, and swap.                *)
(*                                                                         *)
(* A player character is a slot of memory (CHAR_DATA); the invitation      *)
(* (pcdata->req_trade), the pointer to the trade and the trade's two       *)
(* pointers to its traders are slots too, and nothing clears them when the *)
(* character they meant has left, so that they may come to mean another.   *)
(* Every action is one command, run to its end by the single thread of the *)
(* server.                                                                 *)
(*                                                                         *)
(* Goods are a record of an amount per currency and a set of items.  What  *)
(* is not here: PLR_NOTRADE and wraith form, which only refuse commands,   *)
(* and everything else that moves goods (giving, dropping, shops, decay).  *)
(***************************************************************************)
EXTENDS Naturals, FiniteSets, Functions

CONSTANTS
  Slots,       \* CHAR_DATA slots
  Persons,     \* people with a player file
  Trades,      \* TRADE_DATA slots (the bound on trades in use)
  Rooms,
  Currencies,  \* gold and silver, handled alike
  Items,
  None

ASSUME TradeAssumption ==
  /\ None \notin Slots \cup Persons \cup Trades \cup Rooms
  /\ IsFiniteSet(Slots) /\ IsFiniteSet(Persons) /\ IsFiniteSet(Trades)

VARIABLES
  who,       \* the person in a slot, None for a free one
  room,      \* ch->in_room
  has,       \* the goods a character carries
  req,       \* ch->pcdata->req_trade
  trade,     \* ch->trade
  used,      \* the TRADE_DATA in use
  trader,    \* trade->trader[]
  offer,     \* trade->gold[], silver[], items[]
  approved,  \* trade->approved[]
  file,      \* the goods in the player file
  robes,     \* the items with OBJ_VNUM_ROBES, which never change
  seen       \* history: both offers as they were at the last approval
             \* that still stands

tradeVars == <<used, trader, offer, approved, seen>>
vars == <<who, room, has, req, trade, used, trader, offer, approved, file, robes, seen>>

Sides == {0, 1}

Goods == [coins : [Currencies -> Nat], items : SUBSET Items]
Nothing == [coins |-> [c \in Currencies |-> 0], items |-> {}]
Plus(g, h) == [coins |-> [c \in Currencies |-> g.coins[c] + h.coins[c]],
               items |-> g.items \cup h.items]
Minus(g, h) == [coins |-> [c \in Currencies |-> g.coins[c] - h.coins[c]],
                items |-> g.items \ h.items]
Coins(c, n) == [Nothing EXCEPT !.coins[c] = n]
Item(i) == [Nothing EXCEPT !.items = {i}]

Empty == [k \in Sides |-> Nothing]
Unapproved == [k \in Sides |-> FALSE]
Live == {s \in Slots : who[s] # None}

TypeOK ==
  /\ who \in [Slots -> Persons \cup {None}]
  /\ room \in [Slots -> Rooms \cup {None}]
  /\ has \in [Slots -> Goods]
  /\ req \in [Slots -> Slots \cup {None}]
  /\ trade \in [Slots -> Trades \cup {None}]
  /\ used \subseteq Trades
  /\ trader \in [Trades -> [Sides -> Slots \cup {None}]]
  /\ offer \in [Trades -> [Sides -> Goods]]
  /\ approved \in [Trades -> [Sides -> BOOLEAN]]
  /\ file \in [Persons -> Goods]
  /\ robes \subseteq Items
  /\ seen \in [Trades -> [Sides -> Goods]]

\* Nobody is on line; the item of a player file is in no other.
Init ==
  /\ who = [s \in Slots |-> None]
  /\ room = [s \in Slots |-> None]
  /\ has = [s \in Slots |-> Nothing]
  /\ req = [s \in Slots |-> None]
  /\ trade = [s \in Slots |-> None]
  /\ used = {}
  /\ trader = [t \in Trades |-> [k \in Sides |-> None]]
  /\ offer = [t \in Trades |-> Empty]
  /\ approved = [t \in Trades |-> Unapproved]
  /\ file \in [Persons -> [coins : [Currencies -> {1}], items : SUBSET Items]]
  /\ \A p, q \in Persons : p # q => file[p].items \cap file[q].items = {}
  /\ robes \in SUBSET Items
  /\ seen = [t \in Trades |-> Empty]

-----------------------------------------------------------------------------
(***************************************************************************)
(* Building blocks.                                                        *)
(***************************************************************************)

\* Which side of its trade a character is; 0 when it trades with itself.
Side(s) == IF trader[trade[s]][0] = s THEN 0 ELSE 1

\* What slot s receives when side k of the trade t goes to to[k].
Due(t, to, s) ==
  Plus(IF to[0] = s THEN offer[t][0] ELSE Nothing,
       IF to[1] = s THEN offer[t][1] ELSE Nothing)

Delivered(t, to) == [s \in Slots |-> Plus(has[s], Due(t, to, s))]

Swapped(t) == [k \in Sides |-> trader[t][1 - k]]

\* Mutant: the offers are given back and stay in the trade.
EmptiedKept(t) ==
  /\ UNCHANGED offer
  /\ approved' = [approved EXCEPT ![t] = Unapproved]
  /\ seen' = [seen EXCEPT ![t] = Empty]

\* The offers and approvals of the trade are reset; those of a freed trade
\* when new_trade hands it out again.
Emptied(t) ==
  /\ offer' = [offer EXCEPT ![t] = Empty]
  /\ approved' = [approved EXCEPT ![t] = Unapproved]
  /\ seen' = [seen EXCEPT ![t] = Empty]

\* Mutant: only the first trader is let go.
ReleasedOne(t) ==
  /\ trade' = [s \in Slots |-> IF s = trader[t][0] THEN None ELSE trade[s]]
  /\ used' = used \ {t}
  /\ trader' = [trader EXCEPT ![t] = [k \in Sides |-> None]]
  /\ Emptied(t)

\* Both traders are let go and the trade is freed.
Released(t) ==
  /\ trade' = [s \in Slots |-> IF s \in {trader[t][0], trader[t][1]} THEN None
                               ELSE trade[s]]
  /\ used' = used \ {t}
  /\ trader' = [trader EXCEPT ![t] = [k \in Sides |-> None]]
  /\ Emptied(t)

\* destruct_trade with iFree: the offers go back to those who made them.
Destruct(t) == has' = Delivered(t, trader[t]) /\ Released(t)

-----------------------------------------------------------------------------
(***************************************************************************)
(* do_trade                                                                *)
(***************************************************************************)
Request(s, v) ==
  /\ s \in Live /\ v \in Live
  /\ room[s] = room[v]
  /\ trade[s] = None /\ trade[v] = None
  /\ req[s] = None
  /\ req' = [req EXCEPT ![v] = s]
  /\ UNCHANGED <<who, room, has, trade, tradeVars, file>>

\* Nothing of what Request looked at is looked at again: either may have a
\* trade by now, and the one who asked may have gone.
Accept(s, t) ==
  /\ s \in Live
  /\ req[s] # None
  /\ t \notin used
  /\ req' = [req EXCEPT ![s] = None]
  /\ used' = used \cup {t}
  /\ trader' = [trader EXCEPT ![t] = [k \in Sides |-> IF k = 0 THEN s ELSE req[s]]]
  /\ trade' = [trade EXCEPT ![s] = t, ![req[s]] = t]
  /\ UNCHANGED <<who, room, has, offer, approved, file, seen>>

Decline(s) ==
  /\ s \in Live
  /\ req[s] # None
  /\ req' = [req EXCEPT ![s] = None]
  /\ UNCHANGED <<who, room, has, trade, tradeVars, file>>

Cancel(s) ==
  /\ s \in Live
  /\ trade[s] # None
  /\ Destruct(trade[s])
  /\ UNCHANGED <<who, room, req, file>>

Clear(s) ==
  /\ s \in Live
  /\ trade[s] # None
  /\ has' = Delivered(trade[s], trader[trade[s]])
  /\ Emptied(trade[s])
  /\ UNCHANGED <<who, room, req, trade, used, trader, file>>

\* The first of the two approvals.
Approve(s) ==
  /\ s \in Live
  /\ trade[s] # None
  /\ ~approved[trade[s]][1 - Side(s)]
  /\ approved' = [approved EXCEPT ![trade[s]][Side(s)] = TRUE]
  /\ seen' = [seen EXCEPT ![trade[s]] = offer[trade[s]]]
  /\ UNCHANGED <<who, room, has, req, trade, used, trader, offer, file>>

\* Mutant: the approval of the other one is not asked for.
FinalUnchecked(s) ==
  /\ s \in Live
  /\ trade[s] # None
  /\ has' = Delivered(trade[s], Swapped(trade[s]))
  /\ Released(trade[s])
  /\ UNCHANGED <<who, room, req, file>>

\* The second one: the offers change hands.
Final(s) ==
  /\ s \in Live
  /\ trade[s] # None
  /\ approved[trade[s]][1 - Side(s)]
  /\ has' = Delivered(trade[s], Swapped(trade[s]))
  /\ Released(trade[s])
  /\ UNCHANGED <<who, room, req, file>>

\* Mutant: only the approval of the one who changes its offer is reset.
ResetOwn(t, k) ==
  /\ approved' = [approved EXCEPT ![t][k] = FALSE]
  /\ UNCHANGED seen

\* "Always reset approvals", before anything is looked at.
Reset(t, k) ==
  /\ approved' = [approved EXCEPT ![t] = Unapproved]
  /\ seen' = [seen EXCEPT ![t] = Empty]

\* Mutant: what is offered stays with the one who offers it.
AddCoinsKept(s, c) ==
  /\ s \in Live
  /\ trade[s] # None
  /\ \E n \in 0 .. has[s].coins[c] :
       offer' = [offer EXCEPT ![trade[s]][Side(s)] = Plus(@, Coins(c, n))]
  /\ Reset(trade[s], Side(s))
  /\ UNCHANGED <<who, room, has, req, trade, used, trader, file>>

\* Amount 0 is allowed; it stands also for the commands that are refused
\* after the reset.
AddCoins(s, c) ==
  /\ s \in Live
  /\ trade[s] # None
  /\ \E n \in 0 .. has[s].coins[c] :
       /\ has' = [has EXCEPT ![s] = Minus(@, Coins(c, n))]
       /\ offer' = [offer EXCEPT ![trade[s]][Side(s)] = Plus(@, Coins(c, n))]
  /\ Reset(trade[s], Side(s))
  /\ UNCHANGED <<who, room, req, trade, used, trader, file>>

\* Mutant: one more than offered can be removed.
RemoveOneMore(s, c) ==
  /\ s \in Live
  /\ trade[s] # None
  /\ \E n \in 1 .. offer[trade[s]][Side(s)].coins[c] + 1 :
       /\ has' = [has EXCEPT ![s] = Plus(@, Coins(c, n))]
       /\ offer' = [offer EXCEPT ![trade[s]][Side(s)] = Minus(@, Coins(c, n))]
  /\ Reset(trade[s], Side(s))
  /\ UNCHANGED <<who, room, req, trade, used, trader, file>>

RemoveCoins(s, c) ==
  /\ s \in Live
  /\ trade[s] # None
  /\ \E n \in 1 .. offer[trade[s]][Side(s)].coins[c] :
       /\ has' = [has EXCEPT ![s] = Plus(@, Coins(c, n))]
       /\ offer' = [offer EXCEPT ![trade[s]][Side(s)] = Minus(@, Coins(c, n))]
  /\ Reset(trade[s], Side(s))
  /\ UNCHANGED <<who, room, req, trade, used, trader, file>>

AddItem(s, i) ==
  /\ s \in Live
  /\ trade[s] # None
  /\ i \in has[s].items \ robes
  /\ has' = [has EXCEPT ![s] = Minus(@, Item(i))]
  /\ offer' = [offer EXCEPT ![trade[s]][Side(s)] = Plus(@, Item(i))]
  /\ Reset(trade[s], Side(s))
  /\ UNCHANGED <<who, room, req, trade, used, trader, file>>

\* obj_to_trade refuses a robe, after obj_from_char has taken it away.
AddRobe(s, i) ==
  /\ s \in Live
  /\ trade[s] # None
  /\ i \in has[s].items \cap robes
  /\ has' = [has EXCEPT ![s] = Minus(@, Item(i))]
  /\ Reset(trade[s], Side(s))
  /\ UNCHANGED <<who, room, req, trade, used, trader, offer, file>>

RemoveItem(s, i) ==
  /\ s \in Live
  /\ trade[s] # None
  /\ i \in offer[trade[s]][Side(s)].items
  /\ has' = [has EXCEPT ![s] = Plus(@, Item(i))]
  /\ offer' = [offer EXCEPT ![trade[s]][Side(s)] = Minus(@, Item(i))]
  /\ Reset(trade[s], Side(s))
  /\ UNCHANGED <<who, room, req, trade, used, trader, file>>

-----------------------------------------------------------------------------
(***************************************************************************)
(* What happens to the traders meanwhile.                                  *)
(***************************************************************************)

\* Any way to another room: walking, recall, a summons, death.
Move(s, r) ==
  /\ s \in Live
  /\ r # room[s]
  /\ room' = [room EXCEPT ![s] = r]
  /\ IF trade[s] = None THEN UNCHANGED <<has, trade, tradeVars>>
     ELSE Destruct(trade[s])
  /\ UNCHANGED <<who, req, file>>

\* do_quit saves, then extracts the character: its items first, then it is
\* taken from the room, where its trade is destructed, and freed.
Quit(s) ==
  /\ s \in Live
  /\ file' = [file EXCEPT ![who[s]] = has[s]]
  /\ who' = [who EXCEPT ![s] = None]
  /\ room' = [room EXCEPT ![s] = None]
  /\ req' = [req EXCEPT ![s] = None]
  /\ IF trade[s] = None
     THEN has' = [has EXCEPT ![s] = Nothing] /\ UNCHANGED <<trade, tradeVars>>
     ELSE LET t == trade[s]
          IN  /\ has' = [Delivered(t, trader[t]) EXCEPT ![s] = Nothing]
              /\ Released(t)

\* A person comes into the game in a slot taken from the free list, whatever
\* still points to it.
Login(s, p, r) ==
  /\ who[s] = None
  /\ \A v \in Slots : who[v] # p
  /\ who' = [who EXCEPT ![s] = p]
  /\ room' = [room EXCEPT ![s] = r]
  /\ has' = [has EXCEPT ![s] = file[p]]
  /\ req' = [req EXCEPT ![s] = None]
  /\ trade' = [trade EXCEPT ![s] = None]
  /\ UNCHANGED <<tradeVars, file>>

-----------------------------------------------------------------------------
Command(s) ==
  \/ \E v \in Slots : Request(s, v)
  \/ \E t \in Trades : Accept(s, t)
  \/ Decline(s) \/ Cancel(s) \/ Clear(s) \/ Approve(s) \/ Final(s)
  \/ \E c \in Currencies : AddCoins(s, c) \/ RemoveCoins(s, c)
  \/ \E i \in Items : AddItem(s, i) \/ AddRobe(s, i) \/ RemoveItem(s, i)

Next ==
  /\ \E s \in Slots :
       \/ Command(s)
       \/ \E r \in Rooms : Move(s, r)
       \/ Quit(s)
       \/ \E p \in Persons, r \in Rooms : Login(s, p, r)
  /\ UNCHANGED robes

Spec == Init /\ [][Next]_vars

-----------------------------------------------------------------------------
(***************************************************************************)
(* Properties.                                                             *)
(***************************************************************************)

\* However many invitations overlap and whoever leaves in between, the trade
\* a character points to is in use and the character is one of its traders:
\* no command ever works on a freed trade or for the wrong side.
Linked ==
  \A s \in Slots : trade[s] # None =>
    trade[s] \in used /\ s \in {trader[trade[s]][0], trader[trade[s]][1]}

\* An approval is always for the offers as they are now: nothing changes
\* either of them and leaves an approval standing (the resets in add, remove
\* and clear).
ApprovalCurrent ==
  \A t \in Trades, k \in Sides : approved[t][k] => seen[t] = offer[t]

\* The places where goods that exist are: with the characters in the world,
\* in the trades, and in the files of the people not in the world.
OffLine == {p \in Persons : \A s \in Slots : who[s] # p}
Places == {<<"char", s>> : s \in Live} \cup {<<"file", p>> : p \in OffLine}
            \cup {<<"trade", t, k>> : t \in used, k \in Sides}
At(x) == IF x[1] = "char" THEN has[x[2]]
         ELSE IF x[1] = "file" THEN file[x[2]] ELSE offer[x[2]][x[3]]

\* No item is in two places: whatever offers are swapped, given back, or lost,
\* and whoever is invited by whom (destruct_trade, the swap in do_trade).
\* Robes, refused and lost, are among the items.
ItemsApart == \A x, y \in Places : x # y => At(x).items \cap At(y).items = {}

\* No coin is made by putting it into an offer, taking it back, swapping or
\* leaving: there are never more than there were in the files.
CoinsNotMade ==
  \A c \in Currencies :
    SumFunction([x \in Places |-> At(x).coins[c]]) <= Cardinality(Persons)

\* All that belongs to the character in a slot: what it carries and what it
\* has put into trades.  Robes are left out, the refused ones being lost.
Worth(s) ==
  LET mine == {m \in used \X Sides : trader[m[1]][m[2]] = s}
  IN  [coins |-> [c \in Currencies |->
                    has[s].coins[c] + SumFunction([m \in mine |-> offer[m[1]][m[2]].coins[c]])],
       items |-> (has[s].items \cup UNION {offer[m[1]][m[2]].items : m \in mine}) \ robes]

\* Side k of a trade is done: it has given what it offered for what the other
\* side offered, as both stood when the first of them approved.
Exchanged(s, t, k) ==
  /\ trader[t][k] = s
  /\ \E j \in Sides : approved[t][j]
  /\ Worth(s)' = Minus(Plus(Worth(s), seen[t][1 - k]), seen[t][k])

\* While a person stays, what belongs to it changes only by the swap that one
\* of the two had approved before, with exactly the goods that were on offer
\* at that approval.
ConsentedStep ==
  \A s \in Live : who'[s] = who[s] =>
    Worth(s)' = Worth(s) \/ \E t \in used, k \in Sides : Exchanged(s, t, k)

Consent == [][ConsentedStep]_vars

-----------------------------------------------------------------------------
(***************************************************************************)
(* What the comments, messages and help texts say and the code does not do.*)
(***************************************************************************)

\* char_from_room: "If this person is involved with a trade, it needs to be
\* completely cancelled".
LeavingCancels ==
  [][\A s \in Live, t \in used :
       room'[s] # room[s] /\ s \in {trader[t][0], trader[t][1]} => t \notin used']_vars

\* help quit: "QUIT automatically does a SAVE, so you can safely leave the
\* game with just one command": who quits finds its goods in its file.
QuitKeeps ==
  [][\A s \in Live : who'[s] = None =>
       /\ file'[who[s]].coins = Worth(s).coins
       /\ file'[who[s]].items \ robes = Worth(s).items]_vars
=============================================================================
