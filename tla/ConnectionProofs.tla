-------------------------- MODULE ConnectionProofs --------------------------
(***************************************************************************)
(* Proofs that the invariants of Connection hold, and that it implements   *)
(* Session, for any number of descriptors, characters and names.           *)
(*                                                                         *)
(* The argument.  What makes a second body impossible is not looked for    *)
(* when a body enters: it is that check_parse_name leaves at most one      *)
(* descriptor in the login states per name (OneLogin), so that a           *)
(* descriptor which found nobody of its name in the world when it passed   *)
(* the password can rely on it until it enters (AlonePending).             *)
(*                                                                         *)
(* What a person quit with is kept because all characters of its name are  *)
(* one person, with the id of its file (OnePerson): do_quit's loop over    *)
(* the ids then leaves none of them, unless the name is in twice.          *)
(*                                                                         *)
(* The same invariants make the mapping to Session a simple one (View): as *)
(* there is one body of a name at most, what the world sees of the name is *)
(* that body's descriptor.  A handler then changes the bodies of one name, *)
(* or none, or all of them (Crash).                                        *)
(***************************************************************************)
EXTENDS Connection, TLAPS

\* Descriptors and the characters they hold.
DescsOK ==
  \A d \in Descs :
    /\ conn[d] = "Free" => char[d] = None
    /\ conn[d] \notin {"Free", "GetName"} => char[d] # None
    /\ char[d] # None =>
         /\ name[char[d]] # None
         /\ desc[char[d]] = d
         /\ char[d] \in inGame <=> conn[d] = "Playing"

\* Characters: in use exactly when they have an id; in the world or held by a
\* descriptor when in use; their descriptor, if any, holds them.
CharsOK ==
  \A c \in Chars :
    /\ name[c] = None <=> pid[c] = None
    /\ c \in inGame => name[c] # None
    /\ name[c] # None => c \in inGame \/ desc[c] # None
    /\ desc[c] # None => char[desc[c]] = c

\* At most one descriptor per name on the way into the world.
OneLogin ==
  \A d, e \in Descs :
    /\ char[d] # None /\ conn[d] # "Playing"
    /\ char[e] # None /\ conn[e] # "Playing"
    /\ name[char[d]] = name[char[e]]
    => d = e

\* Past the password, or new, a descriptor is alone with its name.
AlonePending ==
  \A d \in Descs, c \in Chars :
    conn[d] \in {"ConfirmNewName", "Creating", "ReadMotd"} /\ c \in inGame
      => name[c] # name[char[d]]

\* An id belongs to one name.
IdsOK ==
  /\ \A b, c \in Chars : pid[b] # None /\ pid[b] = pid[c] => name[b] = name[c]
  /\ \A n \in Names, c \in Chars :
       pfile[n] # None /\ pid[c] = pfile[n].id => name[c] = n
  /\ \A m, n \in Names :
       pfile[m] # None /\ pfile[n] # None /\ pfile[m].id = pfile[n].id => m = n

\* The characters of a name are one person, the one of its file, unless a
\* second one was let in; and what was never saved was never quit with.
OnePerson ==
  /\ \A n \in Names \ twice, b, c \in Chars :
       name[b] = n /\ name[c] = n => pid[b] = pid[c]
  /\ \A n \in Names \ twice, c \in Chars :
       name[c] = n /\ pfile[n] # None => pid[c] = pfile[n].id
  /\ \A n \in Names : pfile[n] = None => atQuit[n] = 0

Durable == OnePerson /\ QuitDurable

Structure == DescsOK /\ CharsOK /\ OneBody /\ OneLogin /\ AlonePending

IInv == TypeOK /\ Structure /\ IdsOK /\ Durable

LEMMA InitIInv == Init => IInv
<1> SUFFICES ASSUME Init PROVE IInv
  OBVIOUS
<1>1. TypeOK
  <2>1. \A n \in Names : pfile[n] # None => pfile[n].data \in 0 .. MaxData
    BY DEF Init, Files
  <2>2. atQuit \in [Names -> 0 .. MaxData]
    BY <2>1, ConstAssumption DEF Init
  <2> QED
    BY <2>2, ConstAssumption DEF Init, TypeOK, ConnStates, LoginStates
<1>2. Structure
  BY DEF Init, Structure, DescsOK, CharsOK, OneBody, OneLogin, AlonePending
<1>3. IdsOK
  BY ConstAssumption DEF Init, IdsOK, Files
<1>4. Durable
  BY <1>1, ConstAssumption DEF Init, Durable, OnePerson, QuitDurable, TypeOK, Files
<1> QED
  BY <1>1, <1>2, <1>3, <1>4 DEF IInv

-----------------------------------------------------------------------------
(***************************************************************************)
(* Closing descriptors and freeing characters.                             *)
(***************************************************************************)

\* What Close leaves of the links and of the characters, when the freed ones
\* leave the world and their descriptors are among those closed.
LEMMA CloseStep ==
  ASSUME IInv,
         NEW D \in SUBSET Descs, NEW E \in SUBSET Chars,
         Close(D, E),
         inGame' = inGame \ E,
         \A x \in E : desc[x] # None => desc[x] \in D
  PROVE  /\ conn' \in [Descs -> ConnStates]
         /\ char' \in [Descs -> Chars \cup {None}]
         /\ desc' \in [Chars -> Descs \cup {None}]
         /\ name' \in [Chars -> Names \cup {None}]
         /\ pid' \in [Chars -> Ids \cup {None}]
         /\ data' \in [Chars -> 0 .. MaxData]
         /\ inGame' \subseteq Chars
         /\ Structure'
         /\ \A c \in Chars : name'[c] # None =>
              /\ c \notin Freed(D) \cup E
              /\ name'[c] = name[c] /\ pid'[c] = pid[c] /\ data'[c] = data[c]
         /\ \A c \in Chars : name'[c] = None => pid'[c] = None
<1> DEFINE Dead == Freed(D) \cup E
<1>t. TypeOK
  BY DEF IInv
<1>s. DescsOK /\ CharsOK /\ OneBody /\ OneLogin /\ AlonePending
  BY DEF IInv, Structure
<1>1. /\ conn' \in [Descs -> ConnStates]
      /\ char' \in [Descs -> Chars \cup {None}]
      /\ desc' \in [Chars -> Descs \cup {None}]
      /\ name' \in [Chars -> Names \cup {None}]
      /\ pid' \in [Chars -> Ids \cup {None}]
      /\ data' \in [Chars -> 0 .. MaxData]
      /\ inGame' \subseteq Chars
  BY <1>t, ConstAssumption DEF TypeOK, Close, ConnStates, LoginStates
<1>2. \A c \in Chars : c \notin Dead =>
        name'[c] = name[c] /\ pid'[c] = pid[c] /\ data'[c] = data[c]
  BY <1>t DEF Close, TypeOK
<1>3. \A c \in Dead : name'[c] = None /\ pid'[c] = None /\ desc'[c] = None
  <2>1. Freed(D) \subseteq Held(D) /\ Dead \subseteq Chars
    BY <1>t DEF Freed, Held, TypeOK
  <2> QED
    BY <2>1, <1>t DEF Close, TypeOK
<1>4. \A c \in Freed(D) : c \in Chars /\ c \notin inGame
  BY <1>t, <1>s DEF Freed, DescsOK, TypeOK
<1>5. \A d \in Descs : d \notin D /\ char[d] # None =>
        char[d] \in Chars /\ char[d] \notin Held(D) /\ char[d] \notin Dead
  <2> SUFFICES ASSUME NEW d \in Descs, d \notin D, char[d] # None
               PROVE  char[d] \in Chars /\ char[d] \notin Held(D) /\ char[d] \notin Dead
    OBVIOUS
  <2>1. char[d] \in Chars /\ desc[char[d]] = d
    BY <1>t, <1>s DEF DescsOK, TypeOK
  <2>2. char[d] \notin Held(D) /\ char[d] \notin Freed(D)
    BY <2>1, <1>s DEF Held, Freed, DescsOK
  <2>3. char[d] \notin E
    BY <2>1, ConstAssumption
  <2> QED
    BY <2>1, <2>2, <2>3
<1>6. /\ \A d \in D : conn'[d] = "Free" /\ char'[d] = None
      /\ \A d \in Descs : d \notin D => conn'[d] = conn[d] /\ char'[d] = char[d]
  BY <1>t DEF Close, TypeOK
<1>7. DescsOK'
  <2>1. \A d \in Descs : d \notin D /\ char[d] # None =>
          desc'[char[d]] = desc[char[d]] /\ name'[char[d]] = name[char[d]]
          /\ (char[d] \in inGame' <=> char[d] \in inGame)
    <3> SUFFICES ASSUME NEW d \in Descs, d \notin D, char[d] # None
                 PROVE  desc'[char[d]] = desc[char[d]] /\ name'[char[d]] = name[char[d]]
                        /\ (char[d] \in inGame' <=> char[d] \in inGame)
      OBVIOUS
    <3>1. char[d] \in Chars /\ char[d] \notin Held(D) /\ char[d] \notin Freed(D) /\ char[d] \notin E
      BY <1>5
    <3> QED
      BY <3>1, <1>t DEF Close, TypeOK
  <2> QED
    BY <2>1, <1>6, <1>s DEF DescsOK
<1>8. CharsOK'
  <2> SUFFICES ASSUME NEW c \in Chars
               PROVE  /\ name'[c] = None <=> pid'[c] = None
                      /\ c \in inGame' => name'[c] # None
                      /\ name'[c] # None => c \in inGame' \/ desc'[c] # None
                      /\ desc'[c] # None => char'[desc'[c]] = c
    BY DEF CharsOK
  <2>1. CASE c \in Dead
    BY <2>1, <1>3, <1>4
  <2>2. CASE c \notin Dead /\ c \in Held(D)
    <3>1. desc'[c] = None
      BY <2>2, <1>t DEF Close, TypeOK
    <3>2. c \in inGame
      BY <2>2, <1>t, <1>s DEF Held, Freed, DescsOK, TypeOK
    <3> QED
      BY <3>1, <3>2, <2>2, <1>2, <1>s DEF CharsOK
  <2>3. CASE c \notin Dead /\ c \notin Held(D)
    <3>1. desc'[c] = desc[c]
      BY <2>3, <1>t DEF Close, TypeOK
    <3>2. desc[c] # None => desc[c] \in Descs /\ char[desc[c]] = c /\ desc[c] \notin D
      BY <2>3, <1>t, <1>s, ConstAssumption DEF Held, CharsOK, TypeOK
    <3>3. desc'[c] # None => char'[desc'[c]] = c
      BY <3>1, <3>2, <1>6
    <3> QED
      BY <3>1, <3>3, <2>3, <1>2, <1>s DEF CharsOK
  <2> QED
    BY <2>1, <2>2, <2>3
<1>9. OneBody'
  BY <1>2, <1>4, <1>s, <1>1, <1>t DEF OneBody, TypeOK
<1>10. OneLogin'
  <2>1. \A d \in Descs : char'[d] # None =>
          char'[d] = char[d] /\ conn'[d] = conn[d] /\ name'[char[d]] = name[char[d]]
    BY <1>6, <1>5, <1>2
  <2> QED
    BY <2>1, <1>s DEF OneLogin
<1>11. AlonePending'
  <2> SUFFICES ASSUME NEW d \in Descs, NEW c \in Chars,
                      conn'[d] \in {"ConfirmNewName", "Creating", "ReadMotd"},
                      c \in inGame'
               PROVE  name'[c] # name'[char'[d]]
    BY DEF AlonePending
  <2>1. d \notin D /\ conn'[d] = conn[d] /\ char'[d] = char[d] /\ char[d] # None
    BY <1>6, <1>s  DEF DescsOK
  <2>2. name'[char[d]] = name[char[d]] /\ name'[c] = name[c]
    BY <2>1, <1>5, <1>2, <1>4
  <2> QED
    BY <2>1, <2>2, <1>s DEF AlonePending
<1>12. \A c \in Chars : name'[c] # None => c \notin Dead
  BY <1>3
<1>13. \A c \in Chars : name'[c] = None => pid'[c] = None
  BY <1>8 DEF CharsOK
<1> QED
  BY <1>1, <1>7, <1>8, <1>9, <1>10, <1>11, <1>12, <1>2, <1>13 DEF Structure

\* The files a step may leave: unchanged, or with the one of a character in
\* use written or removed.
FileStep ==
  \/ pfile' = pfile
  \/ \E c \in Chars : /\ name[c] # None
                       /\ pfile' \in {Written(c), [pfile EXCEPT ![name[c]] = None]}

LEMMA FileTypes ==
  ASSUME IInv, FileStep
  PROVE  /\ pfile' \in [Names -> Files \cup {None}]
         /\ \A n \in Names : pfile'[n] # None =>
              \/ pfile'[n] = pfile[n]
              \/ \E c \in Chars : /\ name[c] = n
                                   /\ pfile'[n] = [id |-> pid[c], data |-> data[c]]
<1>t. TypeOK /\ CharsOK
  BY DEF IInv, Structure
<1>1. CASE pfile' = pfile
  BY <1>1, <1>t DEF TypeOK
<1>2. ASSUME NEW c \in Chars, name[c] # None,
             pfile' \in {Written(c), [pfile EXCEPT ![name[c]] = None]}
      PROVE  /\ pfile' \in [Names -> Files \cup {None}]
             /\ \A n \in Names : pfile'[n] # None =>
                  \/ pfile'[n] = pfile[n]
                  \/ /\ name[c] = n
                     /\ pfile'[n] = [id |-> pid[c], data |-> data[c]]
  <2>1. name[c] \in Names /\ pid[c] \in Ids /\ data[c] \in 0 .. MaxData
    BY <1>2, <1>t DEF TypeOK, CharsOK
  <2>2. [id |-> pid[c], data |-> data[c]] \in Files
    BY <2>1 DEF Files
  <2> QED
    BY <1>2, <2>1, <2>2, <1>t DEF TypeOK, Written
<1> QED
  BY <1>1, <1>2 DEF FileStep

\* The ids keep belonging to one name when characters are only freed.
LEMMA FileIds ==
  ASSUME IInv, FileStep,
         \A c \in Chars : name'[c] # None => name'[c] = name[c] /\ pid'[c] = pid[c],
         \A c \in Chars : name'[c] = None => pid'[c] = None
  PROVE  IdsOK'
<1>t. TypeOK /\ IdsOK /\ CharsOK
  BY DEF IInv, Structure
<1>1. \A c \in Chars : pid'[c] # None =>
        name'[c] = name[c] /\ pid'[c] = pid[c] /\ name[c] # None
  OBVIOUS
<1>2. \A n \in Names : pfile'[n] # None =>
        \/ pfile[n] # None /\ pfile'[n].id = pfile[n].id
        \/ \E c \in Chars : name[c] = n /\ pfile'[n].id = pid[c] /\ pid[c] # None
  BY FileTypes, <1>t, ConstAssumption DEF CharsOK
<1>3. \A n \in Names : pfile[n] # None => pfile[n].id # None
  BY <1>t, ConstAssumption DEF TypeOK, Files
<1>4. \A b, c \in Chars : pid'[b] # None /\ pid'[b] = pid'[c] => name'[b] = name'[c]
  BY <1>1, <1>t DEF IdsOK
<1>5. ASSUME NEW n \in Names, NEW c \in Chars, pfile'[n] # None, pid'[c] = pfile'[n].id
      PROVE  name'[c] = n
  <2>1. pid'[c] # None
    BY <1>5, <1>2, <1>3
  <2>2. name'[c] = name[c] /\ pid[c] = pfile'[n].id /\ pid[c] # None
    BY <2>1, <1>1, <1>5
  <2> QED
    BY <2>2, <1>5, <1>2, <1>t DEF IdsOK
<1>6. ASSUME NEW m \in Names, NEW n \in Names, pfile'[m] # None, pfile'[n] # None,
             pfile'[m].id = pfile'[n].id
      PROVE  m = n
  BY <1>6, <1>2, <1>t DEF IdsOK
<1> QED
  BY <1>4, <1>5, <1>6 DEF IdsOK

\* The file of a character in use is written, or none.
WriteStep ==
  \/ pfile' = pfile
  \/ \E c \in Chars : name[c] # None /\ pfile' = Written(c)

\* Characters that stay themselves and lose nothing, with at most one file
\* written, while nobody quits and nobody is loaded.
LEMMA DurableStep ==
  ASSUME IInv, WriteStep, UNCHANGED history,
         \A c \in Chars : name'[c] # None =>
           name'[c] = name[c] /\ pid'[c] = pid[c] /\ data'[c] \in Nat /\ data'[c] >= data[c]
  PROVE  Durable'
<1>t. TypeOK /\ CharsOK /\ OnePerson /\ QuitDurable
  BY DEF IInv, Structure, Durable
<1>1. atQuit' = atQuit /\ twice' = twice
  BY DEF history
<1>2. FileStep
  BY DEF FileStep, WriteStep
<1>3. \A n \in Names : pfile'[n] # None =>
        \/ pfile'[n] = pfile[n]
        \/ \E c \in Chars : /\ name[c] = n
                             /\ pfile'[n] = [id |-> pid[c], data |-> data[c]]
  BY <1>2, FileTypes
<1>4. \A n \in Names : pfile'[n] = None => pfile[n] = None
  <2>1. CASE pfile' = pfile
    BY <2>1
  <2>2. ASSUME NEW c \in Chars, name[c] # None, pfile' = Written(c)
        PROVE  \A n \in Names : pfile'[n] = None => pfile[n] = None
    <3>1. name[c] \in Names /\ [id |-> pid[c], data |-> data[c]] \in Files
      BY <2>2, <1>t DEF TypeOK, CharsOK, Files
    <3>2. [id |-> pid[c], data |-> data[c]] # None
      BY <3>1, ConstAssumption
    <3> QED
      BY <2>2, <3>1, <3>2, <1>t DEF Written, TypeOK
  <2> QED
    BY <2>1, <2>2 DEF WriteStep
<1>5. \A c \in Chars, n \in Names : name'[c] = n =>
        name[c] = n /\ pid'[c] = pid[c] /\ data'[c] >= data[c] /\ data'[c] \in Nat
        /\ data[c] \in Nat
  BY <1>t, ConstAssumption DEF TypeOK
<1>6. OnePerson'
  <2>1. ASSUME NEW n \in Names \ twice, NEW b \in Chars, name'[b] = n, pfile'[n] # None
        PROVE  pid'[b] = pfile'[n].id
    <3>1. CASE pfile'[n] = pfile[n]
      BY <2>1, <3>1, <1>5, <1>t DEF OnePerson
    <3>2. ASSUME NEW c \in Chars, name[c] = n, pfile'[n] = [id |-> pid[c], data |-> data[c]]
          PROVE  pid'[b] = pfile'[n].id
      <4>1. pid[b] = pid[c]
        BY <2>1, <3>2, <1>5, <1>t DEF OnePerson
      <4> QED
        BY <2>1, <3>2, <4>1, <1>5
    <3> QED
      BY <3>1, <3>2, <2>1, <1>3
  <2>2. \A n \in Names \ twice, b, c \in Chars :
          name'[b] = n /\ name'[c] = n => pid'[b] = pid'[c]
    BY <1>5, <1>t DEF OnePerson
  <2>3. \A n \in Names : pfile'[n] = None => atQuit[n] = 0
    BY <1>4, <1>t DEF OnePerson
  <2> QED
    BY <2>1, <2>2, <2>3, <1>1 DEF OnePerson
<1>7. QuitDurable'
  <2>1. ASSUME NEW n \in Names \ twice, NEW c \in Chars, name'[c] = n
        PROVE  data'[c] >= atQuit[n]
    <3>1. data[c] >= atQuit[n] /\ atQuit[n] \in Nat
      BY <2>1, <1>5, <1>t DEF QuitDurable, TypeOK
    <3> QED
      BY <3>1, <2>1, <1>5
  <2>2. ASSUME NEW n \in Names \ twice, pfile'[n] # None
        PROVE  pfile'[n].data >= atQuit[n]
    <3>1. CASE pfile'[n] = pfile[n]
      BY <3>1, <2>2, <1>t DEF QuitDurable
    <3>2. ASSUME NEW c \in Chars, name[c] = n, pfile'[n] = [id |-> pid[c], data |-> data[c]]
          PROVE  pfile'[n].data >= atQuit[n]
      BY <3>2, <1>t DEF QuitDurable
    <3> QED
      BY <3>1, <3>2, <2>2, <1>3
  <2> QED
    BY <2>1, <2>2, <1>1 DEF QuitDurable
<1> QED
  BY <1>6, <1>7 DEF Durable

\* Closing, with at most one file written, and nobody quits.
LEMMA CloseWrite ==
  ASSUME IInv,
         NEW D \in SUBSET Descs, NEW E \in SUBSET Chars,
         Close(D, E),
         inGame' = inGame \ E,
         \A x \in E : desc[x] # None => desc[x] \in D,
         WriteStep, UNCHANGED history
  PROVE  IInv'
<1>f. FileStep
  BY DEF FileStep, WriteStep
<1>1. TypeOK'
  BY <1>f, CloseStep, FileTypes DEF IInv, TypeOK, history
<1>2. Structure'
  BY CloseStep
<1>3. IdsOK'
  BY <1>f, CloseStep, FileIds
<1>4. \A c \in Chars : name'[c] # None =>
        name'[c] = name[c] /\ pid'[c] = pid[c] /\ data'[c] = data[c]
  BY CloseStep
<1>5. \A c \in Chars : data[c] \in Nat
  BY DEF IInv, TypeOK
<1>6. Durable'
  BY <1>4, <1>5, DurableStep
<1> QED
  BY <1>1, <1>2, <1>3, <1>6 DEF IInv

LEMMA DoubleNewbieStep ==
  ASSUME IInv, NEW d \in Descs, NEW n \in Names, DoubleNewbie(d, n)
  PROVE  IInv'
<1>1. Doubles(n) \subseteq Descs
  BY DEF Doubles, Holders
<1> QED
  BY <1>1, CloseWrite, inGame' = inGame \ {} DEF DoubleNewbie, WriteStep

LEMMA PurgeStep ==
  ASSUME IInv, NEW c \in Chars, Purge(c)
  PROVE  IInv'
<1>1. {desc[c]} \ {None} \subseteq Descs
  BY DEF IInv, TypeOK
<1>2. name[c] # None
  BY DEF Purge, IInv, Structure, CharsOK
<1>3. WriteStep
  BY <1>2 DEF Purge, WriteStep
<1> QED
  BY <1>1, <1>3, CloseWrite DEF Purge

LEMMA HangUpStep ==
  ASSUME IInv, NEW d \in Descs, HangUp(d)
  PROVE  IInv'
<1>1. WriteStep
  <2>1. CASE char[d] = None
    BY <2>1 DEF HangUp, Saves, WriteStep
  <2>2. CASE char[d] # None
    <3>1. char[d] \in Chars /\ name[char[d]] # None
      BY <2>2 DEF IInv, TypeOK, Structure, DescsOK
    <3> QED
      BY <3>1 DEF HangUp, WriteStep
  <2> QED
    BY <2>1, <2>2
<1> QED
  BY <1>1, CloseWrite, inGame' = inGame \ {} DEF HangUp

LEMMA DisconnectStep ==
  ASSUME IInv, NEW d \in Descs, Disconnect(d)
  PROVE  IInv'
BY CloseWrite, inGame' = inGame \ {} DEF Disconnect, WriteStep

LEMMA CrashStep ==
  ASSUME IInv, Crash
  PROVE  IInv'
<1>1. \A c \in Chars : desc[c] # None => desc[c] \in Descs
  BY DEF IInv, TypeOK
<1>2. inGame' = inGame \ Chars
  BY DEF IInv, TypeOK, Crash
<1> QED
  BY <1>1, <1>2, CloseWrite DEF Crash, WriteStep

-----------------------------------------------------------------------------
(***************************************************************************)
(* do_quit.                                                                *)
(***************************************************************************)

\* do_quit, whatever becomes of the file, as long as it is not older than
\* what the person leaves with.
LEMMA LeaveStep ==
  ASSUME IInv, NEW c \in Chars, c \in inGame, NEW f,
         Leave(c, f),
         f \in {Written(c), [pfile EXCEPT ![name[c]] = None]}
  PROVE  IInv'
<1> DEFINE D == SamePerson(c)
           gone == Held(D) \cup {c}
<1>t. TypeOK /\ DescsOK /\ CharsOK /\ OneBody /\ IdsOK /\ OnePerson /\ QuitDurable
  BY DEF IInv, Structure, Durable
<1>1. D \in SUBSET Descs /\ gone \in SUBSET Chars
  BY <1>t DEF SamePerson, Held, TypeOK
<1>2. \A x \in gone : desc[x] # None => desc[x] \in D
  BY <1>1, <1>t DEF SamePerson, Held, DescsOK
<1>3. Close(D, gone) /\ inGame' = inGame \ gone
  BY DEF Leave
<1>4. /\ conn' \in [Descs -> ConnStates]
      /\ char' \in [Descs -> Chars \cup {None}]
      /\ desc' \in [Chars -> Descs \cup {None}]
      /\ name' \in [Chars -> Names \cup {None}]
      /\ pid' \in [Chars -> Ids \cup {None}]
      /\ data' \in [Chars -> 0 .. MaxData]
      /\ inGame' \subseteq Chars
      /\ Structure'
      /\ \A x \in Chars : name'[x] # None =>
           /\ x \notin gone
           /\ name'[x] = name[x] /\ pid'[x] = pid[x] /\ data'[x] = data[x]
      /\ \A x \in Chars : name'[x] = None => pid'[x] = None
  <2> HIDE DEF D, gone
  <2>1. \A x \in Chars : name'[x] # None =>
           x \notin Freed(D) \cup gone
           /\ name'[x] = name[x] /\ pid'[x] = pid[x] /\ data'[x] = data[x]
    BY <1>1, <1>2, <1>3, CloseStep
  <2> QED
    BY <2>1, <1>1, <1>2, <1>3, CloseStep
<1>5. name[c] # None /\ name[c] \in Names /\ pid[c] \in Ids /\ data[c] \in 0 .. MaxData
  BY <1>t DEF TypeOK, CharsOK
<1>6. FileStep
  BY <1>5 DEF Leave, FileStep
<1> DEFINE n == name[c]
<1>7. /\ atQuit' = [atQuit EXCEPT ![n] = IF f[n] = None THEN 0 ELSE data[c]]
      /\ twice' = IF \E x \in Chars \ gone : name[x] = n THEN twice ELSE twice \ {n}
      /\ pfile' = f
  BY DEF Leave
<1>8. TypeOK'
  <2>1. 0 \in 0 .. MaxData
    BY ConstAssumption
  <2> QED
    BY <2>1, <1>4, <1>5, <1>6, <1>7, <1>t, FileTypes DEF TypeOK
<1>9. IdsOK'
  BY <1>4, <1>6, FileIds
<1>10. n \notin twice => \A x \in Chars \ gone : name[x] # n
  <2> SUFFICES ASSUME n \notin twice, NEW x \in Chars \ gone, name[x] = n
               PROVE  FALSE
    OBVIOUS
  <2>1. pid[x] = pid[c]
    BY <1>5, <1>t DEF OnePerson
  <2>2. CASE x \in inGame
    BY <2>2, <1>t DEF OneBody
  <2>3. CASE desc[x] # None
    <3>1. desc[x] \in Descs /\ char[desc[x]] = x /\ x # None
      BY <2>3, <1>t, ConstAssumption DEF CharsOK, TypeOK
    <3>2. desc[x] \in SamePerson(c)
      BY <3>1, <2>1 DEF SamePerson
    <3>3. x \in Held(SamePerson(c))
      BY <3>1, <3>2 DEF Held
    <3> QED
      BY <3>3
  <2> QED
    BY <2>2, <2>3, <1>5, <1>t DEF CharsOK
<1> HIDE DEF D, gone
<1>11. n \notin twice' => \A x \in Chars : name'[x] # n
  <2>1. n \notin twice' => \A x \in Chars \ gone : name[x] # n
    BY <1>7, <1>10
  <2> QED
    BY <2>1, <1>4, <1>5, ConstAssumption
<1>12. \A m \in Names \ {n} : /\ m \in twice' <=> m \in twice
                              /\ atQuit'[m] = atQuit[m] /\ pfile'[m] = pfile[m]
  BY <1>7, <1>5, <1>t DEF TypeOK, Written
<1>13. /\ atQuit'[n] = IF pfile'[n] = None THEN 0 ELSE data[c]
       /\ pfile'[n] # None => pfile'[n].data = data[c]
  BY <1>7, <1>5, <1>t DEF TypeOK, Written
<1>14. \A x \in Chars, m \in Names : name'[x] = m =>
         name[x] = m /\ pid'[x] = pid[x] /\ data'[x] = data[x]
  BY <1>4, ConstAssumption
<1> HIDE DEF n
<1>15. OnePerson'
  <2>1. ASSUME NEW m \in Names, m \notin twice', NEW x \in Chars, NEW y \in Chars,
               name'[x] = m, name'[y] = m
        PROVE  pid'[x] = pid'[y]
    BY <2>1, <1>11, <1>12, <1>14, <1>t DEF OnePerson
  <2>2. ASSUME NEW m \in Names, m \notin twice', NEW x \in Chars, name'[x] = m,
               pfile'[m] # None
        PROVE  pid'[x] = pfile'[m].id
    BY <2>2, <1>11, <1>12, <1>14, <1>t DEF OnePerson
  <2>3. \A m \in Names : pfile'[m] = None => atQuit'[m] = 0
    BY <1>12, <1>13, <1>t DEF OnePerson
  <2> QED
    BY <2>1, <2>2, <2>3 DEF OnePerson
<1>16. QuitDurable'
  <2>1. ASSUME NEW m \in Names, m \notin twice', NEW x \in Chars, name'[x] = m
        PROVE  data'[x] >= atQuit'[m]
    BY <2>1, <1>11, <1>12, <1>14, <1>t DEF QuitDurable
  <2>2. ASSUME NEW m \in Names, m \notin twice', pfile'[m] # None
        PROVE  pfile'[m].data >= atQuit'[m]
    <3>1. CASE m = n
      BY <3>1, <2>2, <1>13, <1>5
    <3>2. CASE m # n
      BY <3>2, <2>2, <1>12, <1>t DEF QuitDurable
    <3> QED
      BY <3>1, <3>2
  <2> QED
    BY <2>1, <2>2 DEF QuitDurable
<1> QED
  BY <1>8, <1>4, <1>9, <1>15, <1>16 DEF IInv, Durable

-----------------------------------------------------------------------------
(***************************************************************************)
(* load_char_obj.                                                          *)
(***************************************************************************)
LEMMA LoadStep ==
  ASSUME IInv,
         NEW d \in Descs, NEW n \in Names, NEW c \in Chars,
         NEW s \in {"GetName", "GetOldPassword", "ConfirmNewName"},
         conn[d] = "GetName", Doubles(n) = {}, Load(d, n, c, s),
         s = "ConfirmNewName" => Bodies(n) = {}
  PROVE  IInv'
<1> DEFINE o == char[d]
<1>t. TypeOK /\ DescsOK /\ CharsOK /\ OneBody /\ OneLogin /\ AlonePending
      /\ IdsOK /\ OnePerson /\ QuitDurable
  BY DEF IInv, Structure, Durable
<1>1. PICK i \in Ids :
       /\ IF pfile[n] = None THEN i \notin UsedIds ELSE i = pfile[n].id
       /\ name' = [x \in Chars |-> IF x = c THEN n
                                   ELSE IF x = o THEN None ELSE name[x]]
       /\ pid' = [x \in Chars |-> IF x = c THEN i
                                  ELSE IF x = o THEN None ELSE pid[x]]
       /\ data' = [x \in Chars |-> IF x = c /\ pfile[n] # None
                                   THEN pfile[n].data
                                   ELSE IF x \in {c, o} THEN 0 ELSE data[x]]
  BY DEF Load
<1>2. /\ desc' = [x \in Chars |-> IF x = c THEN d
                                   ELSE IF x = o THEN None ELSE desc[x]]
      /\ char' = [char EXCEPT ![d] = c]
      /\ conn' = [conn EXCEPT ![d] = s]
      /\ inGame' = inGame /\ pfile' = pfile /\ atQuit' = atQuit
      /\ twice' = IF pfile[n] = None /\ Bodies(n) # {} THEN twice \cup {n} ELSE twice
  BY DEF Load
<1>3. n # None /\ i # None /\ d # None /\ c # None
  BY ConstAssumption
<1>4. name[c] = None /\ pid[c] = None /\ c \notin inGame /\ desc[c] = None
  BY <1>t, <1>3 DEF Load, FreeSlots, CharsOK, DescsOK, TypeOK
<1>5. o # None => o \in Chars /\ desc[o] = d /\ o \notin inGame /\ o # c
  BY <1>t, <1>4 DEF TypeOK, DescsOK
<1>6. \A e \in Descs : e # d /\ char[e] # None => char[e] # c /\ char[e] # o
                                                /\ char[e] \in Chars
  BY <1>t, <1>4, <1>5 DEF DescsOK, TypeOK
<1>7. pfile[n] # None => pfile[n] \in Files /\ pfile[n].id \in Ids
                         /\ pfile[n].data \in 0 .. MaxData
  BY <1>t DEF TypeOK, Files
<1>8. TypeOK'
  <2>1. data' \in [Chars -> 0 .. MaxData]
    BY <1>1, <1>7, <1>t, ConstAssumption DEF TypeOK
  <2>2. atQuit' \in [Names -> 0 .. MaxData] /\ twice' \subseteq Names
    BY <1>2, <1>t DEF TypeOK
  <2>3. s \in ConnStates
    BY DEF ConnStates, LoginStates
  <2> QED
    BY <2>1, <2>2, <2>3, <1>1, <1>2, <1>t DEF TypeOK
<1> HIDE DEF o
<1>9. DescsOK'
  <2> SUFFICES ASSUME NEW e \in Descs
               PROVE  /\ conn'[e] = "Free" => char'[e] = None
                      /\ conn'[e] \notin {"Free", "GetName"} => char'[e] # None
                      /\ char'[e] # None =>
                           /\ name'[char'[e]] # None
                           /\ desc'[char'[e]] = e
                           /\ char'[e] \in inGame' <=> conn'[e] = "Playing"
    BY DEF DescsOK
  <2>1. CASE e = d
    <3>1. conn'[e] = s /\ char'[e] = c
      BY <2>1, <1>2, <1>t DEF TypeOK
    <3>2. name'[c] = n /\ desc'[c] = d
      BY <1>1, <1>2
    <3> QED
      BY <3>1, <3>2, <2>1, <1>2, <1>3, <1>4
  <2>2. CASE e # d
    <3>1. conn'[e] = conn[e] /\ char'[e] = char[e]
      BY <2>2, <1>2, <1>t DEF TypeOK
    <3>2. char[e] # None => name'[char[e]] = name[char[e]] /\ desc'[char[e]] = desc[char[e]]
      BY <2>2, <1>1, <1>2, <1>6
    <3> QED
      BY <3>1, <3>2, <1>2, <1>t DEF DescsOK
  <2> QED
    BY <2>1, <2>2
<1>10. CharsOK'
  <2> SUFFICES ASSUME NEW x \in Chars
               PROVE  /\ name'[x] = None <=> pid'[x] = None
                      /\ x \in inGame' => name'[x] # None
                      /\ name'[x] # None => x \in inGame' \/ desc'[x] # None
                      /\ desc'[x] # None => char'[desc'[x]] = x
    BY DEF CharsOK
  <2>1. CASE x = c
    <3>1. name'[c] = n /\ pid'[c] = i /\ desc'[c] = d
      BY <1>1, <1>2
    <3>2. char'[d] = c
      BY <1>2, <1>t DEF TypeOK
    <3> QED
      BY <2>1, <3>1, <3>2, <1>3
  <2>2. CASE x # c /\ x = o
    <3>1. name'[x] = None /\ pid'[x] = None /\ desc'[x] = None
      BY <2>2, <1>1, <1>2
    <3>2. x \notin inGame'
      BY <2>2, <1>2, <1>5, ConstAssumption
    <3> QED
      BY <3>1, <3>2
  <2>3. CASE x # c /\ x # o
    <3>1. name'[x] = name[x] /\ pid'[x] = pid[x] /\ desc'[x] = desc[x]
      BY <2>3, <1>1, <1>2
    <3>2. desc[x] # None => desc[x] # d /\ desc[x] \in Descs
      BY <2>3, <1>t DEF CharsOK, TypeOK, o
    <3>3. desc[x] # None => char'[desc[x]] = char[desc[x]]
      BY <3>2, <1>2, <1>t DEF TypeOK
    <3> QED
      BY <3>1, <3>3, <1>2, <1>t DEF CharsOK
  <2> QED
    BY <2>1, <2>2, <2>3
<1>11. \A x \in inGame : x \in Chars /\ name'[x] = name[x]
  BY <1>1, <1>4, <1>5, <1>t, ConstAssumption DEF TypeOK
<1>12. OneBody'
  BY <1>11, <1>2, <1>t DEF OneBody
<1>13. \A e \in Descs : e # d => /\ conn'[e] = conn[e] /\ char'[e] = char[e]
                                 /\ char[e] # None => name'[char[e]] = name[char[e]]
  BY <1>1, <1>2, <1>6, <1>t DEF TypeOK
<1>14. conn'[d] = s /\ char'[d] = c /\ name'[c] = n
  BY <1>1, <1>2, <1>t DEF TypeOK
<1>15. OneLogin'
  <2>1. \A e \in Descs : e # d /\ char[e] # None /\ conn[e] # "Playing" => name[char[e]] # n
    BY DEF Doubles, Holders
  <2> QED
    BY <2>1, <1>13, <1>14, <1>t DEF OneLogin
<1>16. AlonePending'
  <2>1. s = "ConfirmNewName" => \A x \in inGame : name[x] # n
    BY DEF Bodies
  <2> SUFFICES ASSUME NEW e \in Descs, NEW x \in inGame,
                      conn'[e] \in {"ConfirmNewName", "Creating", "ReadMotd"}
               PROVE  name'[x] # name'[char'[e]]
    BY <1>2 DEF AlonePending
  <2>2. CASE e = d
    BY <2>1, <2>2, <1>14, <1>11
  <2>3. CASE e # d
    <3>1. conn[e] \in {"ConfirmNewName", "Creating", "ReadMotd"} /\ char[e] # None
      BY <2>3, <1>13, <1>t DEF DescsOK
    <3> QED
      BY <3>1, <2>3, <1>13, <1>11, <1>t DEF AlonePending
  <2> QED
    BY <2>2, <2>3
<1>17. \A x \in Chars : x # c /\ pid'[x] # None =>
         pid'[x] = pid[x] /\ name'[x] = name[x] /\ data'[x] = data[x] /\ x # o
  BY <1>1
<1>18. \A x \in Chars : x # c /\ name'[x] # None =>
         pid'[x] = pid[x] /\ name'[x] = name[x] /\ data'[x] = data[x]
         /\ pid[x] # None /\ pid[x] \in Ids
  BY <1>1, <1>t DEF CharsOK, TypeOK
<1>19. pid'[c] = i /\ name'[c] = n
       /\ data'[c] = IF pfile[n] # None THEN pfile[n].data ELSE 0
  BY <1>1
<1>20. /\ \A x \in Chars : x # c /\ pid[x] # None /\ pid[x] = i => pfile[n] # None /\ name[x] = n
       /\ \A m \in Names : pfile[m] # None /\ pfile[m].id = i => m = n
  <2>1. CASE pfile[n] = None
    BY <2>1, <1>1, <1>t DEF UsedIds, FreeSlots, CharsOK
  <2>2. CASE pfile[n] # None
    BY <2>2, <1>1, <1>t DEF IdsOK
  <2> QED
    BY <2>1, <2>2
<1>21. IdsOK'
  <2>1. \A a, b \in Chars : pid'[a] # None /\ pid'[a] = pid'[b] => name'[a] = name'[b]
    BY <1>17, <1>19, <1>20, <1>3, <1>t DEF IdsOK
  <2>2. ASSUME NEW m \in Names, NEW x \in Chars, pfile[m] # None, pid'[x] = pfile[m].id
        PROVE  name'[x] = m
    <3>1. pid'[x] # None
      BY <2>2, <1>t, ConstAssumption DEF TypeOK, Files
    <3>2. CASE x = c
      BY <3>2, <2>2, <1>19, <1>20
    <3>3. CASE x # c
      BY <3>1, <3>3, <2>2, <1>17, <1>t DEF IdsOK
    <3> QED
      BY <3>2, <3>3
  <2>3. \A m, p \in Names :
          pfile[m] # None /\ pfile[p] # None /\ pfile[m].id = pfile[p].id => m = p
    BY <1>t DEF IdsOK
  <2> QED
    BY <2>1, <2>2, <2>3, <1>2 DEF IdsOK
<1>22. twice \subseteq twice' /\ (n \notin twice' => pfile[n] # None \/ Bodies(n) = {})
  BY <1>2
<1>23. n \notin twice' /\ pfile[n] = None => \A x \in Chars : name[x] # n
  <2> SUFFICES ASSUME n \notin twice', pfile[n] = None, NEW x \in Chars, name[x] = n
               PROVE  FALSE
    OBVIOUS
  <2>1. x \notin inGame
    BY <1>22 DEF Bodies
  <2>2. desc[x] \in Descs /\ char[desc[x]] = x /\ x # None
    BY <2>1, <1>3, <1>t, ConstAssumption DEF CharsOK, TypeOK
  <2>3. conn[desc[x]] # "Playing"
    BY <2>1, <2>2, <1>t DEF DescsOK
  <2> QED
    BY <2>2, <2>3 DEF Doubles, Holders
<1>24. \A x \in Chars, m \in Names : x # c /\ name'[x] = m =>
         name[x] = m /\ pid'[x] = pid[x] /\ data'[x] = data[x]
  BY <1>18, ConstAssumption
<1>25. n \notin twice' => \A x \in Chars : x # c /\ name'[x] = n => pid[x] = i
  BY <1>1, <1>22, <1>23, <1>24, <1>t DEF OnePerson
<1>26. OnePerson'
  <2>1. ASSUME NEW m \in Names, m \notin twice', NEW x \in Chars, NEW y \in Chars,
               name'[x] = m, name'[y] = m
        PROVE  pid'[x] = pid'[y]
    <3>1. CASE m = n
      BY <2>1, <3>1, <1>19, <1>24, <1>25
    <3>2. CASE m # n
      BY <2>1, <3>2, <1>19, <1>22, <1>24, <1>t DEF OnePerson
    <3> QED
      BY <3>1, <3>2
  <2>2. ASSUME NEW m \in Names, m \notin twice', NEW x \in Chars, name'[x] = m,
               pfile[m] # None
        PROVE  pid'[x] = pfile[m].id
    <3>1. CASE x = c
      BY <2>2, <3>1, <1>1, <1>19
    <3>2. CASE x # c
      BY <2>2, <3>2, <1>22, <1>24, <1>t DEF OnePerson
    <3> QED
      BY <3>1, <3>2
  <2> QED
    BY <2>1, <2>2, <1>2, <1>t DEF OnePerson
<1>27. QuitDurable'
  <2>1. ASSUME NEW m \in Names, m \notin twice', NEW x \in Chars, name'[x] = m
        PROVE  data'[x] >= atQuit[m]
    <3>1. CASE x = c
      <4>1. m = n
        BY <2>1, <3>1, <1>19
      <4>2. pfile[n] # None => pfile[n].data >= atQuit[n]
        BY <2>1, <4>1, <1>22, <1>t DEF QuitDurable
      <4>3. pfile[n] = None => 0 >= atQuit[n]
        BY <1>t DEF OnePerson
      <4> QED
        BY <3>1, <4>1, <4>2, <4>3, <1>19
    <3>2. CASE x # c
      BY <2>1, <3>2, <1>22, <1>24, <1>t DEF QuitDurable
    <3> QED
      BY <3>1, <3>2
  <2> QED
    BY <2>1, <1>2, <1>22, <1>t DEF QuitDurable
<1> QED
  BY <1>8, <1>9, <1>10, <1>12, <1>15, <1>16, <1>21, <1>26, <1>27 DEF IInv, Structure, Durable

-----------------------------------------------------------------------------
(***************************************************************************)
(* check_playing and check_reconnect.                                      *)
(***************************************************************************)

\* With the right password and somebody of the name connected or in the world,
\* there is one body and it is what the closed descriptors play: nobody else
\* is closed, and the fall-through of check_playing is not taken.
LEMMA ReconnectBody ==
  ASSUME IInv, NEW d \in Descs, conn[d] = "GetOldPassword",
         Displaced(d) # {} \/ LinkDead(d) # {}
  PROVE  /\ LinkDead(d) # {}
         /\ Freed(Displaced(d)) = {}
         /\ Displaced(d) \subseteq Descs \ {d}
         /\ \A b \in LinkDead(d) :
              /\ b \in inGame /\ name[b] = name[char[d]] /\ b # char[d]
              /\ Held(Displaced(d)) \subseteq {b}
              /\ \A e \in Descs \ {d} : e \in Displaced(d) <=> char[e] = b
<1> DEFINE D == Displaced(d)
           n == name[char[d]]
<1>t. TypeOK /\ DescsOK /\ CharsOK /\ OneBody /\ OneLogin
  BY DEF IInv, Structure
<1>1. char[d] # None /\ char[d] \in Chars /\ char[d] \notin inGame
  BY <1>t DEF DescsOK, TypeOK
<1>2. D \subseteq Descs \ {d}
  BY DEF Displaced, Holders
<1>3. \A e \in Holders(n) \ {d} : /\ e \in Descs /\ conn[e] = "Playing"
                                  /\ char[e] \in Bodies(n) /\ desc[char[e]] = e
  BY <1>1, <1>t DEF Holders, OneLogin, DescsOK, Bodies
<1>4. \A e \in D : conn[e] = "Playing" /\ char[e] \in Bodies(n)
  BY <1>3 DEF Displaced
<1>5. Freed(D) = {}
  BY <1>4 DEF Freed
<1>6. D # {} => LinkDead(d) # {}
  <2> SUFFICES ASSUME NEW e \in D PROVE char[e] \in LinkDead(d)
    OBVIOUS
  <2>1. char[e] \in Bodies(n) /\ char[e] # None
    BY <1>4, <1>t, ConstAssumption DEF Bodies, TypeOK
  <2> QED
    BY <2>1 DEF LinkDead, Held
<1>7. ASSUME NEW b \in LinkDead(d)
      PROVE  /\ b \in inGame /\ b \in Chars /\ name[b] = n /\ b # char[d]
             /\ Held(D) \subseteq {b}
             /\ \A e \in Descs \ {d} : e \in D <=> char[e] = b
  <2>1. b \in inGame /\ b \in Chars /\ name[b] = n /\ b # char[d]
    BY <1>1, <1>t DEF LinkDead, Bodies, TypeOK
  <2>2. \A x \in Bodies(n) : x = b
    BY <2>1, <1>t DEF Bodies, OneBody
  <2>3. Held(D) \subseteq {b}
    BY <2>2, <1>4 DEF Held
  <2>4. \A e \in D : char[e] = b
    BY <2>2, <1>4
  <2>5. ASSUME NEW e \in Descs \ {d}, char[e] = b
        PROVE  e \in D
    <3>1. desc[b] = e /\ e # None /\ char[e] # None
      BY <2>5, <2>1, <1>t, ConstAssumption DEF DescsOK
    <3>2. PICK f \in D : char[f] = b
      BY <3>1 DEF LinkDead, Held
    <3>3. f \in Descs /\ desc[b] = f
      BY <3>1, <3>2, <2>5, <1>2, <1>t DEF DescsOK
    <3> QED
      BY <3>1, <3>2, <3>3
  <2> QED
    BY <2>1, <2>3, <2>4, <2>5
<1> QED
  BY <1>2, <1>5, <1>6, <1>7

LEMMA ReconnectStep ==
  ASSUME IInv, NEW d \in Descs, Reconnect(d)
  PROVE  IInv'
<1> DEFINE D == Displaced(d)
           o == char[d]
<1>t. TypeOK /\ DescsOK /\ CharsOK /\ OneBody /\ OneLogin /\ AlonePending
      /\ IdsOK /\ OnePerson /\ QuitDurable
  BY DEF IInv, Structure, Durable
<1>1. conn[d] = "GetOldPassword" /\ (Displaced(d) # {} \/ LinkDead(d) # {})
  BY DEF Reconnect
<1>2. /\ LinkDead(d) # {} /\ Freed(D) = {} /\ D \subseteq Descs \ {d}
      /\ \A b \in LinkDead(d) :
              /\ b \in inGame /\ name[b] = name[o] /\ b # o
              /\ Held(D) \subseteq {b}
              /\ \A e \in Descs \ {d} : e \in D <=> char[e] = b
  BY <1>1, ReconnectBody
<1>3. o # None /\ o \in Chars /\ o \notin inGame /\ name[o] # None /\ desc[o] = d
  BY <1>1, <1>t DEF DescsOK, TypeOK
<1>4. PICK b \in LinkDead(d) :
        /\ conn' = [e \in Descs |-> IF e = d THEN "Playing"
                                    ELSE IF e \in D THEN "Free" ELSE conn[e]]
        /\ char' = [e \in Descs |-> IF e = d THEN b
                                    ELSE IF e \in D THEN None ELSE char[e]]
        /\ desc' = [c \in Chars |-> IF c = b THEN d
                                    ELSE IF c \in Held(D) \cup (Freed(D) \cup ({o} \ {b}))
                                         THEN None ELSE desc[c]]
        /\ name' = [c \in Chars |-> IF c \in Freed(D) \cup ({o} \ {b}) THEN None ELSE name[c]]
        /\ pid' = [c \in Chars |-> IF c \in Freed(D) \cup ({o} \ {b}) THEN None ELSE pid[c]]
        /\ data' = [c \in Chars |-> IF c \in Freed(D) \cup ({o} \ {b}) THEN 0 ELSE data[c]]
  BY <1>2 DEF Reconnect
<1>5. /\ b \in inGame /\ b \in Chars /\ name[b] = name[o] /\ b # o /\ b # None
      /\ \A e \in Descs \ {d} : e \in D <=> char[e] = b
  BY <1>2, <1>t, ConstAssumption DEF TypeOK
<1>6. /\ desc' = [c \in Chars |-> IF c = b THEN d ELSE IF c = o THEN None ELSE desc[c]]
      /\ name' = [c \in Chars |-> IF c = o THEN None ELSE name[c]]
      /\ pid' = [c \in Chars |-> IF c = o THEN None ELSE pid[c]]
      /\ data' = [c \in Chars |-> IF c = o THEN 0 ELSE data[c]]
  <2>1. Freed(D) \cup ({o} \ {b}) = {o}
    BY <1>2, <1>5
  <2>2. \A c : c # b => (c \in Held(D) \cup {o} <=> c = o)
    BY <1>2
  <2> HIDE DEF D, o
  <2> QED
    BY <1>4, <2>1, <2>2
<1>7. UNCHANGED <<inGame, pfile, history>> /\ atQuit' = atQuit /\ twice' = twice
  BY DEF Reconnect, history
<1>8. conn'[d] = "Playing" /\ char'[d] = b /\ desc'[b] = d /\ name'[b] = name[b]
  BY <1>4, <1>5, <1>6
<1>9. \A e \in Descs \ {d} : \/ conn'[e] = "Free" /\ char'[e] = None
                             \/ conn'[e] = conn[e] /\ char'[e] = char[e] /\ char[e] # b
  BY <1>4, <1>5
<1>10. \A e \in Descs \ {d} : char'[e] # None =>
         /\ conn'[e] = conn[e] /\ char'[e] = char[e] /\ char[e] # b /\ char[e] # o
         /\ name'[char[e]] = name[char[e]] /\ desc'[char[e]] = desc[char[e]]
  <2> SUFFICES ASSUME NEW e \in Descs \ {d}, char'[e] # None
               PROVE  /\ conn'[e] = conn[e] /\ char'[e] = char[e] /\ char[e] # b /\ char[e] # o
                      /\ name'[char[e]] = name[char[e]] /\ desc'[char[e]] = desc[char[e]]
    OBVIOUS
  <2>1. conn'[e] = conn[e] /\ char'[e] = char[e] /\ char[e] # b
    BY <1>9
  <2>2. char[e] # None /\ char[e] \in Chars /\ desc[char[e]] = e
    BY <2>1, <1>t DEF TypeOK, DescsOK
  <2>3. char[e] # o
    BY <2>2, <1>3
  <2> QED
    BY <2>1, <2>2, <2>3, <1>6
<1> HIDE DEF D, o
<1>11. \A c \in Chars : c # o =>
         name'[c] = name[c] /\ pid'[c] = pid[c] /\ data'[c] = data[c]
  BY <1>6
<1>12. name'[o] = None /\ pid'[o] = None
  BY <1>6, <1>3
<1>13. TypeOK'
  <2>1. conn' \in [Descs -> ConnStates]
    BY <1>4, <1>t DEF TypeOK, ConnStates, LoginStates
  <2>2. data' \in [Chars -> 0 .. MaxData]
    BY <1>6, <1>t, ConstAssumption DEF TypeOK
  <2> QED
    BY <2>1, <2>2, <1>4, <1>5, <1>6, <1>7, <1>t DEF TypeOK
<1>14. DescsOK'
  <2>1. name[b] # None /\ b \in inGame'
    BY <1>5, <1>7, <1>t DEF CharsOK
  <2> SUFFICES ASSUME NEW e \in Descs
               PROVE  /\ conn'[e] = "Free" => char'[e] = None
                      /\ conn'[e] \notin {"Free", "GetName"} => char'[e] # None
                      /\ char'[e] # None =>
                           /\ name'[char'[e]] # None
                           /\ desc'[char'[e]] = e
                           /\ char'[e] \in inGame' <=> conn'[e] = "Playing"
    BY DEF DescsOK
  <2>2. CASE e = d
    BY <2>1, <2>2, <1>8, <1>5
  <2>3. CASE e # d
    BY <2>3, <1>9, <1>10, <1>7, <1>t DEF DescsOK
  <2> QED
    BY <2>2, <2>3
<1>15. CharsOK'
  <2> SUFFICES ASSUME NEW x \in Chars
               PROVE  /\ name'[x] = None <=> pid'[x] = None
                      /\ x \in inGame' => name'[x] # None
                      /\ name'[x] # None => x \in inGame' \/ desc'[x] # None
                      /\ desc'[x] # None => char'[desc'[x]] = x
    BY DEF CharsOK
  <2>1. CASE x = b
    BY <2>1, <1>8, <1>11, <1>5, <1>7, <1>t DEF CharsOK
  <2>2. CASE x = o
    <3>1. desc'[x] = None
      BY <2>2, <1>5, <1>6
    <3> QED
      BY <3>1, <2>2, <1>12, <1>3, <1>7
  <2>3. CASE x # b /\ x # o
    <3>1. desc'[x] = desc[x]
      BY <2>3, <1>6
    <3>2. desc[x] # None => desc[x] \in Descs \ {d} /\ char[desc[x]] = x
      BY <2>3, <1>t DEF CharsOK, TypeOK, o
    <3>3. desc[x] # None => desc[x] \notin D
      BY <3>2, <2>3, <1>5
    <3>4. desc[x] # None => char'[desc[x]] = x
      BY <3>2, <3>3, <1>4
    <3> QED
      BY <3>1, <3>4, <2>3, <1>11, <1>7, <1>t DEF CharsOK
  <2> QED
    BY <2>1, <2>2, <2>3
<1>16. \A x \in inGame : x \in Chars /\ name'[x] = name[x]
  BY <1>11, <1>3, <1>t DEF TypeOK
<1>17. OneBody'
  BY <1>16, <1>7, <1>t DEF OneBody
<1>18. OneLogin'
  BY <1>8, <1>10, <1>t DEF OneLogin
<1>19. AlonePending'
  <2> SUFFICES ASSUME NEW e \in Descs, NEW x \in inGame,
                      conn'[e] \in {"ConfirmNewName", "Creating", "ReadMotd"}
               PROVE  name'[x] # name'[char'[e]]
    BY <1>7 DEF AlonePending
  <2>1. e # d
    BY <1>8
  <2>2. conn'[e] = conn[e] /\ char'[e] = char[e]
    BY <2>1, <1>9
  <2>3. char[e] # None
    BY <2>2, <1>t DEF DescsOK
  <2> QED
    BY <2>1, <2>2, <2>3, <1>10, <1>16, <1>t DEF AlonePending
<1>20. IdsOK'
  <2>1. FileStep
    BY <1>7 DEF FileStep
  <2>2. \A c \in Chars : name'[c] # None => name'[c] = name[c] /\ pid'[c] = pid[c]
    BY <1>11, <1>12
  <2>3. \A c \in Chars : name'[c] = None => pid'[c] = None
    BY <1>15 DEF CharsOK
  <2> QED
    BY <2>1, <2>2, <2>3, FileIds
<1>21. Durable'
  <2>1. \A c \in Chars : name'[c] # None =>
          name'[c] = name[c] /\ pid'[c] = pid[c] /\ data'[c] \in Nat /\ data'[c] >= data[c]
    BY <1>11, <1>12, <1>t DEF TypeOK
  <2> QED
    BY <2>1, <1>7, DurableStep DEF WriteStep
<1> QED
  BY <1>13, <1>14, <1>15, <1>17, <1>18, <1>19, <1>20, <1>21 DEF IInv, Structure

-----------------------------------------------------------------------------
(***************************************************************************)
(* The handlers that change one descriptor or one character.               *)
(***************************************************************************)
LEMMA ConnectStep ==
  ASSUME IInv, NEW d \in Descs, Connect(d)
  PROVE  IInv'
<1>t. TypeOK /\ DescsOK /\ CharsOK /\ OneBody /\ OneLogin /\ AlonePending
      /\ IdsOK /\ OnePerson /\ QuitDurable
  BY DEF IInv, Structure, Durable
<1>1. conn[d] = "Free" /\ char[d] = None /\ conn' = [conn EXCEPT ![d] = "GetName"]
      /\ UNCHANGED <<char, desc, charVars, inGame, pfile, history>>
  BY <1>t DEF Connect, DescsOK
<1>2. TypeOK'
  BY <1>1, <1>t DEF TypeOK, ConnStates, LoginStates, charVars, history
<1>3. DescsOK' /\ CharsOK' /\ OneBody' /\ OneLogin' /\ AlonePending'
  BY <1>1, <1>t DEF TypeOK, DescsOK, CharsOK, OneBody, OneLogin, AlonePending, charVars
<1>4. IdsOK' /\ Durable'
  BY <1>1, <1>t DEF IdsOK, Durable, OnePerson, QuitDurable, history, charVars
<1> QED
  BY <1>2, <1>3, <1>4 DEF IInv, Structure

\* A descriptor with a character goes on to another login state, from which
\* it enters the world unless somebody of the name is already in it.
LEMMA ProceedStep ==
  ASSUME IInv, NEW d \in Descs, NEW s \in {"Creating", "ReadMotd"},
         conn[d] \in {"ConfirmNewName", "Creating", "GetOldPassword"},
         conn[d] = "GetOldPassword" => Bodies(name[char[d]]) = {},
         conn' = [conn EXCEPT ![d] = s],
         UNCHANGED <<char, desc, charVars, inGame, pfile, history>>
  PROVE  IInv'
<1>t. TypeOK /\ DescsOK /\ CharsOK /\ OneBody /\ OneLogin /\ AlonePending
      /\ IdsOK /\ OnePerson /\ QuitDurable
  BY DEF IInv, Structure, Durable
<1>1. /\ char' = char /\ desc' = desc /\ name' = name /\ pid' = pid /\ data' = data
      /\ inGame' = inGame /\ pfile' = pfile /\ atQuit' = atQuit /\ twice' = twice
  BY DEF charVars, history
<1>2. char[d] # None /\ \A c \in inGame : name[c] # name[char[d]]
  BY <1>t DEF DescsOK, AlonePending, Bodies, TypeOK
<1>3. TypeOK'
  BY <1>1, <1>t DEF TypeOK, ConnStates, LoginStates
<1>4. DescsOK' /\ CharsOK' /\ OneBody' /\ OneLogin'
  BY <1>1, <1>2, <1>t DEF TypeOK, DescsOK, CharsOK, OneBody, OneLogin
<1>5. AlonePending'
  BY <1>1, <1>2, <1>t DEF TypeOK, AlonePending
<1>6. IdsOK' /\ Durable'
  BY <1>1, <1>t DEF IdsOK, Durable, OnePerson, QuitDurable, history
<1> QED
  BY <1>3, <1>4, <1>5, <1>6 DEF IInv, Structure

LEMMA LogInStep ==
  ASSUME IInv, NEW d \in Descs, LogIn(d)
  PROVE  IInv'
<1>t. TypeOK /\ DescsOK /\ CharsOK
  BY DEF IInv, Structure
<1>1. conn[d] = "GetOldPassword" /\ LinkDead(d) = {} /\ Displaced(d) = {}
  BY DEF LogIn
<1>2. char[d] \notin inGame
  BY <1>1, <1>t DEF DescsOK
<1>3. Bodies(name[char[d]]) = {}
  <2> SUFFICES ASSUME NEW b \in Bodies(name[char[d]]) PROVE FALSE
    OBVIOUS
  <2>1. b \in Chars /\ b \in inGame /\ name[b] = name[char[d]] /\ b # None
    BY <1>t, ConstAssumption DEF Bodies, TypeOK
  <2>2. desc[b] # None
    BY <1>1 DEF LinkDead
  <2>3. desc[b] \in Descs /\ char[desc[b]] = b /\ conn[desc[b]] = "Playing"
    BY <2>1, <2>2, <1>t DEF CharsOK, DescsOK, TypeOK
  <2>4. desc[b] \in Holders(name[char[d]]) \ {d}
    BY <2>1, <2>3, <1>2 DEF Holders
  <2> QED
    BY <2>3, <2>4, <1>1 DEF Displaced, AlreadyPlaying
<1>4. \E s \in {"ReadMotd", "Creating"} : conn' = [conn EXCEPT ![d] = s]
  BY DEF LogIn
<1> QED
  BY <1>1, <1>3, <1>4, ProceedStep DEF LogIn

LEMMA RefuseNameStep ==
  ASSUME IInv, NEW d \in Descs, RefuseName(d)
  PROVE  IInv'
<1>t. TypeOK /\ DescsOK /\ CharsOK /\ OneBody /\ OneLogin /\ AlonePending
      /\ IdsOK /\ OnePerson /\ QuitDurable
  BY DEF IInv, Structure, Durable
<1> DEFINE o == char[d]
<1>1. o # None /\ o \in Chars /\ desc[o] = d /\ o \notin inGame
  BY <1>t DEF RefuseName, DescsOK, TypeOK
<1>2. /\ conn' = [conn EXCEPT ![d] = "GetName"] /\ char' = [char EXCEPT ![d] = None]
      /\ desc' = [desc EXCEPT ![o] = None] /\ name' = [name EXCEPT ![o] = None]
      /\ pid' = [pid EXCEPT ![o] = None] /\ data' = [data EXCEPT ![o] = 0]
      /\ inGame' = inGame /\ pfile' = pfile /\ atQuit' = atQuit /\ twice' = twice
  BY DEF RefuseName, history
<1>3. conn'[d] = "GetName" /\ char'[d] = None
      /\ \A e \in Descs : e # d => conn'[e] = conn[e] /\ char'[e] = char[e]
  BY <1>2, <1>t DEF TypeOK
<1>4. \A e \in Descs : e # d /\ char[e] # None => char[e] \in Chars /\ char[e] # o
  BY <1>1, <1>t DEF DescsOK, TypeOK
<1> HIDE DEF o
<1>5. /\ name'[o] = None /\ pid'[o] = None /\ desc'[o] = None
      /\ \A c \in Chars : c # o => /\ name'[c] = name[c] /\ pid'[c] = pid[c]
                                   /\ data'[c] = data[c] /\ desc'[c] = desc[c]
  BY <1>1, <1>2, <1>t DEF TypeOK
<1>6. TypeOK'
  <2>1. data' \in [Chars -> 0 .. MaxData]
    <3>1. 0 \in 0 .. MaxData
      BY ConstAssumption
    <3> QED
      BY <3>1, <1>1, <1>2, <1>t DEF TypeOK
  <2> QED
    BY <2>1, <1>2, <1>t DEF TypeOK, ConnStates, LoginStates
<1>7. DescsOK'
  BY <1>2, <1>3, <1>4, <1>5, <1>t DEF DescsOK
<1>8. \A c \in inGame : c \in Chars /\ name'[c] = name[c]
  BY <1>1, <1>5, <1>t DEF TypeOK
<1>9. CharsOK'
  <2>1. \A c \in Chars : c # o /\ desc[c] # None => desc[c] \in Descs \ {d}
    BY <1>t DEF CharsOK, TypeOK, o
  <2> QED
    BY <2>1, <1>1, <1>2, <1>3, <1>5, <1>t DEF CharsOK
<1>10. OneBody' /\ OneLogin' /\ AlonePending'
  <2>1. OneBody'
    BY <1>2, <1>8, <1>t DEF OneBody
  <2>2. OneLogin'
    BY <1>3, <1>4, <1>5, <1>t DEF OneLogin
  <2>3. AlonePending'
    BY <1>2, <1>3, <1>4, <1>5, <1>8, <1>t DEF AlonePending, DescsOK
  <2> QED
    BY <2>1, <2>2, <2>3
<1>11. IdsOK'
  <2>1. FileStep
    BY <1>2 DEF FileStep
  <2>2. \A c \in Chars : name'[c] # None => name'[c] = name[c] /\ pid'[c] = pid[c]
    BY <1>5
  <2>3. \A c \in Chars : name'[c] = None => pid'[c] = None
    BY <1>9 DEF CharsOK
  <2> QED
    BY <2>1, <2>2, <2>3, FileIds
<1>12. Durable'
  <2>1. \A c \in Chars : name'[c] # None =>
          name'[c] = name[c] /\ pid'[c] = pid[c] /\ data'[c] \in Nat /\ data'[c] >= data[c]
    BY <1>5, <1>t DEF TypeOK
  <2> QED
    BY <2>1, <1>2, DurableStep DEF WriteStep, history
<1> QED
  BY <1>6, <1>7, <1>9, <1>10, <1>11, <1>12 DEF IInv, Structure

LEMMA EnterGameStep ==
  ASSUME IInv, NEW d \in Descs, EnterGame(d)
  PROVE  IInv'
<1>t. TypeOK /\ DescsOK /\ CharsOK /\ OneBody /\ OneLogin /\ AlonePending
      /\ IdsOK /\ OnePerson /\ QuitDurable
  BY DEF IInv, Structure, Durable
<1>1. /\ conn[d] = "ReadMotd" /\ conn' = [conn EXCEPT ![d] = "Playing"]
      /\ inGame' = inGame \cup {char[d]}
      /\ char' = char /\ desc' = desc /\ name' = name /\ pid' = pid /\ data' = data
      /\ pfile' = pfile /\ atQuit' = atQuit /\ twice' = twice
  BY DEF EnterGame, charVars, history
<1>2. char[d] # None /\ char[d] \in Chars /\ name[char[d]] # None
      /\ \A c \in inGame : name[c] # name[char[d]]
  BY <1>1, <1>t DEF DescsOK, AlonePending, TypeOK
<1>3. TypeOK'
  BY <1>1, <1>2, <1>t DEF TypeOK, ConnStates, LoginStates
<1>4. DescsOK'
  BY <1>1, <1>2, <1>t DEF TypeOK, DescsOK
<1>5. CharsOK'
  BY <1>1, <1>2, <1>t DEF CharsOK
<1>6. OneBody'
  BY <1>1, <1>2, <1>t DEF OneBody
<1>7. OneLogin'
  BY <1>1, <1>t DEF OneLogin, TypeOK
<1>8. AlonePending'
  BY <1>1, <1>2, <1>t DEF AlonePending, OneLogin, TypeOK, DescsOK
<1>9. IdsOK' /\ Durable'
  BY <1>1, <1>t DEF IdsOK, Durable, OnePerson, QuitDurable, history
<1> QED
  BY <1>3, <1>4, <1>5, <1>6, <1>7, <1>8, <1>9 DEF IInv, Structure

LEMMA PlayStep ==
  ASSUME IInv, NEW c \in Chars, Play(c)
  PROVE  IInv'
<1>t. TypeOK /\ Structure /\ IdsOK
  BY DEF IInv
<1>1. /\ data[c] < MaxData /\ data' = [data EXCEPT ![c] = @ + 1]
      /\ conn' = conn /\ char' = char /\ desc' = desc /\ name' = name /\ pid' = pid
      /\ inGame' = inGame /\ pfile' = pfile /\ atQuit' = atQuit /\ twice' = twice
  BY DEF Play, history
<1>2. TypeOK'
  <2>1. data[c] + 1 \in 0 .. MaxData
    BY <1>1, <1>t, ConstAssumption DEF TypeOK
  <2> QED
    BY <2>1, <1>1, <1>t DEF TypeOK
<1>3. Structure' /\ IdsOK'
  BY <1>1, <1>t DEF Structure, DescsOK, CharsOK, OneBody, OneLogin, AlonePending, IdsOK
<1>4. Durable'
  <2>1. \A x \in Chars : data[x] \in Nat /\ data'[x] = IF x = c THEN data[x] + 1 ELSE data[x]
    BY <1>1, <1>t DEF TypeOK
  <2> QED
    BY <2>1, <1>1, DurableStep DEF WriteStep, history
<1> QED
  BY <1>2, <1>3, <1>4 DEF IInv

LEMMA SaveStep ==
  ASSUME IInv, NEW c \in Chars, Save(c)
  PROVE  IInv'
<1>t. TypeOK /\ Structure /\ IdsOK
  BY DEF IInv
<1>1. /\ c \in inGame /\ pfile' = Written(c)
      /\ conn' = conn /\ char' = char /\ desc' = desc /\ name' = name /\ pid' = pid
      /\ data' = data /\ inGame' = inGame /\ atQuit' = atQuit /\ twice' = twice
  BY DEF Save, charVars, history
<1>2. FileStep
  BY <1>1, <1>t DEF FileStep, Structure, CharsOK
<1>3. TypeOK'
  BY <1>1, <1>2, <1>t, FileTypes DEF TypeOK
<1>4. Structure'
  BY <1>1, <1>t DEF Structure, DescsOK, CharsOK, OneBody, OneLogin, AlonePending
<1>5. IdsOK'
  BY <1>1, <1>2, <1>t, FileIds DEF Structure, CharsOK
<1>6. Durable'
  <2>1. WriteStep
    BY <1>1, <1>t DEF WriteStep, Structure, CharsOK
  <2>2. \A x \in Chars : data[x] \in Nat
    BY <1>t DEF TypeOK
  <2> QED
    BY <2>1, <2>2, <1>1, DurableStep DEF history
<1> QED
  BY <1>3, <1>4, <1>5, <1>6 DEF IInv

-----------------------------------------------------------------------------
LEMMA Inductive == IInv /\ [Next]_vars => IInv'
<1> SUFFICES ASSUME IInv, [Next]_vars PROVE IInv'
  OBVIOUS
<1>1. ASSUME NEW d \in Descs, Login(d) PROVE IInv'
  <2>1. CASE Connect(d)
    BY <2>1, ConnectStep
  <2>2. CASE ConfirmName(d)
    BY <2>2, ProceedStep DEF ConfirmName
  <2>3. CASE RefuseName(d)
    BY <2>3, RefuseNameStep
  <2>4. CASE FinishCreation(d)
    BY <2>4, ProceedStep DEF FinishCreation
  <2>5. CASE Reconnect(d)
    BY <2>5, ReconnectStep
  <2>6. CASE LogIn(d)
    BY <2>6, LogInStep
  <2>7. CASE EnterGame(d)
    BY <2>7, EnterGameStep
  <2>8. ASSUME NEW n \in Names, DoubleNewbie(d, n) PROVE IInv'
    BY <2>8, DoubleNewbieStep
  <2>9. ASSUME NEW n \in Names, NEW c \in Chars, MobName(d, n, c) PROVE IInv'
    BY <2>9, LoadStep DEF MobName
  <2>10. ASSUME NEW n \in Names, NEW c \in Chars, OldPlayer(d, n, c) PROVE IInv'
    BY <2>10, LoadStep DEF OldPlayer
  <2>11. ASSUME NEW n \in Names, NEW c \in Chars, NewPlayer(d, n, c) PROVE IInv'
    BY <2>11, LoadStep DEF NewPlayer
  <2> QED
    BY <1>1, <2>1, <2>2, <2>3, <2>4, <2>5, <2>6, <2>7, <2>8, <2>9, <2>10, <2>11 DEF Login
<1>2. ASSUME NEW c \in Chars, InWorld(c) PROVE IInv'
  <2>1. CASE Play(c)
    BY <2>1, PlayStep
  <2>2. CASE Save(c)
    BY <2>2, SaveStep
  <2>3. CASE Quit(c)
    BY <2>3, LeaveStep DEF Quit
  <2>4. CASE Delete(c)
    BY <2>4, LeaveStep DEF Delete
  <2>5. CASE Purge(c)
    BY <2>5, PurgeStep
  <2> QED
    BY <1>2, <2>1, <2>2, <2>3, <2>4, <2>5 DEF InWorld
<1>3. CASE UNCHANGED vars
  BY <1>3 DEF vars, IInv, TypeOK, Structure, DescsOK, CharsOK, OneBody, OneLogin,
              AlonePending, IdsOK, Durable, OnePerson, QuitDurable
<1> QED
  BY <1>1, <1>2, <1>3, HangUpStep, DisconnectStep, CrashStep DEF Next

\* The inductive invariant holds in every state of every behaviour.
THEOREM Invariance == Spec => []IInv
BY InitIInv, Inductive, PTL DEF Spec

\* Every variable keeps its type; a saved person has an id.
THEOREM TypeCorrect == Spec => []TypeOK
<1>1. IInv => TypeOK
  BY DEF IInv
<1> QED
  BY <1>1, Invariance, PTL

\* Descriptors and characters in the world always point at each other.
THEOREM LinksAreMutual == Spec => []LinksMutual
<1>1. IInv => LinksMutual
  <2> SUFFICES ASSUME IInv PROVE LinksMutual
    OBVIOUS
  <2>1. \A d \in Descs : conn[d] = "Playing" =>
          char[d] # None /\ char[d] \in inGame /\ desc[char[d]] = d
    BY DEF IInv, Structure, DescsOK
  <2>2. \A c \in inGame : desc[c] # None =>
          conn[desc[c]] = "Playing" /\ char[desc[c]] = c
    BY ConstAssumption DEF IInv, TypeOK, Structure, DescsOK, CharsOK
  <2> QED
    BY <2>1, <2>2 DEF LinksMutual
<1> QED
  BY <1>1, Invariance, PTL

\* Any number of connections that try any names in any order never bring two
\* bodies of one name into the world.
THEOREM OneBodyPerName == Spec => []OneBody
<1>1. IInv => OneBody
  BY DEF IInv, Structure
<1> QED
  BY <1>1, Invariance, PTL

\* No copy of a person loaded before it quit ever comes back into the world
\* or into its file, except under the names in twice: those under which a
\* second person was let in while the first played without a file.
THEOREM QuitIsDurable == Spec => []QuitDurable
<1>1. IInv => QuitDurable
  BY DEF IInv, Durable
<1> QED
  BY <1>1, Invariance, PTL

-----------------------------------------------------------------------------
(***************************************************************************)
(* Connection implements Session.                                          *)
(***************************************************************************)
\* PlayerOf without the choice of a body.
View ==
  \A n \in Names :
    /\ (\A c \in inGame : name[c] # n) => PlayerOf(n) = "out"
    /\ \A c \in inGame : name[c] = n =>
         PlayerOf(n) = IF desc[c] = None THEN "linkdead" ELSE desc[c]

LEMMA Chosen ==
  ASSUME NEW G, NEW f, NEW c \in G, \A b \in G : f[b] = f[c] => b = c
  PROVE  (CHOOSE b \in G : f[b] = f[c]) = c
OBVIOUS

LEMMA IInvView == IInv => View
<1> SUFFICES ASSUME IInv, NEW n \in Names
             PROVE  /\ (\A c \in inGame : name[c] # n) => PlayerOf(n) = "out"
                    /\ \A c \in inGame : name[c] = n =>
                         PlayerOf(n) = IF desc[c] = None THEN "linkdead" ELSE desc[c]
  BY DEF View
<1>1. (\A c \in inGame : name[c] # n) => PlayerOf(n) = "out"
  BY DEF PlayerOf, Bodies
<1>2. ASSUME NEW c \in inGame, name[c] = n
      PROVE  PlayerOf(n) = IF desc[c] = None THEN "linkdead" ELSE desc[c]
  <2>1. \A b \in inGame : name[b] = name[c] => b = c
    BY DEF IInv, Structure, OneBody
  <2>2. Body(n) = c
    BY <1>2, <2>1, Chosen DEF Body
  <2>3. Bodies(n) # {}
    BY <1>2 DEF Bodies
  <2> QED
    BY <2>2, <2>3 DEF PlayerOf
<1> QED
  BY <1>1, <1>2

LEMMA IInvViewNext == IInv' => View'
<1> SUFFICES ASSUME IInv', NEW n \in Names
             PROVE  /\ (\A c \in inGame' : name'[c] # n) => PlayerOf(n)' = "out"
                    /\ \A c \in inGame' : name'[c] = n =>
                         PlayerOf(n)' = IF desc'[c] = None THEN "linkdead" ELSE desc'[c]
  BY DEF View
<1>1. (\A c \in inGame' : name'[c] # n) => PlayerOf(n)' = "out"
  BY DEF PlayerOf, Bodies
<1>2. ASSUME NEW c \in inGame', name'[c] = n
      PROVE  PlayerOf(n)' = IF desc'[c] = None THEN "linkdead" ELSE desc'[c]
  <2>1. \A b \in inGame' : name'[b] = name'[c] => b = c
    BY DEF IInv, Structure, OneBody
  <2>2. Body(n)' = c
    BY <1>2, <2>1, Chosen DEF Body
  <2>3. Bodies(n)' # {}
    BY <1>2 DEF Bodies
  <2> QED
    BY <2>2, <2>3 DEF PlayerOf
<1> QED
  BY <1>1, <1>2

\* Nothing changes for n as long as its bodies stay as they are.
LEMMA SameFor ==
  ASSUME View, View', NEW n \in Names,
         \A c : c \in inGame /\ name[c] = n => c \in inGame' /\ name'[c] = n /\ desc'[c] = desc[c],
         \A c : c \in inGame' /\ name'[c] = n => c \in inGame /\ name[c] = n
  PROVE  PlayerOf(n)' = PlayerOf(n)
<1>1. CASE \E c \in inGame : name[c] = n
  <2>1. PICK c \in inGame : name[c] = n
    BY <1>1
  <2>2. c \in inGame' /\ name'[c] = n /\ desc'[c] = desc[c]
    BY <2>1
  <2> QED
    BY <2>1, <2>2 DEF View
<1>2. CASE \A c \in inGame : name[c] # n
  <2>1. \A c \in inGame' : name'[c] # n
    BY <1>2
  <2> QED
    BY <1>2, <2>1 DEF View
<1> QED
  BY <1>1, <1>2

Unseen == \A n \in Names : PlayerOf(n)' = PlayerOf(n)

LEMMA SameForAll ==
  ASSUME View, View', inGame' = inGame,
         \A c \in inGame : name'[c] = name[c] /\ desc'[c] = desc[c]
  PROVE  Unseen
<1> SUFFICES ASSUME NEW n \in Names PROVE PlayerOf(n)' = PlayerOf(n)
  BY DEF Unseen
<1> QED
  BY SameFor

LEMMA UnseenStutters ==
  ASSUME Unseen
  PROVE  [n \in Names |-> PlayerOf(n)]' = [n \in Names |-> PlayerOf(n)]
BY DEF Unseen

\* The session of n becomes v, and no other changes.
Becomes(n, v) ==
  /\ PlayerOf(n)' = v
  /\ \A m \in Names \ {n} : PlayerOf(m)' = PlayerOf(m)

LEMMA BecomesStep ==
  ASSUME NEW n \in Names, NEW v, Becomes(n, v)
  PROVE  [m \in Names |-> PlayerOf(m)]' = [[m \in Names |-> PlayerOf(m)] EXCEPT ![n] = v]
BY DEF Becomes

\* The four steps of Session, in terms of Connection.
LEMMA SessionSteps ==
  ASSUME NEW n \in Names
  PROVE  /\ PlayerOf(n) = "out" =>
              \A d \in Descs : (\A m \in Names : PlayerOf(m) # d) /\ Becomes(n, d) => S!Next
         /\ PlayerOf(n) \notin {"out", "linkdead"} /\ Becomes(n, "linkdead") => S!Next
         /\ PlayerOf(n) # "out" =>
              \A d \in Descs : (\A m \in Names : PlayerOf(m) # d) /\ Becomes(n, d) => S!Next
         /\ PlayerOf(n) # "out" /\ Becomes(n, "out") => S!Next
<1> DEFINE P == [m \in Names |-> PlayerOf(m)]
<1>1. ASSUME NEW v, Becomes(n, v)
      PROVE  P' = [P EXCEPT ![n] = v]
  BY <1>1, BecomesStep
<1>2. \A m \in Names : P[m] = PlayerOf(m)
  OBVIOUS
<1>3. ASSUME NEW d \in Descs, \A m \in Names : PlayerOf(m) # d, Becomes(n, d)
      PROVE  S!Next
  <2>1. P' = [P EXCEPT ![n] = d] /\ \A m \in Names : P[m] # d
    BY <1>1, <1>2, <1>3
  <2>2. CASE P[n] = "out"
    <3>1. S!Enter(n)
      BY <2>1, <2>2 DEF S!Enter, S!Idle
    <3> QED
      BY <3>1 DEF S!Next
  <2>3. CASE P[n] # "out"
    <3>1. S!TakeOver(n)
      BY <2>1, <2>3 DEF S!TakeOver, S!Idle
    <3> QED
      BY <3>1 DEF S!Next
  <2> QED
    BY <2>2, <2>3
<1>4. ASSUME PlayerOf(n) \notin {"out", "linkdead"}, Becomes(n, "linkdead")
      PROVE  S!Next
  <2>1. S!LoseLink(n)
    BY <1>1, <1>4 DEF S!LoseLink, S!Absent
  <2> QED
    BY <2>1 DEF S!Next
<1>5. ASSUME PlayerOf(n) # "out", Becomes(n, "out")
      PROVE  S!Next
  <2>1. S!Leave(n)
    BY <1>1, <1>5 DEF S!Leave
  <2> QED
    BY <2>1 DEF S!Next
<1> QED
  BY <1>3, <1>4, <1>5

\* Whoever is played is played by a descriptor in the state of playing.
LEMMA IdleDesc ==
  ASSUME IInv, View, NEW d \in Descs, conn[d] # "Playing"
  PROVE  \A m \in Names : PlayerOf(m) # d
<1> SUFFICES ASSUME NEW m \in Names, PlayerOf(m) = d PROVE FALSE
  OBVIOUS
<1>1. d \notin {"out", "linkdead"}
  BY ConstAssumption
<1>2. PICK c \in inGame : name[c] = m
  BY <1>1 DEF View
<1>3. desc[c] = d /\ c \in Chars
  BY <1>1, <1>2 DEF View, IInv, TypeOK
<1>4. char[d] = c
  BY <1>3, ConstAssumption DEF IInv, Structure, CharsOK
<1>5. conn[d] = "Playing"
  BY <1>2, <1>3, <1>4, ConstAssumption DEF IInv, TypeOK, Structure, DescsOK, CharsOK
<1> QED
  BY <1>5

-----------------------------------------------------------------------------
\* The handlers, as far as they change what the world sees.

LEMMA QuietSteps ==
  ASSUME IInv, View, View', NEW d \in Descs,
         Connect(d) \/ ConfirmName(d) \/ FinishCreation(d) \/ LogIn(d)
  PROVE  Unseen
<1>1. inGame' = inGame /\ name' = name /\ desc' = desc
  BY DEF Connect, ConfirmName, FinishCreation, LogIn, charVars
<1> QED
  BY <1>1, SameForAll

LEMMA BodySteps ==
  ASSUME IInv, View, View', NEW c \in Chars, Play(c) \/ Save(c)
  PROVE  Unseen
<1>1. inGame' = inGame /\ name' = name /\ desc' = desc
  BY DEF Play, Save, charVars
<1> QED
  BY <1>1, SameForAll

LEMMA RefuseUnseen ==
  ASSUME IInv, View, View', NEW d \in Descs, RefuseName(d)
  PROVE  Unseen
<1>1. conn[d] = "ConfirmNewName" /\ char[d] # None /\ char[d] \notin inGame
  BY DEF RefuseName, IInv, Structure, DescsOK
<1>2. \A c \in inGame : name'[c] = name[c] /\ desc'[c] = desc[c]
  BY <1>1 DEF RefuseName, IInv, TypeOK
<1> QED
  BY <1>2, SameForAll DEF RefuseName

LEMMA LoadUnseen ==
  ASSUME IInv, View, View', NEW d \in Descs, NEW n \in Names, NEW c \in Chars,
         MobName(d, n, c) \/ OldPlayer(d, n, c) \/ NewPlayer(d, n, c)
  PROVE  Unseen
<1>1. conn[d] = "GetName" /\ \E s : Load(d, n, c, s)
  BY DEF MobName, OldPlayer, NewPlayer
<1>2. c \notin inGame /\ char[d] \notin inGame
  <2>1. c \notin inGame
    BY <1>1 DEF Load, FreeSlots, IInv, Structure, CharsOK
  <2>2. char[d] \notin inGame
    BY <1>1, ConstAssumption DEF IInv, TypeOK, Structure, DescsOK
  <2> QED
    BY <2>1, <2>2
<1>3. /\ inGame' = inGame
      /\ name' = [x \in Chars |-> IF x = c THEN n ELSE IF x = char[d] THEN None ELSE name[x]]
      /\ desc' = [x \in Chars |-> IF x = c THEN d ELSE IF x = char[d] THEN None ELSE desc[x]]
  BY <1>1 DEF Load
<1>4. \A x \in inGame : x \in Chars /\ x # c /\ x # char[d]
  BY <1>2 DEF IInv, TypeOK
<1>5. \A x \in inGame : name'[x] = name[x] /\ desc'[x] = desc[x]
  BY <1>3, <1>4
<1> QED
  BY <1>3, <1>5, SameForAll

\* Closing descriptors that do not play is not seen.
LEMMA CloseUnseen ==
  ASSUME IInv, View, View', NEW D \in SUBSET Descs, Close(D, {}), inGame' = inGame,
         \A d \in D : conn[d] # "Playing"
  PROVE  Unseen
<1>1. \A x \in inGame : x \in Chars /\ x \notin Held(D) /\ x \notin Freed(D)
  BY DEF Held, Freed, IInv, TypeOK, Structure, DescsOK
<1>2. \A x \in inGame : name'[x] = name[x] /\ desc'[x] = desc[x]
  BY <1>1 DEF Close
<1> QED
  BY <1>2, SameForAll

LEMMA DoubleUnseen ==
  ASSUME IInv, View, View', NEW d \in Descs, NEW n \in Names, DoubleNewbie(d, n)
  PROVE  Unseen
<1>1. Doubles(n) \in SUBSET Descs /\ \A e \in Doubles(n) : conn[e] # "Playing"
  BY DEF Doubles, Holders
<1> QED
  BY <1>1, CloseUnseen DEF DoubleNewbie

\* A link that is lost in play leaves the body behind.
LEMMA LinkStep ==
  ASSUME IInv, View, View', NEW d \in Descs, HangUp(d) \/ Disconnect(d)
  PROVE  S!Next \/ Unseen
<1>1. Close({d}, {}) /\ inGame' = inGame
  BY DEF HangUp, Disconnect
<1>2. CASE conn[d] # "Playing"
  BY <1>1, <1>2, CloseUnseen
<1>3. CASE conn[d] = "Playing"
  <2>1. char[d] # None /\ char[d] \in inGame /\ desc[char[d]] = d /\ name[char[d]] # None
    BY <1>3 DEF IInv, Structure, DescsOK
  <2>2. PICK c \in inGame : c = char[d] /\ c # None /\ c \in Chars /\ desc[c] = d
    BY <2>1 DEF IInv, TypeOK
  <2>3. PICK n \in Names : n = name[c]
    BY <2>1, <2>2 DEF IInv, TypeOK
  <2>4. Held({d}) = {c} /\ Freed({d}) = {}
    BY <1>3, <2>2 DEF Held, Freed
  <2>5. /\ \A x \in Chars : name'[x] = name[x]
        /\ \A x \in Chars : desc'[x] = IF x = c THEN None ELSE desc[x]
    BY <1>1, <2>4 DEF Close
  <2>6. PlayerOf(n) = d
    BY <2>2, <2>3, ConstAssumption DEF View
  <2>7. PlayerOf(n)' = "linkdead"
    BY <1>1, <2>2, <2>3, <2>5 DEF View
  <2>8. \A m \in Names \ {n} : PlayerOf(m)' = PlayerOf(m)
    <3> SUFFICES ASSUME NEW m \in Names \ {n} PROVE PlayerOf(m)' = PlayerOf(m)
      OBVIOUS
    <3>1. \A x \in inGame : x \in Chars
      BY DEF IInv, TypeOK
    <3> QED
      BY <1>1, <2>2, <2>3, <2>5, <3>1, SameFor
  <2>9. d \notin {"out", "linkdead"}
    BY ConstAssumption
  <2> QED
    BY <2>6, <2>7, <2>8, <2>9, SessionSteps DEF Becomes
<1> QED
  BY <1>2, <1>3

\* Whoever enters was out, and its descriptor played nobody.
LEMMA EnterStep ==
  ASSUME IInv, View, View', NEW d \in Descs, EnterGame(d)
  PROVE  S!Next
<1>1. conn[d] = "ReadMotd" /\ char[d] # None /\ name[char[d]] # None /\ desc[char[d]] = d
  BY DEF EnterGame, IInv, Structure, DescsOK
<1>2. PICK c \in Chars : c = char[d] /\ desc[c] = d
  BY <1>1 DEF IInv, TypeOK
<1>3. PICK n \in Names : n = name[c]
  BY <1>1, <1>2 DEF IInv, TypeOK
<1>4. inGame' = inGame \cup {c} /\ name' = name /\ desc' = desc
  BY <1>2 DEF EnterGame, charVars, history
<1>5. \A x \in inGame : name[x] # n
  BY <1>1, <1>2, <1>3 DEF IInv, TypeOK, Structure, AlonePending
<1>6. PlayerOf(n) = "out"
  BY <1>5 DEF View
<1>7. PlayerOf(n)' = d
  BY <1>2, <1>3, <1>4, ConstAssumption DEF View
<1>8. \A m \in Names \ {n} : PlayerOf(m)' = PlayerOf(m)
  <2> SUFFICES ASSUME NEW m \in Names \ {n} PROVE PlayerOf(m)' = PlayerOf(m)
    OBVIOUS
  <2> QED
    BY <1>3, <1>4, SameFor
<1>9. \A m \in Names : PlayerOf(m) # d
  BY <1>1, IdleDesc
<1> QED
  BY <1>6, <1>7, <1>8, <1>9, SessionSteps DEF Becomes

\* A right password gives the body of the name a new descriptor.
LEMMA TakeOverStep ==
  ASSUME IInv, IInv', View, View', NEW d \in Descs, Reconnect(d)
  PROVE  S!Next
<1>1. conn[d] = "GetOldPassword" /\ char[d] # None /\ name[char[d]] # None /\ char[d] \notin inGame
  BY DEF Reconnect, IInv, Structure, DescsOK
<1>2. PICK l \in Chars : l = char[d] /\ l \notin inGame
  BY <1>1 DEF IInv, TypeOK
<1>3. PICK n \in Names : n = name[l]
  BY <1>1, <1>2 DEF IInv, TypeOK
<1> DEFINE D == Displaced(d)
           gone(b) == Freed(D) \cup ({l} \ {b})
<1>4. PICK b \in IF LinkDead(d) = {} THEN {l} ELSE LinkDead(d) :
        /\ conn' = [e \in Descs |-> IF e = d THEN "Playing"
                                    ELSE IF e \in D THEN "Free" ELSE conn[e]]
        /\ char' = [e \in Descs |-> IF e = d THEN b
                                    ELSE IF e \in D THEN None ELSE char[e]]
        /\ desc' = [x \in Chars |-> IF x = b THEN d
                                    ELSE IF x \in Held(D) \cup gone(b) THEN None ELSE desc[x]]
        /\ name' = [x \in Chars |-> IF x \in gone(b) THEN None ELSE name[x]]
  BY <1>2 DEF Reconnect
<1>5. inGame' = inGame
  BY DEF Reconnect
<1>6. b \in inGame /\ b \in Chars /\ b # l
  <2>1. b \in Chars
    BY <1>4 DEF LinkDead, Bodies, IInv, TypeOK
  <2>2. conn'[d] = "Playing" /\ char'[d] = b /\ b # None
    BY <1>4, <2>1, ConstAssumption
  <2>3. b \in inGame'
    BY <2>2 DEF IInv, Structure, DescsOK
  <2> QED
    BY <1>2, <1>5, <2>1, <2>3
<1>7. name[b] = n
  BY <1>2, <1>3, <1>4, <1>6 DEF LinkDead, Bodies
<1>8. \A x \in inGame : x \in Chars /\ (name[x] = n => x = b)
  BY <1>6, <1>7 DEF IInv, TypeOK, Structure, OneBody
<1>9. \A x \in Held(D) : name[x] = n
  BY <1>2, <1>3 DEF Held, Displaced, Holders
<1>10. \A x \in Freed(D) : x \notin inGame
  BY DEF Freed, Displaced, Holders, IInv, Structure, DescsOK
<1>11. \A x \in inGame : name'[x] = name[x] /\ (x # b => desc'[x] = desc[x])
  <2> SUFFICES ASSUME NEW x \in inGame
               PROVE  name'[x] = name[x] /\ (x # b => desc'[x] = desc[x])
    OBVIOUS
  <2>1. x \notin gone(b) /\ x \in Chars
    BY <1>2, <1>8, <1>10
  <2>2. x # b => x \notin Held(D)
    BY <1>8, <1>9
  <2> HIDE DEF gone
  <2> QED
    BY <1>4, <2>1, <2>2
<1>12. desc'[b] = d
  BY <1>4, <1>6
<1>13. PlayerOf(n) # "out"
  <2>1. desc[b] # None => desc[b] # "out"
    BY <1>6, ConstAssumption DEF IInv, TypeOK
  <2> QED
    BY <1>6, <1>7, <2>1 DEF View
<1>14. PlayerOf(n)' = d
  BY <1>5, <1>6, <1>7, <1>11, <1>12, ConstAssumption DEF View
<1>15. \A m \in Names \ {n} : PlayerOf(m)' = PlayerOf(m)
  <2> SUFFICES ASSUME NEW m \in Names \ {n} PROVE PlayerOf(m)' = PlayerOf(m)
    OBVIOUS
  <2> QED
    BY <1>5, <1>7, <1>11, SameFor
<1>16. \A m \in Names : PlayerOf(m) # d
  BY <1>1, IdleDesc
<1> QED
  BY <1>13, <1>14, <1>15, <1>16, SessionSteps DEF Becomes

\* A body that leaves takes its name out, and no other.
LEMMA OutStep ==
  ASSUME IInv, View, View', NEW c \in inGame, NEW D \in SUBSET Descs, NEW E,
         Close(D, E), inGame' = inGame \ E, c \in E,
         \A x \in inGame \ {c} : x \notin Held(D) \cup E
  PROVE  S!Next
<1>1. c \in Chars /\ name[c] # None
  BY DEF IInv, TypeOK, Structure, CharsOK
<1>2. PICK n \in Names : n = name[c]
  BY <1>1 DEF IInv, TypeOK
<1>3. \A x \in inGame : x \in Chars /\ (name[x] = n => x = c)
  BY <1>2 DEF IInv, TypeOK, Structure, OneBody
<1>4. Freed(D) \subseteq Held(D)
  BY DEF Freed, Held
<1>5. \A x \in inGame \ {c} : name'[x] = name[x] /\ desc'[x] = desc[x] /\ x \in inGame'
  BY <1>3, <1>4 DEF Close
<1>6. inGame' \subseteq inGame \ {c}
  OBVIOUS
<1>7. PlayerOf(n) # "out"
  <2>1. desc[c] # None => desc[c] # "out"
    BY <1>1, ConstAssumption DEF IInv, TypeOK
  <2> QED
    BY <1>2, <2>1 DEF View
<1>8. PlayerOf(n)' = "out"
  <2>1. \A x \in inGame' : name'[x] # n
    BY <1>3, <1>5, <1>6
  <2> QED
    BY <2>1 DEF View
<1>9. \A m \in Names \ {n} : PlayerOf(m)' = PlayerOf(m)
  <2> SUFFICES ASSUME NEW m \in Names \ {n} PROVE PlayerOf(m)' = PlayerOf(m)
    OBVIOUS
  <2> QED
    BY <1>2, <1>5, <1>6, SameFor
<1> QED
  BY <1>7, <1>8, <1>9, SessionSteps DEF Becomes

LEMMA QuitStep ==
  ASSUME IInv, View, View', NEW c \in inGame, NEW f, Leave(c, f)
  PROVE  S!Next
<1> DEFINE D == SamePerson(c)
           E == Held(D) \cup {c}
<1>1. Close(D, E) /\ inGame' = inGame \ E
  BY DEF Leave
<1>2. D \in SUBSET Descs
  BY DEF SamePerson, IInv, TypeOK
<1>3. \A x \in inGame \ {c} : x \notin Held(D)
  <2> SUFFICES ASSUME NEW x \in inGame \ {c}, x \in Held(D) PROVE FALSE
    OBVIOUS
  <2>1. PICK e \in D : x = char[e]
    BY DEF Held
  <2>2. c \in Chars /\ x \in Chars
    BY DEF IInv, TypeOK
  <2>3. e # desc[c]
    BY <2>1, <2>2, <1>2, ConstAssumption DEF IInv, Structure, CharsOK
  <2>4. pid[x] = pid[c] /\ pid[c] # None
    BY <2>1, <2>2, <2>3 DEF SamePerson, IInv, Structure, CharsOK
  <2>5. name[x] = name[c]
    BY <2>2, <2>4 DEF IInv, IdsOK
  <2> QED
    BY <2>5 DEF IInv, Structure, OneBody
<1> HIDE DEF D
<1> QED
  BY <1>1, <1>2, <1>3, OutStep

LEMMA PurgedStep ==
  ASSUME IInv, View, View', NEW c \in Chars, Purge(c)
  PROVE  S!Next
<1> DEFINE D == {desc[c]} \ {None}
<1>1. c \in inGame /\ Close(D, {c}) /\ inGame' = inGame \ {c}
  BY DEF Purge
<1>2. D \in SUBSET Descs
  BY DEF IInv, TypeOK
<1>3. Held(D) \subseteq {c}
  BY DEF Held, IInv, Structure, CharsOK
<1> HIDE DEF D
<1> QED
  BY <1>1, <1>2, <1>3, OutStep

LEMMA CrashRestarts ==
  ASSUME View', Crash
  PROVE  S!Next
<1>1. \A n \in Names : PlayerOf(n)' = "out"
  BY DEF Crash, View
<1>2. S!Restart
  BY <1>1 DEF S!Restart
<1> QED
  BY <1>2 DEF S!Next

-----------------------------------------------------------------------------
LEMMA NextSession ==
  ASSUME IInv, IInv', [Next]_vars
  PROVE  S!Next \/ Unseen
<1>1. View /\ View'
  BY IInvView, IInvViewNext
<1>2. ASSUME NEW d \in Descs, Login(d)
      PROVE  S!Next \/ Unseen
  <2>1. CASE Connect(d) \/ ConfirmName(d) \/ FinishCreation(d) \/ LogIn(d)
    BY <1>1, <2>1, QuietSteps
  <2>2. CASE RefuseName(d)
    BY <1>1, <2>2, RefuseUnseen
  <2>3. CASE Reconnect(d)
    BY <1>1, <2>3, TakeOverStep
  <2>4. CASE EnterGame(d)
    BY <1>1, <2>4, EnterStep
  <2>5. ASSUME NEW n \in Names, DoubleNewbie(d, n)
        PROVE  Unseen
    BY <1>1, <2>5, DoubleUnseen
  <2>6. ASSUME NEW n \in Names, NEW c \in Chars,
               MobName(d, n, c) \/ OldPlayer(d, n, c) \/ NewPlayer(d, n, c)
        PROVE  Unseen
    BY <1>1, <2>6, LoadUnseen
  <2> QED
    BY <1>2, <2>1, <2>2, <2>3, <2>4, <2>5, <2>6 DEF Login
<1>3. ASSUME NEW d \in Descs, HangUp(d) \/ Disconnect(d)
      PROVE  S!Next \/ Unseen
  BY <1>1, <1>3, LinkStep
<1>4. ASSUME NEW c \in Chars, InWorld(c)
      PROVE  S!Next \/ Unseen
  <2>1. CASE Play(c) \/ Save(c)
    BY <1>1, <2>1, BodySteps
  <2>2. CASE Quit(c) \/ Delete(c)
    BY <1>1, <2>2, QuitStep DEF Quit, Delete
  <2>3. CASE Purge(c)
    BY <1>1, <2>3, PurgedStep
  <2> QED
    BY <1>4, <2>1, <2>2, <2>3 DEF InWorld
<1>5. CASE Crash
  BY <1>1, <1>5, CrashRestarts
<1>6. CASE UNCHANGED vars
  <2>1. inGame' = inGame /\ name' = name /\ desc' = desc
    BY <1>6 DEF vars
  <2> QED
    BY <1>1, <2>1, SameForAll
<1> QED
  BY <1>2, <1>3, <1>4, <1>5, <1>6 DEF Next

LEMMA InitSession ==
  ASSUME Init
  PROVE  S!Init
<1>1. View
  BY InitIInv, IInvView
<1>2. \A n \in Names : PlayerOf(n) = "out"
  BY <1>1 DEF View, Init
<1> QED
  BY <1>2 DEF S!Init

\* What the world sees of the names is a behaviour of Session: each is out,
\* or in play by one descriptor, or link-dead, and a handler changes one name
\* in one of the ways Session allows, or restarts the game.
THEOREM ImplementsSession == Spec => SessionSpec
<1>1. Init => S!Init
  BY InitSession
<1>2. IInv /\ IInv' /\ [Next]_vars => [S!Next]_([n \in Names |-> PlayerOf(n)])
  BY NextSession, UnseenStutters
<1> QED
  BY <1>1, <1>2, Invariance, PTL DEF Spec, SessionSpec, S!Spec
=============================================================================
