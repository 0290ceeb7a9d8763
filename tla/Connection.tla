----------------------------- MODULE Connection -----------------------------
(***************************************************************************)
(* The login and session layer of the game: descriptors (one per socket),  *)
(* the player characters they hold, the characters that are in the world   *)
(* (char_list), and the player files.                                      *)
(*                                                                         *)
(* The server is one thread: game_loop_unix serves one line of input of    *)
(* one descriptor, or one tick, at a time.  Every action below is one such *)
(* handler run to its end, so that the interleavings are the orders in     *)
(* which the sockets and the ticks are served.                             *)
(*                                                                         *)
(* A character is a slot of memory with the name, the person id            *)
(* (ch->id, kept in the player file) and the progress of its person.       *)
(* Progress stands for everything a session changes and a save writes      *)
(* (level, equipment, gold ...): Play increments it, so that two copies of *)
(* one person are told apart by age.  Progress 0 is a character of level 1 *)
(* at most, the ones the link-loss paths do not save.                      *)
(***************************************************************************)
EXTENDS Naturals, FiniteSets

CONSTANTS
  Descs,      \* DESCRIPTOR_DATA slots
  Chars,      \* CHAR_DATA slots used for player characters
  Names,      \* names a person may type
  MobNames,   \* the names among them that a mobile of the world bears
  Ids,        \* person ids, see get_pc_id
  MaxData,    \* bound on the progress of a character
  None

\* What fwrite_char keeps of a character.
Files == [id : Ids, data : 0 .. MaxData]

ASSUME ConstAssumption ==
  /\ None \notin Descs \cup Chars \cup Names \cup Ids \cup Files
  /\ MobNames \subseteq Names
  /\ {"out", "linkdead"} \cap Descs = {}     \* what Session says of a name
  /\ MaxData \in Nat

VARIABLES
  conn,      \* d->connected
  char,      \* d->character
  desc,      \* ch->desc
  name,      \* ch->name, None for a slot on the free list
  pid,       \* ch->id
  data,      \* the progress the character carries
  inGame,    \* the player characters on char_list
  pfile,     \* the player file of a name, or None
  atQuit,    \* history: the progress the person of a name had when it last quit
  twice      \* history: the names under which a second person was let in

charVars == <<name, pid, data>>
history == <<atQuit, twice>>
vars == <<conn, char, desc, name, pid, data, inGame, pfile, atQuit, twice>>

(***************************************************************************)
(* CON_ states.  Creating stands for the states from CON_GET_SURNAME to    *)
(* CON_PICK_STATS and the CON_PREFRESH_CHAR prompt, in which nothing but   *)
(* the attributes of d->character changes; ReadMotd also for CON_READ_IMOTD.*)
(***************************************************************************)
LoginStates == {"GetName", "ConfirmNewName", "Creating", "GetOldPassword",
                "ReadMotd"}
ConnStates == LoginStates \cup {"Free", "Playing"}

Bodies(n) == {c \in inGame : name[c] = n}
Holders(n) == {d \in Descs : char[d] # None /\ name[char[d]] = n}
FreeSlots == {c \in Chars : name[c] = None}
UsedIds == {pid[c] : c \in Chars \ FreeSlots}
             \cup {pfile[n].id : n \in {m \in Names : pfile[m] # None}}

TypeOK ==
  /\ conn \in [Descs -> ConnStates]
  /\ char \in [Descs -> Chars \cup {None}]
  /\ desc \in [Chars -> Descs \cup {None}]
  /\ name \in [Chars -> Names \cup {None}]
  /\ pid \in [Chars -> Ids \cup {None}]
  /\ data \in [Chars -> 0 .. MaxData]
  /\ inGame \subseteq Chars
  /\ pfile \in [Names -> Files \cup {None}]
  /\ atQuit \in [Names -> 0 .. MaxData]
  /\ twice \subseteq Names

\* The process starts with the player files it finds; each was written when
\* its person quit, and no two persons have the same id.
Init ==
  /\ conn = [d \in Descs |-> "Free"]
  /\ char = [d \in Descs |-> None]
  /\ desc = [c \in Chars |-> None]
  /\ name = [c \in Chars |-> None]
  /\ pid = [c \in Chars |-> None]
  /\ data = [c \in Chars |-> 0]
  /\ inGame = {}
  /\ pfile \in [Names -> Files \cup {None}]
  /\ \A m, n \in Names : pfile[m] # None /\ pfile[n] # None /\ m # n
                           => pfile[m].id # pfile[n].id
  /\ atQuit = [n \in Names |-> IF pfile[n] = None THEN 0 ELSE pfile[n].data]
  /\ twice = {}

-----------------------------------------------------------------------------
(***************************************************************************)
(* Building blocks.                                                        *)
(***************************************************************************)

\* Mutant: close_socket forgets to clear ch->desc.
HeldNone(D) == {}

\* The characters close_socket finds on the descriptors D.
Held(D) == {char[d] : d \in D} \ {None}

\* The ones among them it frees: a descriptor that is not playing takes its
\* character with it, one that is playing leaves it in the world, link-dead.
Freed(D) == {char[d] : d \in {e \in D : conn[e] # "Playing"}} \ {None}

\* close_socket of every descriptor in D, and free_char of the characters E.
Close(D, E) ==
  /\ conn' = [d \in Descs |-> IF d \in D THEN "Free" ELSE conn[d]]
  /\ char' = [d \in Descs |-> IF d \in D THEN None ELSE char[d]]
  /\ desc' = [c \in Chars |-> IF c \in Held(D) \cup E THEN None ELSE desc[c]]
  /\ name' = [c \in Chars |-> IF c \in Freed(D) \cup E THEN None ELSE name[c]]
  /\ pid'  = [c \in Chars |-> IF c \in Freed(D) \cup E THEN None ELSE pid[c]]
  /\ data' = [c \in Chars |-> IF c \in Freed(D) \cup E THEN 0 ELSE data[c]]

\* save_char_obj: the whole file is replaced by what this character carries.
Written(c) == [pfile EXCEPT ![name[c]] = [id |-> pid[c], data |-> data[c]]]

\* load_char_obj into the slot c for descriptor d: a person with a file gets
\* what the file says, any other a fresh id.  A character d already held is
\* no longer pointed to by anything and its slot is given back.  Without a
\* file, while the person plays, the copy is another person of the same name:
\* twice remembers it.
Load(d, n, c, s) ==
  /\ c \in FreeSlots
  /\ \E i \in Ids :
       /\ IF pfile[n] = None THEN i \notin UsedIds ELSE i = pfile[n].id
       /\ name' = [x \in Chars |-> IF x = c THEN n
                                   ELSE IF x = char[d] THEN None ELSE name[x]]
       /\ pid' = [x \in Chars |-> IF x = c THEN i
                                  ELSE IF x = char[d] THEN None ELSE pid[x]]
       /\ data' = [x \in Chars |-> IF x = c /\ pfile[n] # None
                                   THEN pfile[n].data
                                   ELSE IF x \in {c, char[d]} THEN 0 ELSE data[x]]
  /\ desc' = [x \in Chars |-> IF x = c THEN d
                              ELSE IF x = char[d] THEN None ELSE desc[x]]
  /\ char' = [char EXCEPT ![d] = c]
  /\ conn' = [conn EXCEPT ![d] = s]
  /\ twice' = IF pfile[n] = None /\ Bodies(n) # {} THEN twice \cup {n} ELSE twice
  /\ UNCHANGED <<inGame, pfile, atQuit>>

-----------------------------------------------------------------------------
(***************************************************************************)
(* CON_GET_NAME.                                                           *)
(***************************************************************************)

\* Mutant: check_parse_name looks at the new characters only.
DoublesNewOnly(n) ==
  {d \in Holders(n) : conn[d] \in {"ConfirmNewName", "Creating"}}

\* The descriptors check_parse_name closes before anything is loaded: the
\* ones not playing whose character has the name, d itself among them when
\* it kept a character after an earlier refusal.
Doubles(n) == {d \in Holders(n) : conn[d] # "Playing"}

\* init_descriptor
Connect(d) ==
  /\ conn[d] = "Free"
  /\ conn' = [conn EXCEPT ![d] = "GetName"]
  /\ UNCHANGED <<char, desc, charVars, inGame, pfile, history>>

\* check_parse_name closes the doubles and refuses the name.
DoubleNewbie(d, n) ==
  /\ conn[d] = "GetName"
  /\ Doubles(n) # {}
  /\ Close(Doubles(n), {})
  /\ UNCHANGED <<inGame, pfile, history>>

\* check_mob_name refuses the name of a new character, after it was loaded.
MobName(d, n, c) ==
  /\ conn[d] = "GetName"
  /\ Doubles(n) = {}
  /\ n \in MobNames
  /\ pfile[n] = None
  /\ Load(d, n, c, "GetName")

\* A person with a file, or whose name is borne by a character in the world
\* (check_reconnect with fConn FALSE), is asked for its password.
OldPlayer(d, n, c) ==
  /\ conn[d] = "GetName"
  /\ Doubles(n) = {}
  /\ pfile[n] # None \/ (Bodies(n) # {} /\ n \notin MobNames)
  /\ Load(d, n, c, "GetOldPassword")

NewPlayer(d, n, c) ==
  /\ conn[d] = "GetName"
  /\ Doubles(n) = {}
  /\ n \notin MobNames
  /\ pfile[n] = None
  /\ Bodies(n) = {}
  /\ Load(d, n, c, "ConfirmNewName")

(***************************************************************************)
(* The states from the name to the world.                                  *)
(***************************************************************************)

\* CON_CONFIRM_NEW_NAME
ConfirmName(d) ==
  /\ conn[d] = "ConfirmNewName"
  /\ conn' = [conn EXCEPT ![d] = "Creating"]
  /\ UNCHANGED <<char, desc, charVars, inGame, pfile, history>>

RefuseName(d) ==
  /\ conn[d] = "ConfirmNewName"
  /\ conn' = [conn EXCEPT ![d] = "GetName"]
  /\ char' = [char EXCEPT ![d] = None]
  /\ desc' = [desc EXCEPT ![char[d]] = None]
  /\ name' = [name EXCEPT ![char[d]] = None]
  /\ pid' = [pid EXCEPT ![char[d]] = None]
  /\ data' = [data EXCEPT ![char[d]] = 0]
  /\ UNCHANGED <<inGame, pfile, history>>

\* The last of the creation states, CON_PICK_STATS, done.
FinishCreation(d) ==
  /\ conn[d] = "Creating"
  /\ conn' = [conn EXCEPT ![d] = "ReadMotd"]
  /\ UNCHANGED <<char, desc, charVars, inGame, pfile, history>>

\* Another descriptor past the password with the same name (check_playing).
AlreadyPlaying(d) ==
  {e \in Holders(name[char[d]]) \ {d} : conn[e] \notin {"GetName", "GetOldPassword"}}

\* Mutant: check_playing closes without comparing the names.
DisplacedAll(d) ==
  IF AlreadyPlaying(d) = {} THEN {} ELSE {e \in Descs \ {d} : char[e] # None}

\* What check_playing closes before it looks for a body to reconnect to.
Displaced(d) ==
  IF AlreadyPlaying(d) = {} THEN {} ELSE Holders(name[char[d]]) \ {d}

\* The link-dead bodies check_reconnect finds then: without a descriptor, or
\* left without one by the closing.
LinkDead(d) ==
  {b \in Bodies(name[char[d]]) : desc[b] = None \/ b \in Held(Displaced(d))}

\* CON_GET_OLD_PASSWORD, right, with the character already connected or
\* link-dead: take over the body in the world and drop the character that was
\* loaded.  Where check_playing closed the others and check_reconnect then
\* finds no body, the descriptor plays the loaded character, out of the world.
Reconnect(d) ==
  /\ conn[d] = "GetOldPassword"
  /\ Displaced(d) # {} \/ LinkDead(d) # {}
  /\ \E b \in IF LinkDead(d) = {} THEN {char[d]} ELSE LinkDead(d) :
       LET D == Displaced(d)
           gone == Freed(D) \cup ({char[d]} \ {b})
       IN  /\ conn' = [e \in Descs |-> IF e = d THEN "Playing"
                                        ELSE IF e \in D THEN "Free" ELSE conn[e]]
           /\ char' = [e \in Descs |-> IF e = d THEN b
                                        ELSE IF e \in D THEN None ELSE char[e]]
           /\ desc' = [c \in Chars |-> IF c = b THEN d
                                        ELSE IF c \in Held(D) \cup gone
                                             THEN None ELSE desc[c]]
           /\ name' = [c \in Chars |-> IF c \in gone THEN None ELSE name[c]]
           /\ pid' = [c \in Chars |-> IF c \in gone THEN None ELSE pid[c]]
           /\ data' = [c \in Chars |-> IF c \in gone THEN 0 ELSE data[c]]
  /\ UNCHANGED <<inGame, pfile, history>>

\* CON_GET_OLD_PASSWORD, right, and nobody of that name is in the world: on
\* to the message of the day, or back to creation for a character that is
\* being refreshed or reclassed.
LogIn(d) ==
  /\ conn[d] = "GetOldPassword"
  /\ LinkDead(d) = {}
  /\ Displaced(d) = {}
  /\ \E s \in {"ReadMotd", "Creating"} : conn' = [conn EXCEPT ![d] = s]
  /\ UNCHANGED <<char, desc, charVars, inGame, pfile, history>>

\* CON_READ_MOTD
EnterGame(d) ==
  /\ conn[d] = "ReadMotd"
  /\ conn' = [conn EXCEPT ![d] = "Playing"]
  /\ inGame' = inGame \cup {char[d]}
  /\ UNCHANGED <<char, desc, charVars, pfile, history>>

(***************************************************************************)
(* In the world.                                                           *)
(***************************************************************************)
Play(c) ==
  /\ c \in inGame
  /\ data[c] < MaxData
  /\ data' = [data EXCEPT ![c] = @ + 1]
  /\ UNCHANGED <<conn, char, desc, name, pid, inGame, pfile, history>>

\* do_save, the save in char_update, and the others of a character in play.
Save(c) ==
  /\ c \in inGame
  /\ pfile' = Written(c)
  /\ UNCHANGED <<conn, char, desc, charVars, inGame, history>>

\* Mutant: do_quit without its last loop.
OwnLink(c) == {desc[c]} \ {None}

\* The descriptors do_quit closes for the person in c: its own, and every
\* other whose character has the same id.
SamePerson(c) ==
  ({desc[c]} \ {None}) \cup {d \in Descs : char[d] # None /\ pid[char[d]] = pid[c]}

\* do_quit: by command, by autoquit, and forced by deny, remort, reclass.
\* Delete: do_delete, which removes the file after the quit has saved it.
Leave(c, file) ==
  LET D == SamePerson(c)
      gone == Held(D) \cup {c}
      n == name[c]
  IN  /\ Close(D, gone)
      /\ inGame' = inGame \ gone
      /\ pfile' = file
      /\ atQuit' = [atQuit EXCEPT ![n] = IF file[n] = None THEN 0 ELSE data[c]]
      /\ twice' = IF \E x \in Chars \ gone : name[x] = n THEN twice ELSE twice \ {n}

\* Mutant: the save after extract_char, when the character is cleared.
QuitSaveLast(c) ==
  c \in inGame /\ Leave(c, [pfile EXCEPT ![name[c]] = [id |-> None, data |-> 0]])

Quit(c) == c \in inGame /\ Leave(c, Written(c))

Delete(c) ==
  /\ c \in inGame
  /\ desc[c] # None
  /\ Leave(c, [pfile EXCEPT ![name[c]] = None])

\* do_purge of a player: saved when above level 1, extracted, its descriptor
\* closed; descriptors that wait with the same person are left alone.
Purge(c) ==
  /\ c \in inGame
  /\ Close({desc[c]} \ {None}, {c})
  /\ inGame' = inGame \ {c}
  /\ pfile' = IF data[c] > 0 THEN Written(c) ELSE pfile
  /\ UNCHANGED history

(***************************************************************************)
(* Ends of a connection.                                                   *)
(***************************************************************************)

\* Whether losing the link saves: a character above level 1, in whatever
\* state the descriptor is.  In creation a refreshed character may be back at
\* level 0.
Saves(d) ==
  IF char[d] = None THEN {FALSE}
  ELSE IF data[char[d]] = 0 THEN {FALSE}
  ELSE IF conn[d] = "Creating" THEN BOOLEAN ELSE {TRUE}

\* A read, a write or an exception of the socket failed.
HangUp(d) ==
  /\ conn[d] # "Free"
  /\ \E s \in Saves(d) : pfile' = IF s THEN Written(char[d]) ELSE pfile
  /\ Close({d}, {})
  /\ UNCHANGED <<inGame, history>>

\* close_socket without a save: a wrong password, a refused name (denied,
\* banned, locked), do_disconnect, an output buffer that overflows.
Disconnect(d) ==
  /\ conn[d] # "Free"
  /\ Close({d}, {})
  /\ UNCHANGED <<inGame, pfile, history>>

\* The process ends: a crash, or a reboot after its saves.
Crash ==
  /\ Close(Descs, Chars)
  /\ inGame' = {}
  /\ UNCHANGED <<pfile, history>>

-----------------------------------------------------------------------------
Login(d) ==
  \/ Connect(d) \/ ConfirmName(d) \/ RefuseName(d) \/ FinishCreation(d)
  \/ Reconnect(d) \/ LogIn(d) \/ EnterGame(d)
  \/ \E n \in Names :
       \/ DoubleNewbie(d, n)
       \/ \E c \in Chars : MobName(d, n, c) \/ OldPlayer(d, n, c) \/ NewPlayer(d, n, c)

InWorld(c) == Play(c) \/ Save(c) \/ Quit(c) \/ Delete(c) \/ Purge(c)

Next ==
  \/ \E d \in Descs : Login(d) \/ HangUp(d) \/ Disconnect(d)
  \/ \E c \in Chars : InWorld(c)
  \/ Crash

Spec == Init /\ [][Next]_vars

-----------------------------------------------------------------------------
(***************************************************************************)
(* Properties.                                                             *)
(***************************************************************************)

\* Descriptors and characters point at each other and at nothing stale: a
\* descriptor that plays holds a character of the world whose desc is that
\* descriptor (the fall-through of check_playing that would leave it out of
\* the world is never taken), and a character of the world with a desc is
\* held by a playing descriptor, so output to ch->desc never goes to a closed
\* or recycled one.
LinksMutual ==
  /\ \A d \in Descs : conn[d] = "Playing" =>
       char[d] # None /\ char[d] \in inGame /\ desc[char[d]] = d
  /\ \A c \in inGame : desc[c] # None =>
       conn[desc[c]] = "Playing" /\ char[desc[c]] = c

\* However many connections try the same name in whatever order, the world
\* holds at most one body of it (check_parse_name, check_playing and
\* check_reconnect together; nothing looks for a second body when one enters).
OneBody ==
  \A b, c \in inGame : name[b] = name[c] => b = c

\* What a person had when it last quit is never rolled back by a copy of it
\* that another connection had loaded earlier: whoever bears the name carries
\* at least that, in the world or on the way there, and so does the file (the
\* loop at the end of do_quit that closes the descriptors with the same id).
\* The names in twice are excepted, because for them the code does roll back:
\* the second login of a person who plays and was never saved gets an id of
\* its own, the loop of do_quit passes it by, and it enters and is saved over
\* what the first one left.  The exception lasts until the name quits with
\* nobody else of the name left.
QuitDurable ==
  \A n \in Names \ twice :
    /\ \A c \in Chars : name[c] = n => data[c] >= atQuit[n]
    /\ pfile[n] # None => pfile[n].data >= atQuit[n]

-----------------------------------------------------------------------------
(***************************************************************************)
(* The session layer implements Session: what the world sees of a name.    *)
(***************************************************************************)
Body(n) == CHOOSE c \in inGame : name[c] = n

PlayerOf(n) ==
  IF Bodies(n) = {} THEN "out"
  ELSE IF desc[Body(n)] = None THEN "linkdead" ELSE desc[Body(n)]

S == INSTANCE Session WITH player <- [n \in Names |-> PlayerOf(n)]

\* Every step of the handlers changes the session of one name at most, and
\* only the ways Session allows.
SessionSpec == S!Spec

=============================================================================
