------------------------------ MODULE GameLoop ------------------------------
(***************************************************************************)
(* A pulse of the game: who is served, in which order, while connections   *)
(* come, go and close each other.                                          *)
(*                                                                         *)
(* game_loop_unix walks descriptor_list with a global, d_next, that        *)
(* close_socket moves on when it closes the connection d_next is at.  Most *)
(* other loops that close sockets have a d_next of their own; check_playing*)
(* uses the global.                                                        *)
(*                                                                         *)
(* A connection is a slot of memory, taken and given back.  What is typed  *)
(* is a number of lines; what becomes of a command is the connections it   *)
(* closes and the wait it leaves.  The prompts of module Connection between*)
(* the password and the game, the commands that stop the program, and the  *)
(* waits that others set on a character (blows, spells, do_lag) are left   *)
(* out: who is made to wait again and again need not be answered.          *)
(***************************************************************************)
EXTENDS SequencesExt

CONSTANTS
  Desc, Names,
  MaxLines,   \* lines in inbuf that leave no room to read another
  MaxWait,    \* bound: pulses of wait a command leaves
  None

ASSUME LoopAssumption ==
  /\ None \notin Desc \cup Names
  /\ MaxLines \in Nat \ {0}
  /\ MaxWait \in Nat

VARIABLES
  list,    \* descriptor_list
  next,    \* d_next
  phase,   \* where the pulse is: "poll", or "input" and what follows
  stage,   \* d->connected: "name", "password" or "play"
  who,     \* the name of d->character
  lines,   \* whole lines in d->inbuf
  wait,    \* d->character->wait
  seen,    \* what the walk did to each in this pulse: "no", "seen", "took"
  over     \* a session was taken over in this pulse

conns == <<list, next, stage, who, lines, wait>>
vars == <<conns, phase, seen, over>>

Listed == ToSet(list)

Init ==
  /\ list = << >>
  /\ next = None
  /\ phase = "poll"
  /\ stage = [d \in Desc |-> "name"]
  /\ who = [d \in Desc |-> None]
  /\ lines = [d \in Desc |-> 0]
  /\ wait = [d \in Desc |-> 0]
  /\ seen = [d \in Desc |-> "no"]
  /\ over = FALSE

-----------------------------------------------------------------------------
(***************************************************************************)
(* close_socket, on a record of the list and d_next.                       *)
(***************************************************************************)
At(s, d) == CHOOSE i \in DOMAIN s : s[i] = d

After(s, d) == IF At(s, d) = Len(s) THEN None ELSE s[At(s, d) + 1]

\* Mutant: d_next stays where it is.
UnlinkOnly(s, d) == [list |-> RemoveAt(s.list, At(s.list, d)), next |-> s.next]

Unlink(s, d) ==
  [list |-> RemoveAt(s.list, At(s.list, d)),
   next |-> IF s.next = d THEN After(s.list, d) ELSE s.next]

\* The connections of C are closed in the order of the list.
Unlinked(s, C) ==
  LET left[i \in 0..Len(s.list)] ==
        IF i = 0 THEN s
        ELSE IF s.list[i] \in C THEN Unlink(left[i - 1], s.list[i])
        ELSE left[i - 1]
  IN  left[Len(s.list)]

\* Mutant: a slot is taken as it was left.
BlankNot(f, C, b) == f

\* A slot that is given back is blank when it is taken again (new_descriptor).
Blank(f, C, b) == [d \in Desc |-> IF d \in C THEN b ELSE f[d]]

\* What is left when those in C are closed, d_next being at n.
Close(C, n) ==
  LET s == Unlinked([list |-> list, next |-> n], C)
  IN  /\ list' = s.list
      /\ next' = s.next

\* Anything written may find a buffer that its reader has not emptied for
\* long: write_to_buffer closes that connection, whoever it is.  Bound: one
\* in a step.
Overflows == {{}} \cup {{d} : d \in Listed}

-----------------------------------------------------------------------------
(***************************************************************************)
(* One connection's turn.  Between turns the walk is at d_next, which is    *)
(* moved on before anything else.                                          *)
(***************************************************************************)
Turn(d) == phase = "input" /\ next = d

Onward(d) == After(list, d)

\* What the client sent since: whole lines, or nothing.  There is no reading
\* when the buffer is full: that closes the connection (Lost).
Received(d) == lines[d]..(IF lines[d] = MaxLines THEN MaxLines ELSE lines[d] + 1)

\* The link is broken, or the input overflows.  What was typed is lost.
Lost(d) ==
  /\ Turn(d)
  /\ Close({d}, Onward(d))
  /\ stage' = Blank(stage, {d}, "name")
  /\ who' = Blank(who, {d}, None)
  /\ lines' = Blank(lines, {d}, 0)
  /\ wait' = Blank(wait, {d}, 0)
  /\ seen' = [seen EXCEPT ![d] = "seen"]
  /\ UNCHANGED <<phase, over>>

\* Mutant: the wait does not pass.
WaitOn(d) ==
  /\ Turn(d)
  /\ wait[d] > 0
  /\ \E n \in Received(d) : lines' = [lines EXCEPT ![d] = n]
  /\ next' = Onward(d)
  /\ seen' = [seen EXCEPT ![d] = "seen"]
  /\ UNCHANGED <<list, stage, who, wait, phase, over>>

\* A character that has to wait is only read from.
Wait(d) ==
  /\ Turn(d)
  /\ wait[d] > 0
  /\ \E n \in Received(d) : lines' = [lines EXCEPT ![d] = n]
  /\ wait' = [wait EXCEPT ![d] = @ - 1]
  /\ next' = Onward(d)
  /\ seen' = [seen EXCEPT ![d] = "seen"]
  /\ UNCHANGED <<list, stage, who, phase, over>>

\* There is no line, or a ~ was typed, which clears what is in the buffer.
Idle(d) ==
  /\ Turn(d)
  /\ wait[d] = 0
  /\ lines' = [lines EXCEPT ![d] = 0]
  /\ next' = Onward(d)
  /\ seen' = [seen EXCEPT ![d] = "seen"]
  /\ UNCHANGED <<list, stage, who, wait, phase, over>>

\* d's line is handled: those in C, and whom the output overflows, are closed;
\* d has w, st and p for wait, stage and name, unless it is one of them.
Handle(d, C, st, p, w) ==
  /\ Turn(d)
  /\ wait[d] = 0
  /\ \E n \in Received(d), O \in Overflows :
       LET G == C \cup O
       IN  /\ n > 0
           /\ Close(G, Onward(d))
           /\ stage' = Blank([stage EXCEPT ![d] = st], G, "name")
           /\ who' = Blank([who EXCEPT ![d] = p], G, None)
           /\ lines' = Blank([lines EXCEPT ![d] = n - 1], G, 0)
           /\ wait' = Blank([wait EXCEPT ![d] = w], G, 0)
  /\ seen' = [seen EXCEPT ![d] = "took"]
  /\ UNCHANGED phase

Namesakes(n) == {d \in Listed : who[d] = n}

\* CON_GET_NAME.  A name that others typed too, and with which they are not in
\* the game yet, is refused, and theirs, d's own if it was refused with that
\* name before, are closed.
TypeName(d, n) ==
  /\ stage[d] = "name"
  /\ LET twins == {e \in Namesakes(n) : stage[e] # "play"}
     IN  IF twins # {} THEN Handle(d, twins, "name", who[d], 0)
         ELSE \/ Handle(d, {}, "name", n, 0)        \* not a name to have
              \/ Handle(d, {}, "password", n, 0)
              \/ Handle(d, {d}, "name", n, 0)       \* banned, denied, locked out
  /\ UNCHANGED over

\* check_playing: the password is right and somebody plays with that name.
\* All others with the name are closed, in a loop that walks with d_next
\* itself and leaves it NULL: the game's walk ends there, and those after d
\* are passed over in this pulse.  The wait is that of the body in the world.
TakeOver(d) ==
  /\ Turn(d)
  /\ wait[d] = 0
  /\ stage[d] = "password"
  /\ \E e \in Namesakes(who[d]) \ {d} : stage[e] = "play"
  /\ \E n \in Received(d), w \in 0..MaxWait :
       LET G == Namesakes(who[d]) \ {d}
       IN  /\ n > 0
           /\ Close(G, None)
           /\ stage' = Blank([stage EXCEPT ![d] = "play"], G, "name")
           /\ who' = Blank(who, G, None)
           /\ lines' = Blank([lines EXCEPT ![d] = n - 1], G, 0)
           /\ wait' = Blank([wait EXCEPT ![d] = w], G, 0)
  /\ seen' = [seen EXCEPT ![d] = "took"]
  /\ over' = TRUE
  /\ UNCHANGED phase

\* CON_GET_OLD_PASSWORD, and nobody plays with that name.
LogIn(d) ==
  /\ stage[d] = "password"
  /\ \/ Handle(d, {d}, "name", who[d], 0)           \* the wrong password
     \/ /\ \A e \in Namesakes(who[d]) \ {d} : stage[e] # "play"
        /\ \E w \in 0..MaxWait : Handle(d, {}, "play", who[d], w)
  /\ UNCHANGED over

\* A command in the game that closes nothing.
Command(d) ==
  /\ stage[d] = "play"
  /\ \E w \in 0..MaxWait : Handle(d, {}, "play", who[d], w)
  /\ UNCHANGED over

\* do_quit, do_delete: d, and then all others with the same person.
Quit(d) ==
  /\ stage[d] = "play"
  /\ Handle(d, Namesakes(who[d]), "play", who[d], 0)
  /\ UNCHANGED over

\* do_disconnect, do_purge: an immortal closes anybody's.
Disconnect(d, e) ==
  /\ stage[d] = "play"
  /\ e \in Listed \ {d}
  /\ Handle(d, {e}, "play", who[d], 0)
  /\ UNCHANGED over

-----------------------------------------------------------------------------
(***************************************************************************)
(* The rest of the pulse.                                                  *)
(***************************************************************************)
\* Autonomous motion and output.  char_update makes one idle player quit; any
\* output may overflow or fail, which closes that connection.  d_next is NULL.
Rest ==
  /\ phase = "input"
  /\ next = None
  /\ \E C \in SUBSET Listed :
       /\ Close(C, None)
       /\ stage' = Blank(stage, C, "name")
       /\ who' = Blank(who, C, None)
       /\ lines' = Blank(lines, C, 0)
       /\ wait' = Blank(wait, C, 0)
  /\ phase' = "poll"
  /\ seen' = [d \in Desc |-> "no"]
  /\ over' = FALSE

\* The poll: a new connection goes to the head of the list; the links that
\* are out of order are closed.
Poll ==
  /\ phase = "poll"
  /\ \E C \in SUBSET Listed, new \in {<< >>} \cup {<<d>> : d \in Desc \ Listed} :
       LET s == Unlinked([list |-> list, next |-> None], C)
       IN  /\ list' = new \o s.list
           /\ next' = IF new \o s.list = << >> THEN None ELSE Head(new \o s.list)
           /\ stage' = Blank(stage, C, "name")
           /\ who' = Blank(who, C, None)
           /\ lines' = Blank(lines, C, 0)
           /\ wait' = Blank(wait, C, 0)
  /\ phase' = "input"
  /\ UNCHANGED <<seen, over>>

Next ==
  \/ \E d \in Desc :
       \/ Lost(d) \/ Wait(d) \/ Idle(d)
       \/ \E n \in Names : TypeName(d, n)
       \/ TakeOver(d) \/ LogIn(d) \/ Command(d) \/ Quit(d)
       \/ \E e \in Desc : Disconnect(d, e)
  \/ Rest
  \/ Poll

\* The loop never blocks: select is given no time to wait.
Spec == Init /\ [][Next]_vars /\ WF_vars(Next)

-----------------------------------------------------------------------------
\* A slot that is not in the list is blank, and each is in it once.
TypeOK ==
  /\ list \in Seq(Desc)
  /\ IsInjective(list)
  /\ next \in Desc \cup {None}
  /\ phase \in {"poll", "input"}
  /\ stage \in [Desc -> {"name", "password", "play"}]
  /\ who \in [Desc -> Names \cup {None}]
  /\ lines \in [Desc -> 0..MaxLines]
  /\ wait \in [Desc -> 0..MaxWait]
  /\ seen \in [Desc -> {"no", "seen", "took"}]
  /\ over \in BOOLEAN
  /\ \A d \in Desc \ Listed : stage[d] = "name" /\ who[d] = None
                              /\ lines[d] = 0 /\ wait[d] = 0

\* Those the walk has still to come to.
Ahead ==
  IF next = None THEN {}
  ELSE {d \in Listed : \E i, j \in DOMAIN list : i <= j /\ list[i] = next /\ list[j] = d}

\* The walk is never at a connection that has been closed, whoever closed it,
\* and nobody has a second turn in a pulse; unless a session was taken over,
\* nobody misses one either: those who had none are exactly those ahead.
\* (d_next and its correction in close_socket, comm.c:1291.)
WalkRight ==
  phase = "input" =>
    /\ next \in Listed \cup {None}
    /\ \A d \in Ahead : seen[d] = "no"
    /\ over \/ \A d \in Listed : seen[d] = "no" => d \in Ahead

\* Who has typed a line, and waits to have it read, sees it read or cleared or
\* loses the connection, provided that sessions are not taken over for ever:
\* each takeover makes the pulse pass over those who came before.
Answered ==
  <>[](~over) =>
    \A d \in Desc : lines[d] > 0 ~> (seen[d] = "took" \/ lines[d] = 0)
=============================================================================
