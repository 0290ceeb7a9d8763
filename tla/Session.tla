------------------------------ MODULE Session ------------------------------
(***************************************************************************)
(* What the login layer promises to the rest of the game about a name: the *)
(* name is out of the world, or it is in the world once, played by one     *)
(* descriptor or link-dead; a descriptor plays one name.  How a name gets  *)
(* there (prompts, passwords, player files, doubles) is Connection's.      *)
(***************************************************************************)
CONSTANTS Names, Descs

VARIABLE player   \* player[n]: the descriptor that plays n, or one of Absent

Absent == {"out", "linkdead"}

Init == player = [n \in Names |-> "out"]

Idle(d) == \A n \in Names : player[n] # d

\* A descriptor brings the name into the world (CON_READ_MOTD).
Enter(n) ==
  /\ player[n] = "out"
  /\ \E d \in Descs : Idle(d) /\ player' = [player EXCEPT ![n] = d]

\* The link of the name is lost; the body stays (close_socket).
LoseLink(n) ==
  /\ player[n] \notin Absent
  /\ player' = [player EXCEPT ![n] = "linkdead"]

\* Another descriptor takes the body over, link-dead or not, and nothing of
\* the world changes (check_playing, check_reconnect).
TakeOver(n) ==
  /\ player[n] # "out"
  /\ \E d \in Descs : Idle(d) /\ player' = [player EXCEPT ![n] = d]

\* The body leaves the world (extract_char).
Leave(n) ==
  /\ player[n] # "out"
  /\ player' = [player EXCEPT ![n] = "out"]

\* The process ends.
Restart == player' = [n \in Names |-> "out"]

Next ==
  \/ \E n \in Names : Enter(n) \/ LoseLink(n) \/ TakeOver(n) \/ Leave(n)
  \/ Restart

Spec == Init /\ [][Next]_player
=============================================================================
