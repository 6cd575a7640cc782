---------------------------- MODULE ConnectionLife ----------------------------
(***************************************************************************)
(* What the library promises of every connection it accepts: it is set up  *)
(* once, in its own loop, is taken out of the server's map before it is    *)
(* taken down, leaves the poller before its descriptor is closed, and      *)
(* never goes back.  TcpConnection keeps it for one connection with all    *)
(* that happens to it, TcpServer for each of several.                      *)
(***************************************************************************)
CONSTANT Connections

VARIABLE stage  \* how far each connection is

(* "accepted": its object exists; "open": its channel is in the poller;    *)
(* "closing": no more in the server's map; "destroyed": out of the poller; *)
(* "gone": its descriptor is closed.                                       *)
Stages == {"none", "accepted", "open", "closing", "destroyed", "gone"}

Moves == {<<"none", "accepted">>,
          <<"none", "open">>,  \* set up on the spot, in the base loop
          <<"accepted", "open">>,
          <<"open", "closing">>,
          <<"closing", "destroyed">>,
          <<"destroyed", "gone">>}

Init == stage = [c \in Connections |-> "none"]

(* Several may be closed at once, with the functors of one batch. *)
Next ==
  /\ stage' \in [Connections -> Stages]
  /\ \A c \in Connections :
       stage'[c] = stage[c] \/ <<stage[c], stage'[c]>> \in Moves

Spec == Init /\ [][Next]_stage
==============================================================================
