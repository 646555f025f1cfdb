--------------------------- MODULE DescriptorPool ---------------------------
(***************************************************************************)
(* What the worker thread promises about the descriptor pairs of the       *)
(* connections: a pair belongs to one connection at a time, from the       *)
(* moment it is opened until the connection is released, and it is not     *)
(* released before the application closed it.                              *)
(*                                                                         *)
(* RtaConnection (the connection table, the reference counts, the messages *)
(* in the queues between the components) implements this module.           *)
(***************************************************************************)
CONSTANTS Conns, Fds, NoFd

VARIABLES use,     \* per connection: "none", "open", "closing" or "released"
          number   \* the descriptor pair of a connection

vars == <<use, number>>

Init == /\ use = [c \in Conns |-> "none"]
        /\ number = [c \in Conns |-> NoFd]

InUse == {number[c] : c \in {d \in Conns : use[d] \in {"open", "closing"}}}

Open(c, f) ==
    /\ use[c] = "none"
    /\ f \notin InUse
    /\ use' = [use EXCEPT ![c] = "open"]
    /\ number' = [number EXCEPT ![c] = f]

(* Some connections are closed; some that are closed release their pair,   *)
(* at once or later.                                                       *)
Close(closed, released) ==
    /\ \A c \in closed : use[c] = "open"
    /\ \A c \in released : c \in closed \/ use[c] = "closing"
    /\ use' = [c \in Conns |-> IF c \in released THEN "released"
                               ELSE IF c \in closed THEN "closing" ELSE use[c]]
    /\ UNCHANGED number

Next ==
    \/ \E c \in Conns, f \in Fds : Open(c, f)
    \/ \E closed, released \in SUBSET Conns : Close(closed, released)

Spec == Init /\ [][Next]_vars
=============================================================================
