----------------------------- MODULE LocalSocket -----------------------------
(***************************************************************************)
(* The PF_LOCAL sockets between the connections of the local connector     *)
(* (connector_Forwarder_Local.c) and the bent pipe (bent_pipe.c), and the  *)
(* framing both use: each message is a localhdr with the length of the     *)
(* body, and the body.                                                     *)
(*                                                                         *)
(* A byte is a unit <<client, number, place>>: which client wrote the      *)
(* message, which of its messages it is, and the place in it, the first    *)
(* HeaderSize being the header.  A direction of a socket holds what was    *)
(* written and not yet read, the output buffer of the writer included.     *)
(***************************************************************************)
EXTENDS Integers, Sequences, FiniteSets, SequencesExt

CONSTANTS
    Clients,      \* connections of the local connector
    HeaderSize,   \* sizeof(localhdr)
    Body          \* the length of the body of the n-th message of a client

None == "none"

ASSUME FrameAssumption ==
    /\ None \notin Clients
    /\ HeaderSize \in Nat \ {0}
    /\ Body \in Seq(Nat \ {0})

VARIABLES
    client_end,   \* of a connection: "new", "connecting", "connected", "closed"
    pipe_end,     \* "none", "backlog" before it is accepted, "open", "closed"
    down, up,     \* units on their way to the pipe, and to the client
    trap          \* "none" or the function whose assertion failed

sockets == <<client_end, pipe_end, down, up>>

MessageUnits(c, n) == [k \in 1..HeaderSize + Body[n] |-> <<c, n, k>>]

(* What reading the units as localhdr finds in its length: what the header *)
(* says, or anything when the units are not a header.                      *)
HeaderLengths(units) ==
    IF units[1][3] = 1 THEN {Body[units[1][2]]} ELSE {Body[n] : n \in DOMAIN Body} \cup {0}

Prefix(s, n) == SubSeq(s, 1, n)
Rest(s, n)   == SubSeq(s, n + 1, Len(s))

(* Units that are whole messages one after the other, with no more than    *)
(* the beginning of one at the end.                                        *)
Framed(units) ==
    \A p \in DOMAIN units :
        IF units[p][3] = 1
        THEN p = 1 \/ units[p - 1][3] = HeaderSize + Body[units[p - 1][2]]
        ELSE p > 1 /\ units[p - 1] = <<units[p][1], units[p][2], units[p][3] - 1>>

(* The messages of which a unit sequence holds the beginning. *)
Messages(units) ==
    FlattenSeq([k \in DOMAIN units |->
        IF units[k][3] = 1 THEN << <<units[k][1], units[k][2]>> >> ELSE <<>>])

SocketTypeOK ==
    /\ client_end \in [Clients -> {"new", "connecting", "connected", "closed"}]
    /\ pipe_end \in [Clients -> {"none", "backlog", "open", "closed"}]
    /\ \A c \in Clients : pipe_end[c] = "none" => client_end[c] \in {"new", "closed"}

SocketInit ==
    /\ client_end = [c \in Clients |-> "new"]
    /\ pipe_end = [c \in Clients |-> "none"]
    /\ down = [c \in Clients |-> <<>>]
    /\ up = [c \in Clients |-> <<>>]
    /\ trap = None
=============================================================================
