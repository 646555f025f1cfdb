---------------------------- MODULE OrderedStream ----------------------------
(***************************************************************************)
(* What a flow-control session promises to the component above it: the     *)
(* chunks 0, 1, 2, ... of one name, each exactly once and in order, then   *)
(* one FLOW_CONTROL_FINISHED notice, which comes only after the chunk that *)
(* really is the last one of the stream.  The stream starts at chunk 0     *)
(* whatever chunk the reader named; the reader may give it up at any time  *)
(* and ask for it again.                                                   *)
(*                                                                         *)
(* VegasSession (the circular window, the timers, the congestion window,   *)
(* a network that loses, duplicates and reorders) implements this module.  *)
(***************************************************************************)
EXTENDS Naturals, Sequences

CONSTANT LastChunk        \* number of the stream's real final chunk

VARIABLES up,             \* the chunks passed up since the stream was asked for
          phase           \* "none", "active", "finished" or "cancelled"

vars == <<up, phase>>

Init == up = <<>> /\ phase = "none"

Open ==
    /\ phase # "active"
    /\ phase' = "active"
    /\ up' = <<>>

(* The next n chunks go up, in order. *)
Extends(n) ==
    /\ Len(up) + n <= LastChunk + 1
    /\ up' = up \o [i \in 1..n |-> Len(up) + i - 1]

Deliver ==
    /\ phase = "active"
    /\ \E n \in 1..LastChunk + 1 : Extends(n)
    /\ UNCHANGED phase

(* The end of the stream is announced with or after its last chunk. *)
Finish ==
    /\ phase = "active"
    /\ \E n \in 0..LastChunk + 1 : Extends(n)
    /\ Len(up') = LastChunk + 1
    /\ phase' = "finished"

Cancel ==
    /\ phase = "active"
    /\ phase' = "cancelled"
    /\ UNCHANGED up

Next == Open \/ Deliver \/ Finish \/ Cancel

Spec == Init /\ [][Next]_vars
=============================================================================
