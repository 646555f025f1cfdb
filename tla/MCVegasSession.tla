---------------------------- MODULE MCVegasSession ----------------------------
(* Streams for TLC: which content objects announce which final chunk.      *)
EXTENDS VegasSession

(* Only the last chunk says that it is the last one. *)
LastOnly == [seg \in Segments |-> IF seg = LastChunk THEN LastChunk ELSE NoFinal]

(* Every chunk announces the last one. *)
Announced == [seg \in Segments |-> LastChunk]

(* The first chunk announces an end the producer later moves back: the     *)
(* number never decreases, and only the last chunk is the end.             *)
Extended == [seg \in Segments |-> CASE seg = 0         -> 1
                                    [] seg = LastChunk -> LastChunk
                                    [] seg # 0 /\ seg # LastChunk -> NoFinal]

NoChunkOnly == {NoChunk}
FromChunk1  == {NoChunk, 1}
Rtts        == {1, 2, 40}
FastRtt     == {1}
=============================================================================
