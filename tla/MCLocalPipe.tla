----------------------------- MODULE MCLocalPipe -----------------------------
(* Bodies of messages, reports of the library and orders of opening, for TLC. *)
EXTENDS LocalPipe

CONSTANTS c1, c2, c3

InAnyOrder == [c \in Clients |-> {}]
LastIsLast == [c \in Clients |-> IF c = c3 THEN Clients \ {c3} ELSE {}]

OneUnit  == <<1>>
WithLong == <<1, 1, 2>>  \* the last is as long as MsgLimit

OneEvent  == {{"EOF"}, {"Error"}}
AnyEvents == {{"EOF"}, {"Error"}, {"EOF", "Error"}}
=============================================================================
