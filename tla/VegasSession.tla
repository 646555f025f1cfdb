----------------------------- MODULE VegasSession -----------------------------
(***************************************************************************)
(* One flow-control session of the Vegas component: the circular window of *)
(* outstanding interests, in-order delivery, the congestion window, the    *)
(* two retransmissions (fast, on an out-of-order answer; slow, on the RTO) *)
(* and the end of the stream (vegas_Session.c), with the component code    *)
(* that starts, ends and cancels it (component_Vegas.c).                   *)
(*                                                                         *)
(* Time is abstracted: which segments have passed the SRTT, whether the    *)
(* RTT sample or the RTO is due, are choices of the environment.  An       *)
(* answer is handled at least one tick after any interest it could reduce  *)
(* the window for.  The arithmetic of the estimators is in VegasRtt.       *)
(*                                                                         *)
(* A failed assertTrue/assertFalse or a trapNotImplemented aborts the      *)
(* process: "trap" names the function, and nothing happens after it.       *)
(***************************************************************************)
EXTENDS Integers, Sequences, FiniteSetsExt

CONSTANTS
    MaxCwnd,       \* FC_MAX_CWND: size of the window and limit of the cwnd
    NoFinal,       \* ULLONG_MAX: "the final segment is not known"
    LastChunk,     \* the real final chunk of the stream
    FinalChunk,    \* [0..LastChunk -> 0..LastChunk \cup {NoFinal}]: the
                   \* FinalChunkNumber each content object carries
    Begins,        \* chunk number in the application's interest, or NoChunk
    RttValues,     \* round trip times, for TimeBasedAvoidance
    MaxCopies,     \* bound: answers in the network per segment
    MaxSessions,   \* bound: sessions opened one after the other
    MayCancel,     \* the application may cancel the flow
    MayRepeat,     \* the application may repeat its interest
    MayPause       \* the connection may be paused or blocked downwards

Segments == 0..LastChunk
Slots    == 0..MaxCwnd - 1
NoMsg    == -1
NoChunk  == -1

ASSUME VegasAssumption ==
    /\ MaxCwnd \in Nat /\ MaxCwnd >= 4
    /\ LastChunk \in Nat /\ NoFinal \in Nat
    /\ NoFinal > LastChunk + MaxCwnd + 1
    /\ FinalChunk \in [Segments -> Segments \cup {NoFinal}]
    /\ FinalChunk[LastChunk] = LastChunk
    /\ Begins \subseteq Segments \cup {NoChunk}
    /\ RttValues \subseteq Nat \ {0}
    /\ MaxCopies \in Nat /\ MaxSessions \in Nat
    /\ {MayCancel, MayRepeat, MayPause} \subseteq BOOLEAN

VARIABLES
    phase,         \* "none", "active", "finished" (FLOW_CONTROL_FINISHED sent), "cancelled"
    session,       \* struct vegas_session
    begin,         \* chunk the application's interest asked to begin at
    up,            \* chunks put on the up queue since the session started
    inflight,      \* per segment, interests the network may still answer
    paused,        \* rtaConnection state is PAUSED rather than OPEN
    blocked,       \* the connection's blocked_down flag
    opened,        \* number of sessions created so far
    trap           \* "none" or the function whose assertion failed

vars == <<phase, session, begin, up, inflight, paused, blocked, opened, trap>>

(* rtaConnection_BlockedUp and rtaConnection_BlockedDown: nobody sets the  *)
(* blocked_up flag, so "up" is blocked only by the state.                  *)
BlockedUp   == paused
BlockedDown == paused \/ blocked

-----------------------------------------------------------------------------
(* The window *)

EmptyEntry == [valid |-> FALSE, segnum |-> 0, msg |-> NoMsg]

Entry == [valid : BOOLEAN, segnum : Nat, msg : Segments \cup {NoMsg}]

NewSession ==
    [ starting |-> 0, head |-> 0, tail |-> 0,
      window   |-> [i \in Slots |-> EmptyEntry],
      cwnd     |-> 2, ssthresh |-> MaxCwnd, final |-> NoFinal,
      doFc     |-> FALSE, cntRtt |-> 0, oldSegs |-> FALSE,
      fresh    |-> {},       \* segments with t >= last_cwnd_adjust
      adjusted |-> FALSE ]   \* last_cwnd_adjust # 0

WSize(s) == IF s.tail >= s.head THEN s.tail - s.head
                                ELSE s.tail - s.head + MaxCwnd

Slot(s, k) == (s.head + k) % MaxCwnd

(* The entry vegasSession_GetWindowEntry looks up for a segment. *)
EntryOf(s, seg) == s.window[Slot(s, seg - s.starting)]

InWindow(s, seg) == EntryOf(s, seg).valid /\ EntryOf(s, seg).segnum = seg

(* Mutant: the offset is not taken from window_head. *)
GetWindowEntry_NoHead(s, seg) ==
    [s EXCEPT !.window[seg - s.starting].msg = seg]

GetWindowEntry(s, seg) ==
    [s EXCEPT !.window[Slot(s, seg - s.starting)].msg = seg]

(* Distance of a slot from the head of the window. *)
Offset(s, i) == IF i >= s.head THEN i - s.head ELSE i - s.head + MaxCwnd

(* Mutant: only the first object is forwarded (an if, not a while). *)
Ready_OnlyFirst(s) ==
    IF WSize(s) > 0 /\ s.window[s.head].msg # NoMsg THEN 1 ELSE 0

(* How many entries at the head of the window hold their content object.   *)
Ready(s) ==
    Min({n \in 0..WSize(s) : n = WSize(s) \/ s.window[Slot(s, n)].msg = NoMsg})

Delivered(s) == [i \in 1..Ready(s) |-> s.window[Slot(s, i - 1)].msg]

(* Mutant: starting_segnum is not incremented. *)
ForwardObjectsInOrder_NoStarting(s) ==
    LET n == Ready(s)
    IN [s EXCEPT !.head   = (@ + n) % MaxCwnd,
                 !.window = [i \in Slots |-> IF Offset(s, i) < n THEN EmptyEntry ELSE @[i]]]

ForwardObjectsInOrder(s) ==
    LET n == Ready(s)
    IN [s EXCEPT !.starting = @ + n,
                 !.head     = (@ + n) % MaxCwnd,
                 !.window   = [i \in Slots |-> IF Offset(s, i) < n THEN EmptyEntry ELSE @[i]],
                 !.fresh    = {seg \in @ : seg >= s.starting + n}]

SmallerOf(a, b) == IF a < b THEN a ELSE b
LargerOf(a, b)  == IF a > b THEN a ELSE b

(* The loop of vegasSession_ExpressInterests fills the window up to the    *)
(* congestion window, and not beyond the final segment.                    *)
Reach(s) == SmallerOf(s.cwnd, s.final - s.starting + 1)

ToExpress(s) == {s.starting + k : k \in WSize(s)..Reach(s) - 1}

(* assertFalse(entry->valid, "... outside the cwind!") on each new entry. *)
TailIsFree(s) ==
    \A k \in WSize(s)..Reach(s) - 1 : ~ s.window[Slot(s, k)].valid

(* t := now for the segments an interest was sent for; when the down       *)
(* direction is blocked a new entry keeps t = 0.                           *)
Stamped(s, segs) ==
    IF BlockedDown /\ s.adjusted THEN s.fresh ELSE s.fresh \cup segs

ExpressInterests(s) ==
    [s EXCEPT !.tail   = Slot(s, LargerOf(WSize(s), Reach(s))),
              !.window = [i \in Slots |->
                  IF Offset(s, i) \in WSize(s)..Reach(s) - 1
                  THEN [valid |-> TRUE, segnum |-> s.starting + Offset(s, i), msg |-> NoMsg]
                  ELSE @[i]],
              !.fresh  = Stamped(s, ToExpress(s))]

(* An interest goes to the network unless the connection is blocked down;  *)
(* the network holds at most MaxCopies per segment and never answers for a *)
(* chunk the stream does not have.                                         *)
Send(net, segs) ==
    IF BlockedDown THEN net
    ELSE [seg \in Segments |->
            IF seg \in segs /\ net[seg] < MaxCopies THEN net[seg] + 1 ELSE net[seg]]

-----------------------------------------------------------------------------
(* The congestion window *)

Reduced(s) ==
    LargerOf(2, IF s.cwnd <= s.ssthresh THEN s.cwnd \div 2 + s.cwnd \div 4
                                        ELSE s.cwnd - 1)

ReduceCongestionWindow(s) ==
    [s EXCEPT !.cwnd = Reduced(s), !.fresh = {}, !.adjusted = TRUE]

fc_ssthresh(s, cwnd) == SmallerOf(s.ssthresh, cwnd - 1)

(* alpha = 2, beta = 32, gamma = 1; base <= rtt because base_RTT is        *)
(* lowered to every smaller sample of the period.                          *)
TimeBasedAvoidance(s, base, rtt) ==
    LET target    == (s.cwnd * base) \div rtt
        diff      == (s.cwnd * (rtt - base)) \div base
        slowStart == s.cwnd <= s.ssthresh
        tooFast   == slowStart /\ diff > 1
        linearDown == ~slowStart /\ diff > 32
        linearUp  == ~slowStart /\ diff < 2
        cwnd == CASE tooFast    -> SmallerOf(s.cwnd, target + 1)
                  [] slowStart /\ ~tooFast -> 2 * s.cwnd
                  [] linearDown -> s.cwnd - 1
                  [] linearUp   -> s.cwnd + 1
                  [] OTHER      -> s.cwnd
        thresh == IF tooFast \/ linearDown THEN fc_ssthresh(s, cwnd) ELSE s.ssthresh
        limited == SmallerOf(LargerOf(2, cwnd), MaxCwnd)
        moved == slowStart \/ linearDown \/ linearUp
    IN [s EXCEPT !.cwnd     = limited,
                 !.ssthresh = LargerOf(thresh, limited \div 2 + limited \div 4),
                 !.fresh    = IF moved THEN {} ELSE @,
                 !.adjusted = @ \/ moved]

(* Every second sample adjusts the window, by time when it saw more than   *)
(* two answers; LossBasedAvoidance only stretches the sampling period.     *)
CongestionAvoidance(s, base, rtt) ==
    LET t == IF s.doFc /\ s.cntRtt > 2 THEN TimeBasedAvoidance(s, base, rtt) ELSE s
    IN [t EXCEPT !.doFc = ~s.doFc, !.cntRtt = 0, !.oldSegs = FALSE]

(* The segments before an out-of-order answer that may be asked for again: *)
(* none when the answer has already been released from the window.         *)
Earlier(s, seg) ==
    s.starting .. SmallerOf(seg, s.starting + s.cwnd) - 1

(* Re-express the expired ones; the first of them sent since the last      *)
(* adjustment reduces the window, which makes the others older than it.    *)
FastReexpress(s, expired) ==
    LET r == IF expired \cap s.fresh # {} THEN ReduceCongestionWindow(s) ELSE s
    IN IF BlockedDown THEN r ELSE [r EXCEPT !.fresh = @ \cup expired]

-----------------------------------------------------------------------------
(* End of the stream *)

(* Mutant: the metadata is ignored. *)
SetFinalBlockId_Ignored(s, seg) == s

SetFinalBlockId(s, seg) ==
    IF FinalChunk[seg] # NoFinal THEN [s EXCEPT !.final = FinalChunk[seg]]
    ELSE IF s.final = seg        THEN [s EXCEPT !.final = NoFinal]
    ELSE s

(* Mutant: the session ends when it reaches the final segment. *)
Complete_AtFinal(s) == s.starting >= s.final

(* starting_segnum is one past the final segment once that has gone up. *)
Complete(s) == s.starting > s.final

RunAlgorithmOnReceive(s) == [s EXCEPT !.cntRtt = SmallerOf(@ + 1, 3)]
-----------------------------------------------------------------------------
(* Actions *)

Running == trap = "none"

(* vegas_LookupSession finds the session by its name. *)
Active == Running /\ phase = "active"

Abort(where) ==
    /\ trap' = where
    /\ UNCHANGED <<phase, session, begin, up, paused, blocked, opened>>

Init ==
    /\ phase = "none" /\ session = NewSession /\ begin = NoChunk /\ up = <<>>
    /\ inflight = [seg \in Segments |-> 0]
    /\ paused = FALSE /\ blocked = FALSE /\ opened = 0 /\ trap = "none"

Start(s) ==
    /\ session' = ExpressInterests(s)
    /\ inflight' = Send(inflight, ToExpress(s))

(* vegasSession_Destroy closes the session: the messages held in its       *)
(* window are destroyed.                                                   *)
Destroy == session' = NewSession

(* An interest comes down: vegasSession_Create and vegasSession_Start.     *)
(* Create ignores the chunk number the interest asked to begin at.         *)
HandleInterest(chunk) ==
    /\ Running /\ phase # "active" /\ opened < MaxSessions
    /\ Start(NewSession)
    /\ phase' = "active" /\ begin' = chunk /\ up' = <<>> /\ opened' = opened + 1
    /\ UNCHANGED <<paused, blocked, trap>>

(* An interest for a session in progress: vegasSession_Seek is not         *)
(* implemented, and a name without a chunk number fails an assertion.      *)
HandleRepeatedInterest(chunk) ==
    /\ Active /\ MayRepeat
    /\ Abort(IF chunk = NoChunk THEN "vegas_HandleInterest" ELSE "vegasSession_Seek")
    /\ UNCHANGED inflight

(* CPI_CANCEL_FLOW from the application. *)
CancelFlow ==
    /\ Active /\ MayCancel
    /\ phase' = "cancelled" /\ Destroy
    /\ UNCHANGED <<begin, up, inflight, paused, blocked, opened, trap>>

(* vegas_EndSession: FLOW_CONTROL_FINISHED goes up, the session is gone.   *)
EndSession == phase' = "finished" /\ Destroy

(* The rest of vegasSession_ReceiveContentObject once the object is in its *)
(* window entry: r is the session after the objects in order went up.      *)
SendMoreInterests(seg, r, net) ==
    \E expired \in SUBSET Earlier(r, seg) :
        \E s \in {FastReexpress(r, expired)}, sent \in {Send(net, expired)} :
           \/ /\ s.starting < s.final /\ TailIsFree(s)
              /\ session' = ExpressInterests(s)
              /\ inflight' = Send(sent, ToExpress(s))
              /\ UNCHANGED <<phase, trap>>
           \/ /\ s.starting < s.final /\ ~ TailIsFree(s)
              /\ session' = s /\ inflight' = sent
              /\ trap' = "vegasSession_ExpressInterests"
              /\ UNCHANGED phase
           \/ /\ Complete(s)
              /\ EndSession /\ inflight' = sent
              /\ UNCHANGED trap
           \/ /\ s.starting = s.final
              /\ session' = s /\ inflight' = sent
              /\ UNCHANGED <<phase, trap>>

(* A duplicate from before the window reduces it once per sampling period. *)
ReceivedBeforeWindowStart(seg) ==
    /\ seg < session.starting
    /\ session' = IF session.oldSegs THEN session
                  ELSE [ReduceCongestionWindow(session) EXCEPT !.oldSegs = TRUE]
    /\ UNCHANGED <<phase, begin, up, paused, blocked, opened, trap>>

ReceivedInWindow(seg, net) ==
    /\ seg >= session.starting /\ InWindow(session, seg)
    /\ \E stored \in {RunAlgorithmOnReceive(GetWindowEntry(SetFinalBlockId(session, seg), seg))} :
        /\ up' = IF BlockedUp THEN up ELSE up \o Delivered(stored)
        /\ \E r \in {IF BlockedUp THEN stored ELSE ForwardObjectsInOrder(stored)} :
                SendMoreInterests(seg, r, net)
    /\ UNCHANGED <<begin, paused, blocked, opened>>

(* The network answers an interest; an answer for which there is no        *)
(* session any more is dropped.                                            *)
ReceiveContentObject(seg) ==
    LET net == [inflight EXCEPT ![seg] = @ - 1]
    IN /\ Running /\ inflight[seg] > 0
       /\ \/ /\ phase # "active" /\ inflight' = net
             /\ UNCHANGED <<phase, session, begin, up, paused, blocked, opened, trap>>
          \/ /\ phase = "active" /\ inflight' = net
             /\ ReceivedBeforeWindowStart(seg)
          \/ /\ phase = "active" /\ ReceivedInWindow(seg, net)
          \/ /\ phase = "active" /\ inflight' = net
             /\ seg >= session.starting /\ ~ InWindow(session, seg)
             /\ Abort("vegasSession_GetWindowEntry")

(* The network loses an interest or its answer. *)
Lose(seg) ==
    /\ Running /\ inflight[seg] > 0
    /\ inflight' = [inflight EXCEPT ![seg] = @ - 1]
    /\ UNCHANGED <<phase, session, begin, up, paused, blocked, opened, trap>>

(* vegasSession_SlowReexpress asks again for the first segment.            *)
SlowReexpress(s) == [s EXCEPT !.fresh = Stamped(s, {s.window[s.head].segnum})]

TimerCallback(rttDue, rtoDue) ==
    /\ Active /\ (rttDue \/ rtoDue)
    /\ \E base, rtt \in RttValues :
        /\ base <= rtt
        /\ \E s \in {IF rttDue THEN CongestionAvoidance(session, base, rtt) ELSE session} :
              IF rtoDue /\ ~ s.window[s.head].valid
              THEN Abort("vegasSession_SlowReexpress") /\ UNCHANGED inflight
              ELSE /\ session'  = IF rtoDue THEN SlowReexpress(s) ELSE s
                   /\ inflight' = IF rtoDue THEN Send(inflight, {s.window[s.head].segnum})
                                           ELSE inflight
                   /\ UNCHANGED <<phase, begin, up, paused, blocked, opened, trap>>

(* vegasSession_StateChanged, called for every change of the connection.   *)
StateChanged(isPaused) ==
    IF isPaused THEN UNCHANGED <<session, up>>
    ELSE session' = ForwardObjectsInOrder(session) /\ up' = up \o Delivered(session)

(* CPI_PAUSE; there is no way back. *)
Pause ==
    /\ Running /\ MayPause /\ ~ paused
    /\ paused' = TRUE
    /\ StateChanged(TRUE)
    /\ UNCHANGED <<phase, begin, inflight, blocked, opened, trap>>

(* The forwarder connector blocks and unblocks the down direction. *)
BlockDown(b) ==
    /\ Running /\ MayPause /\ blocked # b
    /\ blocked' = b
    /\ StateChanged(paused)
    /\ UNCHANGED <<phase, begin, inflight, paused, opened, trap>>

Next ==
    \/ \E chunk \in Begins : HandleInterest(chunk) \/ HandleRepeatedInterest(chunk)
    \/ CancelFlow
    \/ \E seg \in Segments : ReceiveContentObject(seg) \/ Lose(seg)
    \/ \E rttDue, rtoDue \in BOOLEAN : TimerCallback(rttDue, rtoDue)
    \/ Pause
    \/ \E b \in BOOLEAN : BlockDown(b)

Spec == Init /\ [][Next]_vars
-----------------------------------------------------------------------------
(* Properties *)

SessionType ==
    [ starting : Nat, head : Slots, tail : Slots, window : [Slots -> Entry],
      cwnd : 2..MaxCwnd, ssthresh : 1..MaxCwnd, final : Segments \cup {NoFinal},
      doFc : BOOLEAN, cntRtt : 0..3, oldSegs : BOOLEAN,
      fresh : SUBSET Nat, adjusted : BOOLEAN ]

Traps == {"none", "vegas_HandleInterest", "vegasSession_Seek", "vegasSession_GetWindowEntry",
          "vegasSession_ExpressInterests", "vegasSession_SlowReexpress"}

(* Every variable keeps its type; in particular the congestion window stays*)
(* between its floor of 2 and FC_MAX_CWND whatever adjusts it.             *)
TypeOK ==
    /\ phase \in {"none", "active", "finished", "cancelled"}
    /\ session \in SessionType
    /\ begin \in Segments \cup {NoChunk}
    /\ up \in Seq(Segments)
    /\ inflight \in [Segments -> 0..MaxCopies]
    /\ paused \in BOOLEAN /\ blocked \in BOOLEAN
    /\ opened \in 0..MaxSessions
    /\ trap \in Traps

(* Number of outstanding entries; head = tail means an empty or a full ring.*)
Outstanding(s) ==
    IF s.head = s.tail /\ s.window[s.head].valid THEN MaxCwnd ELSE WSize(s)

(* Every slot of the ring is at some offset k from the head: the entries   *)
(* before the tail hold consecutive segments from starting_segnum on, the  *)
(* others are released.                                                    *)
Consistent(s) ==
    \A i \in Slots :
        LET e == s.window[i]
            k == Offset(s, i)
        IN /\ e.valid <=> k < Outstanding(s)
           /\ e.valid => e.segnum = s.starting + k /\ e.msg \in {NoMsg, e.segnum}
           /\ ~ e.valid => e = EmptyEntry

(* The circular window holds exactly the segments from starting_segnum on, *)
(* consecutive, each at its own offset from the head, and nothing else; an *)
(* entry only ever holds the content object of its own segment.            *)
WindowConsistent == Consistent(session)

(* The application gets chunk 0, 1, 2, ... of the session, each once, none *)
(* skipped, and starting_segnum counts them, whatever the network did to   *)
(* the answers and whatever chunk the interest named: the session begins   *)
(* where vegasSession_Create says (vegas_Session.c:1051), which is not     *)
(* where StartsWhereAsked wants it.                                        *)
InOrderDelivery ==
    /\ up = [i \in 1..Len(up) |-> i - 1]
    /\ phase = "active" => session.starting = Len(up)

(* A session delivers from the chunk its interest asked for: "If the last  *)
(* component of the interest name is a segment number, that is the         *)
(* starting segment number" (component_Vegas.c:76-78).                     *)
StartsWhereAsked == begin # NoChunk /\ up # <<>> => up[1] = begin

(* No assertion of the session fails and no unimplemented path is taken.   *)
NoTrap == trap = "none"

(* The RTO finds a segment to ask for again at the head of the window      *)
(* (the assertion "in window but not valid" of vegasSession_SlowReexpress). *)
RtoFindsSegment == trap # "vegasSession_SlowReexpress"

(* Every entry the window grows into is free (the assertion "marked as     *)
(* valid, but its outside the cwind" of vegasSession_ExpressInterests).    *)
TailAlwaysFree == trap # "vegasSession_ExpressInterests"

(* A content object outside the window is dropped, as the component's      *)
(* description says, rather than failing vegasSession_GetWindowEntry.      *)
OutsideWindowIsDropped == trap # "vegasSession_GetWindowEntry"

(* FLOW_CONTROL_FINISHED is only sent when the real last chunk has gone up. *)
FinishedMeansComplete == phase = "finished" => Len(up) = LastChunk + 1

(* A content object the window holds stays there until it goes up; while   *)
(* the connection is open nothing that is next in order is held back.      *)
NothingHeldBack ==
    phase = "active" /\ trap = "none" /\ ~ paused
        => session.window[session.head].msg = NoMsg

(* The session implements OrderedStream: the stream from chunk 0, of which *)
(* an application that asked for a later chunk gets the chunks before it.  *)
Stream == INSTANCE OrderedStream
StreamSpec == Stream!Spec

(* Fairness: the timer re-arms itself in every callback, and the network   *)
(* does not lose the answers to a segment for ever.                        *)
Fairness ==
    /\ WF_vars(TimerCallback(FALSE, TRUE))
    /\ \A seg \in Segments : SF_vars(ReceiveContentObject(seg))

FairSpec == Spec /\ Fairness

(* Loss and reordering only delay a stream: every session that starts is   *)
(* announced as finished.                                                  *)
SessionFinishes == (phase = "active") ~> (phase = "finished")
=============================================================================
