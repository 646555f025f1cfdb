------------------------- MODULE VegasSession_proofs -------------------------
(***************************************************************************)
(* Proofs about one Vegas flow-control session, for every window size,     *)
(* stream length, network and sequence of FinalChunkNumbers.               *)
(***************************************************************************)
EXTENDS VegasSession, WellFoundedInduction, TLAPS

-----------------------------------------------------------------------------
(* Operators on the session *)

(* A set of naturals has a least element, and Min finds it. *)
LEMMA MinIsLeast ==
    ASSUME NEW T, T \subseteq Nat, T # {}
    PROVE  Min(T) \in T /\ \A y \in T : Min(T) <= y
<1>1. PICK x \in T : \A y \in T : ~ (<<y, x>> \in OpToRel(<, Nat))
  BY WFMin, NatLessThanWellFounded
<1>2. \A y \in T : x <= y
  <2>1. SUFFICES ASSUME NEW y \in T PROVE x <= y
    OBVIOUS
  <2>2. ~ (y < x)
    BY <1>1 DEF OpToRel
  <2>3. QED
    BY <2>2
<1>3. QED
  BY <1>2 DEF Min

LEMMA SlotType ==
    ASSUME NEW s \in SessionType, NEW k \in Nat
    PROVE  Slot(s, k) \in Slots
BY VegasAssumption DEF Slot, Slots, SessionType

LEMMA WSizeType ==
    ASSUME NEW s \in SessionType
    PROVE  WSize(s) \in Slots
BY VegasAssumption DEF WSize, Slots, SessionType

(* Ready counts the objects at the head of the window: all of them are     *)
(* there, and the next one is not.                                         *)
LEMMA ReadyIsMaximal ==
    ASSUME NEW s \in SessionType
    PROVE  /\ Ready(s) \in 0..WSize(s)
           /\ \A k \in 0..Ready(s) - 1 : s.window[Slot(s, k)].msg # NoMsg
           /\ Ready(s) = WSize(s) \/ s.window[Slot(s, Ready(s))].msg = NoMsg
<1> DEFINE T == {n \in 0..WSize(s) : n = WSize(s) \/ s.window[Slot(s, n)].msg = NoMsg}
<1>1. WSize(s) \in Nat
  BY WSizeType, VegasAssumption DEF Slots
<1>2. T \subseteq Nat /\ WSize(s) \in T
  BY <1>1
<1>3. Ready(s) = Min(T)
  BY DEF Ready
<1>4. Ready(s) \in T /\ \A y \in T : Ready(s) <= y
  <2> HIDE DEF T
  <2>1. QED
    BY <1>2, <1>3, MinIsLeast
<1>5. ASSUME NEW k \in 0..Ready(s) - 1
      PROVE  s.window[Slot(s, k)].msg # NoMsg
  BY <1>1, <1>4
<1>6. QED
  BY <1>4, <1>5

(* Only content objects go up. *)
LEMMA DeliveredType ==
    ASSUME NEW s \in SessionType
    PROVE  Delivered(s) \in Seq(Segments)
<1>1. Ready(s) \in Nat
  BY ReadyIsMaximal, WSizeType, VegasAssumption DEF Slots
<1>2. ASSUME NEW i \in 1..Ready(s)
      PROVE  s.window[Slot(s, i - 1)].msg \in Segments
  <2>1. i - 1 \in 0..Ready(s) - 1 /\ i - 1 \in Nat
    BY <1>1
  <2>2. s.window[Slot(s, i - 1)] \in Entry
    BY <2>1, SlotType DEF SessionType
  <2>3. s.window[Slot(s, i - 1)].msg # NoMsg
    BY <2>1, ReadyIsMaximal
  <2>4. QED
    BY <2>2, <2>3 DEF Entry
<1>3. QED
  BY <1>1, <1>2 DEF Delivered

LEMMA EmptyEntryType == EmptyEntry \in Entry
BY DEF EmptyEntry, Entry, NoMsg

LEMMA NewSessionType == NewSession \in SessionType
<1>1. [i \in Slots |-> EmptyEntry] \in [Slots -> Entry]
  BY EmptyEntryType
<1>2. 0 \in Slots /\ 2 \in 2..MaxCwnd /\ MaxCwnd \in 1..MaxCwnd
  BY VegasAssumption DEF Slots
<1>3. QED
  BY <1>1, <1>2 DEF NewSession, SessionType

LEMMA ForwardType ==
    ASSUME NEW s \in SessionType
    PROVE  ForwardObjectsInOrder(s) \in SessionType
<1> DEFINE n == Ready(s)
           w == [i \in Slots |-> IF Offset(s, i) < n THEN EmptyEntry ELSE s.window[i]]
<1>1. n \in Nat
  BY ReadyIsMaximal, WSizeType, VegasAssumption DEF Slots
<1>2. s.starting + n \in Nat
  BY <1>1 DEF SessionType
<1>3. (s.head + n) % MaxCwnd \in Slots
  BY <1>1, SlotType DEF Slot
<1>4. w \in [Slots -> Entry]
  BY EmptyEntryType DEF SessionType
<1>5. ForwardObjectsInOrder(s) =
        [s EXCEPT !.starting = s.starting + n, !.head = (s.head + n) % MaxCwnd,
                  !.window = w, !.fresh = {seg \in s.fresh : seg >= s.starting + n}]
  BY DEF ForwardObjectsInOrder, SessionType
<1> HIDE DEF n, w
<1>6. QED
  BY <1>2, <1>3, <1>4, <1>5 DEF SessionType

LEMMA GetWindowEntryType ==
    ASSUME NEW s \in SessionType, NEW seg \in Segments, seg >= s.starting
    PROVE  GetWindowEntry(s, seg) \in SessionType
<1>1. Slot(s, seg - s.starting) \in Slots
  BY SlotType, VegasAssumption DEF Segments, SessionType
<1>2. [s.window[Slot(s, seg - s.starting)] EXCEPT !.msg = seg] \in Entry
  BY <1>1 DEF SessionType, Entry
<1>3. QED
  BY <1>1, <1>2 DEF GetWindowEntry, SessionType

LEMMA RunAlgorithmType ==
    ASSUME NEW s \in SessionType
    PROVE  RunAlgorithmOnReceive(s) \in SessionType
<1>1. SmallerOf(s.cntRtt + 1, 3) \in 0..3
  BY DEF SmallerOf, SessionType
<1>2. QED
  BY <1>1 DEF RunAlgorithmOnReceive, SessionType

LEMMA SetFinalBlockIdType ==
    ASSUME NEW s \in SessionType, NEW seg \in Segments
    PROVE  SetFinalBlockId(s, seg) \in SessionType
BY VegasAssumption DEF SetFinalBlockId, SessionType

LEMMA ReachType ==
    ASSUME NEW s \in SessionType
    PROVE  Reach(s) \in Int /\ Reach(s) <= s.cwnd /\ Reach(s) <= MaxCwnd
BY VegasAssumption DEF Reach, SmallerOf, SessionType, Segments

LEMMA ToExpressType ==
    ASSUME NEW s \in SessionType
    PROVE  ToExpress(s) \in SUBSET Nat
<1>1. WSize(s) \in Nat /\ Reach(s) \in Int /\ s.starting \in Nat
  BY ReachType, WSizeType, VegasAssumption DEF SessionType, Slots
<1>2. \A k \in WSize(s)..Reach(s) - 1 : s.starting + k \in Nat
  BY <1>1
<1>3. QED
  BY <1>2 DEF ToExpress

LEMMA ExpressType ==
    ASSUME NEW s \in SessionType
    PROVE  ExpressInterests(s) \in SessionType
<1> DEFINE new(i) == Offset(s, i) \in WSize(s)..Reach(s) - 1
           w == [i \in Slots |->
                   IF new(i)
                   THEN [valid |-> TRUE, segnum |-> s.starting + Offset(s, i), msg |-> NoMsg]
                   ELSE s.window[i]]
<1>1. WSize(s) \in Nat /\ Reach(s) \in Int
  BY ReachType, WSizeType, VegasAssumption DEF Slots
<1>2. Slot(s, LargerOf(WSize(s), Reach(s))) \in Slots
  BY <1>1, SlotType DEF LargerOf
<1>3. ASSUME NEW i \in Slots
      PROVE  s.starting + Offset(s, i) \in Nat
  BY VegasAssumption DEF Offset, SessionType, Slots
<1>4. w \in [Slots -> Entry]
  <2>1. ASSUME NEW i \in Slots
        PROVE  w[i] \in Entry
    <3>1. [valid |-> TRUE, segnum |-> s.starting + Offset(s, i), msg |-> NoMsg] \in Entry
      BY <1>3 DEF Entry
    <3>2. s.window[i] \in Entry
      BY DEF SessionType
    <3> HIDE DEF new
    <3>3. QED
      BY <3>1, <3>2
  <2>2. QED
    BY <2>1
<1>5. Stamped(s, ToExpress(s)) \in SUBSET Nat
  BY ToExpressType DEF Stamped, SessionType
<1>6. ExpressInterests(s) =
        [s EXCEPT !.tail   = Slot(s, LargerOf(WSize(s), Reach(s))),
                  !.window = w,
                  !.fresh  = Stamped(s, ToExpress(s))]
  BY DEF ExpressInterests, SessionType
<1> HIDE DEF w
<1>7. QED
  BY <1>2, <1>4, <1>5, <1>6 DEF SessionType

LEMMA ReduceType ==
    ASSUME NEW s \in SessionType
    PROVE  ReduceCongestionWindow(s) \in SessionType
<1>1. Reduced(s) \in 2..MaxCwnd
  BY VegasAssumption DEF Reduced, LargerOf, SessionType
<1>2. QED
  BY <1>1 DEF ReduceCongestionWindow, SessionType

LEMMA FastReexpressType ==
    ASSUME NEW s \in SessionType, NEW expired \in SUBSET Nat
    PROVE  FastReexpress(s, expired) \in SessionType
<1> DEFINE r == IF expired \cap s.fresh # {} THEN ReduceCongestionWindow(s) ELSE s
<1>1. r \in SessionType
  BY ReduceType
<1>2. FastReexpress(s, expired) =
        IF BlockedDown THEN r ELSE [r EXCEPT !.fresh = r.fresh \cup expired]
  BY <1>1 DEF FastReexpress, SessionType
<1> HIDE DEF r
<1>3. [r EXCEPT !.fresh = r.fresh \cup expired] \in SessionType
  BY <1>1 DEF SessionType
<1>4. QED
  BY <1>1, <1>2, <1>3

(* Whatever the samples of the round trip time, the congestion window      *)
(* stays in 2..FC_MAX_CWND and the threshold between 1 and FC_MAX_CWND.    *)
LEMMA TimeBasedType ==
    ASSUME NEW s \in SessionType, NEW base \in RttValues, NEW rtt \in RttValues
    PROVE  TimeBasedAvoidance(s, base, rtt) \in SessionType
<1> DEFINE target    == (s.cwnd * base) \div rtt
           diff      == (s.cwnd * (rtt - base)) \div base
           slowStart == s.cwnd <= s.ssthresh
           tooFast   == slowStart /\ diff > 1
           linearDown == ~slowStart /\ diff > 32
           linearUp  == ~slowStart /\ diff < 2
           cwnd == CASE tooFast    -> SmallerOf(s.cwnd, target + 1)
                     [] slowStart /\ ~tooFast -> 2 * s.cwnd
                     [] linearDown -> s.cwnd - 1
                     [] linearUp   -> s.cwnd + 1
                     [] OTHER      -> s.cwnd
           thresh == IF tooFast \/ linearDown THEN fc_ssthresh(s, cwnd) ELSE s.ssthresh
           limited == SmallerOf(LargerOf(2, cwnd), MaxCwnd)
           moved == slowStart \/ linearDown \/ linearUp
<1>1. base \in Nat \ {0} /\ rtt \in Nat \ {0} /\ s.cwnd \in Nat /\ s.ssthresh \in 1..MaxCwnd
  BY VegasAssumption DEF SessionType
<1>2. target \in Int
  <2>1. s.cwnd * base \in Int
    BY <1>1
  <2>2. QED
    BY <2>1, <1>1
<1> HIDE DEF target
<1>3. cwnd \in Int
  <2>1. SmallerOf(s.cwnd, target + 1) \in Int
    BY <1>1, <1>2 DEF SmallerOf
  <2> HIDE DEF slowStart, tooFast, linearDown, linearUp
  <2>2. QED
    BY <1>1, <2>1
<1> HIDE DEF cwnd
<1>4. limited \in 2..MaxCwnd
  BY <1>3, VegasAssumption DEF SmallerOf, LargerOf
<1>5. thresh \in Int /\ thresh <= MaxCwnd
  <2>1. fc_ssthresh(s, cwnd) \in Int /\ fc_ssthresh(s, cwnd) <= MaxCwnd
    BY <1>1, <1>3, VegasAssumption DEF fc_ssthresh, SmallerOf
  <2> HIDE DEF tooFast, linearDown
  <2>2. QED
    BY <1>1, <2>1, VegasAssumption
<1> HIDE DEF limited, thresh
<1>6. LargerOf(thresh, limited \div 2 + limited \div 4) \in 1..MaxCwnd
  BY <1>4, <1>5, VegasAssumption DEF LargerOf
<1>7. TimeBasedAvoidance(s, base, rtt) =
        [s EXCEPT !.cwnd     = limited,
                  !.ssthresh = LargerOf(thresh, limited \div 2 + limited \div 4),
                  !.fresh    = IF moved THEN {} ELSE s.fresh,
                  !.adjusted = s.adjusted \/ moved]
  BY DEF TimeBasedAvoidance, SessionType, limited, thresh, cwnd, target
<1>8. moved \in BOOLEAN /\ (s.adjusted \/ moved) \in BOOLEAN
  BY DEF SessionType
<1>9. (IF moved THEN {} ELSE s.fresh) \in SUBSET Nat
  BY DEF SessionType
<1> HIDE DEF moved
<1>10. QED
  BY <1>4, <1>6, <1>7, <1>8, <1>9, ZenonT(60) DEF SessionType

LEMMA AvoidanceType ==
    ASSUME NEW s \in SessionType, NEW base \in RttValues, NEW rtt \in RttValues
    PROVE  CongestionAvoidance(s, base, rtt) \in SessionType
<1> DEFINE t == IF s.doFc /\ s.cntRtt > 2 THEN TimeBasedAvoidance(s, base, rtt) ELSE s
<1>1. t \in SessionType
  BY TimeBasedType
<1>2. CongestionAvoidance(s, base, rtt) =
        [t EXCEPT !.doFc = ~s.doFc, !.cntRtt = 0, !.oldSegs = FALSE]
  BY DEF CongestionAvoidance
<1> HIDE DEF t
<1>3. ASSUME NEW b \in BOOLEAN
      PROVE  [t EXCEPT !.doFc = b, !.cntRtt = 0, !.oldSegs = FALSE] \in SessionType
  <2> DEFINE u == [t EXCEPT !.doFc = b, !.oldSegs = FALSE]
  <2>1. u \in SessionType
    BY <1>1 DEF SessionType
  <2>2. [t EXCEPT !.doFc = b, !.cntRtt = 0, !.oldSegs = FALSE] = [u EXCEPT !.cntRtt = 0]
    BY <1>1 DEF SessionType
  <2> HIDE DEF u
  <2>3. [u EXCEPT !.cntRtt = 0] \in SessionType
    BY <2>1 DEF SessionType
  <2>4. QED
    BY <2>2, <2>3
<1>4. CASE s.doFc
  BY <1>2, <1>3, <1>4, Zenon
<1>5. CASE ~s.doFc
  BY <1>2, <1>3, <1>5, Zenon
<1>6. QED
  BY <1>4, <1>5

-----------------------------------------------------------------------------
(* Type correctness *)

LEMMA SendType ==
    ASSUME NEW net \in [Segments -> 0..MaxCopies], NEW segs
    PROVE  Send(net, segs) \in [Segments -> 0..MaxCopies]
BY VegasAssumption DEF Send

LEMMA ReceiveOneType ==
    ASSUME NEW net \in [Segments -> 0..MaxCopies], NEW seg \in Segments, net[seg] > 0
    PROVE  [net EXCEPT ![seg] = @ - 1] \in [Segments -> 0..MaxCopies]
BY VegasAssumption

LEMMA InitType == Init => TypeOK
<1>1. ASSUME Init PROVE TypeOK
  <2>1. session \in SessionType
    BY <1>1, NewSessionType DEF Init
  <2>2. inflight \in [Segments -> 0..MaxCopies]
    BY <1>1, VegasAssumption DEF Init
  <2>3. up \in Seq(Segments) /\ opened \in 0..MaxSessions
    BY <1>1, VegasAssumption DEF Init
  <2>4. QED
    BY <1>1, <2>1, <2>2, <2>3 DEF Init, TypeOK, Traps
<1>2. QED
  BY <1>1

(* What follows a content object that reached its window entry: r is the   *)
(* session after the objects in order went up.                             *)
LEMMA SendMoreType ==
    ASSUME TypeOK, NEW seg \in Segments, NEW r \in SessionType,
           NEW net \in [Segments -> 0..MaxCopies],
           SendMoreInterests(seg, r, net)
    PROVE  /\ session' \in SessionType
           /\ inflight' \in [Segments -> 0..MaxCopies]
           /\ phase' \in {"none", "active", "finished", "cancelled"}
           /\ trap' \in Traps
<1>1. PICK expired \in SUBSET Earlier(r, seg) :
        \E s \in {FastReexpress(r, expired)}, sent \in {Send(net, expired)} :
           \/ /\ s.starting < s.final /\ TailIsFree(s)
              /\ session' = ExpressInterests(s)
              /\ inflight' = Send(sent, ToExpress(s))
              /\ UNCHANGED <<phase, trap>>
           \/ /\ s.starting < s.final /\ ~ TailIsFree(s)
              /\ session' = s /\ inflight' = sent
              /\ trap' = "vegasSession_ExpressInterests"
              /\ UNCHANGED phase
           \/ /\ Complete(s)
              /\ EndSession /\ inflight' = sent
              /\ UNCHANGED trap
           \/ /\ s.starting = s.final
              /\ session' = s /\ inflight' = sent
              /\ UNCHANGED <<phase, trap>>
  BY Zenon DEF SendMoreInterests
<1> DEFINE s == FastReexpress(r, expired)
           sent == Send(net, expired)
<1>2. expired \in SUBSET Nat
  BY VegasAssumption DEF Earlier, SmallerOf, Segments, SessionType
<1>3. s \in SessionType
  BY <1>2, FastReexpressType
<1>4. sent \in [Segments -> 0..MaxCopies]
  BY SendType
<1>5. ExpressInterests(s) \in SessionType /\ NewSession \in SessionType
  BY <1>3, ExpressType, NewSessionType
<1>6. Send(sent, ToExpress(s)) \in [Segments -> 0..MaxCopies]
  BY <1>4, SendType
<1> HIDE DEF s, sent
<1>7. QED
  BY <1>1, <1>3, <1>4, <1>5, <1>6 DEF EndSession, Destroy, TypeOK, Traps, s, sent

(* Every step keeps the types. *)
LEMMA NextType == TypeOK /\ [Next]_vars => TypeOK'
<1> SUFFICES ASSUME TypeOK, [Next]_vars PROVE TypeOK'
  OBVIOUS
<1> USE DEF TypeOK
<1>1. ASSUME NEW chunk \in Begins, HandleInterest(chunk) PROVE TypeOK'
  <2>1. session' \in SessionType
    BY <1>1, NewSessionType, ExpressType DEF HandleInterest, Start
  <2>2. inflight' \in [Segments -> 0..MaxCopies]
    BY <1>1, SendType DEF HandleInterest, Start
  <2>3. opened' \in 0..MaxSessions /\ begin' \in Segments \cup {NoChunk}
    BY <1>1, VegasAssumption DEF HandleInterest, Start
  <2>4. QED
    BY <1>1, <2>1, <2>2, <2>3 DEF HandleInterest, Start
<1>2. ASSUME NEW chunk \in Begins, HandleRepeatedInterest(chunk) PROVE TypeOK'
  BY <1>2 DEF HandleRepeatedInterest, Abort, Traps
<1>3. CASE CancelFlow
  BY <1>3, NewSessionType DEF CancelFlow, Destroy
<1>4. ASSUME NEW seg \in Segments, ReceiveContentObject(seg) PROVE TypeOK'
  <2> DEFINE net == [inflight EXCEPT ![seg] = @ - 1]
  <2>1. net \in [Segments -> 0..MaxCopies]
    BY <1>4, ReceiveOneType DEF ReceiveContentObject
  <2>2. CASE UNCHANGED <<phase, session, begin, up, paused, blocked, opened, trap>>
             /\ inflight' = net
    BY <2>1, <2>2
  <2>3. CASE inflight' = net /\ ReceivedBeforeWindowStart(seg)
    <3>1. [ReduceCongestionWindow(session) EXCEPT !.oldSegs = TRUE] \in SessionType
      BY ReduceType DEF SessionType
    <3>2. session' \in SessionType
      BY <2>3, <3>1 DEF ReceivedBeforeWindowStart
    <3>3. QED
      BY <2>1, <2>3, <3>2 DEF ReceivedBeforeWindowStart
  <2>4. CASE ReceivedInWindow(seg, net)
    <3> DEFINE stored == RunAlgorithmOnReceive(GetWindowEntry(SetFinalBlockId(session, seg), seg))
               r == IF BlockedUp THEN stored ELSE ForwardObjectsInOrder(stored)
    <3> HIDE DEF net
    <3>1. SetFinalBlockId(session, seg) \in SessionType
          /\ SetFinalBlockId(session, seg).starting = session.starting
      BY SetFinalBlockIdType DEF SetFinalBlockId, SessionType
    <3>2. GetWindowEntry(SetFinalBlockId(session, seg), seg) \in SessionType
      BY <2>4, <3>1, GetWindowEntryType DEF ReceivedInWindow
    <3>3. stored \in SessionType
      BY <3>2, RunAlgorithmType
    <3>4. r \in SessionType
      BY <3>3, ForwardType
    <3>5. Delivered(stored) \in Seq(Segments)
      BY <3>3, DeliveredType
    <3>6. SendMoreInterests(seg, r, net)
          /\ up' = (IF BlockedUp THEN up ELSE up \o Delivered(stored))
          /\ UNCHANGED <<begin, paused, blocked, opened>>
      BY <2>4 DEF ReceivedInWindow
    <3> HIDE DEF stored, r
    <3>7. up' \in Seq(Segments)
      BY <3>5, <3>6
    <3>8. QED
      BY <2>1, <3>4, <3>6, <3>7, SendMoreType
  <2>5. CASE inflight' = net /\ Abort("vegasSession_GetWindowEntry")
    BY <2>1, <2>5 DEF Abort, Traps
  <2>6. QED
    BY <1>4, <2>2, <2>3, <2>4, <2>5 DEF ReceiveContentObject
<1>5. ASSUME NEW seg \in Segments, Lose(seg) PROVE TypeOK'
  BY <1>5, ReceiveOneType DEF Lose
<1>6. ASSUME NEW rttDue \in BOOLEAN, NEW rtoDue \in BOOLEAN, TimerCallback(rttDue, rtoDue)
      PROVE  TypeOK'
  <2>1. PICK base \in RttValues, rtt \in RttValues :
          \E s \in {IF rttDue THEN CongestionAvoidance(session, base, rtt) ELSE session} :
              IF rtoDue /\ ~ s.window[s.head].valid
              THEN Abort("vegasSession_SlowReexpress") /\ UNCHANGED inflight
              ELSE /\ session'  = IF rtoDue THEN SlowReexpress(s) ELSE s
                   /\ inflight' = IF rtoDue THEN Send(inflight, {s.window[s.head].segnum})
                                           ELSE inflight
                   /\ UNCHANGED <<phase, begin, up, paused, blocked, opened, trap>>
    BY <1>6 DEF TimerCallback
  <2> DEFINE s == IF rttDue THEN CongestionAvoidance(session, base, rtt) ELSE session
  <2>2. s \in SessionType
    BY AvoidanceType
  <2>3. SlowReexpress(s) \in SessionType
    <3> HIDE DEF s
    <3>1. s.window[s.head].segnum \in Nat
      BY <2>2 DEF SessionType, Entry
    <3>2. Stamped(s, {s.window[s.head].segnum}) \in SUBSET Nat
      BY <2>2, <3>1 DEF Stamped, SessionType
    <3>3. QED
      BY <2>2, <3>2 DEF SlowReexpress, SessionType
  <2>4. Send(inflight, {s.window[s.head].segnum}) \in [Segments -> 0..MaxCopies]
    BY SendType
  <2> HIDE DEF s
  <2>5. QED
    BY <2>1, <2>2, <2>3, <2>4 DEF Abort, Traps, s
<1>7. ASSUME NEW isPaused \in BOOLEAN, StateChanged(isPaused)
      PROVE  session' \in SessionType /\ up' \in Seq(Segments)
  <2>1. ForwardObjectsInOrder(session) \in SessionType /\ Delivered(session) \in Seq(Segments)
    BY ForwardType, DeliveredType
  <2>2. up \o Delivered(session) \in Seq(Segments)
    BY <2>1
  <2>3. QED
    BY <1>7, <2>1, <2>2 DEF StateChanged
<1>8. CASE Pause
  BY <1>7, <1>8 DEF Pause
<1>9. ASSUME NEW b \in BOOLEAN, BlockDown(b) PROVE TypeOK'
  BY <1>7, <1>9 DEF BlockDown
<1>10. CASE UNCHANGED vars
  BY <1>10 DEF vars
<1>11. QED
  BY <1>1, <1>2, <1>3, <1>4, <1>5, <1>6, <1>8, <1>9, <1>10 DEF Next

(* The type invariant holds in every run: the congestion window stays in   *)
(* 2..FC_MAX_CWND, the ring's indices inside the ring, and only chunks of  *)
(* the stream go up, for every window size, stream and network.            *)
THEOREM TypeCorrect == Spec => []TypeOK
BY InitType, NextType, PTL DEF Spec

-----------------------------------------------------------------------------
(* The circular window *)

LEMMA Wrap ==
    ASSUME NEW h \in 0..MaxCwnd - 1, NEW k \in 0..MaxCwnd - 1
    PROVE  (h + k) % MaxCwnd = IF h + k < MaxCwnd THEN h + k ELSE h + k - MaxCwnd
<1>1. h + k \in Nat /\ h + k < 2 * MaxCwnd
  BY VegasAssumption
<1>2. QED
  BY <1>1, VegasAssumption

LEMMA SlotWraps ==
    ASSUME NEW s \in SessionType, NEW k \in Slots
    PROVE  Slot(s, k) = IF s.head + k < MaxCwnd THEN s.head + k ELSE s.head + k - MaxCwnd
BY Wrap DEF Slot, Slots, SessionType

(* Slot and Offset are inverse bijections on the ring. *)
LEMMA RingPosition ==
    ASSUME NEW s \in SessionType
    PROVE  /\ \A i \in Slots : Offset(s, i) \in Slots /\ Slot(s, Offset(s, i)) = i
           /\ \A k \in Slots : Slot(s, k) \in Slots /\ Offset(s, Slot(s, k)) = k
<1>1. s.head \in 0..MaxCwnd - 1
  BY DEF SessionType, Slots
<1>2. ASSUME NEW i \in Slots
      PROVE  Offset(s, i) \in Slots /\ Slot(s, Offset(s, i)) = i
  <2>1. Offset(s, i) \in Slots
        /\ s.head + Offset(s, i) = IF i >= s.head THEN i ELSE i + MaxCwnd
    BY <1>1, VegasAssumption DEF Offset, Slots
  <2>2. QED
    BY <2>1, <1>1, SlotWraps, VegasAssumption DEF Slots
<1>3. ASSUME NEW k \in Slots
      PROVE  Slot(s, k) \in Slots /\ Offset(s, Slot(s, k)) = k
  <2>1. Slot(s, k) = IF s.head + k < MaxCwnd THEN s.head + k ELSE s.head + k - MaxCwnd
    BY SlotWraps
  <2>2. QED
    BY <2>1, <1>1, VegasAssumption DEF Offset, Slots
<1>4. QED
  BY <1>2, <1>3

LEMMA TailPosition ==
    ASSUME NEW s \in SessionType
    PROVE  WSize(s) = Offset(s, s.tail) /\ Slot(s, WSize(s)) = s.tail
<1>1. WSize(s) = Offset(s, s.tail)
  BY DEF WSize, Offset
<1>2. QED
  BY <1>1, RingPosition DEF SessionType

(* The number of outstanding entries is the distance of the two indices,   *)
(* but for a full ring, where they meet.                                   *)
LEMMA OutstandingType ==
    ASSUME NEW s \in SessionType
    PROVE  /\ Outstanding(s) \in 0..MaxCwnd
           /\ WSize(s) # 0 => Outstanding(s) = WSize(s)
           /\ Outstanding(s) = WSize(s) \/ Outstanding(s) = MaxCwnd
<1>1. WSize(s) \in 0..MaxCwnd - 1
  BY WSizeType DEF Slots
<1>2. s.head \in Int /\ (s.head = s.tail => WSize(s) = 0)
  BY VegasAssumption DEF WSize, SessionType, Slots
<1>3. QED
  BY <1>1, <1>2, VegasAssumption DEF Outstanding

KeepsWindow(s, t) ==
    /\ t.starting = s.starting /\ t.head = s.head
    /\ t.tail = s.tail /\ t.window = s.window

(* What happens to other fields does not matter to the window. *)
LEMMA SameWindow ==
    ASSUME NEW s \in SessionType, Consistent(s), NEW t \in SessionType,
           KeepsWindow(s, t)
    PROVE  Consistent(t)
BY DEF KeepsWindow, Consistent, Offset, Outstanding, WSize

LEMMA NewSessionConsistent == Consistent(NewSession)
<1>1. ASSUME NEW i \in Slots
      PROVE  NewSession.window[i] = EmptyEntry /\ Offset(NewSession, i) >= 0
  BY VegasAssumption DEF NewSession, Offset, Slots
<1>2. Outstanding(NewSession) = 0
  <2>1. NewSession.window[0] = EmptyEntry
    BY <1>1, VegasAssumption DEF Slots
  <2>2. NewSession.head = 0 /\ NewSession.tail = 0
    BY DEF NewSession
  <2>3. WSize(NewSession) = 0 /\ ~ NewSession.window[NewSession.head].valid
    BY <2>1, <2>2 DEF WSize, EmptyEntry
  <2>4. QED
    BY <2>3 DEF Outstanding
<1>3. QED
  <2>1. ASSUME NEW i \in Slots
        PROVE ~ (Offset(NewSession, i) < 0)
    BY VegasAssumption DEF NewSession, Offset, Slots
  <2>2. QED
    <3>1. ~ EmptyEntry.valid
      BY DEF EmptyEntry
    <3>2. QED
      BY <1>1, <1>2, <2>1, <3>1 DEF Consistent

(* Storing an object in the entry of its segment keeps the window.         *)
LEMMA GetWindowEntryConsistent ==
    ASSUME NEW s \in SessionType, Consistent(s), NEW seg \in Segments,
           seg >= s.starting, InWindow(s, seg)
    PROVE  Consistent(GetWindowEntry(s, seg))
<1> DEFINE j == Slot(s, seg - s.starting)
           t == GetWindowEntry(s, seg)
<1>1. j \in Slots
  BY SlotType, VegasAssumption DEF Segments, SessionType
<1>2. s.window[j].valid /\ s.window[j].segnum = seg
  BY DEF InWindow, EntryOf
<1>3. t.window = [s.window EXCEPT ![j] = [s.window[j] EXCEPT !.msg = seg]]
      /\ t.head = s.head /\ t.tail = s.tail /\ t.starting = s.starting
  BY <1>1 DEF GetWindowEntry, SessionType
<1> HIDE DEF j, t
<1>4. ASSUME NEW i \in Slots
      PROVE  /\ t.window[i].valid = s.window[i].valid
             /\ t.window[i].segnum = s.window[i].segnum
             /\ t.window[i].msg = IF i = j THEN seg ELSE s.window[i].msg
             /\ i # j => t.window[i] = s.window[i]
  BY <1>1, <1>3 DEF SessionType, Entry
<1>5. Outstanding(t) = Outstanding(s) /\ \A i \in Slots : Offset(t, i) = Offset(s, i)
  BY <1>3, <1>4 DEF Outstanding, WSize, Offset, SessionType
<1>6. QED
  BY <1>1, <1>2, <1>3, <1>4, <1>5 DEF Consistent, t

(* What goes up is the next part of the stream.                            *)
LEMMA DeliveredInOrder ==
    ASSUME NEW s \in SessionType, Consistent(s)
    PROVE  /\ Ready(s) \in Nat
           /\ Delivered(s) = [i \in 1..Ready(s) |-> s.starting + i - 1]
<1>1. Ready(s) \in Nat /\ Ready(s) <= WSize(s) /\ WSize(s) \in 0..MaxCwnd - 1
  BY ReadyIsMaximal, WSizeType, VegasAssumption DEF Slots
<1>2. ASSUME NEW i \in 1..Ready(s)
      PROVE  s.window[Slot(s, i - 1)].msg = s.starting + i - 1
  <2>1. i - 1 \in Slots /\ i - 1 \in 0..Ready(s) - 1 /\ i - 1 < WSize(s)
    BY <1>1, VegasAssumption DEF Slots
  <2>2. Slot(s, i - 1) \in Slots /\ Offset(s, Slot(s, i - 1)) = i - 1
    BY <2>1, RingPosition
  <2>3. i - 1 < Outstanding(s)
    BY <1>1, <2>1, OutstandingType
  <2>4. s.window[Slot(s, i - 1)].msg # NoMsg
    BY <2>1, ReadyIsMaximal
  <2>5. s.starting + (i - 1) = s.starting + i - 1
    BY DEF SessionType
  <2> DEFINE e == s.window[Slot(s, i - 1)]
  <2>6. /\ e.valid <=> i - 1 < Outstanding(s)
        /\ e.valid => e.segnum = s.starting + (i - 1) /\ e.msg \in {NoMsg, e.segnum}
    BY <2>2 DEF Consistent
  <2> HIDE DEF e
  <2>7. e.msg = s.starting + i - 1
    BY <2>3, <2>4, <2>5, <2>6 DEF e
  <2>8. QED
    BY <2>7 DEF e
<1>3. QED
  BY <1>1, <1>2 DEF Delivered

LEMMA ForwardFields ==
    ASSUME NEW s \in SessionType, NEW r, r = ForwardObjectsInOrder(s)
    PROVE  /\ r.starting = s.starting + Ready(s) /\ r.tail = s.tail
           /\ r.head = (s.head + Ready(s)) % MaxCwnd
           /\ \A i \in Slots : r.window[i] = IF Offset(s, i) < Ready(s) THEN EmptyEntry
                                                                    ELSE s.window[i]
BY DEF ForwardObjectsInOrder, SessionType

(* Moving the head releases exactly the entries whose objects went up.     *)
LEMMA ForwardConsistent ==
    ASSUME NEW s \in SessionType, Consistent(s)
    PROVE  Consistent(ForwardObjectsInOrder(s))
<1> DEFINE n == Ready(s)
           r == ForwardObjectsInOrder(s)
<1>1. n \in Nat /\ n <= WSize(s) /\ WSize(s) \in 0..MaxCwnd - 1
  BY ReadyIsMaximal, WSizeType, VegasAssumption DEF Slots
<1>2. r \in SessionType
  BY ForwardType
<1>3. /\ r.starting = s.starting + n /\ r.tail = s.tail /\ r.head = (s.head + n) % MaxCwnd
      /\ \A i \in Slots : r.window[i] = IF Offset(s, i) < n THEN EmptyEntry ELSE s.window[i]
  BY ForwardFields
<1> HIDE DEF n, r
<1>4. r.head = (IF s.head + n < MaxCwnd THEN s.head + n ELSE s.head + n - MaxCwnd)
      /\ r.head = Slot(s, n) /\ r.head \in Slots
  <2>1. n \in Slots
    BY <1>1, VegasAssumption DEF Slots
  <2>2. QED
    BY <1>2, <1>3, <2>1, SlotWraps DEF Slot, SessionType
<1>5. \A i \in Slots : Offset(s, i) \in 0..MaxCwnd - 1
  BY RingPosition DEF Slots
<1>6. ASSUME NEW i \in Slots
      PROVE  Offset(r, i) = IF Offset(s, i) >= n THEN Offset(s, i) - n
                                                 ELSE Offset(s, i) - n + MaxCwnd
  <2>1. i \in 0..MaxCwnd - 1 /\ s.head \in 0..MaxCwnd - 1
    BY DEF Slots, SessionType
  <2>2. Offset(r, i) = (IF i >= r.head THEN i - r.head ELSE i - r.head + MaxCwnd)
        /\ Offset(s, i) = (IF i >= s.head THEN i - s.head ELSE i - s.head + MaxCwnd)
    BY DEF Offset
  <2>3. r.head = (IF s.head + n < MaxCwnd THEN s.head + n ELSE s.head + n - MaxCwnd)
    BY <1>4
  <2>4. QED
    BY <1>1, <2>1, <2>2, <2>3, VegasAssumption
<1>7. CASE n = 0
  <2>1. \A i \in Slots : r.window[i] = s.window[i] /\ Offset(r, i) = Offset(s, i)
    BY <1>3, <1>5, <1>6, <1>7
  <2>2. r.head = s.head /\ r.starting = s.starting /\ r.tail = s.tail
    BY <1>3, <1>4, <1>7, VegasAssumption DEF SessionType, Slots
  <2>3. Outstanding(r) = Outstanding(s)
    BY <2>1, <2>2 DEF Outstanding, WSize, SessionType
  <2>4. QED
    BY <2>1, <2>2, <2>3 DEF Consistent, r
<1>8. CASE n # 0
  <2>1. Outstanding(s) = WSize(s)
    BY <1>1, <1>8, OutstandingType
  <2>2. WSize(r) = WSize(s) - n
    <3>1. Offset(s, s.tail) = WSize(s) /\ WSize(r) = Offset(r, r.tail)
      BY <1>2, TailPosition
    <3>2. QED
      BY <1>1, <1>3, <1>6, <3>1 DEF SessionType
  <2>3. Outstanding(r) = WSize(s) - n
    <3>1. CASE n = WSize(s)
      <4>1. Offset(s, r.head) = n
        BY <1>1, <1>4, RingPosition, VegasAssumption DEF Slots
      <4>2. ~ s.window[r.head].valid /\ r.window[r.head] = s.window[r.head]
        BY <1>1, <1>3, <1>4, <2>1, <3>1, <4>1 DEF Consistent
      <4>3. QED
        BY <2>2, <4>2, <3>1 DEF Outstanding
    <3>2. CASE n # WSize(s)
      <4>1. WSize(r) # 0
        BY <1>1, <2>2, <3>2
      <4>2. QED
        BY <1>2, <2>2, <4>1, OutstandingType
    <3>3. QED
      BY <3>1, <3>2
  <2>4. ASSUME NEW i \in Slots
        PROVE  /\ r.window[i].valid <=> Offset(r, i) < Outstanding(r)
               /\ r.window[i].valid => /\ r.window[i].segnum = r.starting + Offset(r, i)
                                      /\ r.window[i].msg \in {NoMsg, r.window[i].segnum}
               /\ ~ r.window[i].valid => r.window[i] = EmptyEntry
    <3>1. CASE Offset(s, i) < n
      <4>1. r.window[i] = EmptyEntry /\ ~ EmptyEntry.valid
        BY <1>3, <3>1 DEF EmptyEntry
      <4>2. ~ (Offset(r, i) < Outstanding(r))
        BY <1>1, <1>5, <1>6, <2>3, <3>1, VegasAssumption
      <4>3. QED
        BY <4>1, <4>2
    <3>2. CASE Offset(s, i) >= n
      <4>1. r.window[i] = s.window[i]
        BY <1>1, <1>3, <1>5, <3>2
      <4>2. Offset(r, i) = Offset(s, i) - n
        BY <1>6, <3>2
      <4>3. /\ Offset(r, i) < Outstanding(r) <=> Offset(s, i) < Outstanding(s)
            /\ r.starting + Offset(r, i) = s.starting + Offset(s, i)
        BY <1>1, <1>3, <1>5, <2>1, <2>3, <4>2 DEF SessionType
      <4>4. QED
        BY <4>1, <4>3 DEF Consistent
    <3>3. QED
      BY <1>1, <1>5, <3>1, <3>2
  <2>5. QED
    BY <2>4 DEF Consistent, r
<1>9. QED
  BY <1>7, <1>8

LEMMA ExpressFields ==
    ASSUME NEW s \in SessionType, NEW r, r = ExpressInterests(s)
    PROVE  /\ r.starting = s.starting /\ r.head = s.head
           /\ r.tail = Slot(s, LargerOf(WSize(s), Reach(s)))
           /\ \A i \in Slots : r.window[i] =
                 IF Offset(s, i) \in WSize(s)..Reach(s) - 1
                 THEN [valid |-> TRUE, segnum |-> s.starting + Offset(s, i), msg |-> NoMsg]
                 ELSE s.window[i]
BY DEF ExpressInterests, SessionType

(* A window that grows into free entries only stays consistent.            *)
LEMMA ExpressConsistent ==
    ASSUME NEW s \in SessionType, Consistent(s), TailIsFree(s)
    PROVE  Consistent(ExpressInterests(s))
<1> DEFINE W == WSize(s)
           R == Reach(s)
           r == ExpressInterests(s)
           new(i) == [valid |-> TRUE, segnum |-> s.starting + Offset(s, i), msg |-> NoMsg]
<1>1. W \in 0..MaxCwnd - 1 /\ R \in Int /\ R <= MaxCwnd
  BY ReachType, WSizeType DEF Slots
<1>2. r \in SessionType
  BY ExpressType
<1>3. /\ r.starting = s.starting /\ r.head = s.head /\ r.tail = Slot(s, LargerOf(W, R))
      /\ \A i \in Slots : r.window[i] = IF Offset(s, i) \in W..R - 1 THEN new(i) ELSE s.window[i]
  BY ExpressFields
<1>4. \A k \in W..R - 1 : ~ s.window[Slot(s, k)].valid
  BY DEF TailIsFree
<1>5. Slot(s, W) = s.tail /\ (W # 0 => Outstanding(s) = W)
      /\ Outstanding(s) \in {W, MaxCwnd}
  BY TailPosition, OutstandingType
<1> HIDE DEF W, R, r, new
<1>6. \A i \in Slots : Offset(r, i) = Offset(s, i) /\ Offset(s, i) \in 0..MaxCwnd - 1
  BY <1>3, RingPosition DEF Offset, Slots
<1>7. CASE R <= W
  <2>1. r.tail = s.tail /\ \A i \in Slots : r.window[i] = s.window[i]
    BY <1>1, <1>3, <1>5, <1>6, <1>7 DEF LargerOf
  <2>2. Outstanding(r) = Outstanding(s)
    BY <1>3, <2>1 DEF Outstanding, WSize, SessionType
  <2>3. QED
    BY <1>3, <1>6, <2>1, <2>2 DEF Consistent, r
<1>8. CASE R > W
  <2>1. Outstanding(s) = W
    <3>1. W \in W..R - 1 /\ W \in Slots
      BY <1>1, <1>8 DEF Slots
    <3>2. ~ s.window[Slot(s, W)].valid /\ Offset(s, Slot(s, W)) = W /\ Slot(s, W) \in Slots
      BY <1>4, <3>1, RingPosition
    <3>3. ~ (W < Outstanding(s))
      BY <3>2 DEF Consistent
    <3>4. QED
      BY <1>1, <1>5, <3>3, VegasAssumption
  <2>2. r.tail = Slot(s, R)
    BY <1>1, <1>3, <1>8 DEF LargerOf
  <2>3. Outstanding(r) = R
    <3>1. CASE R = MaxCwnd
      <4>1. r.tail = r.head
        <5>1. (s.head + MaxCwnd) % MaxCwnd = s.head
          <6>1. s.head \in 0..MaxCwnd - 1
            BY DEF SessionType, Slots
          <6>2. \A h \in 0..MaxCwnd - 1 : (h + MaxCwnd) % MaxCwnd = h
            BY VegasAssumption
          <6>3. QED
            BY <6>1, <6>2
        <5>2. QED
          BY <1>3, <2>2, <3>1, <5>1 DEF Slot
      <4>2. s.head \in Slots /\ Offset(s, s.head) = 0
        BY VegasAssumption DEF Offset, SessionType, Slots
      <4>3. r.window[s.head].valid
        <5>1. CASE W = 0
          <6>1. 0 \in W..R - 1
            BY <1>1, <1>8, <5>1
          <6>2. r.window[s.head] = new(s.head)
            BY <1>3, <4>2, <6>1
          <6>3. QED
            BY <6>2 DEF new
        <5>2. CASE W # 0
          <6>1. 0 \notin W..R - 1 /\ 0 < Outstanding(s)
            BY <1>1, <2>1, <5>2
          <6>2. s.window[s.head].valid
            BY <4>2, <6>1 DEF Consistent
          <6>3. QED
            BY <1>3, <4>2, <6>1, <6>2
        <5>3. QED
          BY <5>1, <5>2
      <4>4. QED
        BY <1>3, <3>1, <4>1, <4>3 DEF Outstanding
    <3>2. CASE R # MaxCwnd
      <4>1. R \in Slots /\ R # 0
        BY <1>1, <1>8, <3>2, VegasAssumption DEF Slots
      <4>2. r.tail \in Slots /\ Offset(s, r.tail) = R
        BY <2>2, <4>1, RingPosition
      <4>3. WSize(r) = R
        BY <1>2, <1>6, <4>2, TailPosition
      <4>4. QED
        BY <1>2, <4>1, <4>3, OutstandingType
    <3>3. QED
      BY <3>1, <3>2
  <2>4. ASSUME NEW i \in Slots
        PROVE  /\ r.window[i].valid <=> Offset(r, i) < Outstanding(r)
               /\ r.window[i].valid => /\ r.window[i].segnum = r.starting + Offset(r, i)
                                      /\ r.window[i].msg \in {NoMsg, r.window[i].segnum}
               /\ ~ r.window[i].valid => r.window[i] = EmptyEntry
    <3>1. CASE Offset(s, i) \in W..R - 1
      <4>1. r.window[i] = new(i)
        BY <1>3, <3>1
      <4>2. Offset(r, i) = Offset(s, i) /\ Offset(r, i) < Outstanding(r)
        BY <1>1, <1>6, <2>3, <3>1
      <4>3. QED
        BY <1>3, <4>1, <4>2 DEF new
    <3>2. CASE Offset(s, i) \notin W..R - 1
      <4>1. r.window[i] = s.window[i] /\ Offset(r, i) = Offset(s, i)
        BY <1>3, <1>6, <3>2
      <4>2. Offset(s, i) < Outstanding(r) <=> Offset(s, i) < Outstanding(s)
        BY <1>1, <1>6, <1>8, <2>1, <2>3, <3>2
      <4>3. QED
        BY <1>3, <4>1, <4>2 DEF Consistent
    <3>3. QED
      BY <3>1, <3>2
  <2>5. QED
    BY <2>4 DEF Consistent, r
<1>9. QED
  BY <1>1, <1>7, <1>8

-----------------------------------------------------------------------------
(* The window stays consistent and delivery in order *)

(* Outside a session there is nothing in the window: a state change of the *)
(* connection, which forwards in any phase, then moves nothing.            *)
IdleSession == phase # "active" => session = NewSession

(* The counter of a session in progress is what went up.                   *)
CountsDelivered(s, u) ==
    /\ u = [i \in 1..Len(u) |-> i - 1]
    /\ s.starting = Len(u)

IInv == TypeOK /\ WindowConsistent /\ InOrderDelivery /\ IdleSession

LEMMA ForwardCounts ==
    ASSUME NEW s \in SessionType, Consistent(s), NEW u \in Seq(Segments), CountsDelivered(s, u)
    PROVE  CountsDelivered(ForwardObjectsInOrder(s), u \o Delivered(s))
<1> DEFINE n == Ready(s)
           v == u \o Delivered(s)
<1>1. n \in Nat /\ Delivered(s) = [i \in 1..n |-> s.starting + i - 1]
      /\ Delivered(s) \in Seq(Segments)
  BY DeliveredInOrder, DeliveredType
<1>2. Len(Delivered(s)) = n
  BY <1>1
<1>3. Len(u) \in Nat /\ v \in Seq(Segments) /\ Len(v) = Len(u) + n
  BY <1>1, <1>2
<1>4. ASSUME NEW i \in 1..Len(v)
      PROVE  v[i] = i - 1
  <2>1. CASE i <= Len(u)
    BY <1>3, <2>1 DEF CountsDelivered
  <2>2. CASE i > Len(u)
    <3>1. v[i] = Delivered(s)[i - Len(u)] /\ i - Len(u) \in 1..n
      BY <1>1, <1>2, <1>3, <2>2
    <3>2. QED
      BY <1>1, <1>3, <3>1 DEF CountsDelivered
  <2>3. QED
    BY <1>3, <2>1, <2>2
<1>5. v = [i \in 1..Len(v) |-> i - 1]
  <2> HIDE DEF v
  <2>1. v = [i \in 1..Len(v) |-> v[i]]
    BY <1>3
  <2>2. QED
    BY <1>4, <2>1
<1>6. ForwardObjectsInOrder(s).starting = Len(v)
  BY <1>3, ForwardFields DEF CountsDelivered
<1>7. QED
  BY <1>5, <1>6 DEF CountsDelivered

LEMMA ReduceKeepsWindow ==
    ASSUME NEW s \in SessionType
    PROVE  KeepsWindow(s, ReduceCongestionWindow(s))
BY DEF ReduceCongestionWindow, KeepsWindow, SessionType

LEMMA FastReexpressKeepsWindow ==
    ASSUME NEW s \in SessionType, NEW expired \in SUBSET Nat
    PROVE  KeepsWindow(s, FastReexpress(s, expired))
<1> DEFINE r == IF expired \cap s.fresh # {} THEN ReduceCongestionWindow(s) ELSE s
<1>1. r \in SessionType /\ KeepsWindow(s, r)
  BY ReduceType, ReduceKeepsWindow DEF KeepsWindow
<1>2. FastReexpress(s, expired) =
        IF BlockedDown THEN r ELSE [r EXCEPT !.fresh = r.fresh \cup expired]
  BY <1>1 DEF FastReexpress, SessionType
<1> HIDE DEF r
<1>3. KeepsWindow(r, [r EXCEPT !.fresh = r.fresh \cup expired])
  BY <1>1 DEF KeepsWindow, SessionType
<1>4. QED
  BY <1>1, <1>2, <1>3 DEF KeepsWindow

LEMMA AvoidanceKeepsWindow ==
    ASSUME NEW s \in SessionType, NEW base \in RttValues, NEW rtt \in RttValues
    PROVE  KeepsWindow(s, CongestionAvoidance(s, base, rtt))
<1> DEFINE t == IF s.doFc /\ s.cntRtt > 2 THEN TimeBasedAvoidance(s, base, rtt) ELSE s
<1>1. KeepsWindow(s, TimeBasedAvoidance(s, base, rtt))
  BY DEF TimeBasedAvoidance, KeepsWindow, SessionType
<1>2. t \in SessionType /\ KeepsWindow(s, t)
  BY <1>1, TimeBasedType DEF KeepsWindow
<1>3. CongestionAvoidance(s, base, rtt) =
        [t EXCEPT !.doFc = ~s.doFc, !.cntRtt = 0, !.oldSegs = FALSE]
  BY DEF CongestionAvoidance
<1> HIDE DEF t
<1>4. QED
  BY <1>2, <1>3 DEF KeepsWindow, SessionType

LEMMA InitIInv == Init => IInv
<1> SUFFICES ASSUME Init PROVE IInv
  OBVIOUS
<1>1. TypeOK
  BY InitType
<1>2. session = NewSession /\ phase = "none" /\ up = <<>>
  BY DEF Init
<1>3. up = [i \in 1..Len(up) |-> i - 1]
  BY <1>2
<1>4. QED
  BY <1>1, <1>2, <1>3, NewSessionConsistent DEF IInv, WindowConsistent, InOrderDelivery, IdleSession

LEMMA NothingReady ==
    Ready(NewSession) = 0 => ForwardObjectsInOrder(NewSession) = NewSession
<1> SUFFICES ASSUME Ready(NewSession) = 0
             PROVE  ForwardObjectsInOrder(NewSession) = NewSession
  OBVIOUS
<1> DEFINE w == [i \in Slots |-> IF Offset(NewSession, i) < 0 THEN EmptyEntry
                                                            ELSE NewSession.window[i]]
<1>1. w = NewSession.window
  BY DEF NewSession
<1>2. ForwardObjectsInOrder(NewSession) =
        [NewSession EXCEPT !.starting = NewSession.starting + 0,
                           !.head     = (NewSession.head + 0) % MaxCwnd,
                           !.window   = w,
                           !.fresh    = {seg \in NewSession.fresh : seg >= NewSession.starting + 0}]
  BY ZenonT(60) DEF ForwardObjectsInOrder, NewSession
<1>3. /\ NewSession.starting + 0 = NewSession.starting
      /\ (NewSession.head + 0) % MaxCwnd = NewSession.head
      /\ {seg \in NewSession.fresh : seg >= NewSession.starting + 0} = NewSession.fresh
  BY VegasAssumption DEF NewSession
<1> HIDE DEF w
<1>4. ForwardObjectsInOrder(NewSession) =
        [NewSession EXCEPT !.starting = NewSession.starting, !.head = NewSession.head,
                           !.window = NewSession.window, !.fresh = NewSession.fresh]
  BY <1>1, <1>2, <1>3
<1>5. ASSUME NEW s \in SessionType
      PROVE  [s EXCEPT !.starting = s.starting, !.head = s.head,
                       !.window = s.window, !.fresh = s.fresh] = s
  BY DEF SessionType
<1>6. QED
  BY <1>4, <1>5, NewSessionType

LEMMA SendMoreIInv ==
    ASSUME IInv, phase = "active", NEW seg \in Segments, NEW r \in SessionType, Consistent(r),
           NEW net \in [Segments -> 0..MaxCopies],
           CountsDelivered(r, up'), SendMoreInterests(seg, r, net)
    PROVE  (WindowConsistent /\ InOrderDelivery /\ IdleSession)'
<1>1. PICK expired \in SUBSET Earlier(r, seg) :
        \E s \in {FastReexpress(r, expired)}, sent \in {Send(net, expired)} :
           \/ /\ s.starting < s.final /\ TailIsFree(s)
              /\ session' = ExpressInterests(s)
              /\ inflight' = Send(sent, ToExpress(s))
              /\ UNCHANGED <<phase, trap>>
           \/ /\ s.starting < s.final /\ ~ TailIsFree(s)
              /\ session' = s /\ inflight' = sent
              /\ trap' = "vegasSession_ExpressInterests"
              /\ UNCHANGED phase
           \/ /\ Complete(s)
              /\ EndSession /\ inflight' = sent
              /\ UNCHANGED trap
           \/ /\ s.starting = s.final
              /\ session' = s /\ inflight' = sent
              /\ UNCHANGED <<phase, trap>>
  BY Zenon DEF SendMoreInterests
<1> DEFINE s == FastReexpress(r, expired)
<1>2. expired \in SUBSET Nat
  BY VegasAssumption DEF Earlier, SmallerOf, Segments, SessionType
<1>3. s \in SessionType /\ KeepsWindow(r, s)
  BY <1>2, FastReexpressType, FastReexpressKeepsWindow
<1>4. Consistent(s) /\ s.starting = Len(up') /\ up' = [i \in 1..Len(up') |-> i - 1]
  BY <1>3, SameWindow DEF CountsDelivered, KeepsWindow
<1>5. \/ TailIsFree(s) /\ session' = ExpressInterests(s) /\ phase' = phase
      \/ session' = s /\ phase' = phase
      \/ session' = NewSession /\ phase' = "finished"
  BY <1>1 DEF EndSession, Destroy
<1> HIDE DEF s
<1>6. CASE TailIsFree(s) /\ session' = ExpressInterests(s) /\ phase' = phase
  <2>1. Consistent(ExpressInterests(s)) /\ ExpressInterests(s).starting = s.starting
    BY <1>3, <1>4, <1>6, ExpressConsistent, ExpressFields
  <2>2. WindowConsistent'
    BY <1>6, <2>1 DEF WindowConsistent
  <2>3. QED
    BY <1>4, <1>6, <2>1, <2>2 DEF InOrderDelivery, IdleSession
<1>7. CASE session' = s /\ phase' = phase
  <2>1. WindowConsistent'
    BY <1>4, <1>7 DEF WindowConsistent
  <2>2. QED
    BY <1>4, <1>7, <2>1 DEF InOrderDelivery, IdleSession
<1>8. CASE session' = NewSession /\ phase' = "finished"
  <2>1. WindowConsistent'
    BY <1>8, NewSessionConsistent DEF WindowConsistent
  <2>2. QED
    BY <1>4, <1>8, <2>1 DEF InOrderDelivery, IdleSession
<1>9. QED
  BY <1>5, <1>6, <1>7, <1>8

(* Every step keeps the invariant. *)
LEMMA NextIInv == IInv /\ [Next]_vars => IInv'
<1> SUFFICES ASSUME IInv, [Next]_vars
             PROVE  (WindowConsistent /\ InOrderDelivery /\ IdleSession)'
  BY NextType DEF IInv
<1>1. /\ session \in SessionType /\ up \in Seq(Segments)
      /\ inflight \in [Segments -> 0..MaxCopies]
      /\ Consistent(session) /\ InOrderDelivery /\ IdleSession
  BY DEF IInv, TypeOK, WindowConsistent
(* Steps that do not touch the session. *)
<1>2. ASSUME UNCHANGED <<session, up, phase>>
      PROVE  (WindowConsistent /\ InOrderDelivery /\ IdleSession)'
  <2>1. WindowConsistent'
    BY <1>1, <1>2 DEF WindowConsistent
  <2>2. QED
    BY <1>1, <1>2, <2>1 DEF InOrderDelivery, IdleSession
(* Steps that change it elsewhere than in the window. *)
<1>3. ASSUME session' \in SessionType, KeepsWindow(session, session'),
             UNCHANGED <<up, phase>>, phase = "active"
      PROVE  (WindowConsistent /\ InOrderDelivery /\ IdleSession)'
  <2>1. WindowConsistent'
    BY <1>1, <1>3, SameWindow DEF WindowConsistent
  <2>2. QED
    BY <1>1, <1>3, <2>1 DEF KeepsWindow, InOrderDelivery, IdleSession
(* Steps that leave no session. *)
<1>4. ASSUME session' = NewSession, phase' # "active", UNCHANGED up
      PROVE  (WindowConsistent /\ InOrderDelivery /\ IdleSession)'
  <2>1. WindowConsistent'
    BY <1>4, NewSessionConsistent DEF WindowConsistent
  <2>2. QED
    BY <1>1, <1>4, <2>1 DEF InOrderDelivery, IdleSession
<1>5. ASSUME NEW chunk \in Begins, HandleInterest(chunk)
      PROVE  (WindowConsistent /\ InOrderDelivery /\ IdleSession)'
  <2>1. session' = ExpressInterests(NewSession) /\ phase' = "active" /\ up' = <<>>
    BY <1>5 DEF HandleInterest, Start
  <2>2. TailIsFree(NewSession)
    <3>1. WSize(NewSession) = 0 /\ Reach(NewSession) <= 2 /\ Reach(NewSession) \in Int
      BY NewSessionType, ReachType DEF NewSession, WSize
    <3>2. \A k \in 0..1 : Slot(NewSession, k) \in Slots
      BY SlotType, NewSessionType
    <3>3. \A i \in Slots : ~ NewSession.window[i].valid
      BY DEF NewSession, EmptyEntry
    <3>4. QED
      BY <3>1, <3>2, <3>3 DEF TailIsFree
  <2>3. Consistent(session') /\ session'.starting = 0
    BY <2>1, <2>2, NewSessionType, NewSessionConsistent, ExpressConsistent, ExpressFields
       DEF NewSession
  <2>4. up' = [i \in 1..Len(up') |-> i - 1] /\ Len(up') = 0
    BY <2>1
  <2>5. WindowConsistent'
    BY <2>3 DEF WindowConsistent
  <2>6. QED
    BY <2>1, <2>3, <2>4, <2>5 DEF InOrderDelivery, IdleSession
<1>6. ASSUME NEW chunk \in Begins, HandleRepeatedInterest(chunk)
      PROVE  (WindowConsistent /\ InOrderDelivery /\ IdleSession)'
  BY <1>2, <1>6 DEF HandleRepeatedInterest, Abort
<1>7. CASE CancelFlow
  BY <1>4, <1>7 DEF CancelFlow, Destroy
<1>8. ASSUME NEW seg \in Segments, ReceiveContentObject(seg)
      PROVE  (WindowConsistent /\ InOrderDelivery /\ IdleSession)'
  <2> DEFINE net == [inflight EXCEPT ![seg] = @ - 1]
  <2>1. CASE UNCHANGED <<phase, session, begin, up, paused, blocked, opened, trap>>
    BY <1>2, <2>1
  <2>2. CASE phase = "active" /\ ReceivedBeforeWindowStart(seg)
    <3> DEFINE t == ReduceCongestionWindow(session)
    <3>1. t \in SessionType /\ KeepsWindow(session, t)
      BY <1>1, ReduceType, ReduceKeepsWindow
    <3> HIDE DEF t
    <3>2. [t EXCEPT !.oldSegs = TRUE] \in SessionType
          /\ KeepsWindow(session, [t EXCEPT !.oldSegs = TRUE])
      BY <3>1 DEF KeepsWindow, SessionType
    <3>3. session' = (IF session.oldSegs THEN session ELSE [t EXCEPT !.oldSegs = TRUE])
          /\ UNCHANGED <<up, phase>>
      BY <2>2 DEF ReceivedBeforeWindowStart, t
    <3>4. session' \in SessionType /\ KeepsWindow(session, session')
      BY <1>1, <3>2, <3>3 DEF KeepsWindow
    <3>5. QED
      BY <1>3, <2>2, <3>3, <3>4
  <2>3. CASE phase = "active" /\ ReceivedInWindow(seg, net)
    <3> DEFINE f == SetFinalBlockId(session, seg)
               g == GetWindowEntry(f, seg)
               stored == RunAlgorithmOnReceive(g)
               r == IF BlockedUp THEN stored ELSE ForwardObjectsInOrder(stored)
    <3>1. net \in [Segments -> 0..MaxCopies]
      BY <1>1, <1>8, ReceiveOneType DEF ReceiveContentObject
    <3> HIDE DEF net
    <3>2. f \in SessionType /\ KeepsWindow(session, f)
      BY <1>1, SetFinalBlockIdType DEF SetFinalBlockId, KeepsWindow, SessionType
    <3>3. seg >= f.starting /\ InWindow(f, seg) /\ Consistent(f)
      BY <1>1, <2>3, <3>2, SameWindow
         DEF ReceivedInWindow, KeepsWindow, InWindow, EntryOf, Slot
    <3>4. SendMoreInterests(seg, r, net)
          /\ up' = (IF BlockedUp THEN up ELSE up \o Delivered(stored))
      BY <2>3 DEF ReceivedInWindow
    <3> HIDE DEF f
    <3>5. g \in SessionType /\ Consistent(g) /\ g.starting = f.starting
      BY <3>2, <3>3, GetWindowEntryType, GetWindowEntryConsistent DEF GetWindowEntry, SessionType
    <3> HIDE DEF g
    <3>6. stored \in SessionType /\ KeepsWindow(g, stored)
      BY <3>5, RunAlgorithmType DEF RunAlgorithmOnReceive, KeepsWindow, SessionType
    <3> HIDE DEF stored
    <3>7. Consistent(stored) /\ CountsDelivered(stored, up)
      BY <1>1, <2>3, <3>2, <3>5, <3>6, SameWindow
         DEF KeepsWindow, CountsDelivered, InOrderDelivery
    <3>8. /\ r \in SessionType /\ Consistent(r) /\ CountsDelivered(r, up')
      BY <1>1, <3>4, <3>6, <3>7, ForwardType, ForwardConsistent, ForwardCounts
    <3> HIDE DEF r
    <3>9. QED
      BY <2>3, <3>1, <3>4, <3>8, SendMoreIInv
  <2>4. CASE Abort("vegasSession_GetWindowEntry")
    BY <1>2, <2>4 DEF Abort
  <2>5. QED
    BY <1>8, <2>1, <2>2, <2>3, <2>4 DEF ReceiveContentObject
<1>9. ASSUME NEW seg \in Segments, Lose(seg)
      PROVE  (WindowConsistent /\ InOrderDelivery /\ IdleSession)'
  BY <1>2, <1>9 DEF Lose
<1>10. ASSUME NEW rttDue \in BOOLEAN, NEW rtoDue \in BOOLEAN, TimerCallback(rttDue, rtoDue)
       PROVE  (WindowConsistent /\ InOrderDelivery /\ IdleSession)'
  <2>1. PICK base \in RttValues, rtt \in RttValues :
          \E s \in {IF rttDue THEN CongestionAvoidance(session, base, rtt) ELSE session} :
              IF rtoDue /\ ~ s.window[s.head].valid
              THEN Abort("vegasSession_SlowReexpress") /\ UNCHANGED inflight
              ELSE /\ session'  = IF rtoDue THEN SlowReexpress(s) ELSE s
                   /\ inflight' = IF rtoDue THEN Send(inflight, {s.window[s.head].segnum})
                                           ELSE inflight
                   /\ UNCHANGED <<phase, begin, up, paused, blocked, opened, trap>>
    BY <1>10 DEF TimerCallback
  <2> DEFINE s == IF rttDue THEN CongestionAvoidance(session, base, rtt) ELSE session
  <2>2. s \in SessionType /\ KeepsWindow(session, s)
    BY <1>1, AvoidanceType, AvoidanceKeepsWindow DEF KeepsWindow
  <2>3. phase = "active"
    BY <1>10 DEF TimerCallback, Active
  <2>4. \/ UNCHANGED <<session, up, phase>>
        \/ session' = SlowReexpress(s) /\ UNCHANGED <<up, phase>>
        \/ session' = s /\ UNCHANGED <<up, phase>>
    BY <2>1 DEF Abort
  <2> HIDE DEF s
  <2>5. KeepsWindow(session, SlowReexpress(s))
    BY <2>2 DEF SlowReexpress, KeepsWindow, SessionType
  <2>6. session' \in SessionType
    BY NextType DEF IInv, TypeOK
  <2>7. QED
    BY <1>2, <1>3, <2>2, <2>3, <2>4, <2>5, <2>6
<1>11. ASSUME NEW isPaused \in BOOLEAN, StateChanged(isPaused), UNCHANGED phase
       PROVE  (WindowConsistent /\ InOrderDelivery /\ IdleSession)'
  <2>1. CASE UNCHANGED <<session, up>>
    BY <1>2, <1>11, <2>1
  <2>2. CASE session' = ForwardObjectsInOrder(session) /\ up' = up \o Delivered(session)
    <3>1. WindowConsistent'
      BY <1>1, <2>2, ForwardConsistent DEF WindowConsistent
    <3>2. CASE phase = "active"
      <4>1. CountsDelivered(session', up')
        BY <1>1, <2>2, <3>2, ForwardCounts DEF CountsDelivered, InOrderDelivery
      <4>2. QED
        BY <1>11, <3>1, <3>2, <4>1 DEF CountsDelivered, InOrderDelivery, IdleSession
    <3>3. CASE phase # "active"
      <4>1. session = NewSession /\ WSize(session) = 0
        BY <1>1, <3>3 DEF IdleSession, NewSession, WSize
      <4>2. Ready(session) = 0 /\ Delivered(session) = <<>>
        <5>1. Ready(session) = 0
          BY <1>1, <4>1, ReadyIsMaximal
        <5>2. QED
          BY <5>1 DEF Delivered
      <4>3. session' = NewSession
        BY <2>2, <4>1, <4>2, NothingReady
      <4>4. up' = up
        BY <1>1, <2>2, <4>2
      <4>5. QED
        BY <1>4, <1>11, <3>3, <4>3, <4>4
    <3>4. QED
      BY <3>2, <3>3
  <2>3. QED
    BY <1>11, <2>1, <2>2 DEF StateChanged
<1>12. CASE Pause
  BY <1>11, <1>12 DEF Pause
<1>13. ASSUME NEW b \in BOOLEAN, BlockDown(b)
       PROVE  (WindowConsistent /\ InOrderDelivery /\ IdleSession)'
  <2>1. paused \in BOOLEAN
    BY DEF IInv, TypeOK
  <2>2. QED
    BY <1>11, <1>13, <2>1 DEF BlockDown
<1>14. CASE UNCHANGED vars
  BY <1>2, <1>14 DEF vars
<1>15. QED
  BY <1>5, <1>6, <1>7, <1>8, <1>9, <1>10, <1>12, <1>13, <1>14 DEF Next

(* The circular window holds exactly the outstanding segments, each in its *)
(* own entry, whatever the network does and however long the stream.       *)
THEOREM WindowIsConsistent == Spec => []WindowConsistent
<1>1. IInv => WindowConsistent
  BY DEF IInv
<1>2. QED
  BY <1>1, InitIInv, NextIInv, PTL DEF Spec

(* The application gets the chunks from 0 on, each once and in order.      *)
THEOREM DeliveryInOrder == Spec => []InOrderDelivery
<1>1. IInv => InOrderDelivery
  BY DEF IInv
<1>2. QED
  BY <1>1, InitIInv, NextIInv, PTL DEF Spec

-----------------------------------------------------------------------------
(* Nothing that is next in order is held back *)

(* The head of the window waits for its object, unless the ring is full    *)
(* and its size reads as zero.                                             *)
HeadWaits(s) == s.window[s.head].msg = NoMsg \/ Outstanding(s) = MaxCwnd

HeadInv == ~ paused => HeadWaits(session)

LEMMA HeadKept ==
    ASSUME NEW s, NEW t, KeepsWindow(s, t), HeadWaits(s)
    PROVE  HeadWaits(t)
BY DEF KeepsWindow, HeadWaits, Outstanding, WSize

LEMMA NewSessionHead == HeadWaits(NewSession)
<1>1. 0 \in Slots
  BY VegasAssumption DEF Slots
<1>2. QED
  BY <1>1 DEF HeadWaits, NewSession, EmptyEntry

(* Forwarding stops at an entry that has no object, or at the free slot    *)
(* behind the window.                                                      *)
LEMMA ForwardHead ==
    ASSUME NEW s \in SessionType, Consistent(s)
    PROVE  HeadWaits(ForwardObjectsInOrder(s))
<1> DEFINE n == Ready(s)
           r == ForwardObjectsInOrder(s)
<1>1. /\ n \in Nat /\ n <= WSize(s) /\ WSize(s) \in 0..MaxCwnd - 1
      /\ n = WSize(s) \/ s.window[Slot(s, n)].msg = NoMsg
  BY ReadyIsMaximal, WSizeType, VegasAssumption DEF Slots
<1>2. /\ r.tail = s.tail /\ r.head = Slot(s, n)
      /\ \A i \in Slots : r.window[i] = IF Offset(s, i) < n THEN EmptyEntry ELSE s.window[i]
  BY ForwardFields DEF Slot
<1> HIDE DEF n, r
<1>3. n \in Slots /\ r.head \in Slots /\ Offset(s, r.head) = n
  BY <1>1, <1>2, RingPosition, VegasAssumption DEF Slots
<1>4. r.window[r.head] = s.window[r.head]
  <2>1. ~ (Offset(s, r.head) < n)
    BY <1>1, <1>3
  <2>2. r.window[r.head] = IF Offset(s, r.head) < n THEN EmptyEntry ELSE s.window[r.head]
    BY <1>2, <1>3, Zenon
  <2>3. QED
    BY <2>1, <2>2
<1>5. CASE s.window[r.head].msg = NoMsg
  BY <1>4, <1>5 DEF HeadWaits, r
<1>6. CASE n = WSize(s) /\ Outstanding(s) # MaxCwnd
  <2>1. Outstanding(s) = WSize(s)
    BY <1>6, OutstandingType
  <2>2. ~ s.window[r.head].valid
    <3>1. ~ (Offset(s, r.head) < Outstanding(s))
      BY <1>1, <1>3, <1>6, <2>1
    <3>2. QED
      BY <1>3, <3>1, Zenon DEF Consistent
  <2>3. s.window[r.head] = EmptyEntry
    BY <1>3, <2>2, Zenon DEF Consistent
  <2>4. QED
    BY <1>5, <2>3 DEF EmptyEntry
<1>7. CASE n = WSize(s) /\ Outstanding(s) = MaxCwnd
  <2>1. WSize(s) # MaxCwnd
    BY <1>1, VegasAssumption
  <2>2. s.head = s.tail /\ s.window[s.head].valid /\ WSize(s) = 0
    BY <1>7, <2>1, OutstandingType, VegasAssumption DEF Outstanding
  <2>3. s.head \in Slots /\ Slot(s, 0) = s.head
    BY <2>2, TailPosition DEF SessionType
  <2>4. r.head = s.head
    BY <1>2, <1>7, <2>2, <2>3
  <2>5. Outstanding(r) = MaxCwnd
    BY <1>2, <1>4, <2>2, <2>4 DEF Outstanding
  <2>6. QED
    BY <2>5 DEF HeadWaits, r
<1>8. QED
  BY <1>1, <1>2, <1>5, <1>6, <1>7

(* Expressing interests leaves the head as it is, or starts to wait at it. *)
LEMMA ExpressHead ==
    ASSUME NEW s \in SessionType, HeadWaits(s)
    PROVE  HeadWaits(ExpressInterests(s))
<1> DEFINE W == WSize(s)
           R == Reach(s)
           r == ExpressInterests(s)
           new(i) == [valid |-> TRUE, segnum |-> s.starting + Offset(s, i), msg |-> NoMsg]
<1>1. W \in 0..MaxCwnd - 1 /\ R \in Int
  BY ReachType, WSizeType DEF Slots
<1>2. /\ r.head = s.head /\ r.tail = Slot(s, LargerOf(W, R))
      /\ \A i \in Slots : r.window[i] = IF Offset(s, i) \in W..R - 1 THEN new(i) ELSE s.window[i]
  BY ExpressFields
<1>3. s.head \in Slots /\ Offset(s, s.head) = 0
  BY VegasAssumption DEF SessionType, Offset, Slots
<1> HIDE DEF W, R, r
<1>7. r.window[s.head] = IF 0 \in W..R - 1 THEN new(s.head) ELSE s.window[s.head]
  <2> HIDE DEF new
  <2>1. r.window[s.head] = IF Offset(s, s.head) \in W..R - 1 THEN new(s.head)
                                                           ELSE s.window[s.head]
    BY <1>2, <1>3, Zenon
  <2>2. QED
    BY <1>3, <2>1
<1>4. CASE 0 \in W..R - 1
  BY <1>2, <1>4, <1>7 DEF HeadWaits, r
<1>5. CASE 0 \notin W..R - 1
  <2>1. r.window[r.head] = s.window[s.head]
    BY <1>2, <1>5, <1>7
  <2>2. CASE s.window[s.head].msg = NoMsg
    BY <2>1, <2>2 DEF HeadWaits, r
  <2>3. CASE Outstanding(s) = MaxCwnd
    <3>1. s.head = s.tail /\ s.window[s.head].valid /\ W = 0
      BY <1>1, <2>3, OutstandingType, VegasAssumption DEF Outstanding, W
    <3>2. LargerOf(W, R) = 0
      BY <1>1, <1>5, <3>1 DEF LargerOf
    <3>3. r.tail = s.tail
      BY <1>2, <3>1, <3>2, TailPosition DEF W
    <3>4. Outstanding(r) = MaxCwnd
      BY <1>2, <2>1, <3>1, <3>3 DEF Outstanding
    <3>5. QED
      BY <3>4 DEF HeadWaits, r
  <2>4. QED
    BY <2>2, <2>3 DEF HeadWaits
<1>6. QED
  BY <1>4, <1>5

(* The session once an object is in its entry. *)
Stored(s, seg) == RunAlgorithmOnReceive(GetWindowEntry(SetFinalBlockId(s, seg), seg))

(* It is in order like before, and the rest of the reception acts on it,   *)
(* after the objects in order went up.                                     *)
LEMMA StoredInOrder ==
    ASSUME IInv, phase = "active", NEW seg \in Segments, NEW net, ReceivedInWindow(seg, net)
    PROVE  LET t == Stored(session, seg)
               r == IF BlockedUp THEN t ELSE ForwardObjectsInOrder(t)
           IN /\ t \in SessionType /\ Consistent(t) /\ CountsDelivered(t, up)
              /\ t.final = SetFinalBlockId(session, seg).final
              /\ r \in SessionType /\ Consistent(r) /\ CountsDelivered(r, up')
              /\ up' = IF BlockedUp THEN up ELSE up \o Delivered(t)
              /\ SendMoreInterests(seg, r, net)
<1> DEFINE f == SetFinalBlockId(session, seg)
           g == GetWindowEntry(f, seg)
           t == RunAlgorithmOnReceive(g)
           r == IF BlockedUp THEN t ELSE ForwardObjectsInOrder(t)
<1>1. session \in SessionType /\ Consistent(session) /\ up \in Seq(Segments)
  BY DEF IInv, TypeOK, WindowConsistent
<1>2. f \in SessionType /\ KeepsWindow(session, f)
  BY <1>1, SetFinalBlockIdType DEF SetFinalBlockId, KeepsWindow, SessionType
<1>3. seg >= f.starting /\ InWindow(f, seg) /\ Consistent(f)
  BY <1>1, <1>2, SameWindow DEF ReceivedInWindow, KeepsWindow, InWindow, EntryOf, Slot
<1>4. SendMoreInterests(seg, r, net)
      /\ up' = (IF BlockedUp THEN up ELSE up \o Delivered(t))
  BY DEF ReceivedInWindow
<1> HIDE DEF f
<1>5. g \in SessionType /\ Consistent(g) /\ g.starting = f.starting /\ g.final = f.final
  BY <1>2, <1>3, GetWindowEntryType, GetWindowEntryConsistent DEF GetWindowEntry, SessionType
<1> HIDE DEF g
<1>6. t \in SessionType /\ KeepsWindow(g, t) /\ t.final = g.final
  BY <1>5, RunAlgorithmType DEF RunAlgorithmOnReceive, KeepsWindow, SessionType
<1> HIDE DEF t
<1>7. Consistent(t) /\ CountsDelivered(t, up)
  BY <1>1, <1>2, <1>5, <1>6, SameWindow DEF IInv, KeepsWindow, CountsDelivered, InOrderDelivery
<1>8. r \in SessionType /\ Consistent(r) /\ CountsDelivered(r, up')
  BY <1>1, <1>4, <1>6, <1>7, ForwardType, ForwardConsistent, ForwardCounts
<1>9. t = Stored(session, seg)
  BY DEF t, g, f, Stored
<1> HIDE DEF r
<1>10. t.final = SetFinalBlockId(session, seg).final
  BY <1>5, <1>6 DEF f
<1>11. QED
  BY <1>4, <1>6, <1>7, <1>8, <1>9, <1>10 DEF r

(* What follows ends the session past its final segment, or keeps it with  *)
(* its head and final segment.                                             *)
LEMMA SendMoreEnds ==
    ASSUME TypeOK, NEW seg \in Segments, NEW r \in SessionType, NEW net,
           SendMoreInterests(seg, r, net)
    PROVE  /\ session'.final \in {r.final, NoFinal}
           /\ HeadWaits(r) => HeadWaits(session')
           /\ \/ phase' = phase
              \/ phase' = "finished" /\ r.starting > r.final
<1>1. PICK expired \in SUBSET Earlier(r, seg) :
        \E s \in {FastReexpress(r, expired)}, sent \in {Send(net, expired)} :
           \/ /\ s.starting < s.final /\ TailIsFree(s)
              /\ session' = ExpressInterests(s)
              /\ inflight' = Send(sent, ToExpress(s))
              /\ UNCHANGED <<phase, trap>>
           \/ /\ s.starting < s.final /\ ~ TailIsFree(s)
              /\ session' = s /\ inflight' = sent
              /\ trap' = "vegasSession_ExpressInterests"
              /\ UNCHANGED phase
           \/ /\ Complete(s)
              /\ EndSession /\ inflight' = sent
              /\ UNCHANGED trap
           \/ /\ s.starting = s.final
              /\ session' = s /\ inflight' = sent
              /\ UNCHANGED <<phase, trap>>
  BY Zenon DEF SendMoreInterests
<1> DEFINE s == FastReexpress(r, expired)
<1>2. expired \in SUBSET Nat
  BY VegasAssumption DEF Earlier, SmallerOf, Segments, SessionType
<1>3. s \in SessionType /\ KeepsWindow(r, s)
  BY <1>2, FastReexpressType, FastReexpressKeepsWindow
<1>4. s.final = r.final
  <2> DEFINE q == IF expired \cap r.fresh # {} THEN ReduceCongestionWindow(r) ELSE r
  <2>1. q \in SessionType /\ q.final = r.final
    BY ReduceType DEF ReduceCongestionWindow, SessionType
  <2>2. s = IF BlockedDown THEN q ELSE [q EXCEPT !.fresh = q.fresh \cup expired]
    BY <2>1 DEF FastReexpress, SessionType
  <2> HIDE DEF q, s
  <2>3. QED
    BY <2>1, <2>2 DEF SessionType
<1>5. \/ session' = ExpressInterests(s) /\ phase' = phase
      \/ session' = s /\ phase' = phase
      \/ session' = NewSession /\ phase' = "finished" /\ s.starting > s.final
  BY <1>1 DEF EndSession, Destroy, Complete
<1>6. ExpressInterests(s).final = s.final /\ NewSession.final = NoFinal
  BY <1>3 DEF ExpressInterests, SessionType, NewSession
<1>7. HeadWaits(r) => HeadWaits(s) /\ HeadWaits(ExpressInterests(s))
  BY <1>3, HeadKept, ExpressHead
<1> HIDE DEF s
<1>8. session'.final \in {r.final, NoFinal}
  BY <1>4, <1>5, <1>6
<1>9. HeadWaits(r) => HeadWaits(session')
  BY <1>5, <1>7, NewSessionHead
<1>10. s.starting = r.starting
  BY <1>3 DEF KeepsWindow
<1>11. QED
  BY <1>4, <1>5, <1>8, <1>9, <1>10


-----------------------------------------------------------------------------
(* What a step does to the session *)

(* The session keeps its window and its final segment.                     *)
Adjusts ==
    /\ session' \in SessionType /\ KeepsWindow(session, session')
    /\ session'.final = session.final
    /\ UNCHANGED <<up, phase>>

(* The objects in order go up because the connection changed.              *)
Flushes ==
    /\ ~ paused /\ session' = ForwardObjectsInOrder(session)
    /\ up' = up \o Delivered(session) /\ phase' = phase

Begun ==
    /\ phase # "active" /\ phase' = "active"
    /\ session' = ExpressInterests(NewSession) /\ up' = <<>>

Cancelled ==
    /\ phase = "active" /\ phase' = "cancelled"
    /\ session' = NewSession /\ UNCHANGED up

Received(seg, net) == phase = "active" /\ ReceivedInWindow(seg, net)

LEMMA AvoidanceFinal ==
    ASSUME NEW s \in SessionType, NEW base \in RttValues, NEW rtt \in RttValues
    PROVE  CongestionAvoidance(s, base, rtt).final = s.final
<1> DEFINE t == IF s.doFc /\ s.cntRtt > 2 THEN TimeBasedAvoidance(s, base, rtt) ELSE s
<1>1. TimeBasedAvoidance(s, base, rtt).final = s.final
  BY DEF TimeBasedAvoidance, SessionType
<1>2. t \in SessionType /\ t.final = s.final
  BY <1>1, TimeBasedType
<1>3. CongestionAvoidance(s, base, rtt) =
        [t EXCEPT !.doFc = ~s.doFc, !.cntRtt = 0, !.oldSegs = FALSE]
  BY DEF CongestionAvoidance
<1> HIDE DEF t
<1>4. QED
  BY <1>2, <1>3 DEF SessionType

LEMMA StepShape ==
    ASSUME TypeOK, [Next]_vars
    PROVE  /\ paused => paused'
           /\ \/ UNCHANGED <<session, up, phase>>
              \/ Adjusts \/ Flushes \/ Begun \/ Cancelled
              \/ \E seg \in Segments : Received(seg, [inflight EXCEPT ![seg] = @ - 1])
<1>1. session \in SessionType /\ paused \in BOOLEAN
  BY DEF TypeOK
<1>2. session' \in SessionType
  BY NextType DEF TypeOK
<1>3. ASSUME NEW chunk \in Begins, HandleInterest(chunk)
      PROVE  Begun /\ paused' = paused
  BY <1>3 DEF HandleInterest, Start, Begun
<1>4. ASSUME NEW chunk \in Begins, HandleRepeatedInterest(chunk)
      PROVE  UNCHANGED <<session, up, phase, paused>>
  BY <1>4 DEF HandleRepeatedInterest, Abort
<1>5. ASSUME CancelFlow PROVE Cancelled /\ paused' = paused
  BY <1>5 DEF CancelFlow, Destroy, Cancelled, Active
<1>6. ASSUME NEW seg \in Segments, ReceiveContentObject(seg)
      PROVE  /\ paused' = paused
             /\ UNCHANGED <<session, up, phase>> \/ Adjusts
                \/ Received(seg, [inflight EXCEPT ![seg] = @ - 1])
  <2>1. CASE UNCHANGED <<phase, session, begin, up, paused, blocked, opened, trap>>
    BY <2>1
  <2>2. CASE phase = "active" /\ ReceivedBeforeWindowStart(seg)
    <3> DEFINE t == ReduceCongestionWindow(session)
    <3>1. t \in SessionType /\ KeepsWindow(session, t) /\ t.final = session.final
      BY <1>1, ReduceType, ReduceKeepsWindow DEF ReduceCongestionWindow, SessionType
    <3> HIDE DEF t
    <3>2. /\ KeepsWindow(session, [t EXCEPT !.oldSegs = TRUE])
          /\ [t EXCEPT !.oldSegs = TRUE].final = session.final
      BY <3>1 DEF KeepsWindow, SessionType
    <3>3. session' = (IF session.oldSegs THEN session ELSE [t EXCEPT !.oldSegs = TRUE])
          /\ UNCHANGED <<up, phase, paused>>
      BY <2>2 DEF ReceivedBeforeWindowStart, t
    <3>4. KeepsWindow(session, session') /\ session'.final = session.final
      BY <3>2, <3>3 DEF KeepsWindow
    <3>5. QED
      BY <1>2, <3>3, <3>4 DEF Adjusts
  <2>3. CASE phase = "active" /\ ReceivedInWindow(seg, [inflight EXCEPT ![seg] = @ - 1])
    BY <2>3 DEF Received, ReceivedInWindow
  <2>4. CASE Abort("vegasSession_GetWindowEntry")
    BY <2>4 DEF Abort
  <2>5. QED
    BY <1>6, <2>1, <2>2, <2>3, <2>4 DEF ReceiveContentObject
<1>7. ASSUME NEW seg \in Segments, Lose(seg)
      PROVE  UNCHANGED <<session, up, phase, paused>>
  BY <1>7 DEF Lose
<1>8. ASSUME NEW rttDue \in BOOLEAN, NEW rtoDue \in BOOLEAN, TimerCallback(rttDue, rtoDue)
      PROVE  /\ paused' = paused
             /\ UNCHANGED <<session, up, phase>> \/ Adjusts
  <2>1. PICK base \in RttValues, rtt \in RttValues :
          \E s \in {IF rttDue THEN CongestionAvoidance(session, base, rtt) ELSE session} :
              IF rtoDue /\ ~ s.window[s.head].valid
              THEN Abort("vegasSession_SlowReexpress") /\ UNCHANGED inflight
              ELSE /\ session'  = IF rtoDue THEN SlowReexpress(s) ELSE s
                   /\ inflight' = IF rtoDue THEN Send(inflight, {s.window[s.head].segnum})
                                           ELSE inflight
                   /\ UNCHANGED <<phase, begin, up, paused, blocked, opened, trap>>
    BY <1>8 DEF TimerCallback
  <2> DEFINE s == IF rttDue THEN CongestionAvoidance(session, base, rtt) ELSE session
  <2>2. s \in SessionType /\ KeepsWindow(session, s) /\ s.final = session.final
    BY <1>1, AvoidanceType, AvoidanceKeepsWindow, AvoidanceFinal DEF KeepsWindow
  <2>3. /\ paused' = paused
        /\ \/ UNCHANGED <<session, up, phase>>
           \/ session' = SlowReexpress(s) /\ UNCHANGED <<up, phase>>
           \/ session' = s /\ UNCHANGED <<up, phase>>
    BY <2>1 DEF Abort
  <2> HIDE DEF s
  <2>4. KeepsWindow(session, SlowReexpress(s)) /\ SlowReexpress(s).final = session.final
    BY <2>2 DEF SlowReexpress, KeepsWindow, SessionType
  <2>5. QED
    BY <1>2, <2>2, <2>3, <2>4 DEF Adjusts
<1>9. ASSUME Pause PROVE UNCHANGED <<session, up, phase>> /\ paused'
  BY <1>9 DEF Pause, StateChanged
<1>10. ASSUME NEW b \in BOOLEAN, BlockDown(b)
       PROVE  /\ paused' = paused
              /\ UNCHANGED <<session, up, phase>> \/ Flushes
  BY <1>1, <1>10 DEF BlockDown, StateChanged, Flushes
<1>11. ASSUME UNCHANGED vars PROVE UNCHANGED <<session, up, phase, paused>>
  BY <1>11 DEF vars
<1>12. QED
  <2>1. CASE \E seg \in Segments : ReceiveContentObject(seg)
    BY <1>6, <2>1, Zenon
  <2>2. CASE ~ \E seg \in Segments : ReceiveContentObject(seg)
    <3> DEFINE A == paused => paused'
               B == UNCHANGED <<session, up, phase>> \/ Adjusts \/ Flushes \/ Begun \/ Cancelled
    <3>1. \A chunk \in Begins : HandleInterest(chunk) \/ HandleRepeatedInterest(chunk) => A /\ B
      BY <1>3, <1>4
    <3>2. CancelFlow \/ Pause => A /\ B
      BY <1>5, <1>9
    <3>3. \A seg \in Segments : Lose(seg) => A /\ B
      BY <1>7
    <3>4. \A rttDue, rtoDue \in BOOLEAN : TimerCallback(rttDue, rtoDue) => A /\ B
      BY <1>8
    <3>5. \A b \in BOOLEAN : BlockDown(b) => A /\ B
      BY <1>10
    <3>6. UNCHANGED vars => A /\ B
      BY <1>11
    <3> HIDE DEF A, B
    <3>7. A /\ B
      BY <2>2, <3>1, <3>2, <3>3, <3>4, <3>5, <3>6, Zenon DEF Next
    <3>8. QED
      BY <3>7, Zenon DEF A, B
  <2>3. QED
    BY <2>1, <2>2

(* No step leaves an object at the head of the window.                     *)
LEMMA NextHead ==
    ASSUME IInv, HeadInv, [Next]_vars
    PROVE  HeadInv'
<1> SUFFICES ASSUME ~ paused' PROVE HeadWaits(session')
  BY DEF HeadInv, HeadWaits, Outstanding, WSize
<1>1. TypeOK /\ session \in SessionType /\ Consistent(session)
  BY DEF IInv, TypeOK, WindowConsistent
<1>2. ~ paused /\ HeadWaits(session)
  BY <1>1, StepShape DEF HeadInv
<1>3. CASE UNCHANGED <<session, up, phase>>
  BY <1>2, <1>3
<1>4. CASE Adjusts
  BY <1>2, <1>4, HeadKept DEF Adjusts
<1>5. CASE Flushes
  BY <1>1, <1>5, ForwardHead DEF Flushes
<1>6. CASE Begun
  BY <1>6, NewSessionHead, NewSessionType, ExpressHead DEF Begun
<1>7. CASE Cancelled
  BY <1>7, NewSessionHead DEF Cancelled
<1>8. ASSUME NEW seg \in Segments, NEW net, Received(seg, net)
      PROVE  HeadWaits(session')
  <2> DEFINE t == Stored(session, seg)
             r == ForwardObjectsInOrder(t)
  <2>1. phase = "active" /\ ReceivedInWindow(seg, net)
    BY <1>8 DEF Received
  <2>2. t \in SessionType /\ Consistent(t) /\ r \in SessionType /\ SendMoreInterests(seg, r, net)
    BY <1>2, <2>1, StoredInOrder DEF BlockedUp
  <2> HIDE DEF t
  <2>3. HeadWaits(r)
    BY <2>2, ForwardHead
  <2> HIDE DEF r
  <2>4. QED
    BY <1>1, <2>2, <2>3, SendMoreEnds
<1>9. QED
  BY <1>1, <1>3, <1>4, <1>5, <1>6, <1>7, <1>8, StepShape

(* While the connection is open, the entry of the next chunk in order is   *)
(* empty: an object that arrived there has gone up.  The one exception is  *)
(* a ring filled to FC_MAX_CWND, whose size reads as zero.                 *)
THEOREM HeadIsEmpty == Spec => [](~ paused => HeadWaits(session))
<1>1. Init => HeadInv
  BY NewSessionHead DEF Init, HeadInv
<1>2. QED
  BY <1>1, InitIInv, NextIInv, NextHead, PTL DEF Spec, HeadInv

(* As long as the ring never fills, nothing that is next in order is held  *)
(* back from the application.                                              *)
THEOREM NothingIsHeldBack ==
    Spec /\ [](Outstanding(session) < MaxCwnd) => []NothingHeldBack
<1>1. HeadInv /\ Outstanding(session) < MaxCwnd => NothingHeldBack
  BY VegasAssumption DEF HeadInv, HeadWaits, NothingHeldBack
<1>2. QED
  BY <1>1, HeadIsEmpty, PTL DEF HeadInv

-----------------------------------------------------------------------------
(* Why an assertion fails *)

(* An interest for the segment was sent: the segment is in the window, or  *)
(* has already left it.                                                    *)
Asked(s, seg) ==
    \/ seg < s.starting
    \/ \E i \in Slots : s.window[i].valid /\ s.window[i].segnum = seg

LEMMA AskedKept ==
    ASSUME NEW s, NEW t, KeepsWindow(s, t), NEW q, Asked(s, q)
    PROVE  Asked(t, q)
BY DEF Asked, KeepsWindow

(* A segment of the window is found at its distance from the head.         *)
LEMMA AskedInWindow ==
    ASSUME NEW s \in SessionType, Consistent(s), NEW seg \in Nat, seg >= s.starting,
           Asked(s, seg)
    PROVE  InWindow(s, seg) /\ seg - s.starting < Outstanding(s) /\ seg - s.starting \in Slots
<1>1. ~ (seg < s.starting)
  BY DEF SessionType
<1>2. PICK i \in Slots : s.window[i].valid /\ s.window[i].segnum = seg
  BY <1>1 DEF Asked
<1>3. seg = s.starting + Offset(s, i) /\ Offset(s, i) < Outstanding(s)
  BY <1>2, Zenon DEF Consistent
<1>4. Offset(s, i) \in Slots /\ Slot(s, Offset(s, i)) = i
  BY RingPosition
<1>5. seg - s.starting = Offset(s, i)
  BY <1>3, <1>4, VegasAssumption DEF SessionType, Slots
<1>6. QED
  BY <1>2, <1>3, <1>4, <1>5 DEF InWindow, EntryOf

(* The segments before one that was asked for were asked for too.          *)
LEMMA EarlierAsked ==
    ASSUME NEW s \in SessionType, Consistent(s), NEW seg \in Nat, Asked(s, seg),
           NEW q \in Earlier(s, seg)
    PROVE  Asked(s, q)
<1>1. q \in Nat /\ q >= s.starting /\ q < seg /\ s.starting \in Nat
  BY DEF Earlier, SmallerOf, SessionType
<1>2. seg - s.starting < Outstanding(s) /\ seg - s.starting \in Slots
  BY <1>1, AskedInWindow
<1>3. Outstanding(s) \in Nat
  BY OutstandingType, VegasAssumption
<1> DEFINE k == q - s.starting
<1>4. k \in Slots /\ k < Outstanding(s) /\ s.starting + k = q
  BY <1>1, <1>2, <1>3, VegasAssumption DEF Slots
<1> HIDE DEF k
<1>5. Slot(s, k) \in Slots /\ Offset(s, Slot(s, k)) = k
  BY <1>4, RingPosition
<1>6. s.window[Slot(s, k)].valid /\ s.window[Slot(s, k)].segnum = q
  BY <1>4, <1>5, Zenon DEF Consistent
<1>7. QED
  BY <1>5, <1>6 DEF Asked

LEMMA StoreAsked ==
    ASSUME NEW s \in SessionType, NEW seg \in Segments, NEW q \in Nat, Asked(s, q)
    PROVE  Asked(GetWindowEntry(s, seg), q)
<1> DEFINE j == Slot(s, seg - s.starting)
           t == GetWindowEntry(s, seg)
<1>1. t.window = [s.window EXCEPT ![j] = [s.window[j] EXCEPT !.msg = seg]]
      /\ t.starting = s.starting
  BY DEF GetWindowEntry, SessionType
<1> HIDE DEF j, t
<1>2. ASSUME NEW i \in Slots
      PROVE  t.window[i].valid = s.window[i].valid /\ t.window[i].segnum = s.window[i].segnum
  BY <1>1 DEF SessionType, Entry
<1>3. CASE q < s.starting
  BY <1>1, <1>3 DEF Asked, t
<1>4. CASE \E i \in Slots : s.window[i].valid /\ s.window[i].segnum = q
  BY <1>2, <1>4 DEF Asked, t
<1>5. QED
  BY <1>3, <1>4 DEF Asked

(* What leaves the window stays asked for.                                 *)
LEMMA ForwardAsked ==
    ASSUME NEW s \in SessionType, Consistent(s), NEW q \in Nat, Asked(s, q)
    PROVE  Asked(ForwardObjectsInOrder(s), q)
<1> DEFINE n == Ready(s)
           r == ForwardObjectsInOrder(s)
<1>1. n \in Nat /\ s.starting \in Nat
  BY ReadyIsMaximal, WSizeType, VegasAssumption DEF Slots, SessionType
<1>2. /\ r.starting = s.starting + n
      /\ \A i \in Slots : r.window[i] = IF Offset(s, i) < n THEN EmptyEntry ELSE s.window[i]
  BY ForwardFields
<1> HIDE DEF n, r
<1>3. CASE q < s.starting
  <2>1. q < r.starting
    BY <1>1, <1>2, <1>3
  <2>2. QED
    BY <2>1 DEF Asked, r
<1>4. ASSUME NEW i \in Slots, s.window[i].valid, s.window[i].segnum = q
      PROVE  Asked(r, q)
  <2>1. q = s.starting + Offset(s, i)
    BY <1>4, Zenon DEF Consistent
  <2>2. Offset(s, i) \in Nat
    BY RingPosition, VegasAssumption DEF Slots
  <2>3. CASE Offset(s, i) < n
    <3>1. q < r.starting
      BY <1>1, <1>2, <2>1, <2>2, <2>3
    <3>2. QED
      BY <3>1 DEF Asked
  <2>4. CASE ~ (Offset(s, i) < n)
    <3>1. r.window[i] = s.window[i]
      BY <1>2, <2>4
    <3>2. QED
      BY <1>4, <3>1 DEF Asked
  <2>5. QED
    BY <2>3, <2>4
<1>5. QED
  BY <1>3, <1>4 DEF Asked, r

(* Expressing interests adds what it sends to what was asked for.          *)
LEMMA ExpressAsked ==
    ASSUME NEW s \in SessionType, Consistent(s), NEW q \in Nat,
           Asked(s, q) \/ q \in ToExpress(s)
    PROVE  Asked(ExpressInterests(s), q)
<1> DEFINE W == WSize(s)
           R == Reach(s)
           r == ExpressInterests(s)
           new(i) == [valid |-> TRUE, segnum |-> s.starting + Offset(s, i), msg |-> NoMsg]
<1>1. W \in Nat /\ R \in Int /\ R <= MaxCwnd
  BY ReachType, WSizeType, VegasAssumption DEF Slots
<1>2. /\ r.starting = s.starting
      /\ \A i \in Slots : r.window[i] = IF Offset(s, i) \in W..R - 1 THEN new(i) ELSE s.window[i]
  BY ExpressFields
<1>3. q \in ToExpress(s) => \E k \in W..R - 1 : q = s.starting + k
  BY DEF ToExpress
<1> HIDE DEF W, R, r
<1>4. CASE q < s.starting
  BY <1>2, <1>4 DEF Asked, r
<1>5. ASSUME NEW i \in Slots, s.window[i].valid, s.window[i].segnum = q
      PROVE  Asked(r, q)
  <2>1. q = s.starting + Offset(s, i)
    BY <1>5, Zenon DEF Consistent
  <2>2. r.window[i] = IF Offset(s, i) \in W..R - 1 THEN new(i) ELSE s.window[i]
    BY <1>2, Zenon
  <2>3. r.window[i].valid /\ r.window[i].segnum = q
    BY <1>5, <2>1, <2>2
  <2>4. QED
    BY <2>3 DEF Asked
<1>6. ASSUME NEW k \in W..R - 1, q = s.starting + k
      PROVE  Asked(r, q)
  <2>1. k \in Slots
    BY <1>1, VegasAssumption DEF Slots
  <2>2. Slot(s, k) \in Slots /\ Offset(s, Slot(s, k)) = k
    BY <2>1, RingPosition
  <2>5. r.window[Slot(s, k)] = new(Slot(s, k))
    BY <1>2, <2>2, Zenon
  <2>3. r.window[Slot(s, k)].valid /\ r.window[Slot(s, k)].segnum = q
    BY <1>6, <2>2, <2>5
  <2>4. QED
    BY <2>2, <2>3 DEF Asked
<1>7. QED
  BY <1>3, <1>4, <1>5, <1>6 DEF Asked, r

(* The window only grows into an entry in use when the ring is full.       *)
LEMMA TailFreeUnlessFull ==
    ASSUME NEW s \in SessionType, Consistent(s), ~ TailIsFree(s)
    PROVE  Outstanding(s) = MaxCwnd
<1>1. PICK k \in WSize(s)..Reach(s) - 1 : s.window[Slot(s, k)].valid
  BY DEF TailIsFree
<1>2. WSize(s) \in Nat /\ Reach(s) \in Int /\ Reach(s) <= MaxCwnd
  BY ReachType, WSizeType, VegasAssumption DEF Slots
<1>3. k \in Slots /\ ~ (k < WSize(s))
  BY <1>2, VegasAssumption DEF Slots
<1>4. Slot(s, k) \in Slots /\ Offset(s, Slot(s, k)) = k
  BY <1>3, RingPosition
<1>5. k < Outstanding(s)
  BY <1>1, <1>4, Zenon DEF Consistent
<1>6. Outstanding(s) # WSize(s)
  BY <1>3, <1>5
<1>7. QED
  BY <1>6, OutstandingType

LEMMA SendAsked ==
    ASSUME NEW net \in [Segments -> 0..MaxCopies], NEW segs, NEW q \in Segments,
           Send(net, segs)[q] > 0
    PROVE  net[q] > 0 \/ q \in segs
BY DEF Send

(* What follows a reception asks for the segments it sends, and fails only *)
(* in a full ring.                                                         *)
LEMMA SendMoreAsked ==
    ASSUME NEW seg \in Segments, NEW r \in SessionType, Consistent(r), Asked(r, seg),
           NEW net \in [Segments -> 0..MaxCopies], SendMoreInterests(seg, r, net)
    PROVE  /\ trap' # trap => /\ trap' = "vegasSession_ExpressInterests" /\ phase' = phase
                              /\ Outstanding(session') = MaxCwnd
           /\ phase' # "finished" /\ (\A q \in Segments : net[q] > 0 => Asked(r, q))
                => \A q \in Segments : inflight'[q] > 0 => Asked(session', q)
<1>1. PICK expired \in SUBSET Earlier(r, seg) :
        \E s \in {FastReexpress(r, expired)}, sent \in {Send(net, expired)} :
           \/ /\ s.starting < s.final /\ TailIsFree(s)
              /\ session' = ExpressInterests(s)
              /\ inflight' = Send(sent, ToExpress(s))
              /\ UNCHANGED <<phase, trap>>
           \/ /\ s.starting < s.final /\ ~ TailIsFree(s)
              /\ session' = s /\ inflight' = sent
              /\ trap' = "vegasSession_ExpressInterests"
              /\ UNCHANGED phase
           \/ /\ Complete(s)
              /\ EndSession /\ inflight' = sent
              /\ UNCHANGED trap
           \/ /\ s.starting = s.final
              /\ session' = s /\ inflight' = sent
              /\ UNCHANGED <<phase, trap>>
  BY Zenon DEF SendMoreInterests
<1> DEFINE s == FastReexpress(r, expired)
           sent == Send(net, expired)
<1>2. Segments \subseteq Nat /\ expired \in SUBSET Nat
  BY VegasAssumption DEF Earlier, SmallerOf, Segments, SessionType
<1>3. s \in SessionType /\ KeepsWindow(r, s)
  BY <1>2, FastReexpressType, FastReexpressKeepsWindow
<1>4. Consistent(s) /\ sent \in [Segments -> 0..MaxCopies]
  BY <1>3, SameWindow, SendType
<1>5. \/ trap' = trap
      \/ /\ trap' = "vegasSession_ExpressInterests" /\ phase' = phase
         /\ session' = s /\ ~ TailIsFree(s)
  BY <1>1
<1>6. \/ session' = ExpressInterests(s) /\ inflight' = Send(sent, ToExpress(s))
      \/ session' = s /\ inflight' = sent
      \/ phase' = "finished"
  BY <1>1 DEF EndSession
<1> HIDE DEF s
<1>7. trap' # trap => /\ trap' = "vegasSession_ExpressInterests" /\ phase' = phase
                     /\ Outstanding(session') = MaxCwnd
  BY <1>3, <1>4, <1>5, TailFreeUnlessFull
<1>8. ASSUME phase' # "finished", \A p \in Segments : net[p] > 0 => Asked(r, p),
             NEW q \in Segments, inflight'[q] > 0
      PROVE  Asked(session', q)
  <2>1. ASSUME sent[q] > 0 PROVE Asked(s, q)
    <3>1. net[q] > 0 \/ q \in expired
      BY <2>1, SendAsked
    <3>2. q \in Nat /\ seg \in Nat
      BY <1>2
    <3>3. Asked(r, q)
      BY <1>8, <3>1, <3>2, EarlierAsked
    <3>4. QED
      BY <1>3, <3>3, AskedKept
  <2> HIDE DEF sent
  <2>2. CASE session' = s /\ inflight' = sent
    BY <1>8, <2>1, <2>2
  <2>3. CASE session' = ExpressInterests(s) /\ inflight' = Send(sent, ToExpress(s))
    <3>1. sent[q] > 0 \/ q \in ToExpress(s)
      BY <1>4, <1>8, <2>3, SendAsked
    <3>2. QED
      BY <1>2, <1>3, <1>4, <2>1, <2>3, <3>1, ExpressAsked
  <2>4. QED
    BY <1>6, <1>8, <2>2, <2>3
<1>9. QED
  BY <1>7, <1>8

(* While the first session runs, the network only holds what it asked for. *)
AskedFor ==
    /\ phase = "active" => opened # 0
    /\ opened = 0 => \A seg \in Segments : inflight[seg] = 0
    /\ phase = "active" /\ opened = 1
           => \A seg \in Segments : inflight[seg] > 0 => Asked(session, seg)

(* The reasons for which an assertion of the session can fail.             *)
TrapCause ==
    /\ trap # "none" => phase = "active"
    /\ trap \in {"vegas_HandleInterest", "vegasSession_Seek"} => MayRepeat
    /\ trap = "vegasSession_GetWindowEntry" => opened > 1
    /\ trap = "vegasSession_ExpressInterests" => Outstanding(session) = MaxCwnd
    /\ trap = "vegasSession_SlowReexpress" => Outstanding(session) = 0

LEMMA NextTrap ==
    ASSUME IInv, AskedFor, TrapCause, [Next]_vars
    PROVE  AskedFor' /\ TrapCause'
<1>1. /\ TypeOK /\ session \in SessionType /\ Consistent(session)
      /\ inflight \in [Segments -> 0..MaxCopies] /\ opened \in Nat
      /\ Segments \subseteq Nat
  BY VegasAssumption DEF IInv, TypeOK, WindowConsistent, Segments
(* No assertion fails in the step. *)
<1>2. ASSUME trap' = "none" PROVE TrapCause'
  BY <1>2 DEF TrapCause
(* The network keeps at most what it held, the session what it asked for.  *)
<1>3. ASSUME \A q \in Segments : inflight'[q] > 0 => inflight[q] > 0,
             inflight' \in [Segments -> 0..MaxCopies], UNCHANGED <<phase, opened>>,
             \A q \in Segments : Asked(session, q) => Asked(session', q)
      PROVE  AskedFor'
  <2>1. opened = 0 => \A q \in Segments : inflight'[q] = 0
    <3>1. ASSUME opened = 0, NEW q \in Segments PROVE inflight'[q] = 0
      <4>1. inflight[q] = 0 /\ inflight'[q] \in Nat
        BY <1>3, <3>1, VegasAssumption DEF AskedFor
      <4>2. QED
        BY <1>3, <4>1
    <3>2. QED
      BY <3>1
  <2>2. QED
    BY <1>3, <2>1 DEF AskedFor
<1>4. ASSUME NEW seg \in Segments, inflight[seg] > 0,
             inflight' = [inflight EXCEPT ![seg] = @ - 1]
      PROVE  /\ inflight' \in [Segments -> 0..MaxCopies]
             /\ \A q \in Segments : inflight'[q] > 0 => inflight[q] > 0
  BY <1>1, <1>4, ReceiveOneType
<1>5. ASSUME NEW chunk \in Begins, HandleInterest(chunk)
      PROVE  AskedFor' /\ TrapCause'
  <2>1. /\ phase' = "active" /\ opened' = opened + 1 /\ trap' = "none"
        /\ session' = ExpressInterests(NewSession)
        /\ inflight' = Send(inflight, ToExpress(NewSession))
    BY <1>5 DEF HandleInterest, Start, Running
  <2>2. ASSUME opened = 0, NEW q \in Segments, inflight'[q] > 0
        PROVE  Asked(session', q)
    <3>1. inflight[q] = 0
      BY <2>2 DEF AskedFor
    <3>2. q \in ToExpress(NewSession)
      BY <1>1, <2>1, <2>2, <3>1, SendAsked
    <3>3. QED
      BY <1>1, <2>1, <3>2, NewSessionType, NewSessionConsistent, ExpressAsked
  <2>3. QED
    BY <1>1, <1>2, <2>1, <2>2 DEF AskedFor
<1>6. ASSUME NEW chunk \in Begins, HandleRepeatedInterest(chunk)
      PROVE  AskedFor' /\ TrapCause'
  <2>1. /\ MayRepeat /\ UNCHANGED <<session, phase, opened, inflight>> /\ phase = "active"
        /\ trap' \in {"vegas_HandleInterest", "vegasSession_Seek"}
    BY <1>6 DEF HandleRepeatedInterest, Active, Abort
  <2>2. QED
    BY <1>1, <1>3, <2>1 DEF TrapCause
<1>7. ASSUME CancelFlow PROVE AskedFor' /\ TrapCause'
  <2>1. phase = "active" /\ phase' = "cancelled" /\ trap' = "none"
        /\ UNCHANGED <<opened, inflight>>
    BY <1>7 DEF CancelFlow, Active, Running
  <2>2. QED
    BY <1>2, <2>1 DEF AskedFor
<1>8. ASSUME NEW seg \in Segments, ReceiveContentObject(seg)
      PROVE  AskedFor' /\ TrapCause'
  <2> DEFINE net == [inflight EXCEPT ![seg] = @ - 1]
  <2>1. trap = "none" /\ inflight[seg] > 0
    BY <1>8 DEF ReceiveContentObject, Running
  <2>2. net \in [Segments -> 0..MaxCopies] /\ \A q \in Segments : net[q] > 0 => inflight[q] > 0
    BY <1>1, <2>1, ReceiveOneType
  <2> HIDE DEF net
  <2>3. CASE inflight' = net /\ UNCHANGED <<phase, session, opened, trap>>
    BY <1>2, <1>3, <2>1, <2>2, <2>3
  <2>4. CASE phase = "active" /\ inflight' = net /\ ReceivedBeforeWindowStart(seg)
    <3> DEFINE t == ReduceCongestionWindow(session)
    <3>1. t \in SessionType /\ KeepsWindow(session, t)
      BY <1>1, ReduceType, ReduceKeepsWindow
    <3> HIDE DEF t
    <3>2. KeepsWindow(session, [t EXCEPT !.oldSegs = TRUE])
      BY <3>1 DEF KeepsWindow, SessionType
    <3>3. session' = (IF session.oldSegs THEN session ELSE [t EXCEPT !.oldSegs = TRUE])
          /\ UNCHANGED <<phase, opened, trap>>
      BY <2>4 DEF ReceivedBeforeWindowStart, t
    <3>4. KeepsWindow(session, session')
      BY <3>2, <3>3 DEF KeepsWindow
    <3>5. \A q \in Segments : Asked(session, q) => Asked(session', q)
      BY <3>4, AskedKept
    <3>6. QED
      BY <1>2, <1>3, <2>1, <2>2, <2>4, <3>3, <3>5
  <2>5. CASE phase = "active" /\ ReceivedInWindow(seg, net)
    <3> DEFINE f == SetFinalBlockId(session, seg)
               g == GetWindowEntry(f, seg)
               t == Stored(session, seg)
               r == IF BlockedUp THEN t ELSE ForwardObjectsInOrder(t)
    <3>1. t \in SessionType /\ Consistent(t) /\ r \in SessionType /\ Consistent(r)
          /\ SendMoreInterests(seg, r, net)
      BY <2>5, StoredInOrder
    <3>2. /\ seg >= session.starting /\ InWindow(session, seg) /\ opened' = opened
      BY <2>5 DEF ReceivedInWindow
    <3>3. ASSUME NEW q \in Segments, Asked(session, q)
          PROVE  Asked(r, q)
      <4>1. f \in SessionType /\ KeepsWindow(session, f)
        BY <1>1, SetFinalBlockIdType DEF SetFinalBlockId, KeepsWindow, SessionType
      <4>2. Asked(f, q) /\ q \in Nat /\ seg >= f.starting
        BY <1>1, <3>2, <3>3, <4>1, AskedKept DEF KeepsWindow
      <4> HIDE DEF f
      <4>3. g \in SessionType /\ Asked(g, q)
        BY <4>1, <4>2, GetWindowEntryType, StoreAsked
      <4>4. t = RunAlgorithmOnReceive(g)
        BY DEF Stored, g, f
      <4> HIDE DEF g, t
      <4>5. KeepsWindow(g, t)
        BY <4>3, <4>4 DEF RunAlgorithmOnReceive, KeepsWindow, SessionType
      <4>6. Asked(t, q)
        BY <4>3, <4>5, AskedKept
      <4>7. QED
        BY <3>1, <4>2, <4>6, ForwardAsked
    <3>4. Asked(session, seg)
      <4>1. seg - session.starting \in Nat
        BY <1>1, <3>2 DEF SessionType
      <4>2. Slot(session, seg - session.starting) \in Slots
        BY <1>1, <4>1, SlotType
      <4>3. QED
        BY <3>2, <4>2 DEF Asked, InWindow, EntryOf
    <3>5. Asked(r, seg)
      BY <3>3, <3>4
    <3> HIDE DEF r
    <3>6. /\ trap' # "none" => /\ trap' = "vegasSession_ExpressInterests" /\ phase' = phase
                               /\ Outstanding(session') = MaxCwnd
          /\ phase' # "finished" /\ (\A q \in Segments : net[q] > 0 => Asked(r, q))
                => \A q \in Segments : inflight'[q] > 0 => Asked(session', q)
      BY <2>1, <2>2, <3>1, <3>5, SendMoreAsked
    <3>7. TrapCause'
      BY <2>5, <3>6 DEF TrapCause
    <3>8. opened = 1 /\ phase' = "active" => \A q \in Segments : net[q] > 0 => Asked(r, q)
      BY <2>2, <2>5, <3>3 DEF AskedFor
    <3>9. opened # 0
      BY <2>5 DEF AskedFor
    <3>10. QED
      BY <3>2, <3>6, <3>7, <3>8, <3>9 DEF AskedFor
  <2>6. CASE phase = "active" /\ inflight' = net /\ seg >= session.starting
             /\ ~ InWindow(session, seg) /\ Abort("vegasSession_GetWindowEntry")
    <3>1. UNCHANGED <<phase, session, opened>> /\ trap' = "vegasSession_GetWindowEntry"
      BY <2>6 DEF Abort
    <3>2. opened # 0 /\ (opened = 1 => Asked(session, seg))
      BY <2>1, <2>6 DEF AskedFor
    <3>3. opened # 1
      BY <1>1, <2>6, <3>2, AskedInWindow
    <3>4. TrapCause'
      BY <1>1, <2>6, <3>1, <3>2, <3>3 DEF TrapCause
    <3>5. QED
      BY <1>3, <2>2, <2>6, <3>1, <3>4
  <2>7. QED
    BY <1>8, <2>3, <2>4, <2>5, <2>6 DEF ReceiveContentObject, ReceivedBeforeWindowStart, net
<1>9. ASSUME NEW seg \in Segments, Lose(seg) PROVE AskedFor' /\ TrapCause'
  BY <1>2, <1>3, <1>4, <1>9 DEF Lose, Running
<1>10. ASSUME NEW rttDue \in BOOLEAN, NEW rtoDue \in BOOLEAN, TimerCallback(rttDue, rtoDue)
       PROVE  AskedFor' /\ TrapCause'
  <2>1. PICK base \in RttValues, rtt \in RttValues :
          \E s \in {IF rttDue THEN CongestionAvoidance(session, base, rtt) ELSE session} :
              IF rtoDue /\ ~ s.window[s.head].valid
              THEN Abort("vegasSession_SlowReexpress") /\ UNCHANGED inflight
              ELSE /\ session'  = IF rtoDue THEN SlowReexpress(s) ELSE s
                   /\ inflight' = IF rtoDue THEN Send(inflight, {s.window[s.head].segnum})
                                           ELSE inflight
                   /\ UNCHANGED <<phase, begin, up, paused, blocked, opened, trap>>
    BY <1>10 DEF TimerCallback
  <2> DEFINE s == IF rttDue THEN CongestionAvoidance(session, base, rtt) ELSE session
             q0 == s.window[s.head].segnum
  <2>2. s \in SessionType /\ KeepsWindow(session, s)
    BY <1>1, AvoidanceType, AvoidanceKeepsWindow DEF KeepsWindow
  <2>3. trap = "none" /\ phase = "active"
    BY <1>10 DEF TimerCallback, Active, Running
  <2>4. CASE ~ s.window[s.head].valid /\ trap' = "vegasSession_SlowReexpress"
             /\ UNCHANGED <<session, inflight, phase, opened>>
    <3>1. session.head \in Slots /\ Offset(session, session.head) = 0
      BY <1>1, VegasAssumption DEF SessionType, Offset, Slots
    <3>2. ~ session.window[session.head].valid
      BY <2>2, <2>4 DEF KeepsWindow
    <3>3. ~ (0 < Outstanding(session))
      BY <1>1, <3>1, <3>2, Zenon DEF Consistent
    <3>4. Outstanding(session') = 0
      BY <1>1, <2>4, <3>3, OutstandingType, VegasAssumption
    <3>5. QED
      BY <1>1, <1>3, <2>3, <2>4, <3>4 DEF TrapCause
  <2>5. CASE /\ session' = s \/ session' = SlowReexpress(s)
             /\ \/ inflight' = inflight
                \/ inflight' = Send(inflight, {q0}) /\ s.window[s.head].valid
             /\ UNCHANGED <<phase, opened, trap>>
    <3> HIDE DEF s, q0
    <3>1. KeepsWindow(session, SlowReexpress(s))
      BY <2>2 DEF SlowReexpress, KeepsWindow, SessionType
    <3>2. KeepsWindow(session, session')
      BY <2>2, <2>5, <3>1
    <3>3. opened # 0
      BY <2>3 DEF AskedFor
    <3>4. ASSUME opened = 1, NEW q \in Segments, inflight'[q] > 0
          PROVE  Asked(session', q)
      <4>1. CASE inflight[q] > 0
        BY <2>3, <3>2, <3>4, <4>1, AskedKept DEF AskedFor
      <4>2. CASE ~ (inflight[q] > 0)
        <5>1. inflight' = Send(inflight, {q0}) /\ s.window[s.head].valid
          BY <2>5, <3>4, <4>2
        <5>2. q = q0
          BY <1>1, <3>4, <4>2, <5>1, SendAsked
        <5>3. Asked(s, q)
          BY <2>2, <5>1, <5>2 DEF Asked, SessionType, q0
        <5>4. KeepsWindow(s, session')
          BY <2>2, <3>2 DEF KeepsWindow
        <5>5. QED
          BY <5>3, <5>4, AskedKept
      <4>3. QED
        BY <4>1, <4>2
    <3>5. QED
      BY <1>2, <2>3, <2>5, <3>3, <3>4 DEF AskedFor
  <2>6. IF rtoDue /\ ~ s.window[s.head].valid
        THEN Abort("vegasSession_SlowReexpress") /\ UNCHANGED inflight
        ELSE /\ session'  = IF rtoDue THEN SlowReexpress(s) ELSE s
             /\ inflight' = IF rtoDue THEN Send(inflight, {q0}) ELSE inflight
             /\ UNCHANGED <<phase, begin, up, paused, blocked, opened, trap>>
    BY <2>1
  <2> HIDE DEF s, q0
  <2>7. CASE rtoDue /\ ~ s.window[s.head].valid
    BY <2>4, <2>6, <2>7 DEF Abort
  <2>8. CASE rtoDue /\ s.window[s.head].valid
    BY <2>5, <2>6, <2>8
  <2>9. CASE ~ rtoDue
    <3>1. session' = s /\ inflight' = inflight
          /\ UNCHANGED <<phase, begin, up, paused, blocked, opened, trap>>
      BY <2>6, <2>9, Zenon
    <3>2. QED
      BY <2>5, <3>1
  <2>10. QED
    BY <2>7, <2>8, <2>9
<1>11. ASSUME StateChanged(TRUE) \/ StateChanged(FALSE),
              UNCHANGED <<phase, inflight, opened, trap>>, trap = "none"
       PROVE  AskedFor' /\ TrapCause'
  <2>1. session' = session \/ session' = ForwardObjectsInOrder(session)
    BY <1>11 DEF StateChanged
  <2>2. \A q \in Segments : Asked(session, q) => Asked(session', q)
    BY <1>1, <2>1, ForwardAsked
  <2>3. QED
    BY <1>1, <1>2, <1>3, <1>11, <2>2
<1>12. ASSUME Pause PROVE AskedFor' /\ TrapCause'
  BY <1>11, <1>12 DEF Pause, Running
<1>13. ASSUME NEW b \in BOOLEAN, BlockDown(b) PROVE AskedFor' /\ TrapCause'
  <2>1. paused \in BOOLEAN
    BY <1>1 DEF TypeOK
  <2>2. QED
    BY <1>11, <1>13, <2>1 DEF BlockDown, Running
<1>14. ASSUME UNCHANGED vars PROVE AskedFor' /\ TrapCause'
  BY <1>1, <1>3, <1>14 DEF vars, TrapCause
<1>15. QED
  BY <1>5, <1>6, <1>7, <1>8, <1>9, <1>10, <1>12, <1>13, <1>14 DEF Next

(* An assertion of the session fails for one of four reasons only: the     *)
(* application repeats its interest, an answer to an earlier session is    *)
(* late, the ring is full, or its window is empty when the RTO comes.      *)
THEOREM AssertionsHaveCauses == Spec => []TrapCause
<1>1. Init => AskedFor /\ TrapCause
  BY DEF Init, AskedFor, TrapCause
<1>2. QED
  BY <1>1, InitIInv, NextIInv, NextTrap, PTL DEF Spec

(* One session whose reader does not repeat itself, and whose ring is      *)
(* neither full nor, while it runs, empty, fails no assertion, whatever    *)
(* the network loses, duplicates or reorders.                              *)
THEOREM NoAssertionFails ==
    ASSUME ~ MayRepeat, MaxSessions = 1
    PROVE  Spec /\ [](phase = "active" => Outstanding(session) \in 1..MaxCwnd - 1)
             => []NoTrap
<1>1. TypeOK /\ TrapCause /\ (phase = "active" => Outstanding(session) \in 1..MaxCwnd - 1)
        => NoTrap
  BY VegasAssumption DEF TypeOK, Traps, TrapCause, NoTrap
<1>2. QED
  BY <1>1, TypeCorrect, AssertionsHaveCauses, PTL

-----------------------------------------------------------------------------
(* The session implements the ordered stream *)

(* A producer that announces, if anything, the real last chunk.            *)
Honest == \A seg \in Segments : FinalChunk[seg] \in {LastChunk, NoFinal}

FinalKnown == session.final \in {LastChunk, NoFinal}

LEMMA StoredFinal ==
    ASSUME Honest, FinalKnown, NEW seg \in Segments
    PROVE  SetFinalBlockId(session, seg).final \in {LastChunk, NoFinal}
<1>1. FinalChunk[seg] \in {LastChunk, NoFinal}
  BY DEF Honest
<1>2. ASSUME NEW x
      PROVE  [session EXCEPT !.final = x].final \in {x, session.final}
  OBVIOUS
<1>3. QED
  BY <1>1, <1>2 DEF SetFinalBlockId, FinalKnown

(* The final segment a session works with is never a wrong one.            *)
LEMMA NextFinal ==
    ASSUME Honest, IInv, FinalKnown, [Next]_vars
    PROVE  FinalKnown'
<1>1. TypeOK /\ session \in SessionType
  BY DEF IInv, TypeOK
<1>2. CASE UNCHANGED <<session, up, phase>>
  BY <1>2 DEF FinalKnown
<1>3. CASE Adjusts
  BY <1>3 DEF Adjusts, FinalKnown
<1>4. ASSUME NEW s \in SessionType
      PROVE  ForwardObjectsInOrder(s).final = s.final /\ ExpressInterests(s).final = s.final
  BY DEF ForwardObjectsInOrder, ExpressInterests, SessionType
<1>5. CASE Flushes
  BY <1>1, <1>4, <1>5 DEF Flushes, FinalKnown
<1>6. NewSession.final = NoFinal
  BY DEF NewSession
<1>7. CASE Begun \/ Cancelled
  BY <1>4, <1>6, <1>7, NewSessionType DEF Begun, Cancelled, FinalKnown
<1>8. ASSUME NEW seg \in Segments, NEW net, Received(seg, net)
      PROVE  FinalKnown'
  <2> DEFINE t == Stored(session, seg)
             r == IF BlockedUp THEN t ELSE ForwardObjectsInOrder(t)
  <2>1. phase = "active" /\ ReceivedInWindow(seg, net)
    BY <1>8 DEF Received
  <2>2. /\ t \in SessionType /\ r \in SessionType /\ SendMoreInterests(seg, r, net)
        /\ t.final = SetFinalBlockId(session, seg).final
    BY <2>1, StoredInOrder
  <2>3. r.final = t.final
    BY <1>4, <2>2
  <2> HIDE DEF t, r
  <2>4. session'.final \in {r.final, NoFinal}
    BY <1>1, <2>2, SendMoreEnds
  <2>5. QED
    BY <2>2, <2>3, <2>4, StoredFinal DEF FinalKnown
<1>9. QED
  BY <1>1, <1>2, <1>3, <1>5, <1>7, <1>8, StepShape

(* No more chunks go up than the stream has.                               *)
LEMMA StreamEnds ==
    ASSUME NEW u \in Seq(Segments), u = [i \in 1..Len(u) |-> i - 1]
    PROVE  Len(u) <= LastChunk + 1
<1>1. CASE Len(u) = 0
  BY <1>1, VegasAssumption
<1>2. CASE Len(u) # 0
  <2>1. Len(u) \in Nat /\ Len(u) \in 1..Len(u)
    BY <1>2
  <2>2. u[Len(u)] = Len(u) - 1 /\ u[Len(u)] \in Segments
    BY <2>1
  <2>3. QED
    BY <2>1, <2>2, VegasAssumption DEF Segments
<1>3. QED
  BY <1>1, <1>2

(* What a window gives up extends the stream.                              *)
LEMMA DeliveredExtends ==
    ASSUME NEW s \in SessionType, Consistent(s), NEW u \in Seq(Segments),
           CountsDelivered(s, u), NEW v \in Seq(Segments), v = u \o Delivered(s),
           v = [i \in 1..Len(v) |-> i - 1]
    PROVE  \E n \in 0..LastChunk + 1 :
              /\ Len(u) + n <= LastChunk + 1
              /\ v = u \o [i \in 1..n |-> Len(u) + i - 1]
<1> DEFINE n == Ready(s)
<1>1. n \in Nat /\ Delivered(s) = [i \in 1..n |-> Len(u) + i - 1]
  BY DeliveredInOrder DEF CountsDelivered
<1>2. Delivered(s) \in Seq(Segments) /\ Len(Delivered(s)) = n
  BY <1>1, DeliveredType
<1> HIDE DEF n
<1>3. Len(v) = Len(u) + n /\ Len(u) \in Nat
  BY <1>2
<1>4. Len(v) <= LastChunk + 1
  BY StreamEnds
<1>5. Len(u) + n <= LastChunk + 1 /\ n \in 0..LastChunk + 1
  BY <1>1, <1>3, <1>4, VegasAssumption
<1>6. v = u \o [i \in 1..n |-> Len(u) + i - 1]
  BY <1>1
<1>7. QED
  BY <1>5, <1>6

(* Parts of a stream of no length change nothing.                          *)
LEMMA NothingDelivered ==
    ASSUME NEW u \in Seq(Segments)
    PROVE  u \o [i \in 1..0 |-> Len(u) + i - 1] = u
<1>1. [i \in 1..0 |-> Len(u) + i - 1] = <<>>
  OBVIOUS
<1>2. QED
  BY <1>1

LEMMA StepImplements ==
    ASSUME Honest, IInv, IInv', FinalKnown, [Next]_vars
    PROVE  [Stream!Next]_(Stream!vars)
<1>1. /\ TypeOK /\ session \in SessionType /\ Consistent(session)
      /\ up \in Seq(Segments) /\ up' \in Seq(Segments)
      /\ up' = [i \in 1..Len(up') |-> i - 1]
      /\ phase = "active" => CountsDelivered(session, up)
  BY DEF IInv, TypeOK, WindowConsistent, InOrderDelivery, CountsDelivered
<1>2. CASE UNCHANGED <<session, up, phase>>
  BY <1>2 DEF Stream!vars
<1>3. CASE Adjusts
  BY <1>3 DEF Adjusts, Stream!vars
<1>4. CASE Begun
  BY <1>4 DEF Begun, Stream!Next, Stream!Open
<1>5. CASE Cancelled
  BY <1>5 DEF Cancelled, Stream!Next, Stream!Cancel
(* The objects in order go up, the stream goes on. *)
<1>6. ASSUME NEW n \in 0..LastChunk + 1, Stream!Extends(n), phase = "active", phase' = phase
      PROVE  [Stream!Next]_(Stream!vars)
  <2>1. CASE n = 0
    BY <1>1, <1>6, <2>1, NothingDelivered DEF Stream!Extends, Stream!vars
  <2>2. CASE n # 0
    <3>1. n \in 1..LastChunk + 1
      BY <2>2
    <3>2. QED
      BY <1>6, <3>1 DEF Stream!Next, Stream!Deliver
  <2>3. QED
    BY <2>1, <2>2
<1>7. CASE Flushes
  <2>1. phase' = phase /\ up' = up \o Delivered(session)
    BY <1>7 DEF Flushes
  <2>2. CASE phase = "active"
    <3>1. \E n \in 0..LastChunk + 1 : Stream!Extends(n)
      BY <1>1, <2>1, <2>2, DeliveredExtends DEF Stream!Extends
    <3>2. QED
      BY <1>6, <2>1, <2>2, <3>1
  <2>3. CASE phase # "active"
    <3>1. session = NewSession /\ WSize(session) = 0
      BY <2>3 DEF IInv, IdleSession, NewSession, WSize
    <3>2. Ready(session) = 0
      BY <1>1, <3>1, ReadyIsMaximal
    <3>3. Delivered(session) = <<>>
      BY <3>2 DEF Delivered
    <3>4. QED
      BY <1>1, <2>1, <3>3 DEF Stream!vars
  <2>4. QED
    BY <2>2, <2>3
<1>8. ASSUME NEW seg \in Segments, NEW net, Received(seg, net)
      PROVE  [Stream!Next]_(Stream!vars)
  <2> DEFINE t == Stored(session, seg)
             r == IF BlockedUp THEN t ELSE ForwardObjectsInOrder(t)
  <2>1. phase = "active" /\ ReceivedInWindow(seg, net)
    BY <1>8 DEF Received
  <2>2. /\ t \in SessionType /\ Consistent(t) /\ CountsDelivered(t, up)
        /\ t.final = SetFinalBlockId(session, seg).final
        /\ r \in SessionType /\ CountsDelivered(r, up')
        /\ up' = IF BlockedUp THEN up ELSE up \o Delivered(t)
        /\ SendMoreInterests(seg, r, net)
    BY <2>1, StoredInOrder
  <2>3. r.final = t.final
    BY <2>2 DEF ForwardObjectsInOrder, SessionType
  <2> HIDE DEF t, r
  <2>4. \/ phase' = phase
        \/ phase' = "finished" /\ r.starting > r.final
    BY <1>1, <2>2, SendMoreEnds
  <2>5. \E n \in 0..LastChunk + 1 : Stream!Extends(n)
    <3>1. CASE BlockedUp
      <4>1. up' = up \o [i \in 1..0 |-> Len(up) + i - 1]
        BY <1>1, <2>2, <3>1, NothingDelivered
      <4>2. Len(up) + 0 <= LastChunk + 1 /\ 0 \in 0..LastChunk + 1
        BY <1>1, <2>2, <3>1, StreamEnds, VegasAssumption
      <4>3. QED
        BY <4>1, <4>2 DEF Stream!Extends
    <3>2. CASE ~ BlockedUp
      BY <1>1, <2>2, <3>2, DeliveredExtends, ZenonT(60) DEF Stream!Extends
    <3>3. QED
      BY <3>1, <3>2
  <2>6. CASE phase' = phase
    BY <1>6, <2>1, <2>5, <2>6
  <2>7. CASE phase' = "finished" /\ r.starting > r.final
    <3>1. r.final \in {LastChunk, NoFinal}
      BY <2>2, <2>3, StoredFinal
    <3>2. r.starting = Len(up') /\ Len(up') <= LastChunk + 1 /\ Len(up') \in Nat
      <4>1. Len(up') <= LastChunk + 1
        BY <1>1, StreamEnds
      <4>2. r.starting = Len(up')
        BY <2>2 DEF CountsDelivered
      <4>3. QED
        BY <1>1, <4>1, <4>2
    <3>3. Len(up') = LastChunk + 1
      <4>1. Len(up') > LastChunk
        BY <2>7, <3>1, <3>2, VegasAssumption
      <4>2. QED
        BY <3>2, <4>1, VegasAssumption
    <3>4. QED
      BY <2>1, <2>5, <2>7, <3>3 DEF Stream!Next, Stream!Finish
  <2>8. QED
    BY <2>4, <2>6, <2>7
<1>9. QED
  BY <1>1, <1>2, <1>3, <1>4, <1>5, <1>7, <1>8, StepShape

(* A session is an ordered stream, if the producer does not announce a     *)
(* wrong last chunk: chunks go up in order, each once, and the stream is   *)
(* only announced as finished after its real last chunk.                   *)
THEOREM ImplementsStream == ASSUME Honest PROVE Spec => StreamSpec
<1>1. Init => FinalKnown /\ Stream!Init
  BY DEF Init, FinalKnown, NewSession, Stream!Init
<1>2. IInv /\ FinalKnown /\ [Next]_vars => FinalKnown'
  BY NextFinal
<1>3. IInv /\ IInv' /\ FinalKnown /\ [Next]_vars => [Stream!Next]_(Stream!vars)
  BY StepImplements
<1>4. QED
  BY <1>1, <1>2, <1>3, InitIInv, NextIInv, PTL DEF Spec, StreamSpec, Stream!Spec
=============================================================================
