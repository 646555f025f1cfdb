-------------------------- MODULE VegasRtt_proofs --------------------------
(***************************************************************************)
(* Proofs about the clocks of a Vegas session, for every set of round trip *)
(* times and every choice of the code's limits.                            *)
(***************************************************************************)
EXTENDS VegasRtt, TLAPS

(* The timer never runs longer than a period, and when it was set neither  *)
(* deadline had passed; a period without samples has no least one.         *)
TimersAgree ==
    /\ timer \in -Late..LongestPeriod
    /\ next_rtt_sample <= LongestPeriod
    /\ next_rto        >= timer - LongestPeriod
    /\ next_rtt_sample >= timer - LongestPeriod - 1

NoSampleYet == cnt_RTT = 0 => min_RTT = IntMax

IInv == TypeOK /\ TimersAgree /\ NoSampleYet /\ BaseIsLeast /\ SmoothedIsBounded

USE DEF SmallerOf, LargerOf, Distance

LEMMA Constants ==
    /\ LongestRtt \in Nat /\ Samples \subseteq 1..LongestRtt
    /\ InitRtt \in Nat \ {0} /\ MaxRtt \in Nat \ {0}
    /\ InitRto \in Nat \ {0} /\ Second \in Nat \ {0}
    /\ IntMax \in Nat /\ LongestRtt < IntMax /\ Late \in Nat /\ MaxRto \in Nat
    /\ LongestPeriod \in Nat /\ InitRtt <= LongestPeriod
    /\ MaxRtt <= LongestPeriod /\ LongestRtt <= LongestPeriod
BY RttAssumption DEF LongestPeriod

-----------------------------------------------------------------------------
(* The arithmetic of the estimators *)

(* Seven eighths of an estimate and an eighth of a distance, neither above *)
(* a bound, are not above it.                                              *)
LEMMA SmoothedBound ==
    ASSUME NEW rtt \in 1..LongestRtt, SRTT \in 0..LongestRtt
    PROVE  Smoothed(rtt) \in 0..LongestRtt
BY Constants DEF Smoothed

LEMMA SmoothedVarBound ==
    ASSUME NEW rtt \in 1..LongestRtt, SRTT \in 0..LongestRtt, RTTVAR \in 0..LongestRtt
    PROVE  SmoothedVar(rtt) \in 0..LongestRtt
BY Constants DEF SmoothedVar

LEMMA EstimateBounds ==
    ASSUME IInv, NEW rtt \in Samples, NEW first_request \in BOOLEAN, Estimate(rtt, first_request)
    PROVE  /\ SRTT' \in 0..LongestRtt /\ RTTVAR' \in 0..LongestRtt
           /\ RTO' \in Nat \ {0}
<1>1. rtt \in 1..LongestRtt /\ SRTT \in 0..LongestRtt /\ RTTVAR \in 0..LongestRtt
      /\ RTO \in Nat \ {0}
  BY Constants DEF IInv, TypeOK, SmoothedIsBounded
<1>2. CASE first_request
  <2>1. SRTT' \in 0..LongestRtt
    BY <1>1, <1>2, SmoothedBound DEF Estimate
  <2>2. RTTVAR' \in 0..LongestRtt
    <3>1. rtt \div 2 \in 0..LongestRtt
      BY <1>1, Constants
    <3>2. QED
      BY <1>1, <1>2, <3>1, SmoothedVarBound DEF Estimate
  <2>3. RTO' = SRTT' + LargerOf(Second, 4 * RTTVAR')
    BY <1>2 DEF Estimate
  <2>4. ASSUME NEW a \in 0..LongestRtt, NEW v \in 0..LongestRtt
        PROVE  a + LargerOf(Second, 4 * v) \in Nat \ {0}
    BY Constants
  <2>5. RTO' \in Nat \ {0}
    BY <2>1, <2>2, <2>3, <2>4
  <2>6. QED
    BY <2>1, <2>2, <2>5
<1>3. CASE ~ first_request
  BY <1>1, <1>3 DEF Estimate, rfc
<1>4. QED
  BY <1>2, <1>3

-----------------------------------------------------------------------------
(* The end of a period *)

LEMMA LossBasedBound ==
    ASSUME IInv
    PROVE  LossBased \in 1..LongestPeriod
BY Constants DEF IInv, TypeOK, LossBased

(* The filters move the base and the period towards the least of the       *)
(* period, and not past it.                                                *)
LEMMA FilteredBaseBound ==
    ASSUME IInv
    PROVE  FilteredBase \in 1..IntMax
BY Constants DEF IInv, TypeOK, FilteredBase

LEMMA FilteredPeriodBound ==
    ASSUME IInv
    PROVE  FilteredPeriod(LossBased) \in 0..LongestPeriod
<1>1. LossBased \in 1..LongestPeriod
  BY LossBasedBound
<1>2. cnt_RTT > 0 => min_RTT \in 1..LongestPeriod
  BY Constants DEF IInv, TypeOK, BaseIsLeast
<1>3. cnt_RTT \in 0..3
  BY DEF IInv, TypeOK
<1>4. ASSUME NEW a \in 1..LongestPeriod, NEW b \in 1..LongestPeriod
      PROVE  (12 * a + 4 * b) \div 16 \in 0..LongestPeriod
  BY Constants
<1>5. QED
  BY <1>1, <1>2, <1>3, <1>4, Constants DEF FilteredPeriod

LEMMA CongestionAvoidanceBounds ==
    ASSUME IInv, CongestionAvoidance
    PROVE  /\ do_fc_this_rtt' \in BOOLEAN
           /\ next_rtt_sample' \in 1..LongestPeriod
           /\ base_RTT' \in 1..IntMax
           /\ current_rtt' \in InitRtt..LongestPeriod
           /\ min_RTT' = IntMax /\ cnt_RTT' = 0
<1>1. do_fc_this_rtt' \in BOOLEAN /\ min_RTT' = IntMax /\ cnt_RTT' = 0
  BY DEF CongestionAvoidance
<1>2. next_rtt_sample' \in 1..LongestPeriod
  BY LossBasedBound DEF CongestionAvoidance
<1>3. base_RTT' \in 1..IntMax
  BY FilteredBaseBound DEF CongestionAvoidance, IInv, TypeOK
<1>4. current_rtt' \in InitRtt..LongestPeriod
  <2> DEFINE p == FilteredPeriod(LossBased)
  <2>1. p \in 0..LongestPeriod /\ current_rtt' = LargerOf(p, InitRtt)
    BY FilteredPeriodBound DEF CongestionAvoidance
  <2> HIDE DEF p
  <2>2. QED
    BY <2>1, Constants
<1>5. QED
  BY <1>1, <1>2, <1>3, <1>4

-----------------------------------------------------------------------------
(* The invariant *)

LEMMA InitInvariant ==
    ASSUME Init
    PROVE  IInv
<1>1. TypeOK
  <2>1. /\ age \in 0..LongestRtt /\ current_rtt \in InitRtt..LongestPeriod
        /\ base_RTT \in 1..IntMax /\ min_RTT \in 1..IntMax /\ timer \in Int
    BY Constants DEF Init
  <2>2. /\ next_rtt_sample \in Int /\ cnt_RTT \in 0..3
        /\ SRTT \in Nat /\ RTTVAR \in Nat /\ RTO \in Nat \ {0} /\ next_rto \in Int
    BY Constants DEF Init
  <2>3. do_fc_this_rtt \in BOOLEAN
    BY DEF Init
  <2>4. QED
    BY <2>1, <2>2, <2>3 DEF TypeOK
<1>2. TimersAgree
  BY Constants DEF Init, TimersAgree
<1>3. NoSampleYet /\ BaseIsLeast /\ SmoothedIsBounded
  BY Constants DEF Init, NoSampleYet, BaseIsLeast, SmoothedIsBounded
<1>4. QED
  BY <1>1, <1>2, <1>3 DEF IInv

LEMMA TickInvariant ==
    ASSUME IInv, Tick
    PROVE  IInv'
<1> USE DEF IInv, Tick, vegas, rfc
<1>1. TypeOK'
  BY Constants DEF TypeOK
<1>2. TimersAgree'
  BY Constants DEF TimersAgree, TypeOK
<1>3. NoSampleYet' /\ BaseIsLeast' /\ SmoothedIsBounded'
  BY DEF NoSampleYet, BaseIsLeast, SmoothedIsBounded
<1>4. QED
  BY <1>1, <1>2, <1>3

LEMMA ReceiveInvariant ==
    ASSUME IInv, NEW rtt \in Samples, NEW first_request \in BOOLEAN,
           RunAlgorithmOnReceive(rtt, first_request)
    PROVE  IInv'
<1>1. /\ SRTT' \in 0..LongestRtt /\ RTTVAR' \in 0..LongestRtt
      /\ RTO' \in Nat \ {0} /\ next_rto' = RTO'
  BY EstimateBounds DEF RunAlgorithmOnReceive
<1>2. rtt \in 1..LongestRtt
  BY Constants
<1>3. /\ base_RTT' = SmallerOf(base_RTT, rtt) /\ min_RTT' = SmallerOf(min_RTT, rtt)
      /\ cnt_RTT' = SmallerOf(cnt_RTT + 1, 3)
      /\ UNCHANGED <<age, current_rtt, next_rtt_sample, do_fc_this_rtt, timer>>
  BY DEF RunAlgorithmOnReceive, period
<1>4. TypeOK'
  BY <1>1, <1>2, <1>3, Constants DEF IInv, TypeOK
<1>5. TimersAgree'
  BY <1>1, <1>3, Constants DEF IInv, TimersAgree, TypeOK
<1>6. NoSampleYet' /\ BaseIsLeast'
  BY <1>2, <1>3, Constants DEF IInv, TypeOK, NoSampleYet, BaseIsLeast
<1>7. SmoothedIsBounded'
  BY <1>1, Constants DEF SmoothedIsBounded
<1>8. QED
  BY <1>4, <1>5, <1>6, <1>7 DEF IInv

(* A deadline that has not passed is ahead of what a timer is set to, less *)
(* a whole period.                                                         *)
LEMMA DeadlineAhead ==
    ASSUME NEW t \in -Late..LongestPeriod
    PROVE  /\ \A d \in Int : d > 0 => d >= t - LongestPeriod
           /\ \A d \in 1..LongestPeriod : d >= t - LongestPeriod - 1
BY Constants

LEMMA CallbackInvariant ==
    ASSUME IInv, TimerCallback
    PROVE  IInv'
<1>1. /\ SRTT' \in 0..LongestRtt /\ RTTVAR' \in 0..LongestRtt
      /\ RTO' \in Nat \ {0} /\ next_rto' \in Int /\ next_rto' > 0
  <2>1. /\ SRTT \in 0..LongestRtt /\ RTTVAR \in 0..LongestRtt
        /\ RTO \in Nat \ {0} /\ next_rto \in Int
    BY Constants DEF IInv, TypeOK, SmoothedIsBounded
  <2>2. CASE /\ SRTT' = 0 /\ RTTVAR' = 0 /\ RTO' = 2 * RTO /\ next_rto' = RTO'
    BY <2>1, <2>2, Constants
  <2>3. CASE next_rto > 0 /\ UNCHANGED <<SRTT, RTTVAR, RTO, next_rto>>
    BY <2>1, <2>3
  <2>4. QED
    BY <2>2, <2>3 DEF TimerCallback, RetransmissionTimer, rfc
<1>2. age' \in 0..LongestRtt
  BY DEF TimerCallback, IInv, TypeOK
<1>3. CASE next_rtt_sample <= 0 /\ CongestionAvoidance /\ timer' = current_rtt'
  <2>1. /\ do_fc_this_rtt' \in BOOLEAN /\ next_rtt_sample' \in 1..LongestPeriod
        /\ base_RTT' \in 1..IntMax /\ current_rtt' \in InitRtt..LongestPeriod
        /\ min_RTT' = IntMax /\ cnt_RTT' = 0
    BY <1>3, CongestionAvoidanceBounds
  <2>2. TypeOK'
    <3>1. min_RTT' \in 1..IntMax /\ cnt_RTT' \in 0..3 /\ SRTT' \in Nat /\ RTTVAR' \in Nat
      BY <1>1, <2>1, Constants
    <3>2. timer' \in Int /\ next_rtt_sample' \in Int
      BY <1>3, <2>1, Constants
    <3>3. QED
      BY <1>1, <1>2, <2>1, <3>1, <3>2 DEF TypeOK
  <2>3. TimersAgree'
    <3>1. timer' \in InitRtt..LongestPeriod /\ next_rtt_sample' \in 1..LongestPeriod
      BY <1>3, <2>1
    <3>2. timer' \in -Late..LongestPeriod
      BY <3>1, Constants
    <3>3. next_rto' >= timer' - LongestPeriod
      BY <1>1, <3>2, DeadlineAhead
    <3>4. next_rtt_sample' >= timer' - LongestPeriod - 1
      BY <3>1, <3>2, DeadlineAhead
    <3>5. next_rtt_sample' <= LongestPeriod
      BY <3>1, Constants
    <3>6. QED
      BY <3>2, <3>3, <3>4, <3>5 DEF TimersAgree
  <2>4. NoSampleYet' /\ BaseIsLeast'
    BY <2>1 DEF NoSampleYet, BaseIsLeast
  <2>5. SmoothedIsBounded'
    BY <1>1, Constants DEF SmoothedIsBounded
  <2>6. QED
    BY <2>2, <2>3, <2>4, <2>5 DEF IInv
<1>4. CASE next_rtt_sample > 0 /\ timer' = next_rtt_sample /\ UNCHANGED <<period, vegas>>
  <2>1. UNCHANGED <<current_rtt, next_rtt_sample, do_fc_this_rtt, base_RTT, min_RTT, cnt_RTT>>
    BY <1>4 DEF period, vegas
  <2>2. TypeOK'
    BY <1>1, <1>2, <1>4, <2>1, Constants DEF IInv, TypeOK
  <2>3. TimersAgree'
    BY <1>1, <1>4, <2>1, Constants DEF IInv, TypeOK, TimersAgree
  <2>4. NoSampleYet' /\ BaseIsLeast'
    BY <2>1 DEF IInv, NoSampleYet, BaseIsLeast
  <2>5. SmoothedIsBounded'
    BY <1>1, Constants DEF SmoothedIsBounded
  <2>6. QED
    BY <2>2, <2>3, <2>4, <2>5 DEF IInv
<1>5. QED
  BY <1>3, <1>4 DEF TimerCallback, SamplingTimer

LEMMA Invariant == Spec => []IInv
<1>1. Init => IInv
  BY InitInvariant
<1>2. IInv /\ [Next]_vars => IInv'
  <2>1. SUFFICES ASSUME IInv, [Next]_vars PROVE IInv'
    OBVIOUS
  <2>2. CASE Tick
    BY <2>1, <2>2, TickInvariant
  <2>3. CASE \E rtt \in Samples, first_request \in BOOLEAN :
                 RunAlgorithmOnReceive(rtt, first_request)
    BY <2>1, <2>3, ReceiveInvariant
  <2>4. CASE TimerCallback
    BY <2>1, <2>4, CallbackInvariant
  <2>5. CASE UNCHANGED vars
    BY <2>1, <2>5 DEF vars, period, vegas, rfc, IInv, TypeOK, TimersAgree, NoSampleYet,
                      BaseIsLeast, SmoothedIsBounded
  <2>6. QED
    BY <2>1, <2>2, <2>3, <2>4, <2>5 DEF Next
<1>3. QED
  BY <1>1, <1>2, PTL DEF Spec

-----------------------------------------------------------------------------
(* vegasSession_TimeBasedAvoidance: the base it divides by is positive and *)
(* never above the round trip time it subtracts it from, whatever the      *)
(* filter of vegas_Session.c:678 and the order of the samples.             *)
THEOREM BaseStaysLeast == Spec => []BaseIsLeast
<1>1. IInv => BaseIsLeast
  BY DEF IInv
<1>2. QED
  BY <1>1, Invariant, PTL

(* vegasSession_RunAlgorithmOnReceive: SRTT and RTTVAR never exceed the    *)
(* longest round trip time, however often they are updated.                *)
THEOREM EstimatesStayBounded == Spec => []SmoothedIsBounded
<1>1. IInv => SmoothedIsBounded
  BY DEF IInv
<1>2. QED
  BY <1>1, Invariant, PTL

(* vegasSession_TimerCallback: one event timer, set for the sampling       *)
(* period, is enough to notice the retransmission timeout within one       *)
(* period of its passing, for every period, timeout and lateness.          *)
THEOREM NoDeadlineIsMissed == Spec => []DeadlinesAreNoticed
<1>1. IInv => DeadlinesAreNoticed
  BY Constants DEF IInv, TypeOK, TimersAgree, DeadlinesAreNoticed
<1>2. QED
  BY <1>1, Invariant, PTL
=============================================================================
