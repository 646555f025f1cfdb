------------------------------ MODULE VegasRtt ------------------------------
(***************************************************************************)
(* The clocks of a Vegas session: the round trip times it measures, the    *)
(* sampling period and the retransmission timeout it derives from them,    *)
(* and the one event timer that serves both.  What the answers do to the   *)
(* window is VegasSession, which takes the round trip times as a choice.   *)
(*                                                                         *)
(* Times are in ticks.  A deadline is kept as its distance from now, which *)
(* is how the code looks at one: delta = now - deadline, with a sign.      *)
(***************************************************************************)
EXTENDS Integers

CONSTANTS
    Samples,     \* round trip times, one added as in the code
    LongestRtt,  \* none of them is longer
    InitRtt,     \* FC_INIT_RTT_MSEC, the shortest sampling period
    MaxRtt,      \* the limit of LossBasedAvoidance, 4000
    InitRto,     \* FC_INIT_RTO_MSEC
    Second,      \* rtaFramework_UsecToTicks(1000000)
    IntMax,      \* INT_MAX: no sample yet
    Late,        \* the event loop calls a timer back at most so late
    MaxRto       \* bound: timeouts are looked at up to this one

ASSUME RttAssumption ==
    /\ LongestRtt \in Nat /\ Samples \subseteq 1..LongestRtt
    /\ {InitRtt, MaxRtt, InitRto, Second} \subseteq Nat \ {0}
    /\ InitRtt <= MaxRtt
    /\ IntMax \in Nat /\ LongestRtt < IntMax
    /\ Late \in Nat /\ MaxRto \in Nat

VARIABLES
    age,              \* ticks since the session started, up to LongestRtt
    current_rtt,      \* the sampling period
    next_rtt_sample,  \* ticks to its end
    do_fc_this_rtt,   \* the window is adjusted in every other period
    base_RTT,         \* the least round trip time, filtered
    min_RTT,          \* the least of this period
    cnt_RTT,          \* samples in this period, up to 3
    SRTT, RTTVAR,     \* the estimators of RFC 6298
    RTO,
    next_rto,         \* ticks to the retransmission
    timer             \* ticks to the callback of tick_event

period == <<current_rtt, next_rtt_sample, do_fc_this_rtt>>
vegas  == <<base_RTT, min_RTT, cnt_RTT>>
rfc    == <<SRTT, RTTVAR, RTO>>
vars   == <<age, period, vegas, rfc, next_rto, timer>>

SmallerOf(a, b) == IF a < b THEN a ELSE b
LargerOf(a, b)  == IF a > b THEN a ELSE b
Distance(a, b)  == IF a < b THEN b - a ELSE a - b

(* The longest the sampling period gets. *)
LongestPeriod == LargerOf(MaxRtt, LongestRtt)

-----------------------------------------------------------------------------
(* vegasSession_Create, then vegasSession_Start *)
Init ==
    /\ age = 0
    /\ current_rtt = InitRtt /\ next_rtt_sample = -1 /\ do_fc_this_rtt = FALSE
    /\ base_RTT = IntMax /\ min_RTT = IntMax /\ cnt_RTT = 0
    /\ SRTT = 0 /\ RTTVAR = 0 /\ RTO = InitRto
    /\ next_rto = InitRto
    /\ timer = InitRtt

(* One tick of the framework's clock; the event loop may be late. *)
Tick ==
    /\ timer > -Late
    /\ age' = SmallerOf(age + 1, LongestRtt)
    /\ timer' = timer - 1
    /\ next_rto' = next_rto - 1 /\ next_rtt_sample' = next_rtt_sample - 1
    /\ UNCHANGED <<current_rtt, do_fc_this_rtt, vegas, rfc>>

(* "calculate RTTVAR as per RFC6298", 3/4 of the old and 1/4 of the        *)
(* distance, and SRTT, 7/8 of the old and 1/8 of the distance, by shifts.  *)
SmoothedVar(rtt) == (RTTVAR \div 2) + (RTTVAR \div 4) + (Distance(SRTT, rtt) \div 4)

(* Mutant: 3/4 and the whole distance. *)
Smoothed_WholeDistance(rtt) ==
    (SRTT \div 2) + (SRTT \div 4) + Distance(SRTT, rtt)

Smoothed(rtt) ==
    (SRTT \div 2) + (SRTT \div 4) + (SRTT \div 8) + (Distance(SRTT, rtt) \div 8)

(* The estimators take a segment that was asked for once only; after a     *)
(* timeout they start over.                                                *)
Estimate(rtt, first_request) ==
    IF first_request
    THEN /\ SRTT'   = IF SRTT = 0 THEN rtt ELSE Smoothed(rtt)
         /\ RTTVAR' = IF SRTT = 0 THEN rtt \div 2 ELSE SmoothedVar(rtt)
         /\ RTO'    = SRTT' + LargerOf(Second, 4 * RTTVAR')
    ELSE UNCHANGED rfc

(* Mutant: the base is taken from the least of the period before. *)
RunAlgorithmOnReceive_BaseFromMin(rtt, first_request) ==
    /\ rtt <= age + 1
    /\ base_RTT' = SmallerOf(base_RTT, min_RTT)
    /\ min_RTT'  = SmallerOf(min_RTT, rtt)
    /\ cnt_RTT'  = SmallerOf(cnt_RTT + 1, 3)
    /\ Estimate(rtt, first_request)
    /\ next_rto' = RTO'
    /\ UNCHANGED <<age, period, timer>>

(* vegasSession_RunAlgorithmOnReceive: any answer puts the timeout off.    *)
RunAlgorithmOnReceive(rtt, first_request) ==
    /\ rtt <= age + 1
    /\ base_RTT' = SmallerOf(base_RTT, rtt)
    /\ min_RTT'  = SmallerOf(min_RTT, rtt)
    /\ cnt_RTT'  = SmallerOf(cnt_RTT + 1, 3)
    /\ Estimate(rtt, first_request)
    /\ next_rto' = RTO'
    /\ UNCHANGED <<age, period, timer>>

-----------------------------------------------------------------------------
(* The period is over *)

(* vegasSession_LossBasedAvoidance, in a period of at most two samples:    *)
(* the period is doubled.  TimeBasedAvoidance leaves the clocks alone.     *)
LossBased == IF do_fc_this_rtt /\ cnt_RTT <= 2 THEN SmallerOf(2 * current_rtt, MaxRtt)
                                               ELSE current_rtt

FilteredBase == LargerOf(1, (240 * base_RTT + 16 * min_RTT) \div 256)

FilteredPeriod(rtt) == IF cnt_RTT > 0 THEN (12 * rtt + 4 * min_RTT) \div 16 ELSE rtt

(* The samples of the period are dropped, the next one begins. *)
CongestionAvoidance ==
    /\ do_fc_this_rtt' = ~ do_fc_this_rtt
    /\ next_rtt_sample' = LossBased
    /\ base_RTT' = IF cnt_RTT > 0 THEN FilteredBase ELSE base_RTT
    /\ current_rtt' = LargerOf(FilteredPeriod(LossBased), InitRtt)
    /\ min_RTT' = IntMax /\ cnt_RTT' = 0

(* Mutant: the timer is set for the timeout as well. *)
SamplingTimer_ForRto ==
    \/ next_rtt_sample <= 0 /\ CongestionAvoidance /\ timer' = current_rtt'
    \/ next_rtt_sample > 0 /\ timer' = next_rtt_sample + RTO /\ UNCHANGED <<period, vegas>>

(* A callback before the end of the period only sets the timer again.      *)
SamplingTimer ==
    \/ next_rtt_sample <= 0 /\ CongestionAvoidance /\ timer' = current_rtt'
    \/ next_rtt_sample > 0 /\ timer' = next_rtt_sample /\ UNCHANGED <<period, vegas>>

(* After the retransmission of the first segment: "a doubling regeme".     *)
RetransmissionTimer ==
    \/ next_rto <= 0 /\ SRTT' = 0 /\ RTTVAR' = 0 /\ RTO' = 2 * RTO /\ next_rto' = RTO'
    \/ next_rto > 0 /\ UNCHANGED <<rfc, next_rto>>

TimerCallback ==
    /\ timer <= 0
    /\ next_rto <= 0 => 2 * RTO <= MaxRto
    /\ SamplingTimer /\ RetransmissionTimer
    /\ UNCHANGED age

Next ==
    \/ Tick
    \/ \E rtt \in Samples, first_request \in BOOLEAN : RunAlgorithmOnReceive(rtt, first_request)
    \/ TimerCallback

Spec == Init /\ [][Next]_vars

-----------------------------------------------------------------------------
TypeOK ==
    /\ age \in 0..LongestRtt
    /\ current_rtt \in InitRtt..LongestPeriod /\ next_rtt_sample \in Int
    /\ do_fc_this_rtt \in BOOLEAN
    /\ base_RTT \in 1..IntMax /\ min_RTT \in 1..IntMax /\ cnt_RTT \in 0..3
    /\ SRTT \in Nat /\ RTTVAR \in Nat /\ RTO \in Nat \ {0}
    /\ next_rto \in Int /\ timer \in Int

(* Whatever the filter makes of it, the base is never above a round trip   *)
(* time of the period: TimeBasedAvoidance divides by it and subtracts it   *)
(* from the least of the period, in unsigned ticks.                        *)
BaseIsLeast ==
    cnt_RTT > 0 => 0 < base_RTT /\ base_RTT <= min_RTT /\ min_RTT <= LongestRtt

(* The estimators, and with them the timeout before it is doubled, do not  *)
(* grow beyond what the round trip times explain, however these vary.      *)
SmoothedIsBounded == SRTT <= LongestRtt /\ RTTVAR <= LongestRtt

(* The timer of the sampling period is also the only one that looks at the *)
(* timeout: the periods may shrink, grow and be cut, yet neither deadline  *)
(* is overdue by more than the longest of them.                            *)
DeadlinesAreNoticed ==
    /\ next_rto        >= -(LongestPeriod + Late)
    /\ next_rtt_sample >= -(LongestPeriod + Late + 1)

(* "calculate SRTT as per RFC6298": a mean of the samples is not below all *)
(* of them, but for what the shifts cut off.                               *)
SmoothedIsAMean == SRTT > 0 => \E rtt \in Samples : rtt <= SRTT + 4
=============================================================================
