------------------------------- MODULE BentPipe -------------------------------
(***************************************************************************)
(* The forwarder for tests (bent_pipe.c): what comes down one connection   *)
(* goes up all the others, at once or, with bentpipe_Params, lost or       *)
(* delayed.  The pipe has a fixed array of connections that are used again *)
(* and a thread that is started and stopped by its user.                   *)
(*                                                                         *)
(* The thread runs one callback at a time; the read callback is one step   *)
(* per message (single_read), "reading" naming the slot it drains.  Time   *)
(* is what is left of each deadline and each timer; a tick moves all.      *)
(***************************************************************************)
EXTENDS LocalSocket

CONSTANTS
    MaxConn,       \* MAX_CONN
    MsgLimit,      \* 64000: single_read asserts that a body is shorter
    Delays,        \* ticks a packet may be delayed
    Buffers,       \* values of buffer_bytes for bentpipe_Params
    MayLose,       \* loss_rate is not zero
    Reports,       \* the sets of events the library may report when a client has gone
    MayParams, MayStop, MayRestart  \* calls the user makes

ASSUME PipeAssumption ==
    /\ {MaxConn, MsgLimit} \subseteq Nat \ {0} /\ Buffers \subseteq Nat
    /\ Delays \subseteq Nat \ {0} /\ IsFiniteSet(Delays)
    /\ Reports \subseteq (SUBSET {"EOF", "Error"}) \ {{}}
    /\ {MayLose, MayParams, MayStop, MayRestart} \subseteq BOOLEAN

VARIABLES
    conns,            \* conns[MAX_CONN]
    conn_count,
    use_params, buffer_bytes,
    reading,          \* the slot being drained, or 0
    router,           \* router_thread: "none", "running", "leaving" its event loop
    startup_running,
    killme,
    caller            \* the user of the pipe: "created", "started", "stopped", "done", or
                      \* in Start or Stop, testing or asleep

slotVars   == <<conns, conn_count, use_params, buffer_bytes, reading>>
threadVars == <<router, startup_running, killme, caller>>
pipeVars   == <<slotVars, threadVars>>

Slots == 1..MaxConn
Off   == -1
Lost  == 0      \* the fate of a packet that is not delayed but dropped

(* struct bentpipe_conn as bentpipe_Create makes it; "input" is the input  *)
(* buffer of bev, which goes with it.                                      *)
NewConn == [client_fd |-> None, input |-> <<>>, msg_length |-> 0,
            bytes_in_queue |-> 0, count_in_queue |-> 0, output_queue |-> <<>>,
            timer_event |-> Off]

SlotOf(c) == {i \in Slots : conns[i].client_fd = c}

PipeCalm == trap = None /\ router = "running" /\ reading = 0

-----------------------------------------------------------------------------
(* Connections *)

AllocateConnection == {i \in Slots : conns[i].client_fd = None
                                     /\ \A j \in 1..i - 1 : conns[j].client_fd # None}

(* listener_cb: a slot is taken as the client before left it, but for its  *)
(* descriptor and event queue.  The callback uses the slot without asking  *)
(* whether there was one, and allocate_connection aborts when the count    *)
(* has room and the array has not.                                         *)
Listener(c) ==
    /\ PipeCalm /\ pipe_end[c] = "backlog"
    /\ IF conn_count = MaxConn \/ AllocateConnection = {}
       THEN /\ trap' = IF conn_count = MaxConn THEN "listener_cb" ELSE "allocate_connection"
            /\ UNCHANGED <<pipe_end, conns, conn_count>>
       ELSE \E i \in AllocateConnection :
                /\ conns' = [conns EXCEPT ![i].client_fd = c]
                /\ conn_count' = conn_count + 1
                /\ pipe_end' = [pipe_end EXCEPT ![c] = "open"]
                /\ UNCHANGED trap
    /\ UNCHANGED <<client_end, down, up, use_params, buffer_bytes, reading, threadVars>>

(* deallocate_connection: the event queue, with its buffers, and the timer *)
(* go; msg_length, the output queue and its counters stay.                 *)
Deallocated(conn) == [conn EXCEPT !.client_fd = None, !.input = <<>>, !.timer_event = Off]

(* conn_errorcb: each bit deallocates; with both bits the second call      *)
(* finds no event queue, or no connection to count.                        *)
ConnError(i) ==
    LET c == conns[i].client_fd IN
    /\ PipeCalm /\ c # None
    /\ client_end[c] = "closed"
    /\ \E events \in Reports :
           /\ events = {"EOF"} => down[c] = <<>>
           /\ trap' = IF events = {"EOF", "Error"} THEN "deallocate_connection" ELSE None
    /\ conns' = [conns EXCEPT ![i] = Deallocated(@)]
    /\ conn_count' = conn_count - 1
    /\ pipe_end' = [pipe_end EXCEPT ![c] = "closed"]
    /\ down' = [down EXCEPT ![c] = <<>>]
    /\ UNCHANGED <<client_end, up, use_params, buffer_bytes, reading, threadVars>>

-----------------------------------------------------------------------------
(* Messages *)

(* The library reads what has arrived into the input buffer and calls conn_readcb. *)
ConnRead(i) ==
    LET c == conns[i].client_fd IN
    /\ PipeCalm /\ c # None
    /\ \E n \in 1..Len(down[c]) :
           /\ conns' = [conns EXCEPT ![i].input = @ \o Prefix(down[c], n)]
           /\ down' = [down EXCEPT ![c] = Rest(@, n)]
    /\ reading' = i
    /\ UNCHANGED <<client_end, pipe_end, up, trap, conn_count, use_params, buffer_bytes, threadVars>>

(* Mutant: reflect begins behind the slot the message came from. *)
Others_Later(i) == {j \in Slots : j > i /\ conns[j].client_fd # None}

(* reflect goes to the other connected slots. *)
Others(i) == {j \in Slots : conns[j].client_fd \notin {None, conns[i].client_fd}}

(* queue_with_delay: a packet is lost, does not fit, or is appended with   *)
(* its deadline; the timer is started for the first in the queue only.     *)
QueueWithDelay(conn, pbuff, fate) ==
    IF fate = Lost \/ Len(pbuff) + conn.bytes_in_queue >= buffer_bytes THEN conn
    ELSE [conn EXCEPT
             !.bytes_in_queue = @ + Len(pbuff),
             !.count_in_queue = @ + 1,
             !.output_queue = Append(@, [pbuff |-> pbuff, wait |-> fate]),
             !.timer_event = IF conn.count_in_queue = 0 THEN fate ELSE @]

Fates == Delays \cup (IF MayLose THEN {Lost} ELSE {})

(* reflect with delays: each of the others has its own fate. *)
ReflectDelayed(i, pbuff, taken) ==
    /\ \E fate \in [Others(i) -> Fates] :
           conns' = [j \in Slots |->
                        IF j = i THEN taken
                        ELSE IF j \in Others(i) THEN QueueWithDelay(conns[j], pbuff, fate[j])
                        ELSE conns[j]]
    /\ UNCHANGED <<up, trap>>

(* What is written to a client that has gone is lost. *)
WrittenTo(receivers, pbuff) ==
    up' = [c \in Clients |-> IF c \in receivers /\ client_end[c] # "closed"
                             THEN up[c] \o pbuff ELSE up[c]]

(* reflect at once: a packet is written, and then compared with its header. *)
ReflectNow(i, pbuff, taken) ==
    /\ conns' = [conns EXCEPT ![i] = taken]
    /\ WrittenTo({conns[j].client_fd : j \in Others(i)}, pbuff)
    /\ \E length \in HeaderLengths(pbuff) :
           trap' = IF Others(i) # {} /\ length + HeaderSize # Len(pbuff) THEN "reflect" ELSE None

(* Mutant: the length is kept for the next message. *)
Taken_KeepsLength(conn, length) ==
    [conn EXCEPT !.msg_length = length, !.input = Rest(@, HeaderSize + length)]

(* Mutant: the header stays in the input buffer. *)
Taken_WithoutHeader(conn, length) == [conn EXCEPT !.msg_length = 0, !.input = Rest(@, length)]

(* A message has been read whole. *)
Taken(conn, length) == [conn EXCEPT !.msg_length = 0, !.input = Rest(@, HeaderSize + length)]

(* Mutant: conn_readcb calls single_read once. *)
MoreToRead_Once(conn, length) == FALSE

MoreToRead(conn, length) == Len(conn.input) > HeaderSize + length

(* single_read asserts that the length in a header is neither 0 nor        *)
(* MsgLimit or more, as soon as it reads the header.                       *)
Refused(conn, length) ==
    /\ conn.msg_length = 0 /\ Len(conn.input) >= HeaderSize
    /\ length \notin 1..MsgLimit - 1

(* single_read: msg_length is taken from a header once it is whole; a      *)
(* message is reflected once it is whole; conn_readcb calls again while    *)
(* there was more than that message.                                       *)
SingleRead(i) ==
    LET conn == conns[i] IN
    /\ trap = None /\ reading = i
    /\ \E length \in IF conn.msg_length # 0 THEN {conn.msg_length}
                     ELSE IF Len(conn.input) >= HeaderSize THEN HeaderLengths(conn.input)
                     ELSE {0} :
          \/ /\ Refused(conn, length)
             /\ trap' = "single_read" /\ UNCHANGED <<conns, up, reading>>
          \/ /\ ~ Refused(conn, length) /\ Len(conn.input) >= HeaderSize + length
             /\ LET Reflect(pbuff, taken) == IF use_params THEN ReflectDelayed(i, pbuff, taken)
                                             ELSE ReflectNow(i, pbuff, taken)
                IN  Reflect(Prefix(conn.input, HeaderSize + length), Taken(conn, length))
             /\ reading' = IF MoreToRead(conn, length) THEN i ELSE 0
          \/ /\ ~ Refused(conn, length) /\ Len(conn.input) < HeaderSize + length
             /\ conns' = [conns EXCEPT ![i].msg_length = length]
             /\ reading' = 0 /\ UNCHANGED <<up, trap>>
    /\ UNCHANGED <<client_end, pipe_end, down, conn_count, use_params, buffer_bytes, threadVars>>

-----------------------------------------------------------------------------
(* Delayed packets *)

(* The packets at the head of the queue whose deadline has passed. *)
Ripe(queue) == SelectInSeq(queue, LAMBDA w : w.wait > 0)

Due(queue) == IF Ripe(queue) = 0 THEN Len(queue) ELSE Ripe(queue) - 1

(* The packets of a queue, one after the other, and their size. *)
Packets(queue) == FlattenSeq([k \in DOMAIN queue |-> queue[k].pbuff])

SizeOf(queue) == Len(Packets(queue))

(* Mutant: the timer is not started again. *)
TimerSet_Never(queue) == Off

TimerSet(queue) == IF queue = <<>> THEN Off ELSE queue[1].wait

(* Mutant: the counter of bytes is not moved. *)
Dequeued_KeepsBytes(conn, n) ==
    [conn EXCEPT !.count_in_queue = @ - n,
                 !.output_queue = Rest(@, n),
                 !.timer_event = TimerSet(Rest(conn.output_queue, n))]

Dequeued(conn, n) ==
    [conn EXCEPT !.bytes_in_queue = @ - SizeOf(Prefix(conn.output_queue, n)),
                 !.count_in_queue = @ - n,
                 !.output_queue = Rest(@, n),
                 !.timer_event = TimerSet(Rest(conn.output_queue, n))]

(* timer_cb: what is due is written, and the timer started for what is     *)
(* then first.                                                             *)
Timer(i) ==
    LET queue == conns[i].output_queue IN
    /\ PipeCalm /\ conns[i].timer_event = 0
    /\ WrittenTo({conns[i].client_fd}, Packets(Prefix(queue, Due(queue))))
    /\ conns' = [conns EXCEPT ![i] = Dequeued(@, Due(queue))]
    /\ UNCHANGED <<client_end, pipe_end, down, trap, conn_count, use_params, buffer_bytes, reading, threadVars>>

Sooner(t) == IF t > 0 THEN t - 1 ELSE t

Aged(queue) == [k \in DOMAIN queue |-> [queue[k] EXCEPT !.wait = Sooner(@)]]

(* Time passes, when there is something it brings nearer. *)
Tick ==
    /\ trap = None
    /\ conns' = [i \in Slots |->
           [conns[i] EXCEPT !.timer_event = Sooner(@), !.output_queue = Aged(@)]]
    /\ conns' # conns
    /\ UNCHANGED <<sockets, trap, conn_count, use_params, buffer_bytes, reading, threadVars>>

-----------------------------------------------------------------------------
(* The thread and its user *)

(* A signal wakes the user to test again. *)
Signalled == [asleep_start |-> "starting", asleep_stop |-> "stopping"]

Signal == IF caller \in DOMAIN Signalled THEN Signalled[caller] ELSE caller

(* keepalive_cb: the first one says that the thread runs; a later one      *)
(* looks whether it should stop.                                           *)
KeepAlive ==
    /\ PipeCalm
    /\ \/ /\ ~ startup_running
          /\ startup_running' = TRUE
          /\ caller' = Signal /\ UNCHANGED router
       \/ /\ startup_running /\ killme
          /\ router' = "leaving" /\ UNCHANGED <<startup_running, caller>>
    /\ UNCHANGED <<sockets, trap, slotVars, killme>>

(* Mutant: the user is not signalled. *)
RunEnds_Silent ==
    /\ trap = None /\ router = "leaving"
    /\ router' = "none" /\ startup_running' = FALSE
    /\ UNCHANGED <<sockets, trap, slotVars, killme, caller>>

(* run_bentpipe, after its event loop. *)
RunEnds ==
    /\ trap = None /\ router = "leaving"
    /\ router' = "none" /\ startup_running' = FALSE /\ caller' = Signal
    /\ UNCHANGED <<sockets, trap, slotVars, killme>>

(* bentpipe_Params *)
Params ==
    /\ trap = None /\ caller = "created" /\ MayParams /\ ~ use_params
    /\ use_params' = TRUE /\ buffer_bytes' \in Buffers
    /\ UNCHANGED <<sockets, trap, conns, conn_count, reading, threadVars>>

(* bentpipe_Start makes the thread and waits until it runs; killme is as   *)
(* the last stop left it.                                                  *)
Start ==
    /\ trap = None
    /\ caller = "created" \/ (caller = "stopped" /\ MayRestart)
    /\ ~ startup_running
    /\ router' = "running" /\ caller' = "starting"
    /\ UNCHANGED <<sockets, trap, slotVars, startup_running, killme>>

(* The test and the wait are under the lock. *)
StartWaits ==
    /\ trap = None /\ caller = "starting"
    /\ caller' = IF startup_running THEN "started" ELSE "asleep_start"
    /\ UNCHANGED <<sockets, trap, slotVars, router, startup_running, killme>>

Stop ==
    /\ trap = None /\ caller = "started" /\ MayStop
    /\ IF startup_running
       THEN killme' = TRUE /\ caller' = "stopping" /\ UNCHANGED trap
       ELSE trap' = "bentpipe_Stop" /\ UNCHANGED <<killme, caller>>
    /\ UNCHANGED <<sockets, slotVars, router, startup_running>>

StopWaits ==
    /\ trap = None /\ caller = "stopping"
    /\ caller' = IF startup_running THEN "asleep_stop" ELSE "stopped"
    /\ UNCHANGED <<sockets, trap, slotVars, router, startup_running, killme>>

(* bentpipe_Destroy closes every connection and the listener; what was in  *)
(* an output buffer is lost.                                               *)
Destroy ==
    /\ trap = None /\ caller \in {"created", "stopped"} /\ MayStop
    /\ ~ startup_running
    /\ up' \in {kept \in [Clients -> UNION {Prefixes(up[c]) : c \in Clients}] :
                  \A c \in Clients : kept[c] \in Prefixes(up[c])}
    /\ pipe_end' = [c \in Clients |-> IF pipe_end[c] = "none" THEN "none" ELSE "closed"]
    /\ down' = [c \in Clients |-> <<>>]
    /\ conns' = [i \in Slots |-> NewConn] /\ conn_count' = 0
    /\ caller' = "done"
    /\ UNCHANGED <<client_end, trap, use_params, buffer_bytes, reading, router, startup_running, killme>>

-----------------------------------------------------------------------------
PipeInit ==
    /\ conns = [i \in Slots |-> NewConn]
    /\ conn_count = 0
    /\ use_params = FALSE /\ buffer_bytes = 0
    /\ reading = 0
    /\ router = "none"
    /\ startup_running = FALSE
    /\ killme = FALSE
    /\ caller = "created"

PipeCallback ==
    \/ \E c \in Clients : Listener(c)
    \/ \E i \in Slots : ConnError(i) \/ ConnRead(i) \/ SingleRead(i) \/ Timer(i)
    \/ KeepAlive \/ RunEnds

CallerStep == StartWaits \/ StopWaits

PipeNext == PipeCallback \/ CallerStep \/ Tick \/ Params \/ Start \/ Stop \/ Destroy
=============================================================================
