------------------------------ MODULE LocalPipe ------------------------------
(***************************************************************************)
(* The local connector against the bent pipe: connections that open, send, *)
(* receive, pause and close while the pipe is started and stopped.         *)
(***************************************************************************)
EXTENDS BentPipe, LocalConnector

vars == <<sockets, trap, pipeVars, connVars>>

Init == SocketInit /\ PipeInit /\ ConnectorInit

Listening == caller # "done"

(* The socket of the pipe is bound when the pipe is made and unlinked when *)
(* it is destroyed, so a connection can be opened before the pipe runs.    *)
Connector ==
    /\ \E c \in Clients : \/ Listening /\ Opener(c)
                          \/ ~ Listening /\ OpenerFails(c)
                          \/ ConnectorCallback(c)
                          \/ FromAbove(c)
    /\ UNCHANGED pipeVars

Pipe == PipeNext /\ UNCHANGED connVars

Next == Connector \/ Pipe

Spec == Init /\ [][Next]_vars

(* What happens without anybody's decision: callbacks of both event loops, *)
(* the return of a call that has begun, and time.                          *)
Progress ==
    \/ (PipeCallback \/ CallerStep \/ Tick) /\ UNCHANGED connVars
    \/ (\E c \in Clients : ConnectorCallback(c)) /\ UNCHANGED pipeVars

(* Where Progress is enabled. *)
PipeCanStep ==
    \/ \E c \in Clients : pipe_end[c] = "backlog"
    \/ \E c \in Clients : SlotOf(c) # {} /\ (client_end[c] = "closed" \/ down[c] # <<>>)
    \/ \E i \in Slots : conns[i].timer_event = 0
    \/ ~ startup_running \/ killme

ConnectorCanStep(c) ==
    \/ client_end[c] = "connecting" \/ upcall = c
    \/ client_end[c] = "connected" /\ up[c] # <<>>
    \/ /\ client_end[c] = "connected" /\ pipe_end[c] = "closed" /\ down[c] # <<>>
       /\ notice[c] # "FORWARDER_NOT_AVAILABLE"

Aging(conn) == conn.timer_event > 0 \/ \E k \in DOMAIN conn.output_queue : conn.output_queue[k].wait > 0

CanStep ==
    /\ trap = None
    /\ \/ PipeCalm /\ PipeCanStep
       \/ reading # 0 \/ router = "leaving" \/ caller \in {"starting", "stopping"}
       \/ \E c \in Clients : ConnectorCanStep(c)
       \/ \E i \in Slots : Aging(conns[i])

(* As long as there is such a step one is taken: weak fairness of          *)
(* Progress, with its guard written out.  Nobody has to open, send, close, *)
(* start or stop.                                                          *)
FairSpec == Spec /\ ([]<>~CanStep \/ []<><<Progress>>_vars)

-----------------------------------------------------------------------------
Waits == {t \in Nat : \E d \in Delays : t <= d}

Lengths == {Body[n] : n \in DOMAIN Body}

PipeTypeOK ==
    /\ DOMAIN conns = Slots
    /\ \A i \in Slots :
           /\ conns[i].client_fd \in Clients \cup {None}
           /\ conns[i].msg_length \in Lengths \cup {0}
           /\ conns[i].bytes_in_queue \in Nat
           /\ conns[i].count_in_queue \in 0..conns[i].bytes_in_queue
           /\ conns[i].bytes_in_queue = 0 \/ conns[i].bytes_in_queue < buffer_bytes
           /\ conns[i].timer_event \in Waits \cup {Off}
           /\ \A k \in DOMAIN conns[i].output_queue : conns[i].output_queue[k].wait \in Waits
    /\ conn_count \in 0..MaxConn
    /\ use_params \in BOOLEAN /\ startup_running \in BOOLEAN /\ killme \in BOOLEAN
    /\ reading \in Slots \cup {0}
    /\ router \in {"none", "running", "leaving"}
    /\ caller \in {"created", "starting", "asleep_start", "started",
                  "stopping", "asleep_stop", "stopped", "done"}

(* Types; the queue of a slot stays below buffer_bytes, and a length that  *)
(* is kept is the length of some message.                                  *)
TypeOK ==
    /\ SocketTypeOK /\ PipeTypeOK
    /\ state \in [Clients -> {"new", "open", "paused", "closed"}]
    /\ connected \in [Clients -> BOOLEAN]
    /\ upcall \in Clients \cup {None}
    /\ wrote \in [Clients -> 0..Len(Body)]
    /\ notice \in [Clients -> {None, "CONNECTION_OPEN", "FORWARDER_NOT_AVAILABLE"}]

(* The count that decides whether a client is accepted is the number of    *)
(* slots in use, a client has one slot as long as its socket is open, and  *)
(* the counters that decide whether a packet fits and whether its timer is *)
(* started describe the queue, which stays below buffer_bytes: bent_pipe.c *)
(* keeps each of them by hand.                                             *)
CountsAgree ==
    trap = None =>
        /\ conn_count = Cardinality({i \in Slots : conns[i].client_fd # None})
        /\ \A c \in Clients : Cardinality(SlotOf(c)) = IF pipe_end[c] = "open" THEN 1 ELSE 0
        /\ \A i \in Slots : LET queue == conns[i].output_queue IN
              /\ conns[i].count_in_queue = Len(queue)
              /\ conns[i].bytes_in_queue = SizeOf(queue)
              /\ queue # <<>> => SizeOf(queue) < buffer_bytes

(* What the pipe will read next of a client, and a client of the pipe. *)
FromClient(c) == (IF SlotOf(c) = {} THEN <<>>
                  ELSE conns[CHOOSE i \in SlotOf(c) : TRUE].input) \o down[c]

FromPipe(c) == input[c] \o up[c]

Queued(c) == IF SlotOf(c) = {} THEN <<>>
             ELSE Packets(conns[CHOOSE i \in SlotOf(c) : TRUE].output_queue)

BeginsMessage(units) == units = <<>> \/ units[1][3] = 1

(* Both readers stand at the beginning of a message whenever they look for *)
(* a header, and a length that the pipe keeps is that of the message it    *)
(* has begun, however the stream is cut into reads and whoever had the     *)
(* slot before.                                                            *)
FramesAreWhole ==
    \A c \in Clients :
        /\ Framed(FromPipe(c)) /\ BeginsMessage(FromPipe(c))
        /\ Framed(Queued(c))   /\ BeginsMessage(Queued(c))
        /\ \A i \in SlotOf(c) :
              /\ Framed(FromClient(c)) /\ BeginsMessage(FromClient(c))
              /\ conns[i].msg_length # 0 =>
                    /\ FromClient(c) # <<>>
                    /\ conns[i].msg_length = Body[FromClient(c)[1][2]]

(* The messages of a that b has, or that are on their way from a to b. *)
Numbers(messages, a) ==
    FlattenSeq([k \in DOMAIN messages |->
        IF messages[k][1] = a THEN <<messages[k][2]>> ELSE <<>>])

Between(a, b) ==
    Numbers(got[b] \o dropped[b] \o Messages(FromPipe(b) \o Queued(b) \o FromClient(a)), a)

(* What goes up a connection keeps the order of each of the others: of     *)
(* what is there or on its way, nothing of b goes back to b, nothing is    *)
(* doubled or overtakes, and, unless packets may be lost, there is no gap  *)
(* between the first message of a that b gets and the last one a wrote.    *)
(* That there is a first one, and that none of those on their way is       *)
(* dropped again, is NothingIsLost.                                        *)
InOrder ==
    \A b \in Clients : state[b] # "closed" /\ caller # "done" =>
        /\ Numbers(got[b] \o dropped[b] \o Messages(FromPipe(b) \o Queued(b)), b) = <<>>
        /\ \A a \in Senders \ {b} : LET numbers == Between(a, b) IN
              /\ \A k \in 1..Len(numbers) - 1 :
                    IF use_params THEN numbers[k] < numbers[k + 1] ELSE numbers[k] + 1 = numbers[k + 1]
              /\ (pipe_end[b] = "open" /\ state[a] # "closed" /\ numbers # <<>> /\ ~ use_params)
                    => Last(numbers) = wrote[a]

(* The numbers of the messages of a that begin in some units. *)
BegunIn(units, a) == {u[2] : u \in {v \in ToSet(units) : v[1] = a /\ v[3] = 1}}

(* The packets that wait in the queue of a client. *)
WaitingFor(b) == UNION {ToSet(conns[i].output_queue) : i \in SlotOf(b)}

(* The messages of a that b has or the pipe has for b, and those that the  *)
(* pipe has not taken.                                                     *)
Passed(a, b) == {m[2] : m \in {x \in ToSet(got[b] \o dropped[b]) : x[1] = a}}
                    \cup BegunIn(FromPipe(b), a) \cup UNION {BegunIn(w.pbuff, a) : w \in WaitingFor(b)}

Untaken(a) == BegunIn(FromClient(a), a)

(* Whatever comes down one connection goes up all the others.  What the    *)
(* pipe has passed on to b stays, in its queue, in the socket or at the    *)
(* connection, until b is closed or the pipe destroyed; and, unless        *)
(* packets may be lost or do not fit, what is between a and b after a step *)
(* is what was there before it, and the message a has just written: the    *)
(* pipe takes a message of a by sending it up to b, and in no other way.   *)
NothingIsLost ==
    [][\A b \in Clients : pipe_end[b] = "open" /\ state'[b] # "closed" /\ caller' # "done" =>
          \A a \in Senders \ {b} :
              /\ Passed(a, b) \subseteq Passed(a, b)'
              /\ ~ use_params => (Passed(a, b) \cup Untaken(a))'
                                  = Passed(a, b) \cup Untaken(a) \cup wrote[a] + 1..wrote'[a]]_vars

(* A slot with queued packets has its timer set to the deadline of the     *)
(* first: bent_pipe.c starts it for the first packet in the queue, and     *)
(* again in the timer's callback.                                          *)
HeadIsTimed ==
    \A i \in Slots : conns[i].client_fd # None /\ conns[i].output_queue # <<>>
                         => conns[i].timer_event = conns[i].output_queue[1].wait

(* As long as the pipe runs, what a client wrote is taken in, and what is  *)
(* there for a client, queued or written, reaches its connection, unless   *)
(* the connection is closed: the pipe does not run for ever with something *)
(* still on its way.                                                       *)
Settled ==
    \A c \in Clients : state[c] \in {"open", "paused"} =>
        FromClient(c) = <<>> /\ Queued(c) = <<>> /\ FromPipe(c) = <<>>

StreamsDrain == []<>(caller = "started" => Settled \/ killme \/ trap # None)

(* bentpipe_Start and bentpipe_Stop return: the signal they wait for is    *)
(* not missed, so the user is not for ever in one of them.                 *)
Calling == {"starting", "asleep_start", "stopping", "asleep_stop"}

CallsReturn == []<>(caller \in Calling => trap # None)

(* What the process aborts of is its use, never how a message arrives: one *)
(* more client than slots, an end and an error in one event, a connect to  *)
(* a pipe that was destroyed, a second run of the thread that killme ends, *)
(* and a message of MsgLimit bytes or more, which connector_Fwd_Local      *)
(* sends as any other and single_read asserts against when it has its      *)
(* header (bent_pipe.c:565).  However the streams are cut, single_read     *)
(* takes no other bytes for a header, and the length reflect finds is that *)
(* of its packet (bent_pipe.c:564, 660).                                   *)
AbortsHaveCauses ==
    \/ trap = None
    \/ /\ trap = "listener_cb"
       /\ Cardinality({c \in Clients : pipe_end[c] = "open"}) = MaxConn
       /\ \E c \in Clients : pipe_end[c] = "backlog"
    \/ trap = "deallocate_connection" /\ {"EOF", "Error"} \in Reports
    \/ trap = "connector_Fwd_Local_Opener" /\ caller = "done"
    \/ trap = "bentpipe_Stop" /\ MayRestart
    \/ /\ trap = "single_read"
       /\ \E i \in Slots :
              /\ reading = i /\ conns[i].input # <<>>
              /\ LET head == conns[i].input[1] IN head[3] = 1 /\ Body[head[2]] >= MsgLimit

(* No assertion of the pipe or the connector fails and no missing slot is  *)
(* used (bent_pipe.c:467 asserts that what is deallocated was counted).    *)
NoTrap == trap = None

=============================================================================
