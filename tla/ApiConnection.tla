---------------------------- MODULE ApiConnection ----------------------------
(***************************************************************************)
(* Both ends of one connection's socket pair: the Send and Recv of the     *)
(* application's threads (rta_Transport.c), the API connector in the       *)
(* worker thread (connector_Api.c, rta_ApiConnection.c), and what becomes  *)
(* of both when the connection is closed (rta_Framework_Commands.c).       *)
(*                                                                         *)
(* What crosses the socket pair is a pointer to a reference-counted        *)
(* CCNxMetaMessage; the reference crosses with it.  A direction of the     *)
(* pair holds SocketSize pointers, each written and read whole.  The read  *)
(* callback of the API queue runs on what has just been read from the      *)
(* socket and takes all of it, so the queue's input buffer is empty        *)
(* between callbacks and is not a variable.                                *)
(*                                                                         *)
(* The application keeps two rules: nobody sends on a descriptor whose     *)
(* Close was called ("the higher layer should no longer be writing",       *)
(* connector_Api.c), and a Recv that is in progress then may go on.        *)
(***************************************************************************)
EXTENDS Integers, Sequences, SequencesExt, FiniteSets

CONSTANTS
    Senders, Receivers,  \* threads of the application (a thread may be both)
    DownMsgs, UpMsgs,    \* messages of the application, and of the stack
    Control,             \* those that are control messages
    Pauses,              \* the CPI_PAUSE requests among them
    SocketSize,          \* pointers one direction of the socket pair holds
    MayBlock,            \* the forwarder connector may block the down direction
    NoMsg

ASSUME ApiAssumption ==
    /\ DownMsgs \cap UpMsgs = {} /\ NoMsg \notin DownMsgs \cup UpMsgs
    /\ Control \subseteq DownMsgs \cup UpMsgs /\ Pauses \subseteq Control \cap DownMsgs
    /\ SocketSize \in Nat \ {0} /\ MayBlock \in BOOLEAN

Msgs == DownMsgs \cup UpMsgs
Threads == Senders \cup Receivers

VARIABLES
    connState,             \* "OPEN", "PAUSED", "CLOSED" or, when its descriptors are, "freed"
    blocked_down,
    reading,               \* the API queue has its read event enabled
    toTransport, toApi,    \* pointers in the kernel, in each direction
    output,                \* pointers in the output buffer of the API queue
    nonblock,              \* api_fd is non-blocking
    draining,              \* the worker is in rtaFramework_DrainApiDescriptor
    stack,                 \* messages with a TransportMessage in the stack
    pc, msg,               \* what a thread does, and the message it sends
    closeAsked,            \* rtaTransport_Close was called
    refs,                  \* references to a message
    mine,                  \* messages the application has a reference to
    made,                  \* messages that have existed
    accepted, passed,      \* messages Send reported sent, and those put on the stack
    offered, received      \* messages sent up to the API, and those Recv returned

connection == <<connState, blocked_down, reading>>
kernel == <<toTransport, toApi, nonblock>>
call == <<pc, msg>>
logs == <<accepted, passed, offered, received>>
vars == <<connection, kernel, output, draining, stack, call, closeAsked, refs, mine, made, logs>>

(* _rtaTransport_CreateSocketPair *)
SocketPairMade == toTransport = <<>> /\ toApi = <<>> /\ nonblock = FALSE

(* connector_Api_Opener, rtaApiConnection_SetupSocket *)
ConnectionOpened ==
    /\ connState = "OPEN" /\ blocked_down = FALSE /\ reading = TRUE
    /\ output = <<>> /\ draining = FALSE /\ stack = {}

Init ==
    /\ SocketPairMade /\ ConnectionOpened
    /\ pc = [t \in Threads |-> "idle"] /\ msg = [t \in Threads |-> NoMsg]
    /\ closeAsked = FALSE
    /\ refs = [m \in Msgs |-> 0] /\ mine = {} /\ made = {}
    /\ accepted = <<>> /\ passed = <<>> /\ offered = <<>> /\ received = <<>>

-----------------------------------------------------------------------------
(* References *)

(* ccnxMetaMessage_Acquire and ccnxMetaMessage_Release of messages S *)
Acquired(S, counts) == [m \in Msgs |-> IF m \in S THEN counts[m] + 1 ELSE counts[m]]
Release(S, counts)  == [m \in Msgs |-> IF m \in S THEN counts[m] - 1 ELSE counts[m]]

FreeFds == connState = "freed"

Return(t) ==
    /\ pc' = [pc EXCEPT ![t] = "idle"]
    /\ msg' = [msg EXCEPT ![t] = NoMsg]

Goto(t, step) == pc' = [pc EXCEPT ![t] = step] /\ UNCHANGED msg

(* The application makes a message and sends it: Send takes a reference of *)
(* its own before it looks at the descriptor.                              *)
Send(t, m) ==
    /\ pc[t] = "idle" /\ t \in Senders /\ ~ closeAsked /\ m \in DownMsgs \ made
    /\ made' = made \cup {m} /\ mine' = mine \cup {m}
    /\ refs' = [refs EXCEPT ![m] = 2]
    /\ pc' = [pc EXCEPT ![t] = "sendSelect"] /\ msg' = [msg EXCEPT ![t] = m]
    /\ UNCHANGED <<connection, kernel, output, draining, stack, closeAsked, logs>>

(* _rtaTransport_SendSelect: there is room, or the time is up, or an error. *)
SendSelect(t) ==
    /\ pc[t] = "sendSelect" /\ Len(toTransport) < SocketSize /\ ~ FreeFds
    /\ Goto(t, "write")
    /\ UNCHANGED <<connection, kernel, output, draining, stack, closeAsked, refs, mine, made, logs>>

(* No room and the time is up, no room on a non-blocking descriptor, or a   *)
(* closed descriptor                                                       *)
CannotSend(t) ==
    \/ pc[t] \in {"sendSelect", "write"} /\ FreeFds
    \/ /\ pc[t] = "sendSelect" \/ (pc[t] = "write" /\ nonblock)
       /\ Len(toTransport) = SocketSize

(* Send gives up, and gives its reference back.                            *)
(* Mutant: the reference is kept. *)
SendFails_KeepsReference(t) ==
    /\ CannotSend(t)
    /\ Return(t)
    /\ UNCHANGED <<connection, kernel, output, draining, stack, closeAsked, refs, mine, made, logs>>

SendFails(t) ==
    /\ CannotSend(t)
    /\ refs' = Release({msg[t]}, refs)
    /\ Return(t)
    /\ UNCHANGED <<connection, kernel, output, draining, stack, closeAsked, mine, made, logs>>

(* write(2) of the pointer waits for room that another sender has taken    *)
(* since select(2).                                                        *)
SendWrite(t) ==
    /\ pc[t] = "write" /\ Len(toTransport) < SocketSize /\ ~ FreeFds
    /\ toTransport' = Append(toTransport, msg[t])
    /\ accepted' = Append(accepted, msg[t])
    /\ Return(t)
    /\ UNCHANGED <<connection, toApi, nonblock, output, draining, stack, closeAsked, refs,
                   mine, made, passed, offered, received>>

Recv(t) ==
    /\ pc[t] = "idle" /\ t \in Receivers /\ ~ closeAsked
    /\ Goto(t, "recvSelect")
    /\ UNCHANGED <<connection, kernel, output, draining, stack, closeAsked, refs, mine, made, logs>>

RecvSelect(t) ==
    /\ pc[t] = "recvSelect" /\ toApi # <<>> /\ ~ FreeFds
    /\ Goto(t, "read")
    /\ UNCHANGED <<connection, kernel, output, draining, stack, closeAsked, refs, mine, made, logs>>

(* Recv returns without a message: the time is up, or an error.            *)
RecvFails(t) ==
    /\ pc[t] \in {"recvSelect", "read"}
    /\ FreeFds \/ (toApi = <<>> /\ (pc[t] = "recvSelect" \/ nonblock))
    /\ Return(t)
    /\ UNCHANGED <<connection, kernel, output, draining, stack, closeAsked, refs, mine, made, logs>>

(* read(2) takes a pointer, and its reference with it.                     *)
RecvRead(t) ==
    /\ pc[t] = "read" /\ toApi # <<>> /\ ~ FreeFds
    /\ received' = Append(received, Head(toApi)) /\ mine' = mine \cup {Head(toApi)}
    /\ toApi' = Tail(toApi)
    /\ Return(t)
    /\ UNCHANGED <<connection, toTransport, nonblock, output, draining, stack, closeAsked, refs,
                   made, accepted, passed, offered>>

(* The application is done with a message of its own; it may be while the  *)
(* message is sent.  One it has received is its alone, and stays so here.  *)
AppRelease(m) ==
    /\ m \in mine \cap DownMsgs
    /\ mine' = mine \ {m} /\ refs' = Release({m}, refs)
    /\ UNCHANGED <<connection, kernel, output, draining, stack, call, closeAsked, made, logs>>

Close ==
    /\ ~ closeAsked /\ \A t \in Threads : pc[t] \notin {"sendSelect", "write"}
    /\ closeAsked' = TRUE
    /\ UNCHANGED <<connection, kernel, output, draining, stack, call, refs, mine, made, logs>>

-----------------------------------------------------------------------------
(* The API connector *)

InUse == connState \in {"OPEN", "PAUSED"}

(* connector_Api_StateChange *)
StateChange(state, blocked) == reading' = (state = "OPEN" /\ ~ blocked)

Pausing(batch) == \E i \in DOMAIN batch : batch[i] \in Pauses

PauseBefore(batch, i) == \E j \in 1 .. i - 1 : batch[j] \in Pauses

(* A loop over a batch passes on the messages at some places of it. *)
Kept(batch, places) ==
    LET kept[i \in 0 .. Len(batch)] ==
            IF i = 0 THEN <<>>
            ELSE IF i \in places THEN Append(kept[i - 1], batch[i]) ELSE kept[i - 1]
    IN kept[Len(batch)]

(* rtaApiConnection_Downcall_ProcessDictionary: a pause takes effect       *)
(* before the state is looked at; then only control messages are passed.   *)
(* Mutant: the state is looked at once for the batch. *)
Passed_OneLook(batch) ==
    Kept(batch, {i \in DOMAIN batch : batch[i] \in Control \/ connState = "OPEN"})

Passed(batch) ==
    Kept(batch, {i \in DOMAIN batch :
        batch[i] \in Control \/ (connState = "OPEN" /\ ~ PauseBefore(batch, i))})

(* rtaApiConnection_Downcall_Read of the n pointers the queue has read.    *)
(* The stack takes a reference of its own to what is passed; the one that  *)
(* came with the pointer is released.                                      *)
DowncallRead(n) ==
    /\ InUse /\ reading /\ n \in 1 .. Len(toTransport)
    /\ \E batch \in {SubSeq(toTransport, 1, n)} :
        /\ toTransport' = SubSeq(toTransport, n + 1, Len(toTransport))
        /\ passed' = passed \o Passed(batch)
        /\ stack' = stack \cup ToSet(Passed(batch))
        /\ refs' = Release(ToSet(batch), Acquired(ToSet(Passed(batch)), refs))
        /\ connState' = IF Pausing(batch) THEN "PAUSED" ELSE connState
    /\ StateChange(connState', blocked_down)
    /\ UNCHANGED <<blocked_down, toApi, nonblock, output, draining, call, closeAsked, mine, made,
                   accepted, offered, received>>

(* connector_Api_Upcall_Read of a batch: unless the connection is blocked  *)
(* up, which means not open, everything is written to the API queue with a *)
(* reference; then the TransportMessage is destroyed with its own.         *)
Offered(batch) ==
    Kept(batch, {i \in DOMAIN batch : InUse /\ (connState = "OPEN" \/ batch[i] \in Control)})

UpcallRead(batch) ==
    /\ batch # <<>> /\ ToSet(batch) \cap made = {}
    /\ made' = made \cup ToSet(batch)
    /\ output' = output \o Offered(batch)
    /\ offered' = offered \o Offered(batch)
    /\ refs' = Acquired(ToSet(Offered(batch)), refs)
    /\ UNCHANGED <<connection, kernel, draining, stack, call, closeAsked, mine,
                   accepted, passed, received>>

(* A message has come to its end in the stack: its TransportMessage is     *)
(* destroyed.                                                              *)
StackDone(m) ==
    /\ m \in stack
    /\ stack' = stack \ {m} /\ refs' = Release({m}, refs)
    /\ UNCHANGED <<connection, kernel, output, draining, call, closeAsked, mine, made, logs>>

(* The forwarder connector sets or clears blocked_down. *)
BlockDown(blocked) ==
    /\ MayBlock /\ InUse /\ blocked # blocked_down
    /\ blocked_down' = blocked
    /\ StateChange(connState, blocked)
    /\ UNCHANGED <<connState, kernel, output, draining, stack, call, closeAsked, refs, mine,
                   made, logs>>

(* The event queue moves n pointers of its output buffer to the socket.    *)
Flush(n) ==
    /\ n \in 0 .. Len(output) /\ Len(toApi) + n <= SocketSize
    /\ toApi' = toApi \o SubSeq(output, 1, n)

(* rtaApiConnection_DrainApiConnection, parcEventQueue_Destroy: the input   *)
(* buffer is empty, and the output buffer is not drained.                  *)
DrainApiConnection == output' = <<>>

WriteOut(n) ==
    /\ InUse /\ n > 0 /\ Flush(n)
    /\ output' = SubSeq(output, n + 1, Len(output))
    /\ UNCHANGED <<connection, toTransport, nonblock, draining, stack, call, closeAsked, refs,
                   mine, made, logs>>

-----------------------------------------------------------------------------
(* Closing *)

(* connector_Api_Closer, then the beginning of the drain of api_fd: the    *)
(* queue is told to finish writing, which moves some of its output to the  *)
(* socket, and destroyed with the rest; api_fd becomes non-blocking.       *)
(* Mutant: api_fd is drained as it is. *)
CloseConnection_Blocking(n) ==
    /\ closeAsked /\ InUse
    /\ connState' = "CLOSED" /\ StateChange("CLOSED", blocked_down)
    /\ Flush(n)
    /\ DrainApiConnection /\ draining' = TRUE
    /\ UNCHANGED <<blocked_down, toTransport, nonblock, stack, call, closeAsked, refs, mine, made,
                   logs>>

CloseConnection(n) ==
    /\ closeAsked /\ InUse
    /\ connState' = "CLOSED" /\ StateChange("CLOSED", blocked_down)
    /\ Flush(n)
    /\ DrainApiConnection
    /\ nonblock' = TRUE /\ draining' = TRUE
    /\ UNCHANGED <<blocked_down, toTransport, stack, call, closeAsked, refs, mine, made, logs>>

(* rtaFramework_DrainApiDescriptor reads pointers of the up direction, and *)
(* releases them, until there are none.                                    *)
Drain ==
    /\ draining /\ toApi # <<>>
    /\ toApi' = Tail(toApi)
    /\ refs' = Release({Head(toApi)}, refs)
    /\ UNCHANGED <<connection, toTransport, nonblock, output, draining, stack, call, closeAsked,
                   mine, made, logs>>

Drained ==
    /\ draining /\ toApi = <<>> /\ nonblock
    /\ draining' = FALSE
    /\ UNCHANGED <<connection, kernel, output, stack, call, closeAsked, refs, mine, made, logs>>

(* rtaFramework_RemoveConnection, when the last message of the connection  *)
(* is gone from the stack: its own drain finds nothing new, and closing    *)
(* the descriptors throws away what is left in the kernel.                 *)
RemoveConnection ==
    /\ connState = "CLOSED" /\ ~ draining /\ stack = {}
    /\ connState' = "freed" /\ toTransport' = <<>>
    /\ UNCHANGED <<blocked_down, reading, toApi, nonblock, output, draining, stack, call,
                   closeAsked, refs, mine, made, logs>>

-----------------------------------------------------------------------------
Thread(t) == SendSelect(t) \/ SendFails(t) \/ SendWrite(t) \/ RecvSelect(t) \/ RecvFails(t) \/ RecvRead(t)

(* The batches the stack may send up *)
UpBatches == UNION {SetToSeqs(S) : S \in {T \in SUBSET (UpMsgs \ made) : IsFiniteSet(T)}}

Worker ==
    \/ \E n \in 1 .. SocketSize : DowncallRead(n) \/ WriteOut(n)
    \/ \E n \in 0 .. SocketSize : CloseConnection(n)
    \/ Drain \/ Drained \/ RemoveConnection
    \/ \E m \in Msgs : StackDone(m)

Next ==
    \/ \E t \in Threads : Thread(t) \/ Recv(t) \/ \E m \in DownMsgs : Send(t, m)
    \/ \E m \in Msgs : AppRelease(m)
    \/ Close
    \/ Worker
    \/ \E batch \in UpBatches : UpcallRead(batch)
    \/ \E blocked \in BOOLEAN : BlockDown(blocked)

Spec == Init /\ [][Next]_vars

(* The worker serves its events as long as there are any, and some thread  *)
(* whose call can go on does; messages and calls being finite, that is     *)
(* enough for each to have its turn once a close is asked for.             *)
Fairness == WF_vars(Worker) /\ WF_vars(\E t \in Threads : Thread(t))

FairSpec == Spec /\ Fairness
-----------------------------------------------------------------------------
(* Properties *)

TypeOK ==
    /\ connState \in {"OPEN", "PAUSED", "CLOSED", "freed"}
    /\ {blocked_down, reading, nonblock, draining, closeAsked} \subseteq BOOLEAN
    /\ toTransport \in Seq(DownMsgs) /\ Len(toTransport) <= SocketSize
    /\ toApi \in Seq(UpMsgs) /\ Len(toApi) <= SocketSize
    /\ output \in Seq(UpMsgs) /\ stack \subseteq DownMsgs
    /\ pc \in [Threads -> {"idle", "sendSelect", "write", "recvSelect", "read"}]
    /\ msg \in [Threads -> DownMsgs \cup {NoMsg}]
    /\ refs \in [Msgs -> Nat] /\ mine \subseteq made /\ made \subseteq Msgs
    /\ accepted \in Seq(DownMsgs) /\ passed \in Seq(DownMsgs)
    /\ offered \in Seq(UpMsgs) /\ received \in Seq(UpMsgs)

In(S, m) == IF m \in S THEN 1 ELSE 0

Holders(m) ==
    In(mine, m) + In(stack, m) + Cardinality({t \in Threads : msg[t] = m})
      + In(ToSet(toTransport), m) + In(ToSet(toApi), m) + In(ToSet(output), m)

(* Every pointer in a socket, a buffer, a call or the stack has a          *)
(* reference of its own: nobody reads a message that was freed, whichever  *)
(* of the application, a failing Send, the connector, the stack and the    *)
(* drain lets go first.  While the connection is in use the converse holds *)
(* too: the references are exactly those.                                  *)
PointersAreAlive ==
    \A m \in Msgs : /\ refs[m] >= Holders(m)
                    /\ InUse => refs[m] = Holders(m)

(* The messages of a sequence that go down, whatever batches they are read *)
(* in: control messages, and others with no pause before them.             *)
GoDown(s) == Kept(s, {i \in DOMAIN s : s[i] \in Control \/ ~ PauseBefore(s, i)})

(* s holds some elements of t, each once and in their order. *)
InOrderOf(s, t) ==
    /\ ToSet(s) \subseteq ToSet(t)
    /\ \A i, j \in DOMAIN s, k, l \in DOMAIN t :
          i < j /\ s[i] = t[k] /\ s[j] = t[l] => k < l

(* What several threads send is put on the stack once each, in the order   *)
(* of their writes; a message is dropped if and only if it is no control   *)
(* message and a pause was sent before it, however the worker's reads cut  *)
(* the stream.  What the stack offers is received once, in order; a Recv   *)
(* that races with the drain may miss some of it but not change the order. *)
OrderKept ==
    /\ InUse => passed = GoDown(SubSeq(accepted, 1, Len(accepted) - Len(toTransport)))
    /\ InUse => offered = received \o toApi \o output
    /\ InOrderOf(received, offered)

(* A Recv whose select found a message does not wait in read(2), although  *)
(* the worker may have drained the descriptor in between.                  *)
RecvDoesNotWait ==
    \A t \in Threads : pc[t] = "read" => toApi # <<>> \/ nonblock \/ FreeFds

(* A close gives the descriptors back and brings home every thread that    *)
(* waits in Recv.                                                          *)
CloseEnds ==
    closeAsked ~> connState = "freed" /\ \A t \in Threads : pc[t] = "idle"

(* When the descriptors are closed, nobody but the application refers to a *)
(* message any more.                                                       *)
NothingLeaks ==
    FreeFds => \A m \in Msgs : refs[m] = In(mine, m)

=============================================================================
