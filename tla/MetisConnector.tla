---------------------------- MODULE MetisConnector ----------------------------
(***************************************************************************)
(* One connection of the Metis connector (connector_Forwarder_Metis.c): a  *)
(* non-blocking stream socket to the forwarder with a read and a write     *)
(* event, the framing of what is read, the deque of messages going up, the *)
(* buffer of bytes going down and the blocking of the down direction.      *)
(*                                                                         *)
(* Bytes are units; a packet of the forwarder is a record of its length in *)
(* units, header included, and of its kind: one of another version is      *)
(* "alien", and any other decodes.  The events are edge triggered: the     *)
(* library certainly reports what the kernel has news of, and may report   *)
(* again what is still there.  All steps but the Network's are of the      *)
(* worker thread; "busy" names the callback that is not finished.  A       *)
(* failed assertion or a trap aborts the process.                          *)
(***************************************************************************)
EXTENDS Integers, Sequences, FiniteSets

CONSTANTS
    Stream,        \* the packets the forwarder sends
    HeaderSize,    \* MINIMUM_READ_LENGTH
    DequeMax,      \* METIS_INPUT_QUEUE_MESSAGES
    DequeueMax,    \* messages connector_Fwd_Metis_Dequeue moves per call
    OutMax,        \* METIS_OUTPUT_QUEUE_BYTES
    SendBuffer,    \* METIS_SEND_SOCKET_BUFFER
    MsgSize,       \* units of a message going down
    ErrorEvents,   \* what the library may report for a refused connect
    MaxDown,       \* bound: messages from above
    MayPause, MayFail  \* CPI_PAUSE; the forwarder refuses or closes

ASSUME MetisAssumption ==
    /\ HeaderSize \in Nat \ {0}
    /\ Stream \in Seq([length : Nat, kind : {"data", "control", "alien"}])
    /\ \A k \in DOMAIN Stream : Stream[k].length > HeaderSize
    /\ {DequeMax, DequeueMax, SendBuffer, MsgSize} \subseteq Nat \ {0}
    /\ OutMax \in Nat /\ MaxDown \in Nat
    /\ ErrorEvents \subseteq SUBSET {"Read", "Write"}
    /\ MayPause \in BOOLEAN /\ MayFail \in BOOLEAN

VARIABLES
    kernel,        \* the socket: "none", "connecting", "up", "refused", "closed"
                   \* by the forwarder, "error" once SO_ERROR was read, "released"
    avail,         \* units of the stream that have arrived
    room,          \* units the kernel takes before it would block
    edge,          \* the read event has news
    isConnected, readEvent, writeEvent,
    pos,           \* units of the stream read
    nextMessage,   \* units of the header, and of the body, still to be read
    busy,          \* "no", or the callback in progress: "read", "down"
    received,      \* packets read whole
    deque, timer,  \* transportMessageQueue and its event
    up, dropped,   \* packets put on the up queue, packets thrown away
    downq, sent,   \* messages on the connector's input queue; all of them so far
    outq,          \* units in metisOutputQueue
    blocked_down, paused,  \* of the connection
    notice,        \* the last status message sent up
    trap           \* "none" or the function that gave up

network == <<kernel, avail, room>>
events  == <<edge, isConnected, readEvent, writeEvent>>
reader  == <<pos, nextMessage, received>>
upward  == <<deque, timer, up, dropped>>
conn    == <<blocked_down, paused, notice>>
vars == <<network, events, reader, busy, upward, downq, sent, outq, conn, trap>>

-----------------------------------------------------------------------------
(* The stream *)

(* Where the packets of the stream end. *)
Ends[k \in 0..Len(Stream)] == IF k = 0 THEN 0 ELSE Ends[k - 1] + Stream[k].length

Starting(at) == {k \in DOMAIN Stream : Ends[k - 1] = at}

NoPacket == -1

initialNextMessage == [remaining |-> HeaderSize, body |-> NoPacket]

SmallerOf(a, b) == IF a < b THEN a ELSE b

BlockedUp   == paused
BlockedDown == paused \/ blocked_down

Calm == trap = "none" /\ busy = "no"

-----------------------------------------------------------------------------
(* Events *)

(* connector_Fwd_Metis_StateChange: the read event follows BlockedUp. *)
StateChange(connected) ==
    /\ readEvent' = (~ BlockedUp /\ (readEvent \/ connected))
    /\ edge' = (edge \/ (readEvent' /\ ~ readEvent))

(* parcEventBuffer_WriteToFileDescriptor takes what the kernel has room    *)
(* for; it returns -1 for any error, and would-block is one.               *)
Written(amount) ==
    CASE kernel = "up"     -> {IF room = 0 THEN -1 ELSE SmallerOf(room, amount)}
      [] kernel = "closed" -> {-1} \cup (IF room = 0 THEN {} ELSE {SmallerOf(room, amount)})
      [] OTHER             -> {-1}

(* Mutant: the write event is stopped whatever is left. *)
dequeueMessagesToMetis_NoWait(amount) ==
    \/ /\ amount = 0
       /\ outq' = amount /\ UNCHANGED <<room, writeEvent, trap>>
    \/ \E n \in IF amount = 0 THEN {} ELSE Written(amount) :
          /\ trap' = IF n < 0 THEN "_dequeueMessagesToMetis" ELSE "none"
          /\ outq' = IF n < 0 THEN amount ELSE amount - n
          /\ room' = IF n < 0 THEN room ELSE room - n
          /\ writeEvent' = FALSE

dequeueMessagesToMetis(amount) ==
    \/ /\ amount = 0
       /\ outq' = amount /\ UNCHANGED <<room, writeEvent, trap>>
    \/ \E n \in IF amount = 0 THEN {} ELSE Written(amount) :
          /\ trap' = IF n < 0 THEN "_dequeueMessagesToMetis" ELSE "none"
          /\ outq' = IF n < 0 THEN amount ELSE amount - n
          /\ room' = IF n < 0 THEN room ELSE room - n
          /\ writeEvent' = (n < 0 \/ amount > n)

(* _connectionSucceeded *)
connectionSucceeded ==
    /\ isConnected' = TRUE /\ readEvent' = TRUE /\ edge' = TRUE
    /\ notice' = "CONNECTION_OPEN"

(* The read event is not started before the socket is connected. *)
setupSocketEvents == writeEvent' = TRUE

(* A connect may succeed at once. *)
BeginConnect ==
    \/ kernel' = "up" /\ connectionSucceeded
    \/ kernel' = "connecting" /\ UNCHANGED <<edge, isConnected, readEvent, notice>>

(* rtaProtocolStack_Open aborts when a component fails to open: the socket *)
(* was not made or not set up, or connecting was a hard error.             *)
OpenFails ==
    /\ MayFail /\ trap' = "connector_Fwd_Metis_Opener"
    /\ UNCHANGED <<kernel, events, notice>>

Opener ==
    /\ trap = "none" /\ kernel = "none"
    /\ \/ setupSocketEvents /\ BeginConnect /\ UNCHANGED trap
       \/ OpenFails
    /\ UNCHANGED <<avail, room, reader, busy, upward, downq, sent, outq, blocked_down, paused>>

(* The write event of a socket not yet connected.  Reading SO_ERROR clears *)
(* it, so a refusal reported as Read and Write is an error first and a     *)
(* success next; reported as Write alone it is neither.                    *)
EventRefused(what) ==
    /\ Calm /\ kernel = "refused" /\ writeEvent /\ ~ isConnected
    /\ what \in ErrorEvents
    /\ kernel' = "error"
    /\ \/ /\ "Read" \notin what
          /\ UNCHANGED <<events, busy, blocked_down, notice>>
       \/ /\ what = {"Read"}
          /\ readEvent' = FALSE /\ writeEvent' = FALSE /\ blocked_down' = TRUE
          /\ notice' = "FORWARDER_NOT_AVAILABLE"
          /\ UNCHANGED <<edge, isConnected, busy>>
       \/ /\ what = {"Read", "Write"}
          /\ writeEvent' = FALSE /\ blocked_down' = TRUE
          /\ connectionSucceeded /\ busy' = "read"
    /\ UNCHANGED <<avail, room, reader, upward, downq, sent, outq, paused, trap>>

(* _disconnectedEventHandler for a socket without an error, then           *)
(* _connectedEventHandler.                                                 *)
EventConnected ==
    /\ Calm /\ kernel \in {"up", "closed"} /\ writeEvent /\ ~ isConnected
    /\ connectionSucceeded
    /\ dequeueMessagesToMetis(outq)
    /\ UNCHANGED <<kernel, avail, reader, busy, upward, downq, sent, blocked_down, paused>>

EventWrite ==
    /\ Calm /\ isConnected /\ writeEvent
    /\ (kernel = "up" /\ room > 0) \/ kernel = "closed"
    /\ dequeueMessagesToMetis(outq)
    /\ UNCHANGED <<kernel, avail, edge, isConnected, readEvent, reader, busy, upward,
                   downq, sent, conn>>

EventRead ==
    /\ Calm /\ isConnected /\ readEvent
    /\ avail > pos \/ kernel = "closed"
    /\ busy' = "read" /\ edge' = FALSE
    /\ UNCHANGED <<network, isConnected, readEvent, writeEvent, reader, upward, downq, sent,
                   outq, conn, trap>>

-----------------------------------------------------------------------------
(* Reading from the forwarder: the loop of _readFromMetis *)

(* What recv returns; 0 means closed, or would-block on an open socket. *)
Recv(length) == SmallerOf(avail - pos, length)

(* recv returned "would block" or part of what was asked for. *)
PartialRead(n, length) == n < length /\ (n > 0 \/ kernel = "up")

(* Closed and Error end the same way. *)
Disconnect ==
    /\ isConnected' = FALSE /\ readEvent' = FALSE /\ writeEvent' = FALSE
    /\ notice' = "CONNECTION_CLOSED" /\ busy' = "no"
    /\ UNCHANGED <<edge, reader, upward, trap>>

Reading ==
    /\ trap = "none" /\ busy = "read"
    /\ UNCHANGED <<network, downq, sent, outq, blocked_down, paused>>

Header == Recv(nextMessage.remaining)

(* The whole header: _setupNextPacket accepts only packets of version 1. *)
HeaderRead ==
    /\ Header = nextMessage.remaining
    /\ \E k \in Starting(pos + Header - HeaderSize) :
          \/ /\ Stream[k].kind # "alien"
             /\ nextMessage' = [remaining |-> 0, body |-> Stream[k].length - HeaderSize]
             /\ pos' = pos + Header
             /\ UNCHANGED <<events, received, busy, upward, notice, trap>>
          \/ /\ Stream[k].kind = "alien"
             /\ trap' = "_setupNextPacket"
             /\ UNCHANGED <<events, reader, busy, upward, notice>>

(* Mutant: the next part of a header is read as if it were the whole. *)
readPacketHeader_Restarts ==
    /\ Reading /\ nextMessage.remaining > 0
    /\ \/ HeaderRead
       \/ /\ PartialRead(Header, nextMessage.remaining)
          /\ pos' = pos + Header /\ busy' = "no"
          /\ UNCHANGED <<events, nextMessage, received, upward, notice, trap>>
       \/ Header = 0 /\ kernel # "up" /\ Disconnect

readPacketHeader ==
    /\ Reading /\ nextMessage.remaining > 0
    /\ \/ HeaderRead
       \/ /\ PartialRead(Header, nextMessage.remaining)
          /\ pos' = pos + Header /\ busy' = "no"
          /\ nextMessage' = [nextMessage EXCEPT !.remaining = @ - Header]
          /\ UNCHANGED <<events, received, upward, notice, trap>>
       \/ Header = 0 /\ kernel # "up" /\ Disconnect

(* A packet goes up: control at once, the rest by way of the deque unless  *)
(* the connection is blocked or the deque is full.                         *)
(* Mutant: the timer is started when the deque is full. *)
SendUpStack_AtFull(k) ==
    \/ /\ Stream[k].kind = "control"
       /\ up' = Append(up, k) /\ UNCHANGED <<deque, timer, dropped>>
    \/ /\ Stream[k].kind = "data" /\ ~ BlockedUp /\ (Len(deque) < DequeMax)
       /\ deque' = Append(deque, k) /\ timer' = (timer \/ Len(deque') = DequeMax)
       /\ UNCHANGED <<up, dropped>>
    \/ /\ Stream[k].kind = "data" /\ (BlockedUp \/ ~ (Len(deque) < DequeMax))
       /\ dropped' = dropped \cup {k} /\ UNCHANGED <<deque, timer, up>>

SendUpStack(k) ==
    \/ /\ Stream[k].kind = "control"
       /\ up' = Append(up, k) /\ UNCHANGED <<deque, timer, dropped>>
    \/ /\ Stream[k].kind = "data" /\ ~ BlockedUp /\ (Len(deque) < DequeMax)
       /\ deque' = Append(deque, k) /\ timer' = (timer \/ Len(deque') = 1)
       /\ UNCHANGED <<up, dropped>>
    \/ /\ Stream[k].kind = "data" /\ (BlockedUp \/ ~ (Len(deque) < DequeMax))
       /\ dropped' = dropped \cup {k} /\ UNCHANGED <<deque, timer, up>>

readPacketBody ==
    LET n == Recv(nextMessage.body)
    IN /\ Reading /\ nextMessage.remaining = 0
       /\ \/ /\ n = nextMessage.body
             /\ pos' = pos + n
             /\ received' = received + 1 /\ nextMessage' = initialNextMessage
             /\ SendUpStack(received')
             /\ UNCHANGED <<events, busy, notice, trap>>
          \/ /\ PartialRead(n, nextMessage.body)
             /\ pos' = pos + n /\ busy' = "no"
             /\ nextMessage' = [nextMessage EXCEPT !.body = @ - n]
             /\ UNCHANGED <<events, received, upward, notice, trap>>
          \/ /\ n = 0 /\ kernel # "up" /\ Disconnect

(* The timer of the deque. *)
(* Mutant: the newest message goes first. *)
Dequeue_Newest ==
    LET n == SmallerOf(DequeueMax, Len(deque))
        keep == Len(deque) - n
    IN /\ Calm /\ timer
       /\ up' = up \o SubSeq(deque, keep + 1, Len(deque))
       /\ deque' = SubSeq(deque, 1, keep)
       /\ timer' = (deque' # <<>>)
       /\ UNCHANGED <<network, events, reader, busy, dropped, downq, sent, outq, conn, trap>>

Dequeue ==
    LET n == SmallerOf(DequeueMax, Len(deque))
    IN /\ Calm /\ timer
       /\ up' = up \o SubSeq(deque, 1, n)
       /\ deque' = SubSeq(deque, n + 1, Len(deque))
       /\ timer' = (deque' # <<>>)
       /\ UNCHANGED <<network, events, reader, busy, dropped, downq, sent, outq, conn, trap>>

-----------------------------------------------------------------------------
(* The down direction *)

(* _updateBlockedDownState looks at the bytes of earlier messages. *)
updateBlockedDownState ==
    IF (outq > OutMax) = BlockedDown THEN UNCHANGED <<blocked_down, readEvent, edge>>
    ELSE blocked_down' = (outq > OutMax) /\ StateChange(isConnected)

(* What a message adds to the output buffer. *)
queueMessageToMetis == outq + MsgSize

(* connector_Fwd_Metis_Downcall_Read empties its queue.  A request that is *)
(* acknowledged has no further effect; a message without a wire format is  *)
(* dropped, and so is any on a socket that is not connected, but what is   *)
(* left of earlier ones is written.                                        *)
DowncallRead ==
    /\ trap = "none" /\ busy \in {"no", "down"} /\ downq > 0
    /\ downq' = downq - 1 /\ busy' = IF downq = 1 THEN "no" ELSE "down"
    /\ \/ UNCHANGED <<events, blocked_down, outq, room, trap>>
       \/ /\ isConnected
          /\ updateBlockedDownState
          /\ \E amount \in {outq, queueMessageToMetis} : dequeueMessagesToMetis(amount)
          /\ UNCHANGED isConnected
       \/ /\ ~ isConnected
          /\ dequeueMessagesToMetis(outq)
          /\ UNCHANGED <<edge, isConnected, readEvent, blocked_down>>
    /\ UNCHANGED <<kernel, avail, reader, upward, sent, paused, notice>>

(* The components above: messages come as long as down is not blocked. *)
PutMessages(n) ==
    /\ Calm /\ kernel \notin {"none", "released"} /\ ~ BlockedDown
    /\ sent + n <= MaxDown
    /\ sent' = sent + n /\ downq' = downq + n
    /\ UNCHANGED <<network, events, reader, busy, upward, outq, conn, trap>>

(* CPI_PAUSE, seen first by the API connector. *)
Pause ==
    /\ Calm /\ MayPause /\ kernel \notin {"none", "released"} /\ ~ BlockedDown
    /\ paused' = TRUE
    /\ readEvent' = FALSE
    /\ UNCHANGED <<network, edge, isConnected, writeEvent, reader, busy, upward, downq, sent,
                   outq, blocked_down, notice, trap>>

(* connector_Fwd_Metis_Closer *)
Closer ==
    /\ Calm /\ kernel \notin {"none", "released"}
    /\ kernel' = "released"
    /\ isConnected' = FALSE /\ readEvent' = FALSE /\ writeEvent' = FALSE
    /\ deque' = <<>> /\ timer' = FALSE /\ nextMessage' = initialNextMessage
    /\ outq' = 0 /\ downq' = 0
    /\ UNCHANGED <<avail, room, edge, pos, busy, received, up, dropped, sent, conn, trap>>

-----------------------------------------------------------------------------
(* The network and the forwarder *)

Network == trap = "none" /\ UNCHANGED <<isConnected, readEvent, writeEvent, reader, busy,
                                        upward, downq, sent, outq, conn, trap>>

Connect ==
    /\ kernel = "connecting"
    /\ kernel' \in IF MayFail THEN {"up", "refused"} ELSE {"up"}
    /\ Network /\ UNCHANGED <<avail, room, edge>>

Arrive ==
    /\ kernel = "up" /\ avail < Ends[Len(Stream)]
    /\ avail' = avail + 1 /\ edge' = TRUE
    /\ Network /\ UNCHANGED <<kernel, room>>

Drain ==
    /\ kernel = "up" /\ room < SendBuffer
    /\ room' = room + 1
    /\ Network /\ UNCHANGED <<kernel, avail, edge>>

RemoteClose ==
    /\ MayFail /\ kernel = "up"
    /\ kernel' = "closed" /\ edge' = TRUE
    /\ Network /\ UNCHANGED <<avail, room>>

Init ==
    /\ kernel = "none" /\ avail = 0 /\ room = SendBuffer /\ edge = FALSE
    /\ isConnected = FALSE /\ readEvent = FALSE /\ writeEvent = FALSE
    /\ pos = 0 /\ nextMessage = initialNextMessage /\ busy = "no" /\ received = 0
    /\ deque = <<>> /\ timer = FALSE /\ up = <<>> /\ dropped = {}
    /\ downq = 0 /\ sent = 0 /\ outq = 0
    /\ blocked_down = FALSE /\ paused = FALSE /\ notice = "none" /\ trap = "none"

Worker ==
    \/ EventConnected \/ EventWrite \/ EventRead
    \/ readPacketHeader \/ readPacketBody \/ Dequeue \/ DowncallRead

Next ==
    \/ Opener \/ Worker \/ Pause \/ Closer
    \/ \E what \in ErrorEvents : EventRefused(what)
    \/ \E n \in 1..MaxDown : PutMessages(n)
    \/ Connect \/ Arrive \/ Drain \/ RemoteClose

Spec == Init /\ [][Next]_vars

(* The event loop reports what is new, finishes every callback, and runs   *)
(* the timer; the forwarder keeps reading.                                 *)
Fairness ==
    /\ WF_vars(EventConnected) /\ WF_vars(EventWrite) /\ WF_vars(edge /\ EventRead)
    /\ WF_vars(readPacketHeader) /\ WF_vars(readPacketBody) /\ WF_vars(Dequeue)
    /\ WF_vars(DowncallRead) /\ WF_vars(Drain)

FairSpec == Spec /\ Fairness
-----------------------------------------------------------------------------
(* Properties *)

TypeOK ==
    /\ kernel \in {"none", "connecting", "up", "refused", "error", "closed", "released"}
    /\ avail \in 0..Ends[Len(Stream)] /\ pos \in 0..avail /\ room \in 0..SendBuffer
    /\ {edge, isConnected, readEvent, writeEvent, timer, blocked_down, paused} \subseteq BOOLEAN
    /\ nextMessage \in [remaining : 0..HeaderSize, body : Nat \cup {NoPacket}]
    /\ busy \in {"no", "read", "down"} /\ received \in 0..Len(Stream)
    /\ deque \in Seq(DOMAIN Stream) /\ Len(deque) <= DequeMax
    /\ up \in Seq(DOMAIN Stream) /\ dropped \subseteq DOMAIN Stream
    /\ downq \in Nat /\ sent \in 0..MaxDown /\ outq \in Nat
    /\ notice \in {"none", "CONNECTION_OPEN", "FORWARDER_NOT_AVAILABLE", "CONNECTION_CLOSED"}
    /\ trap \in {"none", "connector_Fwd_Metis_Opener", "_setupNextPacket",
                 "_dequeueMessagesToMetis"}

Consumed ==
    IF nextMessage.remaining > 0 THEN HeaderSize - nextMessage.remaining
    ELSE Stream[received + 1].length - nextMessage.body

(* Wherever the reads cut the stream, the reader stands inside the packet  *)
(* after the last one it passed on, and knows how much of it is missing.   *)
FramingIsKept ==
    kernel # "released" =>
        /\ pos = Ends[received] + Consumed
        /\ nextMessage.body # NoPacket <=> nextMessage.remaining = 0
    
(* Every packet read is passed up, waits in the deque or was dropped, once; *)
(* data packets keep their order, and only control packets overtake them.  *)
NothingLostOrReordered ==
    LET line == up \o deque
        IsData(i) == Stream[line[i]].kind = "data"
    IN /\ \A i, j \in DOMAIN line : i < j /\ IsData(i) /\ IsData(j) => line[i] < line[j]
       /\ kernel # "released" =>
             /\ {line[i] : i \in DOMAIN line} \cup dropped = 1..received
             /\ Len(line) + Cardinality(dropped) = received

(* A packet that has arrived in full goes up or is dropped while the       *)
(* connection lasts and is not paused.                                     *)
PacketsGoUp ==
    \A k \in DOMAIN Stream :
        avail >= Ends[k] ~> \/ \E i \in DOMAIN up : up[i] = k
                            \/ k \in dropped \/ paused
                            \/ kernel # "up" \/ trap # "none"

(* A forwarder that keeps reading gets all that was written to it. *)
OutputDrains == (outq > 0) ~> (outq = 0 \/ ~ isConnected \/ trap # "none")

(* Once its backlog is below the limit the forwarder connector unblocks    *)
(* the down direction it blocked.                                          *)
BlockingEnds == blocked_down ~> (~ blocked_down \/ ~ isConnected \/ trap # "none")

(* The read event also reports that the forwarder has closed. *)
CloseIsNoticed == (kernel = "closed" /\ isConnected) ~> (~ isConnected \/ paused \/ trap # "none")

(* A refused connect is reported to the application as such. *)
RefusalIsReported == kernel = "error" /\ busy = "no" => notice = "FORWARDER_NOT_AVAILABLE"

(* A write the socket has no room for waits for the write event. *)
FullSocketIsWaitedFor == kernel = "up" => trap # "_dequeueMessagesToMetis"
=============================================================================
