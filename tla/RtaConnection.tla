---------------------------- MODULE RtaConnection ----------------------------
(***************************************************************************)
(* The life of connections in the worker thread of the RTA framework: the  *)
(* commands that create and destroy protocol stacks and open and close     *)
(* connections (rta_Framework_Commands.c), the connection table, the       *)
(* reference counts and queue counts of rta_Connection.c, the queues       *)
(* between the components (rta_Component.c, rta_ProtocolStack.c), and what *)
(* the components of a stack API / FC_VEGAS / CODEC_TLV / forwarder do     *)
(* with the transport messages they read, hold, pass on or destroy.        *)
(*                                                                         *)
(* A callback reads its whole input queue, so a queue is the set of the    *)
(* messages whose place it is; no property depends on their order.  What a *)
(* component decides from the contents of a message (control or not, in    *)
(* order or not) is a choice.  The blocked_up flag is left out: nothing    *)
(* ever sets it.                                                           *)
(***************************************************************************)
EXTENDS Integers, FiniteSets

CONSTANTS
    Stacks,        \* stack ids
    Conns,         \* connections, opened at most once each
    Fds,           \* pairs of descriptors (api_fd, transport_fd)
    Msgs,          \* TransportMessages that may exist at a time
    NoStack, NoConn, NoFd,
    DequeueMax,    \* messages connector_Fwd_Metis_Dequeue moves per call
    MayBlock,      \* the forwarder connector may block the down direction
    DecodeFails    \* a packet from the forwarder may fail to decode

ASSUME ConnectionAssumption ==
    /\ NoStack \notin Stacks /\ NoConn \notin Conns /\ NoFd \notin Fds
    /\ IsFiniteSet(Msgs)
    /\ DequeueMax \in Nat \ {0}
    /\ MayBlock \in BOOLEAN /\ DecodeFails \in BOOLEAN

(* The queues between the components, named after the component that puts. *)
Queues == {"apiDown", "fcDown", "codecDown", "fwdUp", "codecUp", "fcUp"}

(* "window" is the flow-control window, "deque" the Metis connector's input *)
(* queue; a message that is "lost" is referenced by nobody any more.       *)
Places == Queues \cup {"none", "window", "deque", "lost"}

VARIABLES
    stack,               \* per stack id: "none", "up" or "gone"
    running,             \* the event scheduler has not been stopped
    connState,           \* "none", "OPEN", "PAUSED", "CLOSED" or "freed"
    stackOf, fd,         \* a connection's stack and descriptor pair
    refcount, messages_in_queue, blocked_down,
    table,               \* connections in the connection table
    api,                 \* connections with an RtaApiConnection
    reading,             \* those whose api socket has its read event enabled
    fc,                  \* connections with a VegasConnectionState
    place, owner,        \* where a message is and the connection it refers to
    open_fds             \* descriptor pairs that are open in the process

counts == <<refcount, messages_in_queue>>
wiring == <<table, api, fc>>
vars == <<stack, running, connState, stackOf, fd, counts, blocked_down, wiring,
          reading, place, owner, open_fds>>

-----------------------------------------------------------------------------
(* Connections *)

Allocated(c)   == connState[c] \in {"OPEN", "PAUSED", "CLOSED"}
NotClosed(c)   == connState[c] \in {"OPEN", "PAUSED"}
BlockedUp(c)   == connState[c] # "OPEN"
BlockedDown(c) == connState[c] # "OPEN" \/ blocked_down[c]

Fresh == {m \in Msgs : place[m] = "none"}

Queue(s, q) == {m \in Msgs : place[m] = q /\ stackOf[owner[m]] = s}

(* The messages components hold for connections C in the places P. *)
(* Mutant: only what flow control holds. *)
HeldFor_NoDeque(C, P) == {m \in Msgs : owner[m] \in C /\ place[m] \in P \ {"deque"}}

HeldFor(C, P) == {m \in Msgs : owner[m] \in C /\ place[m] \in P}

OwnersOf(got) == {c \in Conns : NotClosed(c) /\ \E m \in got : owner[m] = c}

(* rtaConnection_Destroy of the last reference frees the connection, and   *)
(* rtaFramework_RemoveConnection closes its descriptors.                   *)
Freed(state, refs) ==
    [c \in Conns |-> IF refs[c] = 0 /\ state[c] \in {"OPEN", "PAUSED", "CLOSED"}
                     THEN "freed" ELSE state[c]]

(* Mutant: the descriptors are closed as soon as the connection is. *)
Released_AtClose ==
    {fd[c] : c \in {d \in Conns : ~ connState'[d] \in {"OPEN", "PAUSED"} /\ NotClosed(d)}}

Released ==
    {fd[c] : c \in {d \in Conns : connState'[d] = "freed" /\ connState[d] # "freed"}}

Of(S, own, c) == Cardinality({m \in S : own[m] = c})

(* rtaConnection_Copy for each message made, rtaConnection_Destroy for     *)
(* each message destroyed.                                                 *)
(* Mutant: a message refers to its connection without a reference. *)
RefsAfter_NoCopy(refs, made, gone, own) ==
    [c \in Conns |-> refs[c] - Of(gone, own, c)]

RefsAfter(refs, made, gone, own) ==
    [c \in Conns |-> refs[c] + Of(made, own, c) - Of(gone, own, c)]

(* rtaConnection_IncrementMessagesInQueue for each message put in a queue, *)
(* rtaConnection_DecrementMessagesInQueue for each one taken from it.      *)
(* Mutant: no decrement for the messages of closed connections. *)
QueuedAfter_OpenOnly(put, taken, own) ==
    [c \in Conns |-> messages_in_queue[c] + Of(put, own, c)
                       - (IF NotClosed(c) THEN Of(taken, own, c) ELSE 0)]

QueuedAfter(put, taken, own) ==
    [c \in Conns |-> messages_in_queue[c] + Of(put, own, c) - Of(taken, own, c)]

(* What a callback or command does to the messages: "made" gives the       *)
(* connection of each new message, "to" the place every message it touches *)
(* ends up in, where a queue means rtaComponent_PutMessage and "none"      *)
(* means transportMessage_Destroy; leaving a queue is                      *)
(* rtaComponent_GetMessage.  "refs" and "state" are the reference counts   *)
(* and states but for those messages.                                      *)
Account(to, made, refs, state) ==
    LET own   == [m \in Msgs |-> IF m \in DOMAIN made THEN made[m] ELSE owner[m]]
        taken == {m \in DOMAIN to : place[m] \in Queues}
        put   == {m \in DOMAIN to : to[m] \in Queues}
        gone  == {m \in DOMAIN to : to[m] = "none"}
    IN /\ place' = [m \in Msgs |-> IF m \in DOMAIN to THEN to[m] ELSE place[m]]
       /\ owner' = [m \in Msgs |-> IF m \in gone THEN NoConn ELSE own[m]]
       /\ messages_in_queue' = QueuedAfter(put, taken, own)
       /\ refcount' = RefsAfter(refs, DOMAIN made, gone, own)
       /\ connState' = Freed(state, refcount')

(* A callback changes only messages, unless it changes the state too. *)
Traffic(to, made, state) ==
    /\ Account(to, made, refcount, state)
    /\ open_fds' = open_fds \ Released
    /\ UNCHANGED <<stack, running, stackOf, fd, wiring>>

NoneMade == [m \in {} |-> NoConn]

(* The fates of a batch read from a queue, to places in P: destroyed by    *)
(* rtaComponent_GetMessage if the connection is closed.                    *)
(* Mutant: messages of closed connections are processed like the others. *)
Fates_NoDrop(got, P) == [got -> P]

Fates(got, P) ==
    {to \in [got -> P \cup {"none"}] :
        \A m \in got : IF NotClosed(owner[m]) THEN to[m] \in P ELSE to[m] = "none"}

(* rtaProtocolStack_ConnectionStateChange: the API connector reads from    *)
(* its socket unless the down direction is blocked.                        *)
(* Mutant: only the flag is looked at. *)
StateChange_FlagOnly(C, state, blocked) ==
    reading' = (reading \ C) \cup {c \in C : ~ blocked[c]}

StateChange(C, state, blocked) ==
    reading' = (reading \ C) \cup {c \in C : state[c] = "OPEN" /\ ~ blocked[c]}

-----------------------------------------------------------------------------
(* Commands *)

(* rtaConnectionTable_GetByApiFd finds a connection by its descriptor: the *)
(* connections of the table.                                               *)
GetByApiFd(f) == {c \in table : fd[c] = f}

ByStack(S) == {c \in table : stackOf[c] \in S}

(* rtaConnection_Create; the first reference is the table's. *)
Created(c, s, f) ==
    /\ stackOf' = [stackOf EXCEPT ![c] = s] /\ fd' = [fd EXCEPT ![c] = f]
    /\ table' = table \cup {c}

(* rtaProtocolStack_Open: every component opens, and the API connector and *)
(* flow control take a reference each.                                     *)
StackOpened(c) == api' = api \cup {c} /\ fc' = fc \cup {c}

(* rtaProtocolStack_Close: every component closes. *)
StackClosed(C) == api' = api \ C /\ fc' = fc \ C /\ reading' = reading \ C

Init ==
    /\ stack = [s \in Stacks |-> "none"] /\ running = TRUE
    /\ connState = [c \in Conns |-> "none"]
    /\ stackOf = [c \in Conns |-> NoStack] /\ fd = [c \in Conns |-> NoFd]
    /\ refcount = [c \in Conns |-> 0] /\ messages_in_queue = [c \in Conns |-> 0]
    /\ blocked_down = [c \in Conns |-> FALSE]
    /\ table = {} /\ api = {} /\ reading = {} /\ fc = {}
    /\ place = [m \in Msgs |-> "none"] /\ owner = [m \in Msgs |-> NoConn]
    /\ open_fds = {}

CreateStack(s) ==
    /\ running /\ stack[s] = "none"
    /\ stack' = [stack EXCEPT ![s] = "up"]
    /\ UNCHANGED <<running, connState, stackOf, fd, counts, blocked_down, wiring,
                   reading, place, owner, open_fds>>

(* The application makes the descriptors.  A forwarder that connects at    *)
(* once sends a status message up.                                         *)
OpenConnection(c, s, f) ==
    /\ running /\ stack[s] = "up" /\ connState[c] = "none" /\ f \notin open_fds
    /\ open_fds' = open_fds \cup {f}
    /\ GetByApiFd(f) = {} /\ Created(c, s, f) /\ StackOpened(c)
    /\ \E status \in {new \in SUBSET Fresh : Cardinality(new) <= 1},
          state \in {[connState EXCEPT ![c] = "OPEN"]} :
        /\ Account([m \in status |-> "fwdUp"], [m \in status |-> c],
                   [refcount EXCEPT ![c] = 3], state)
        /\ StateChange({c}, state, blocked_down)
    /\ UNCHANGED <<stack, running, blocked_down>>

(* rtaFramework_CloseConnection: SetState CLOSED; the API connector, flow  *)
(* control and the forwarder connector close, destroying what they hold;   *)
(* the table gives up its reference.                                       *)
CloseAll(C, destroyed) ==
    /\ Account([m \in destroyed |-> "none"], NoneMade,
               [c \in Conns |-> IF c \in C THEN refcount[c] - 3 ELSE refcount[c]],
               [c \in Conns |-> IF c \in C THEN "CLOSED" ELSE connState[c]])
    /\ StackClosed(C) /\ table' = table \ C
    /\ open_fds' = open_fds \ Released
    /\ UNCHANGED <<stackOf, fd, blocked_down>>

CloseConnection(c) ==
    /\ running /\ c \in GetByApiFd(fd[c])
    /\ CloseAll({c}, HeldFor({c}, {"window", "deque"}))
    /\ UNCHANGED <<stack, running>>

(* rtaFramework_DestroyProtocolHolder: the stack's connections are closed, *)
(* then rtaProtocolStack_Destroy drains all its queues.                    *)
(* Mutant: the queues are not drained. *)
DestroyStacks_NoDrain(S) ==
    LET C == ByStack(S)
    IN /\ CloseAll(C, HeldFor(C, {"window", "deque"}))
       /\ stack' = [s \in Stacks |-> IF s \in S THEN "gone" ELSE stack[s]]

DestroyStacks(S) ==
    LET C == ByStack(S)
        drained == {m \in Msgs : place[m] \in Queues /\ stackOf[owner[m]] \in S}
    IN /\ CloseAll(C, HeldFor(C, {"window", "deque"}) \cup drained)
       /\ stack' = [s \in Stacks |-> IF s \in S THEN "gone" ELSE stack[s]]

DestroyStack(s) ==
    /\ running /\ stack[s] = "up"
    /\ DestroyStacks({s})
    /\ UNCHANGED running

Shutdown ==
    /\ running
    /\ DestroyStacks({s \in Stacks : stack[s] = "up"})
    /\ running' = FALSE

-----------------------------------------------------------------------------
(* The API connector *)

(* Messages from the application go down as long as the connection is      *)
(* open; CPI_PAUSE is one of them and pauses it.                           *)
ApiDowncallRead(c) ==
    /\ running /\ c \in api /\ c \in reading
    /\ \E new \in SUBSET Fresh \ {{}}, pause \in BOOLEAN :
        \E state \in {IF pause /\ connState[c] = "OPEN"
                      THEN [connState EXCEPT ![c] = "PAUSED"] ELSE connState} :
            /\ Traffic([m \in new |-> "apiDown"], [m \in new |-> c], state)
            /\ StateChange({c}, state, blocked_down)
    /\ UNCHANGED blocked_down

(* A message that goes up to the application ends its life as a message.   *)
ApiUpcallRead(s) ==
    /\ running /\ Queue(s, "fcUp") # {}
    /\ Traffic([m \in Queue(s, "fcUp") |-> "none"], NoneMade, connState)
    /\ UNCHANGED <<blocked_down, reading>>

-----------------------------------------------------------------------------
(* Flow control and codec *)

(* Flow control reads a batch and the sessions of connections C act on it: *)
(* they send interests down and notices up, and release held messages to   *)
(* the places in O.                                                        *)
FlowControl(got, P, C, O) ==
    \E fate \in Fates(got, P), new \in SUBSET Fresh, done \in SUBSET HeldFor(C, {"window"}) :
        \E made \in [new -> C], sent \in [new -> {"fcDown", "fcUp"}], out \in [done -> O] :
            /\ \A m \in new : sent[m] = "fcDown" => ~ BlockedDown(made[m])
            /\ \A m \in done : out[m] = "fcUp" => ~ BlockedUp(owner[m])
            /\ Traffic([m \in got \cup new \cup done |->
                           IF m \in got THEN fate[m]
                           ELSE IF m \in new THEN sent[m] ELSE out[m]],
                       made, connState)
            /\ UNCHANGED <<blocked_down, reading>>

(* Interests are consumed and start sessions, CPI_CANCEL_FLOW ends one;    *)
(* other control messages and objects are passed down.                     *)
FcDowncallRead(s) ==
    LET got == Queue(s, "apiDown")
    IN /\ running /\ got # {}
       /\ FlowControl(got, {"fcDown", "none"}, OwnersOf(got), {"none"})

(* Content objects enter the window of their session or are dropped; those *)
(* next in order go up; the end of a session destroys what it still holds. *)
FcUpcallRead(s) ==
    LET got == Queue(s, "codecUp")
    IN /\ running /\ got # {}
       /\ FlowControl(got, {"fcUp", "window", "none"}, OwnersOf(got), {"fcUp", "none"})

(* The timer of a session re-expresses interests. *)
FcTimer(c) ==
    /\ running /\ c \in fc
    /\ FlowControl({}, {}, {c}, {})

CodecDowncallRead(s) ==
    LET got == Queue(s, "fcDown")
    IN /\ running /\ got # {}
       /\ \E fate \in Fates(got, {"codecDown"}) : Traffic(fate, NoneMade, connState)
       /\ UNCHANGED <<blocked_down, reading>>

(* A packet that does not decode is neither passed on nor destroyed.       *)
CodecUpcallRead(s) ==
    LET got == Queue(s, "fwdUp")
    IN /\ running /\ got # {}
       /\ \E fate \in Fates(got, IF DecodeFails THEN {"codecUp", "lost"} ELSE {"codecUp"}) :
             Traffic(fate, NoneMade, connState)
       /\ UNCHANGED <<blocked_down, reading>>

-----------------------------------------------------------------------------
(* The forwarder connectors *)

(* The Metis connector blocks or unblocks down, for each connection it     *)
(* writes for, by the length of its output queue.                          *)
BlockedAfter(C) ==
    {[c \in Conns |-> IF c \in C THEN c \in B ELSE blocked_down[c]] :
        B \in IF MayBlock THEN SUBSET C ELSE {{}}}

(* Messages are written to the forwarder and destroyed, requests answered. *)
FwdDowncallRead(s) ==
    LET got == Queue(s, "codecDown")
        C   == OwnersOf(got)
    IN /\ running /\ got # {}
       /\ \E new \in SUBSET Fresh, blocked \in BlockedAfter(C) :
          \E made \in [new -> C] :
             /\ Traffic([m \in got \cup new |-> IF m \in got THEN "none" ELSE "fwdUp"],
                        made, connState)
             /\ blocked_down' = blocked
             /\ StateChange(C, connState, blocked)

(* Packets from the forwarder: straight up (FWD_LOCAL, and control packets *)
(* of FWD_METIS) or by way of the Metis connector's deque.                 *)
FwdReceive(c) ==
    /\ running /\ connState[c] = "OPEN"
    /\ \E new \in SUBSET Fresh \ {{}} : \E to \in [new -> {"fwdUp", "deque"}] :
          Traffic(to, [m \in new |-> c], connState)
    /\ UNCHANGED <<blocked_down, reading>>

(* A change of the connection to the forwarder is reported up; a failed    *)
(* connect blocks the down direction first.                                *)
FwdEvent(c, failed) ==
    /\ running /\ NotClosed(c) /\ (failed => MayBlock)
    /\ \E m \in Fresh : Traffic([n \in {m} |-> "fwdUp"], [n \in {m} |-> c], connState)
    /\ blocked_down' = [blocked_down EXCEPT ![c] = @ \/ failed]
    /\ StateChange({c}, connState, blocked_down')

(* The deque's timer moves a few messages up. *)
FwdDequeue(c) ==
    LET held == HeldFor({c}, {"deque"})
    IN /\ running /\ held # {}
       /\ \E moved \in SUBSET held :
             /\ \/ Cardinality(moved) = DequeueMax
                \/ Cardinality(held) <= DequeueMax /\ moved = held
             /\ Traffic([m \in moved |-> "fwdUp"], NoneMade, connState)
       /\ UNCHANGED <<blocked_down, reading>>

-----------------------------------------------------------------------------
Callback(s) ==
    \/ ApiUpcallRead(s) \/ FcDowncallRead(s) \/ FcUpcallRead(s)
    \/ CodecDowncallRead(s) \/ CodecUpcallRead(s) \/ FwdDowncallRead(s)

Next ==
    \/ \E s \in Stacks : CreateStack(s) \/ DestroyStack(s) \/ Callback(s)
    \/ \E c \in Conns, s \in Stacks, f \in Fds : OpenConnection(c, s, f)
    \/ \E c \in Conns : \/ CloseConnection(c) \/ ApiDowncallRead(c) \/ FcTimer(c)
                       \/ FwdReceive(c) \/ FwdDequeue(c)
    \/ \E c \in Conns, failed \in BOOLEAN : FwdEvent(c, failed)
    \/ Shutdown

Spec == Init /\ [][Next]_vars

-----------------------------------------------------------------------------
(* Properties *)

TypeOK ==
    /\ stack \in [Stacks -> {"none", "up", "gone"}] /\ running \in BOOLEAN
    /\ connState \in [Conns -> {"none", "OPEN", "PAUSED", "CLOSED", "freed"}]
    /\ stackOf \in [Conns -> Stacks \cup {NoStack}] /\ fd \in [Conns -> Fds \cup {NoFd}]
    /\ refcount \in [Conns -> Nat] /\ messages_in_queue \in [Conns -> Nat]
    /\ blocked_down \in [Conns -> BOOLEAN]
    /\ table \subseteq Conns /\ api \subseteq Conns /\ fc \subseteq Conns
    /\ reading \subseteq Conns
    /\ place \in [Msgs -> Places] /\ owner \in [Msgs -> Conns \cup {NoConn}]
    /\ open_fds \subseteq Fds

Refs(c) == {m \in Msgs : owner[m] = c}
InQueue(c) == {m \in Msgs : owner[m] = c /\ place[m] \in Queues}
Holds(C, c) == IF c \in C THEN 1 ELSE 0

(* A connection's reference count is the number of its holders: the table, *)
(* the API connector, flow control and every transport message that refers *)
(* to it, wherever it is; and it is freed exactly when nobody refers to it *)
(* any more.                                                               *)
RefsAreHolders ==
    \A c \in Conns :
        /\ refcount[c] = Holds(table, c) + Holds(api, c) + Holds(fc, c) + Cardinality(Refs(c))
        /\ Allocated(c) <=> refcount[c] > 0

(* messages_in_queue counts the messages between components: a connection  *)
(* is never freed with messages in a queue (the assertion of               *)
(* rtaConnection_Destroy), and no decrement underflows.                    *)
QueueCount ==
    \A c \in Conns : messages_in_queue[c] = Cardinality(InQueue(c))

(* A connection that is not closed is in the table and known to every      *)
(* component of a running stack (what the assertions on private data and   *)
(* the drain of rtaProtocolStack_Destroy rely on); once closed no          *)
(* component keeps it or holds a message of it.                            *)
OpenIsWired ==
    \A c \in Conns :
        /\ NotClosed(c) => c \in table /\ c \in api /\ c \in fc /\ stack[stackOf[c]] = "up"
        /\ ~ NotClosed(c) => c \notin table /\ c \notin api /\ c \notin fc
                           /\ \A m \in Msgs : owner[m] = c => place[m] \notin {"window", "deque"}

(* The API connector reads from the application exactly while the down     *)
(* direction is not blocked.                                               *)
ReadsWhenUnblocked == reading = {c \in api : ~ BlockedDown(c)}

(* Destroying a stack flushes the last messages of its connections, so     *)
(* none of them outlives it.                                               *)
NothingOutlivesStack ==
    \A c \in Conns : Allocated(c) => stack[stackOf[c]] = "up"

(* Once closed, a connection's messages only disappear: none is created,   *)
(* put in a queue or moved to another place, and the state never returns.  *)
ClosedStaysQuiet ==
    [][ \A c \in Conns : connState[c] = "CLOSED" =>
          /\ connState'[c] \in {"CLOSED", "freed"}
          /\ \A m \in Msgs : owner'[m] = c => owner[m] = c /\ place'[m] = place[m] ]_vars

(* The descriptors' life, as the application sees it.                      *)
Pool == INSTANCE DescriptorPool
    WITH use    <- [c \in Conns |-> CASE connState[c] = "none"  -> "none"
                                      [] NotClosed(c)          -> "open"
                                      [] connState[c] = "CLOSED" -> "closing"
                                      [] connState[c] = "freed"  -> "released"],
         number <- fd
PoolSpec == Pool!Spec

(* The scheduler runs the callback of every queue that has messages.  Each *)
(* callback reads all of its queue and puts nothing back, so its weak      *)
(* fairness is that the queue is empty again and again.                    *)
Fairness ==
    \A s \in Stacks, q \in Queues : []<>(running => Queue(s, q) = {})

FairSpec == Spec /\ Fairness

(* A closed connection is released when its last queued message is gone,   *)
(* and its descriptors are closed: it is not closed for ever.              *)
ClosedIsFreed ==
    \A c \in Conns : []<>(connState[c] # "CLOSED")
=============================================================================
