---------------------------- MODULE RtaTransport ----------------------------
(***************************************************************************)
(* The API threads of a transport (rta_Transport.c) and its worker thread  *)
(* (rta_Framework_Threaded.c): the transport starts the worker, asks it to *)
(* create protocol stacks and to open and close connections with commands  *)
(* through a ring buffer and a notifier, and shuts it down.  Only the list *)
(* of stacks is locked.                                                    *)
(*                                                                         *)
(* The worker executes one command per step between the steps of the API   *)
(* threads.  What happens inside a connection is RtaConnection's: a closed *)
(* connection gives its descriptors back at once or later.  An assertion   *)
(* that fails aborts the process.                                          *)
(***************************************************************************)
EXTENDS Naturals, Sequences, FiniteSets

CONSTANTS
    Callers,        \* API threads
    Configs,        \* stack configurations, compared by their hash
    Fds,            \* pairs of descriptors, named by the api_fd
    NoCaller, NoConfig, NoFd,
    RingSize,       \* commands the ring buffer holds (128 in the code)
    SerialCalls,    \* the application never closes or passes a command while
                    \* another of its threads is in a call
    ReopenDestroyed \* the application opens connections of a configuration
                    \* whose stack it has destroyed with a passed command

ASSUME TransportAssumption ==
    /\ NoCaller \notin Callers /\ NoConfig \notin Configs /\ NoFd \notin Fds
    /\ IsFiniteSet(Configs)
    /\ RingSize \in Nat \ {0}
    /\ SerialCalls \in BOOLEAN /\ ReopenDestroyed \in BOOLEAN

VARIABLES
    status,         \* framework->status, under its mutex
    transport,      \* "none", "creating", "up", "destroying" or "gone"
    list,           \* per configuration: its stack id, 0 when not in the list
    list_owner,     \* the thread that has locked the list
    retired,        \* configurations whose stack the application has destroyed
    pc,             \* where each thread is in its call
    config, fd,     \* arguments of the call
    put,            \* per thread: "no", "clear" or "raced" (see PutBegin)
    ring,           \* the commands in the ring buffer
    notified,       \* the notifier has an event pending
    held,           \* descriptors the application got from Open
    worker,         \* the worker thread
    stacks,         \* ids of the worker's protocol stacks
    serving,        \* per descriptor: the stack id of its connection, or 0
    closed,         \* descriptors of closed connections not yet released
    open_fds,       \* descriptors open in the process
    aborted         \* the assertion that failed, or "no"

calls   == <<pc, config, fd, put>>
lists   == <<list, list_owner, retired>>
channel == <<ring, notified>>
served  == <<stacks, serving, closed, open_fds>>
vars == <<status, transport, lists, calls, channel, held, worker, served, aborted>>

StackIds == 1 .. Cardinality(Configs)

CREATE(id)   == [op |-> "CREATE STACK", stack |-> id, fd |-> NoFd]
OPEN(id, f)  == [op |-> "OPEN", stack |-> id, fd |-> f]
CLOSE(f)     == [op |-> "CLOSE", stack |-> 0, fd |-> f]
DESTROY(id)  == [op |-> "DESTROY STACK", stack |-> id, fd |-> NoFd]
SHUTDOWN     == [op |-> "SHUTDOWN", stack |-> 0, fd |-> NoFd]

-----------------------------------------------------------------------------
(* The command ring, written by API threads *)

(* The command a thread in a call is about to write. *)
CommandOf(t) ==
    CASE pc[t] = "create"   -> CREATE(list[config[t]])
      [] pc[t] = "open"     -> OPEN(list[config[t]], fd[t])
      [] pc[t] = "close"    -> CLOSE(fd[t])
      [] pc[t] = "pass"     -> DESTROY(list[config[t]])
      [] pc[t] = "shutdown" -> SHUTDOWN

(* What follows the write: Open first creates the stack, then unlocks the  *)
(* list and returns the descriptor, Destroy waits for the worker.          *)
AfterWrite(t) ==
    /\ pc' = [pc EXCEPT ![t] =
          IF @ = "create" THEN "open" ELSE IF @ = "shutdown" THEN "waiting" ELSE "idle"]
    /\ list_owner' = IF pc[t] = "open" THEN NoCaller ELSE list_owner
    /\ held' = IF pc[t] = "open" THEN held \cup {fd[t]} ELSE held

Writing == {"create", "open", "close", "pass", "shutdown"}

(* The ring is made for one writer and one reader.  A write first reads    *)
(* the indices: a full ring refuses the command, and no caller looks at    *)
(* the result.  Only Shutdown raises the notifier all the same.            *)
PutBegin(t) ==
    /\ aborted = "no" /\ pc[t] \in Writing /\ put[t] = "no"
    /\ \/ /\ Len(ring) < RingSize
          /\ put' = [put EXCEPT ![t] = "clear"]
          /\ UNCHANGED <<pc, list_owner, held, notified>>
       \/ /\ Len(ring) = RingSize
          /\ AfterWrite(t)
          /\ notified' = (notified \/ pc[t] = "shutdown")
          /\ UNCHANGED put
    /\ UNCHANGED <<status, transport, list, retired, config, fd, ring, worker, served, aborted>>

(* It then stores the command and the new index.  If another thread did so *)
(* in between, both stored to the same slot: one of the commands is lost.  *)
Stored(t) ==
    IF put[t] = "clear" THEN {Append(ring, CommandOf(t))}
    ELSE {ring} \cup (IF ring = <<>> THEN {} ELSE {[ring EXCEPT ![Len(ring)] = CommandOf(t)]})

Raced(t) == [u \in Callers |-> IF u = t THEN "no" ELSE IF put[u] = "clear" THEN "raced" ELSE put[u]]

(* Mutant: no event is raised while the worker reads a batch. *)
PutEnd_OnlyWhenPolling(t) ==
    /\ aborted = "no" /\ put[t] # "no"
    /\ ring' \in Stored(t)
    /\ put' = Raced(t)
    /\ notified' = (notified \/ worker = "polling")
    /\ AfterWrite(t)
    /\ UNCHANGED <<status, transport, list, retired, config, fd, worker, served, aborted>>

PutEnd(t) ==
    /\ aborted = "no" /\ put[t] # "no"
    /\ ring' \in Stored(t)
    /\ put' = Raced(t)
    /\ notified' = TRUE
    /\ AfterWrite(t)
    /\ UNCHANGED <<status, transport, list, retired, config, fd, worker, served, aborted>>

-----------------------------------------------------------------------------
(* The calls of the transport *)

Idle == \A u \in Callers : pc[u] = "idle"

(* Calls that the application may make next to calls of other threads. *)
MayCall == SerialCalls => \A u \in Callers : pc[u] \notin {"close", "pass"}

Calling(t) == aborted = "no" /\ transport = "up" /\ pc[t] = "idle" /\ MayCall

Init ==
    /\ status = "INIT" /\ transport = "none"
    /\ list = [c \in Configs |-> 0] /\ list_owner = NoCaller
    /\ retired = {}
    /\ pc = [t \in Callers |-> "idle"] /\ put = [t \in Callers |-> "no"]
    /\ config = [t \in Callers |-> NoConfig] /\ fd = [t \in Callers |-> NoFd]
    /\ ring = <<>> /\ notified = FALSE /\ held = {}
    /\ worker = "none" /\ stacks = {} /\ serving = [f \in Fds |-> 0]
    /\ closed = {} /\ open_fds = {} /\ aborted = "no"

(* rtaTransport_Create and rtaFramework_Start, which waits while the       *)
(* status is INIT after it has changed it to STARTING itself.              *)
Create ==
    /\ transport = "none"
    /\ transport' = "creating" /\ status' = "STARTING" /\ worker' = "created"
    /\ UNCHANGED <<lists, calls, channel, held, served, aborted>>

CreateReturns ==
    /\ transport = "creating" /\ status # "INIT"
    /\ transport' = "up"
    /\ UNCHANGED <<status, lists, calls, channel, held, worker, served, aborted>>

(* Open makes the pair of sockets, ... *)
OpenBegin(t, c, f) ==
    /\ Calling(t) /\ f \notin open_fds
    /\ c \in retired => ReopenDestroyed
    /\ open_fds' = open_fds \cup {f}
    /\ config' = [config EXCEPT ![t] = c] /\ fd' = [fd EXCEPT ![t] = f]
    /\ pc' = [pc EXCEPT ![t] = "lock"]
    /\ UNCHANGED <<status, transport, lists, put, channel, held, worker,
                   stacks, serving, closed, aborted>>

(* The list knows the configuration. *)
GetStack(c) == list[c] # 0

nextStackId == 1 + Cardinality({c \in Configs : GetStack(c)})

(* ... then locks the list, looks the configuration up and adds it with a  *)
(* fresh id if it is not there.                                            *)
(* Mutant: the list is unlocked after the lookup. *)
OpenLookup_Unlocks(t) ==
    /\ aborted = "no" /\ pc[t] = "lock" /\ list_owner = NoCaller
    /\ IF ~ GetStack(config[t])
       THEN /\ list' = [list EXCEPT ![config[t]] = nextStackId]
            /\ pc' = [pc EXCEPT ![t] = "create"]
       ELSE pc' = [pc EXCEPT ![t] = "open"] /\ UNCHANGED list
    /\ UNCHANGED <<status, transport, config, fd, put, channel, held, worker, served,
                   list_owner, retired, aborted>>

(* Mutant: a new configuration gets the id of the last one. *)
OpenLookup_SameId(t) ==
    /\ aborted = "no" /\ pc[t] = "lock" /\ list_owner = NoCaller
    /\ list_owner' = t
    /\ IF ~ GetStack(config[t])
       THEN /\ list' = [list EXCEPT ![config[t]] = 1]
            /\ pc' = [pc EXCEPT ![t] = "create"]
       ELSE pc' = [pc EXCEPT ![t] = "open"] /\ UNCHANGED list
    /\ UNCHANGED <<status, transport, retired, config, fd, put, channel, held, worker, served,
                   aborted>>

OpenLookup(t) ==
    /\ aborted = "no" /\ pc[t] = "lock" /\ list_owner = NoCaller
    /\ list_owner' = t
    /\ IF ~ GetStack(config[t])
       THEN /\ list' = [list EXCEPT ![config[t]] = nextStackId]
            /\ pc' = [pc EXCEPT ![t] = "create"]
       ELSE pc' = [pc EXCEPT ![t] = "open"] /\ UNCHANGED list
    /\ UNCHANGED <<status, transport, retired, config, fd, put, channel, held, worker, served,
                   aborted>>

(* Close, once for each descriptor, takes no lock. *)
CloseBegin(t, f) ==
    /\ Calling(t) /\ f \in held
    /\ SerialCalls => Idle
    /\ held' = held \ {f}
    /\ fd' = [fd EXCEPT ![t] = f] /\ pc' = [pc EXCEPT ![t] = "close"]
    /\ UNCHANGED <<status, transport, lists, config, put, channel, worker, served, aborted>>

(* rtaTransport_PassCommand with a DESTROY STACK command for a stack whose *)
(* connections the application has closed.                                 *)
PassBegin(t, c) ==
    /\ Calling(t) /\ Idle
    /\ list[c] \in stacks /\ ring = <<>>
    /\ \A f \in Fds : serving[f] = list[c] => f \in closed
    /\ config' = [config EXCEPT ![t] = c] /\ pc' = [pc EXCEPT ![t] = "pass"]
    /\ retired' = retired \cup {c}
    /\ UNCHANGED <<status, transport, list, list_owner, fd, put, channel, held, worker, served, aborted>>

(* Destroy, after all other calls have returned, locks the list for good.  *)
DestroyBegin(t) ==
    /\ Calling(t) /\ Idle
    /\ transport' = "destroying" /\ list_owner' = t
    /\ pc' = [pc EXCEPT ![t] = "shutdown"]
    /\ UNCHANGED <<status, list, retired, config, fd, put, channel, held, worker, served, aborted>>

WaitForStatus == status = "SHUTDOWN"

(* rtaFramework_Destroy, once the status is SHUTDOWN, frees the framework; *)
(* the connection table closes the connections that are left in it.        *)
(* Mutant: it does not wait for the event loop to exit. *)
DestroyEnd_AtStopping(t) ==
    /\ aborted = "no" /\ pc[t] = "waiting" /\ status \in {"STOPPING", "SHUTDOWN"}
    /\ pc' = [pc EXCEPT ![t] = "idle"]
    /\ transport' = "gone" /\ held' = {}
    /\ serving' = [f \in Fds |-> 0] /\ closed' = {}
    /\ open_fds' = {f \in open_fds : serving[f] = 0}
    /\ UNCHANGED <<status, lists, config, fd, put, channel, worker, stacks, aborted>>

DestroyEnd(t) ==
    /\ aborted = "no" /\ pc[t] = "waiting" /\ WaitForStatus
    /\ pc' = [pc EXCEPT ![t] = "idle"]
    /\ transport' = "gone" /\ held' = {}
    /\ serving' = [f \in Fds |-> 0] /\ closed' = {}
    /\ open_fds' = {f \in open_fds : serving[f] = 0}
    /\ UNCHANGED <<status, lists, config, fd, put, channel, worker, stacks, aborted>>

-----------------------------------------------------------------------------
(* The worker thread *)

Working == aborted = "no" /\ UNCHANGED <<transport, lists, calls, held>>

Run ==
    /\ worker = "created" /\ status = "STARTING"
    /\ status' = "RUNNING" /\ worker' = "polling"
    /\ Working /\ UNCHANGED <<channel, served, aborted>>

(* The callback of the notifier pauses events, ... *)
Wake ==
    /\ worker = "polling" /\ notified
    /\ worker' = "batch" /\ notified' = FALSE
    /\ Working /\ UNCHANGED <<status, ring, served, aborted>>

(* ... reads and executes commands until there is none, ... *)
Read(op) ==
    /\ worker = "batch" /\ ring # <<>> /\ Head(ring).op = op
    /\ ring' = Tail(ring)
    /\ Working /\ UNCHANGED <<worker, notified>>

Drained(ids) == {f \in Fds : serving[f] \in ids}

Asserts(ok, reason) == aborted' = IF ok THEN "no" ELSE reason

ExecuteCreateStack ==
    /\ Read("CREATE STACK")
    /\ LET id == Head(ring).stack
       IN /\ Asserts(id \notin stacks, "Found a holder with stack_id")
          /\ stacks' = stacks \cup {id}
    /\ UNCHANGED <<status, serving, closed, open_fds>>

ExecuteOpenConnection ==
    /\ Read("OPEN")
    /\ LET id == Head(ring).stack f == Head(ring).fd
       IN /\ Asserts(id \in stacks /\ serving[f] = 0,
                    IF id \in stacks THEN "Found api_fd" ELSE "Could not find stack_id")
          /\ serving' = [serving EXCEPT ![f] = id]
    /\ UNCHANGED <<status, stacks, closed, open_fds>>

ExecuteCloseConnection ==
    /\ Read("CLOSE")
    /\ LET f == Head(ring).fd
       IN /\ Asserts(serving[f] # 0 /\ f \notin closed, "Could not find api_fd")
          /\ closed' = closed \cup {f}
    /\ UNCHANGED <<status, stacks, serving, open_fds>>

(* Destroying stacks closes their connections and drains their queues. *)
DestroyHolders(ids) ==
    /\ stacks' = stacks \ ids
    /\ serving' = [f \in Fds |-> IF f \in Drained(ids) THEN 0 ELSE serving[f]]
    /\ closed' = closed \ Drained(ids)
    /\ open_fds' = open_fds \ Drained(ids)

ExecuteDestroyStack ==
    /\ Read("DESTROY STACK")
    /\ Asserts(Head(ring).stack \in stacks, "Could not find stack_id")
    /\ DestroyHolders({Head(ring).stack})
    /\ UNCHANGED status

ExecuteShutdownFramework ==
    /\ Read("SHUTDOWN")
    /\ Asserts(status = "RUNNING", "expected FRAMEWORK_RUNNING")
    /\ DestroyHolders(stacks)
    /\ status' = "STOPPING"

(* ... and starts events again: what was notified meanwhile is raised.     *)
EndBatch ==
    /\ worker = "batch" /\ ring = <<>>
    /\ worker' = "resuming"
    /\ Working /\ UNCHANGED <<status, channel, served, aborted>>

StartEvents ==
    /\ worker = "resuming"
    /\ worker' = "polling"
    /\ Working /\ UNCHANGED <<status, channel, served, aborted>>

(* The last message of a closed connection is gone. *)
Release(f) ==
    /\ worker = "polling" /\ f \in closed
    /\ closed' = closed \ {f} /\ open_fds' = open_fds \ {f}
    /\ serving' = [serving EXCEPT ![f] = 0]
    /\ Working /\ UNCHANGED <<status, channel, worker, stacks, aborted>>

(* The event loop exits a little after it was stopped. *)
SchedulerReturns ==
    /\ worker = "polling" /\ status = "STOPPING"
    /\ worker' = "returned"
    /\ Working /\ UNCHANGED <<status, channel, served, aborted>>

Exit ==
    /\ worker = "returned"
    /\ worker' = "exited" /\ status' = "SHUTDOWN"
    /\ Working /\ UNCHANGED <<channel, served, aborted>>

Execute ==
    \/ ExecuteCreateStack \/ ExecuteOpenConnection \/ ExecuteCloseConnection
    \/ ExecuteDestroyStack \/ ExecuteShutdownFramework

Worker == Run \/ Wake \/ Execute \/ EndBatch \/ StartEvents \/ SchedulerReturns \/ Exit

Caller(t) == PutBegin(t) \/ PutEnd(t) \/ OpenLookup(t) \/ DestroyEnd(t)

Next ==
    \/ Create \/ CreateReturns
    \/ \E t \in Callers, c \in Configs, f \in Fds : OpenBegin(t, c, f)
    \/ \E t \in Callers, f \in Fds : CloseBegin(t, f)
    \/ \E t \in Callers, c \in Configs : PassBegin(t, c)
    \/ \E t \in Callers : DestroyBegin(t) \/ Caller(t)
    \/ Worker
    \/ \E f \in Fds : Release(f)

Spec == Init /\ [][Next]_vars

(* As long as a thread has a step to take, one is taken; which calls the   *)
(* application makes is its own choice.                                    *)
FairSpec == Spec /\ WF_vars(CreateReturns \/ Worker \/ \E t \in Callers : Caller(t))

-----------------------------------------------------------------------------
(* Properties *)

TypeOK ==
    /\ status \in {"INIT", "STARTING", "RUNNING", "STOPPING", "SHUTDOWN"}
    /\ transport \in {"none", "creating", "up", "destroying", "gone"}
    /\ list \in [Configs -> {0} \cup StackIds] /\ list_owner \in Callers \cup {NoCaller}
    /\ retired \subseteq Configs
    /\ pc \in [Callers -> Writing \cup {"idle", "lock", "waiting"}]
    /\ config \in [Callers -> Configs \cup {NoConfig}] /\ fd \in [Callers -> Fds \cup {NoFd}]
    /\ put \in [Callers -> {"no", "clear", "raced"}]
    /\ ring \in Seq({CREATE(id) : id \in StackIds} \cup {DESTROY(id) : id \in StackIds}
                    \cup {OPEN(id, f) : id \in StackIds, f \in Fds}
                    \cup {CLOSE(f) : f \in Fds} \cup {SHUTDOWN})
    /\ Len(ring) <= RingSize /\ notified \in BOOLEAN
    /\ held \subseteq Fds
    /\ worker \in {"none", "created", "polling", "batch", "resuming", "returned", "exited"}
    /\ stacks \subseteq StackIds /\ serving \in [Fds -> {0} \cup StackIds]
    /\ closed \subseteq Fds /\ open_fds \subseteq Fds
    /\ aborted \in {"no", "Found a holder with stack_id", "Could not find stack_id",
                    "Could not find api_fd", "Found api_fd", "expected FRAMEWORK_RUNNING"}

Commands(op) == {i \in DOMAIN ring : ring[i].op = op}

(* No assertion of the worker fails: a stack is created once and before    *)
(* its first connection, a connection that is closed is there, and the     *)
(* framework is shut down once, while it runs.                             *)
NoAbort == aborted = "no"

(* Every configuration in the list has a stack of its own, in the worker   *)
(* or on its way there, unless the application has destroyed it.           *)
ListMatchesStacks ==
    transport = "up" =>
        /\ \A c, d \in Configs : list[c] # 0 /\ list[c] = list[d] => c = d
        /\ \A c \in Configs \ retired : list[c] # 0 =>
              \/ list[c] \in stacks
              \/ \E i \in Commands("CREATE STACK") : ring[i].stack = list[c]
              \/ \E t \in Callers : pc[t] = "create" /\ config[t] = c

(* When Destroy has returned the worker is gone, and no connection, stack  *)
(* or descriptor is left, whatever was open.                               *)
NothingLeft ==
    transport = "gone" => worker = "exited" /\ stacks = {} /\ ring = <<>> /\ open_fds = {}

(* A descriptor that Open returned is served, unless it is closed again    *)
(* or the transport is destroyed.                                          *)
OpenIsServed ==
    \A f \in Fds : f \in held ~> (serving[f] # 0 \/ f \notin held \/ transport # "up")

(* Destroy returns, unless an assertion failed before.                     *)
DestroyReturns == (transport = "destroying") ~> (transport = "gone" \/ aborted # "no")
=============================================================================
