------------------------ MODULE RtaTransport_proofs ------------------------
(***************************************************************************)
(* Proofs about the calls of the API threads, the command ring and the     *)
(* worker thread, for every number of threads, configurations and          *)
(* descriptors and every size of the ring.                                 *)
(***************************************************************************)
EXTENDS RtaTransport, FiniteSetTheorems, FunctionTheorems, TLAPS

-----------------------------------------------------------------------------
(* What holds however the threads race *)

CreateCommands == {CREATE(id) : id \in StackIds}
DestroyCommands == {DESTROY(id) : id \in StackIds}
OpenCommands == {OPEN(id, f) : id \in StackIds, f \in Fds}
CloseCommands == {CLOSE(f) : f \in Fds}
Command ==
    CreateCommands \cup DestroyCommands \cup OpenCommands \cup CloseCommands \cup {SHUTDOWN}

(* The arguments a call was made with, and the room its write has found.   *)
Arguments == \A t \in Callers :
    /\ pc[t] \in {"lock", "create", "open", "pass"} => config[t] \in Configs
    /\ pc[t] \in {"create", "open", "pass"} => list[config[t]] # 0
    /\ pc[t] \in {"lock", "create", "open", "close"} => fd[t] \in Fds
    /\ put[t] # "no" => pc[t] \in Writing
    /\ put[t] = "clear" => Len(ring) < RingSize

Listed == {c \in Configs : GetStack(c)}

(* Stack ids are given out one after the other, each once. *)
Distinct ==
    /\ \A c \in Configs : list[c] <= Cardinality(Listed)
    /\ \A c, d \in Configs : list[c] # 0 /\ list[c] = list[d] => c = d

(* The type invariant, with a name for the commands. *)
Types ==
    /\ status \in {"INIT", "STARTING", "RUNNING", "STOPPING", "SHUTDOWN"}
    /\ transport \in {"none", "creating", "up", "destroying", "gone"}
    /\ list \in [Configs -> {0} \cup StackIds] /\ list_owner \in Callers \cup {NoCaller}
    /\ retired \subseteq Configs
    /\ pc \in [Callers -> Writing \cup {"idle", "lock", "waiting"}]
    /\ config \in [Callers -> Configs \cup {NoConfig}] /\ fd \in [Callers -> Fds \cup {NoFd}]
    /\ put \in [Callers -> {"no", "clear", "raced"}]
    /\ ring \in Seq(Command) /\ Len(ring) <= RingSize /\ notified \in BOOLEAN
    /\ held \subseteq Fds
    /\ worker \in {"none", "created", "polling", "batch", "resuming", "returned", "exited"}
    /\ stacks \subseteq StackIds /\ serving \in [Fds -> {0} \cup StackIds]
    /\ closed \subseteq Fds /\ open_fds \subseteq Fds
    /\ aborted \in {"no", "Found a holder with stack_id", "Could not find stack_id",
                    "Could not find api_fd", "Found api_fd", "expected FRAMEWORK_RUNNING"}

LEMMA TypesAreOK == Types <=> TypeOK
BY DEF TypeOK, Types, Command, CreateCommands, DestroyCommands, OpenCommands, CloseCommands

RaceInv == Types /\ Arguments /\ Distinct

LEMMA StackIdsType ==
    Cardinality(Configs) \in Nat /\ StackIds \subseteq Nat /\ 0 \notin StackIds
BY TransportAssumption, FS_CardinalityType DEF StackIds

LEMMA RingSizeType == RingSize \in Nat \ {0}
BY TransportAssumption

LEMMA ListedType ==
    IsFiniteSet(Listed) /\ Cardinality(Listed) \in Nat
    /\ Cardinality(Listed) <= Cardinality(Configs)
<1>1. Listed \in SUBSET Configs
  BY DEF Listed
<1>2. QED
  BY <1>1, TransportAssumption, FS_Subset, FS_CardinalityType

(* A configuration that is not in the list leaves a stack id for it.       *)
LEMMA FreshId ==
    ASSUME NEW c \in Configs, ~ GetStack(c)
    PROVE  /\ nextStackId = Cardinality(Listed) + 1
           /\ nextStackId \in StackIds
           /\ Cardinality(Listed \cup {c}) = nextStackId
<1>1. nextStackId = Cardinality(Listed) + 1
  BY ListedType DEF nextStackId, Listed
<1>2. Cardinality(Listed \cup {c}) = Cardinality(Listed) + 1
  BY ListedType, FS_AddElement DEF Listed
<1>3. Listed \cup {c} \in SUBSET Configs
  BY DEF Listed
<1>4. Cardinality(Listed \cup {c}) <= Cardinality(Configs)
  BY <1>3, TransportAssumption, FS_Subset
<1>5. QED
  BY <1>1, <1>2, <1>4, ListedType, StackIdsType DEF StackIds

(* The commands are told apart by their operation and their arguments.     *)
LEMMA CommandFields ==
    /\ \A id : /\ CREATE(id).op = "CREATE STACK" /\ CREATE(id).stack = id
               /\ CREATE(id).fd = NoFd
    /\ \A id : /\ DESTROY(id).op = "DESTROY STACK" /\ DESTROY(id).stack = id
               /\ DESTROY(id).fd = NoFd
    /\ \A id, f : OPEN(id, f).op = "OPEN" /\ OPEN(id, f).stack = id /\ OPEN(id, f).fd = f
    /\ \A f : CLOSE(f).op = "CLOSE" /\ CLOSE(f).stack = 0 /\ CLOSE(f).fd = f
    /\ SHUTDOWN.op = "SHUTDOWN" /\ SHUTDOWN.stack = 0 /\ SHUTDOWN.fd = NoFd
BY DEF CREATE, OPEN, CLOSE, DESTROY, SHUTDOWN

(* A command is known by its operation. *)
Known(q) ==
    /\ q.op = "CREATE STACK"  => q.stack \in StackIds /\ q = CREATE(q.stack)
    /\ q.op = "OPEN"          => q.stack \in StackIds /\ q.fd \in Fds /\ q = OPEN(q.stack, q.fd)
    /\ q.op = "CLOSE"         => q.fd \in Fds /\ q = CLOSE(q.fd)
    /\ q.op = "DESTROY STACK" => q.stack \in StackIds /\ q = DESTROY(q.stack)
    /\ q.op = "SHUTDOWN"      => q = SHUTDOWN

LEMMA CommandKinds == \A q \in Command : Known(q)
<1>1. ASSUME NEW q \in CreateCommands PROVE Known(q)
  <2>1. PICK id \in StackIds : q = CREATE(id)
    BY DEF CreateCommands
  <2>2. QED
    BY <2>1 DEF CREATE, Known
<1>2. ASSUME NEW q \in DestroyCommands PROVE Known(q)
  <2>1. PICK id \in StackIds : q = DESTROY(id)
    BY DEF DestroyCommands
  <2>2. QED
    BY <2>1 DEF DESTROY, Known
<1>3. ASSUME NEW q \in OpenCommands PROVE Known(q)
  <2>1. PICK id \in StackIds, f \in Fds : q = OPEN(id, f)
    BY DEF OpenCommands
  <2>2. QED
    BY <2>1 DEF OPEN, Known
<1>4. ASSUME NEW q \in CloseCommands PROVE Known(q)
  <2>1. PICK f \in Fds : q = CLOSE(f)
    BY DEF CloseCommands
  <2>2. QED
    BY <2>1 DEF CLOSE, Known
<1>5. Known(SHUTDOWN)
  BY DEF SHUTDOWN, Known
<1>6. QED
  BY <1>1, <1>2, <1>3, <1>4, <1>5, Zenon DEF Command

(* What a thread in a call writes is a command. *)
LEMMA WrittenType ==
    ASSUME Types, Arguments, NEW t \in Callers, pc[t] \in Writing
    PROVE  /\ CommandOf(t) \in Command
           /\ pc[t] = "create"   => CommandOf(t) = CREATE(list[config[t]])
           /\ pc[t] = "open"     => CommandOf(t) = OPEN(list[config[t]], fd[t])
           /\ pc[t] = "close"    => CommandOf(t) = CLOSE(fd[t])
           /\ pc[t] = "pass"     => CommandOf(t) = DESTROY(list[config[t]])
           /\ pc[t] = "shutdown" => CommandOf(t) = SHUTDOWN
<1>1. /\ pc[t] \in {"create", "open", "pass"} => list[config[t]] \in StackIds
      /\ pc[t] \in {"open", "close"} => fd[t] \in Fds
  BY DEF Types, Arguments
<1>2. /\ pc[t] = "create"   => CommandOf(t) = CREATE(list[config[t]])
      /\ pc[t] = "open"     => CommandOf(t) = OPEN(list[config[t]], fd[t])
      /\ pc[t] = "close"    => CommandOf(t) = CLOSE(fd[t])
      /\ pc[t] = "pass"     => CommandOf(t) = DESTROY(list[config[t]])
      /\ pc[t] = "shutdown" => CommandOf(t) = SHUTDOWN
  BY DEF CommandOf
<1>3. CommandOf(t) \in Command
  BY <1>1, <1>2 DEF Writing, Command, CreateCommands, DestroyCommands, OpenCommands, CloseCommands
<1>4. QED
  BY <1>2, <1>3


(* The ring after a write is a ring of commands. *)
LEMMA StoredType ==
    ASSUME Types, Arguments, NEW t \in Callers, put[t] # "no", ring' \in Stored(t)
    PROVE  /\ ring' \in Seq(Command) /\ Len(ring') <= RingSize
           /\ put[t] = "clear" => ring' = Append(ring, CommandOf(t))
<1>1. pc[t] \in Writing /\ CommandOf(t) \in Command
  BY WrittenType DEF Arguments
<1>2. ring \in Seq(Command) /\ Len(ring) <= RingSize /\ RingSize \in Nat
  BY TransportAssumption DEF Types
<1>3. CASE put[t] = "clear"
  <2>1. Len(ring) < RingSize
    BY <1>3 DEF Arguments
  <2>2. ring' = Append(ring, CommandOf(t))
    BY <1>3 DEF Stored
  <2>3. QED
    BY <2>1, <2>2, <1>1, <1>2
<1>4. CASE put[t] # "clear"
  <2>1. \/ ring' = ring
        \/ ring # <<>> /\ ring' = [ring EXCEPT ![Len(ring)] = CommandOf(t)]
    BY <1>4 DEF Stored
  <2>2. QED
    BY <2>1, <1>1, <1>2, <1>4
<1>5. QED
  BY <1>3, <1>4

LEMMA RaceInit == Init => RaceInv
<1> SUFFICES ASSUME Init PROVE RaceInv
  OBVIOUS
<1>1. Types
  <2>1. notified \in BOOLEAN
    BY DEF Init
  <2>2. ring \in Seq(Command) /\ Len(ring) <= RingSize
    BY TransportAssumption DEF Init
  <2>3. QED
    BY <2>1, <2>2 DEF Init, Types
<1>2. Arguments
  BY DEF Init, Arguments, Writing
<1>3. Distinct
  BY ListedType DEF Init, Distinct
<1>4. QED
  BY <1>1, <1>2, <1>3 DEF RaceInv

(* While the list stays, so do its ids. *)
LEMMA DistinctStays == Distinct /\ UNCHANGED list => Distinct'
BY DEF Distinct, Listed, GetStack

(* Where a call is after its write. *)
LEMMA AfterWriteType ==
    ASSUME pc \in [Callers -> Writing \cup {"idle", "lock", "waiting"}],
           list_owner \in Callers \cup {NoCaller}, held \subseteq Fds,
           NEW t \in Callers, pc[t] = "open" => fd[t] \in Fds, AfterWrite(t)
    PROVE  /\ pc' \in [Callers -> Writing \cup {"idle", "lock", "waiting"}]
           /\ list_owner' \in Callers \cup {NoCaller} /\ held' \subseteq Fds
BY DEF AfterWrite, Writing

LEMMA RaceCreate == RaceInv /\ (Create \/ CreateReturns) => RaceInv'
<1> SUFFICES ASSUME RaceInv, Create \/ CreateReturns PROVE RaceInv'
  OBVIOUS
<1>1. Types'
  BY ZenonT(60) DEF RaceInv, Types, Create, CreateReturns, lists, calls, channel, served
<1>2. Arguments'
  BY DEF RaceInv, Arguments, Create, CreateReturns, lists, calls, channel, served
<1>3. Distinct'
  BY DistinctStays DEF RaceInv, Create, CreateReturns, lists
<1>4. QED
  BY <1>1, <1>2, <1>3 DEF RaceInv

LEMMA RacePutBegin == ASSUME RaceInv, NEW t \in Callers, PutBegin(t) PROVE RaceInv'
<1>1. Types'
  <2>1. notified' \in BOOLEAN
    BY DEF RaceInv, Types, PutBegin
  <2>2. /\ pc' \in [Callers -> Writing \cup {"idle", "lock", "waiting"}]
        /\ put' \in [Callers -> {"no", "clear", "raced"}]
        /\ list_owner' \in Callers \cup {NoCaller} /\ held' \subseteq Fds
    <3>1. AfterWrite(t) \/ UNCHANGED <<pc, list_owner, held>>
      BY DEF PutBegin
    <3>2. put' = [put EXCEPT ![t] = "clear"] \/ put' = put
      BY DEF PutBegin
    <3>3. pc[t] = "open" => fd[t] \in Fds
      BY DEF RaceInv, Arguments
    <3>4. QED
      BY <3>1, <3>2, <3>3, AfterWriteType DEF RaceInv, Types
  <2>3. UNCHANGED <<status, transport, list, retired, config, fd, ring, worker, stacks, serving,
                    closed, open_fds, aborted>>
    BY DEF PutBegin, served
  <2>4. QED
    BY <2>1, <2>2, <2>3, ZenonT(60) DEF RaceInv, Types
<1>2. Arguments'
  BY DEF RaceInv, Types, Arguments, PutBegin, AfterWrite, Writing
<1>3. Distinct'
  BY DistinctStays DEF RaceInv, PutBegin
<1>4. QED
  BY <1>1, <1>2, <1>3 DEF RaceInv

LEMMA RacePutEnd == ASSUME RaceInv, NEW t \in Callers, PutEnd(t) PROVE RaceInv'
<1>1. ring' \in Seq(Command) /\ Len(ring') <= RingSize /\ pc[t] \in Writing
  BY StoredType DEF RaceInv, PutEnd, Arguments
<1>2. Types'
  <2>1. notified' \in BOOLEAN
    BY DEF PutEnd
  <2>2. put' \in [Callers -> {"no", "clear", "raced"}]
    BY DEF RaceInv, Types, PutEnd, Raced
  <2>3. /\ pc' \in [Callers -> Writing \cup {"idle", "lock", "waiting"}]
        /\ list_owner' \in Callers \cup {NoCaller} /\ held' \subseteq Fds
    <3>1. AfterWrite(t) /\ (pc[t] = "open" => fd[t] \in Fds)
      BY DEF PutEnd, RaceInv, Arguments
    <3>2. QED
      BY <3>1, AfterWriteType DEF RaceInv, Types
  <2>4. UNCHANGED <<status, transport, list, retired, config, fd, worker, stacks, serving,
                    closed, open_fds, aborted>>
    BY DEF PutEnd, served
  <2>5. QED
    BY <1>1, <2>1, <2>2, <2>3, <2>4, ZenonT(60) DEF RaceInv, Types
<1>3. Arguments'
  BY <1>1 DEF RaceInv, Types, Arguments, PutEnd, AfterWrite, Writing, Raced
<1>4. Distinct'
  BY DistinctStays DEF RaceInv, PutEnd
<1>5. QED
  BY <1>2, <1>3, <1>4 DEF RaceInv

LEMMA RaceOpenBegin ==
    ASSUME RaceInv, NEW t \in Callers, NEW c \in Configs, NEW f \in Fds, OpenBegin(t, c, f)
    PROVE  RaceInv'
<1>1. Types'
  BY DEF RaceInv, Types, OpenBegin, Calling, lists, channel, Writing
<1>2. Arguments'
  BY DEF RaceInv, Types, Arguments, OpenBegin, Calling, lists, channel, Writing
<1>3. Distinct'
  BY DistinctStays DEF RaceInv, OpenBegin, lists
<1>4. QED
  BY <1>1, <1>2, <1>3 DEF RaceInv

(* What looking a configuration up does to the list.                       *)
LEMMA Lookup ==
    ASSUME RaceInv, NEW t \in Callers, OpenLookup(t)
    PROVE  LET c == config[t] IN
           /\ c \in Configs /\ fd[t] \in Fds
           /\ GetStack(c) => list' = list /\ pc' = [pc EXCEPT ![t] = "open"] /\ Listed' = Listed
           /\ ~ GetStack(c) => /\ list' = [list EXCEPT ![c] = nextStackId]
                               /\ pc' = [pc EXCEPT ![t] = "create"]
                               /\ nextStackId \in StackIds
                               /\ nextStackId = Cardinality(Listed) + 1
                               /\ Cardinality(Listed') = nextStackId
<1> DEFINE c == config[t]
<1>1. c \in Configs /\ fd[t] \in Fds
  BY DEF RaceInv, Arguments, OpenLookup
<1>2. CASE GetStack(c)
  BY <1>1, <1>2 DEF OpenLookup, Listed, GetStack
<1>3. CASE ~ GetStack(c)
  <2>1. /\ nextStackId = Cardinality(Listed) + 1 /\ nextStackId \in StackIds
        /\ Cardinality(Listed \cup {c}) = nextStackId
    BY <1>1, <1>3, FreshId
  <2>2. list' = [list EXCEPT ![c] = nextStackId] /\ pc' = [pc EXCEPT ![t] = "create"]
    BY <1>3 DEF OpenLookup
  <2>3. nextStackId # 0
    BY <2>1 DEF StackIds
  <2>4. list \in [Configs -> {0} \cup StackIds]
    BY DEF RaceInv, Types
  <2>5. Listed' = Listed \cup {c}
    BY <1>1, <2>2, <2>3, <2>4 DEF Listed, GetStack
  <2>6. QED
    BY <1>1, <1>3, <2>1, <2>2, <2>5
<1>4. QED
  BY <1>2, <1>3

LEMMA RaceOpenLookup == ASSUME RaceInv, NEW t \in Callers, OpenLookup(t) PROVE RaceInv'
<1> DEFINE c == config[t]
<1>1. c \in Configs /\ fd[t] \in Fds /\ list \in [Configs -> {0} \cup StackIds]
  BY Lookup DEF RaceInv, Types
<1>2. CASE GetStack(c)
  <2>1. list' = list /\ pc' = [pc EXCEPT ![t] = "open"] /\ list[c] # 0
    BY <1>2, Lookup DEF GetStack
  <2>2. Types'
    BY <2>1 DEF RaceInv, Types, OpenLookup, Writing, channel, served
  <2>3. Arguments'
    BY <1>1, <2>1 DEF RaceInv, Types, Arguments, OpenLookup, Writing, channel
  <2>4. QED
    BY <2>1, <2>2, <2>3, DistinctStays DEF RaceInv
<1>3. CASE ~ GetStack(c)
  <2>1. /\ list' = [list EXCEPT ![c] = nextStackId] /\ pc' = [pc EXCEPT ![t] = "create"]
        /\ nextStackId \in StackIds /\ nextStackId = Cardinality(Listed) + 1
        /\ Cardinality(Listed') = nextStackId
    BY <1>3, Lookup
  <2>2. nextStackId # 0 /\ nextStackId \in Nat
    BY <2>1, StackIdsType DEF StackIds
  <2> HIDE DEF c
  <2>3. Types'
    BY <2>1, <1>1 DEF RaceInv, Types, OpenLookup, Writing, channel, served
  <2>4. Arguments'
    BY <1>1, <2>1, <2>2 DEF RaceInv, Types, Arguments, OpenLookup, Writing, channel, c
  <2>5. Distinct'
    <3>1. /\ \A d \in Configs : list[d] <= Cardinality(Listed) /\ list[d] \in Nat
          /\ Cardinality(Listed) \in Nat
      BY <1>1, ListedType, StackIdsType DEF RaceInv, Distinct, StackIds
    <3>2. \A d \in Configs : list'[d] = IF d = c THEN nextStackId ELSE list[d]
      BY <1>1, <2>1
    <3>3. \A d \in Configs : list'[d] <= Cardinality(Listed')
      BY <2>1, <3>1, <3>2
    <3>4. \A d, e \in Configs : list[d] # 0 /\ list[d] = list[e] => d = e
      BY DEF RaceInv, Distinct
    <3>5. \A d \in Configs : list[d] # nextStackId
      BY <2>1, <3>1
    <3>6. \A d, e \in Configs : list'[d] # 0 /\ list'[d] = list'[e] => d = e
      BY <3>2, <3>4, <3>5
    <3>7. QED
      BY <3>3, <3>6 DEF Distinct
  <2>6. QED
    BY <2>3, <2>4, <2>5 DEF RaceInv
<1>4. QED
  BY <1>2, <1>3

LEMMA RaceCloseBegin ==
    ASSUME RaceInv, NEW t \in Callers, NEW f \in Fds, CloseBegin(t, f) PROVE RaceInv'
<1>1. Types'
  BY DEF RaceInv, Types, CloseBegin, Calling, lists, channel, served, Writing
<1>2. Arguments'
  BY DEF RaceInv, Types, Arguments, CloseBegin, Calling, lists, channel, Writing
<1>3. Distinct'
  BY DistinctStays DEF RaceInv, CloseBegin, lists
<1>4. QED
  BY <1>1, <1>2, <1>3 DEF RaceInv

LEMMA RacePassBegin ==
    ASSUME RaceInv, NEW t \in Callers, NEW c \in Configs, PassBegin(t, c) PROVE RaceInv'
<1>1. Types'
  BY DEF RaceInv, Types, PassBegin, Calling, channel, served, Writing
<1>2. list[c] # 0
  <2>1. list[c] \in StackIds /\ 0 \notin StackIds
    <3>1. list[c] \in stacks /\ stacks \subseteq StackIds
      BY DEF RaceInv, Types, PassBegin
    <3>2. QED
      BY <3>1, StackIdsType
  <2>2. QED
    BY <2>1
<1>3. Arguments'
  BY <1>2 DEF RaceInv, Types, Arguments, PassBegin, Calling, channel, Writing
<1>4. Distinct'
  BY DistinctStays DEF RaceInv, PassBegin
<1>5. QED
  BY <1>1, <1>3, <1>4 DEF RaceInv

LEMMA RaceDestroy ==
    ASSUME RaceInv, NEW t \in Callers, DestroyBegin(t) \/ DestroyEnd(t) PROVE RaceInv'
<1>1. Types'
  BY ZenonT(60) DEF RaceInv, Types, DestroyBegin, DestroyEnd, Calling, lists, channel, served, Writing
<1>2. Arguments'
  BY ZenonT(60) DEF RaceInv, Types, Arguments, DestroyBegin, DestroyEnd, Calling, lists, channel, Writing
<1>3. Distinct'
  BY DistinctStays DEF RaceInv, DestroyBegin, DestroyEnd, lists
<1>4. QED
  BY <1>1, <1>2, <1>3 DEF RaceInv

(* Reading a command leaves a shorter ring. *)
LEMMA ReadType ==
    ASSUME ring \in Seq(Command), ring # <<>>
    PROVE  /\ Head(ring) \in Command /\ Tail(ring) \in Seq(Command)
           /\ Len(Tail(ring)) = Len(ring) - 1 /\ Len(ring) \in Nat
           /\ Len(Tail(ring)) \in Nat /\ Len(Tail(ring)) < Len(ring)
           /\ \A r \in Nat : Len(ring) <= r => Len(Tail(ring)) < r /\ Len(Tail(ring)) <= r
OBVIOUS

LEMMA RaceExecute == RaceInv /\ Execute => RaceInv'
<1> SUFFICES ASSUME RaceInv, Execute PROVE RaceInv'
  OBVIOUS
<1>1. PICK op \in {"CREATE STACK", "OPEN", "CLOSE", "DESTROY STACK", "SHUTDOWN"} : Read(op)
  BY DEF Execute, ExecuteCreateStack, ExecuteOpenConnection, ExecuteCloseConnection,
         ExecuteDestroyStack, ExecuteShutdownFramework
<1>2. /\ Head(ring) \in Command /\ ring' \in Seq(Command) /\ Len(ring') <= RingSize
      /\ Len(ring') < RingSize
  <2>1. ring # <<>> /\ ring' = Tail(ring) /\ ring \in Seq(Command) /\ Len(ring) <= RingSize
    BY <1>1 DEF RaceInv, Types, Read
  <2>2. /\ Head(ring) \in Command /\ Tail(ring) \in Seq(Command)
        /\ \A r \in Nat : Len(ring) <= r => Len(Tail(ring)) < r /\ Len(Tail(ring)) <= r
    BY <2>1, ReadType
  <2>3. Len(Tail(ring)) < RingSize /\ Len(Tail(ring)) <= RingSize
    BY <2>1, <2>2, RingSizeType, Zenon
  <2>4. QED
    BY <2>1, <2>2, <2>3, Zenon
<1>3. Known(Head(ring))
  BY <1>2, CommandKinds
<1>4. Types'
  <2>1. UNCHANGED <<transport, list, list_owner, retired, pc, config, fd, put, held, worker, notified>>
    BY <1>1 DEF Read, Working, lists, calls
  <2>2. CASE ExecuteCreateStack
    BY <1>2, <1>3, <2>1, <2>2
       DEF ExecuteCreateStack, Read, RaceInv, Types, Known, Asserts
  <2>3. CASE ExecuteOpenConnection
    BY <1>2, <1>3, <2>1, <2>3
       DEF ExecuteOpenConnection, Read, RaceInv, Types, Known, Asserts
  <2>4. CASE ExecuteCloseConnection
    BY <1>2, <1>3, <2>1, <2>4
       DEF ExecuteCloseConnection, Read, RaceInv, Types, Known, Asserts
  <2>5. CASE ExecuteDestroyStack
    BY <1>2, <1>3, <2>1, <2>5
       DEF ExecuteDestroyStack, Read, RaceInv, Types, Known, Asserts, DestroyHolders
  <2>6. CASE ExecuteShutdownFramework
    BY <1>2, <1>3, <2>1, <2>6
       DEF ExecuteShutdownFramework, Read, RaceInv, Types, Known, Asserts, DestroyHolders
  <2>7. QED
    BY <2>2, <2>3, <2>4, <2>5, <2>6 DEF Execute
<1>5. Arguments'
  <2>1. \A t \in Callers : put[t] = "clear" => Len(ring') < RingSize
    <3>1. \A t \in Callers : put[t] = "clear" => Len(ring) < RingSize
      BY DEF RaceInv, Arguments
    <3>2. QED
      BY <1>2, <3>1, Zenon
  <2>2. UNCHANGED <<list, pc, config, fd, put>>
    BY <1>1 DEF Read, Working, lists, calls
  <2>3. QED
    BY <2>1, <2>2 DEF RaceInv, Arguments
<1>6. Distinct'
  BY <1>1, DistinctStays DEF Read, Working, lists, RaceInv
<1>7. QED
  BY <1>4, <1>5, <1>6 DEF RaceInv

LEMMA RaceWorker ==
    RaceInv /\ (Run \/ Wake \/ EndBatch \/ StartEvents \/ SchedulerReturns \/ Exit) => RaceInv'
<1> SUFFICES ASSUME RaceInv, Run \/ Wake \/ EndBatch \/ StartEvents \/ SchedulerReturns \/ Exit
             PROVE  RaceInv'
  OBVIOUS
<1>1. Working /\ UNCHANGED <<ring, served, aborted>>
  BY DEF Run, Wake, EndBatch, StartEvents, SchedulerReturns, Exit, channel
<1>2. Types'
  BY <1>1, ZenonT(60) DEF RaceInv, Types, Working, lists, calls, served, channel,
              Run, Wake, EndBatch, StartEvents, SchedulerReturns, Exit
<1>3. Arguments'
  BY <1>1 DEF RaceInv, Arguments, Working, lists, calls
<1>4. Distinct'
  BY <1>1, DistinctStays DEF RaceInv, Working, lists
<1>5. QED
  BY <1>2, <1>3, <1>4 DEF RaceInv

LEMMA RaceRelease == ASSUME RaceInv, NEW f \in Fds, Release(f) PROVE RaceInv'
<1>1. Types'
  BY DEF RaceInv, Types, Release, Working, lists, calls, channel
<1>2. Arguments'
  BY DEF RaceInv, Arguments, Release, Working, lists, calls, channel
<1>3. Distinct'
  BY DistinctStays DEF RaceInv, Release, Working, lists
<1>4. QED
  BY <1>1, <1>2, <1>3 DEF RaceInv

LEMMA RaceStutter == RaceInv /\ UNCHANGED vars => RaceInv'
<1> SUFFICES ASSUME RaceInv, UNCHANGED vars PROVE RaceInv'
  OBVIOUS
<1>1. Types'
  <2>1. notified' \in BOOLEAN
    BY DEF RaceInv, Types, vars, channel
  <2>2. QED
    BY <2>1, ZenonT(60) DEF RaceInv, Types, vars, lists, calls, channel, served
<1>2. Arguments'
  BY DEF RaceInv, Arguments, vars, lists, calls, channel
<1>3. Distinct'
  BY DistinctStays DEF RaceInv, vars, lists
<1>4. QED
  BY <1>1, <1>2, <1>3 DEF RaceInv

LEMMA RaceNext == RaceInv /\ [Next]_vars => RaceInv'
BY RaceCreate, RacePutBegin, RacePutEnd, RaceOpenBegin, RaceOpenLookup, RaceCloseBegin,
   RacePassBegin, RaceDestroy, RaceExecute, RaceWorker, RaceRelease, RaceStutter, Zenon
   DEF Next, Worker, Caller

LEMMA RaceInductive == Spec => []RaceInv
BY RaceInit, RaceNext, PTL DEF Spec

(* The variables keep their types, however the calls race. *)
THEOREM TypeCorrect == Spec => []TypeOK
<1>1. RaceInv => TypeOK
  BY TypesAreOK DEF RaceInv
<1>2. QED
  BY RaceInductive, <1>1, PTL

-----------------------------------------------------------------------------
(* What holds when calls do not race and the ring has room                 *)

Queued == {ring[i] : i \in DOMAIN ring}

Opens(f) == \E id \in StackIds : OPEN(id, f) \in Queued

(* A thread in Open, and one whose call is about a descriptor. *)
InOpen(t) == pc[t] \in {"lock", "create", "open"}
Uses(t, f) == (InOpen(t) \/ pc[t] = "close") /\ fd[t] = f

StackOf(t) == list[config[t]]
Stopped == status \in {"STOPPING", "SHUTDOWN"}
Ending == transport \in {"destroying", "gone"}

(* Calls that close or destroy are alone, the list is locked while a stack *)
(* is made and its connection opened, and no write is lost.                *)
Serial ==
    /\ \A t, u \in Callers : u # t /\ pc[t] \in {"close", "pass", "shutdown", "waiting"} =>
          pc[u] = "idle"
    /\ \A t \in Callers : pc[t] \in {"create", "open", "shutdown", "waiting"} => list_owner = t
    /\ \A t \in Callers : put[t] # "raced"

(* The lives of the transport, the framework and the worker thread.        *)
Lifecycle ==
    /\ transport = "none" <=> status = "INIT"
    /\ status = "INIT" <=> worker = "none"
    /\ status = "STARTING" <=> worker = "created"
    /\ status = "SHUTDOWN" <=> worker = "exited"
    /\ worker = "returned" => status = "STOPPING"
    /\ transport = "gone" => status = "SHUTDOWN"
    /\ Stopped => Ending
    /\ \A t \in Callers : pc[t] \in {"lock", "create", "open", "close", "pass"} => transport = "up"
    /\ \A t \in Callers : pc[t] \in {"shutdown", "waiting"} => transport = "destroying"
    /\ \A t \in Callers : pc[t] = "shutdown" => ~ Stopped /\ SHUTDOWN \notin Queued
    /\ SHUTDOWN \in Queued => ~ Stopped /\ transport = "destroying"

(* No command is in the ring twice. *)
SameKey(a, b) == a.op = b.op /\ a.fd = b.fd /\ (a.op = "OPEN" \/ a.stack = b.stack)
NoTwice == \A i, j \in DOMAIN ring : SameKey(ring[i], ring[j]) => i = j

(* A command finds what it needs, or another one before it makes it.       *)
Executable ==
    /\ \A id \in StackIds : CREATE(id) \in Queued => id \notin stacks
    /\ \A id \in StackIds, f \in Fds : OPEN(id, f) \in Queued => serving[f] = 0
    /\ \A f \in Fds : CLOSE(f) \in Queued => f \notin closed
    /\ \A id \in StackIds : DESTROY(id) \in Queued =>
          id \in stacks /\ \A f \in Fds : serving[f] = id => f \in closed

Before(i, q) == \E j \in 1 .. i - 1 : ring[j] = q
Ordered == \A i \in DOMAIN ring :
    /\ \A id \in StackIds, f \in Fds : ring[i] = OPEN(id, f) =>
          id \in stacks \/ Before(i, CREATE(id))
    /\ \A f \in Fds : ring[i] = CLOSE(f) =>
          serving[f] # 0 \/ \E id \in StackIds : Before(i, OPEN(id, f))
    /\ ring[i] = SHUTDOWN => i = Len(ring)

(* Stacks and commands only have ids that were given out. *)
Numbered ==
    /\ \A id \in stacks : id <= Cardinality(Listed)
    /\ \A id \in StackIds : CREATE(id) \in Queued => id <= Cardinality(Listed)
    /\ \A id \in StackIds, f \in Fds : OPEN(id, f) \in Queued => id <= Cardinality(Listed)

(* What a call relies on until its command is written. *)
InCall(t) ==
    /\ InOpen(t) => /\ serving[fd[t]] = 0 /\ ~ Opens(fd[t]) /\ CLOSE(fd[t]) \notin Queued
                    /\ \A u \in Callers : Uses(u, fd[t]) => u = t
                    /\ config[t] \notin retired
    /\ pc[t] = "create" => /\ StackOf(t) \notin stacks /\ CREATE(StackOf(t)) \notin Queued
                           /\ \A f \in Fds : OPEN(StackOf(t), f) \notin Queued
    /\ pc[t] = "open" => StackOf(t) \in stacks \/ CREATE(StackOf(t)) \in Queued
    /\ pc[t] = "close" => /\ CLOSE(fd[t]) \notin Queued /\ fd[t] \notin closed
                          /\ serving[fd[t]] # 0 \/ Opens(fd[t])
    /\ pc[t] = "pass" => /\ ring = <<>> /\ StackOf(t) \in stacks /\ config[t] \in retired
                         /\ \A f \in Fds : serving[f] = StackOf(t) => f \in closed
InCalls == \A t \in Callers : InCall(t)

(* Where a descriptor is between Open and the release of its connection.   *)
Descriptor(f) ==
    /\ f \in closed => serving[f] # 0
    /\ serving[f] # 0 => serving[f] \in stacks
    /\ f \notin open_fds => /\ serving[f] = 0 /\ ~ Opens(f) /\ CLOSE(f) \notin Queued
                            /\ \A t \in Callers : ~ Uses(t, f)
    /\ f \in open_fds => \/ serving[f] # 0 \/ Opens(f)
                         \/ \E t \in Callers : InOpen(t) /\ fd[t] = f
    /\ f \in held /\ ~ Ending => /\ serving[f] # 0 \/ Opens(f)
                                 /\ f \notin closed /\ CLOSE(f) \notin Queued
                                 /\ \A t \in Callers : ~ Uses(t, f)
Descriptors == \A f \in Fds : Descriptor(f)

(* Nothing is on its way to a stack that the application destroys.         *)
Retired ==
    /\ \A c \in retired : /\ list[c] # 0 /\ CREATE(list[c]) \notin Queued
                          /\ \A f \in Fds : OPEN(list[c], f) \notin Queued
    /\ \A id \in StackIds : DESTROY(id) \in Queued => \E c \in retired : list[c] = id

Created == \A c \in Configs \ retired : list[c] # 0 /\ ~ Stopped =>
    \/ list[c] \in stacks \/ CREATE(list[c]) \in Queued
    \/ \E t \in Callers : pc[t] = "create" /\ config[t] = c

AfterStop == Stopped => ring = <<>> /\ stacks = {} /\ open_fds = {}

SafeInv ==
    /\ RaceInv /\ Serial /\ Lifecycle /\ NoTwice /\ Executable /\ Ordered /\ Numbered
    /\ InCalls /\ Descriptors /\ Retired /\ Created /\ AfterStop /\ NoAbort

(* No write finds the ring full. *)
NeverFull == \A t \in Callers : pc[t] \in Writing /\ put[t] = "no" => Len(ring) < RingSize


(* Commands of one operation differ by their arguments. *)
LEMMA CommandsDiffer ==
    /\ \A a, b : CREATE(a) = CREATE(b) => a = b
    /\ \A a, b : DESTROY(a) = DESTROY(b) => a = b
    /\ \A a, b : CLOSE(a) = CLOSE(b) => a = b
    /\ \A a, b, f, g : OPEN(a, f) = OPEN(b, g) => a = b /\ f = g
    /\ \A a, b : CREATE(a) # DESTROY(b) /\ CREATE(a) # CLOSE(b) /\ DESTROY(a) # CLOSE(b)
    /\ \A a, b, f : OPEN(a, f) # CREATE(b) /\ OPEN(a, f) # DESTROY(b) /\ OPEN(a, f) # CLOSE(b)
    /\ \A a : CREATE(a) # SHUTDOWN /\ DESTROY(a) # SHUTDOWN /\ CLOSE(a) # SHUTDOWN
    /\ \A a, f : OPEN(a, f) # SHUTDOWN
BY DEF CREATE, DESTROY, OPEN, CLOSE, SHUTDOWN

(* A command that is written goes behind the others. *)
LEMMA AppendFacts ==
    ASSUME ring \in Seq(Command), NEW x \in Command, ring' = Append(ring, x)
    PROVE  /\ Len(ring) \in Nat /\ Len(ring') = Len(ring) + 1
           /\ \A i \in DOMAIN ring' :
                 \/ i \in DOMAIN ring /\ i # Len(ring') /\ ring'[i] = ring[i]
                 \/ i = Len(ring') /\ ring'[i] = x
           /\ Queued' = Queued \cup {x}
           /\ \A q : \A i \in DOMAIN ring : Before(i, q) => Before(i, q)'
           /\ \A i \in DOMAIN ring', q \in Queued : i = Len(ring') => Before(i, q)'
<1>1. /\ Len(ring) \in Nat /\ Len(ring') = Len(ring) + 1
      /\ DOMAIN ring = 1 .. Len(ring) /\ DOMAIN ring' = 1 .. Len(ring) + 1
      /\ ring'[Len(ring) + 1] = x
      /\ \A i \in 1 .. Len(ring) : ring'[i] = ring[i]
  OBVIOUS
<1>2. \A i \in DOMAIN ring' :
         \/ i \in DOMAIN ring /\ i # Len(ring') /\ ring'[i] = ring[i]
         \/ i = Len(ring') /\ ring'[i] = x
  BY <1>1
<1>3. Queued' = Queued \cup {x}
  <2>1. Queued' \subseteq Queued \cup {x}
    BY <1>2 DEF Queued
  <2>2. \A i \in DOMAIN ring : i \in DOMAIN ring' /\ ring'[i] = ring[i]
    BY <1>1
  <2>3. Len(ring) + 1 \in DOMAIN ring'
    BY <1>1
  <2>4. QED
    BY <1>1, <2>1, <2>2, <2>3 DEF Queued
<1>4. \A q : \A i \in DOMAIN ring : Before(i, q) => Before(i, q)'
  <2>1. ASSUME NEW i \in DOMAIN ring, NEW q, NEW j \in 1 .. i - 1, ring[j] = q
        PROVE  ring'[j] = q
    BY <1>1, <2>1
  <2>2. QED
    BY <2>1 DEF Before
<1>5. \A i \in DOMAIN ring', q \in Queued : i = Len(ring') => Before(i, q)'
  <2>1. ASSUME NEW j \in DOMAIN ring
        PROVE  j \in 1 .. Len(ring') - 1 /\ ring'[j] = ring[j]
    BY <1>1
  <2>2. ASSUME NEW i \in DOMAIN ring', NEW q \in Queued, i = Len(ring') PROVE Before(i, q)'
    <3>1. PICK j \in DOMAIN ring : ring[j] = q
      BY DEF Queued
    <3>2. j \in 1 .. i - 1 /\ ring'[j] = q
      BY <2>1, <2>2, <3>1
    <3>3. QED
      BY <3>2 DEF Before
  <2>3. QED
    BY <2>2
<1>6. QED
  BY <1>1, <1>2, <1>3, <1>4, <1>5

(* The command that is read was the first. *)
LEMMA TailFacts ==
    ASSUME ring \in Seq(Command), ring # <<>>, ring' = Tail(ring), NoTwice
    PROVE  /\ 1 \in DOMAIN ring /\ ring[1] = Head(ring)
           /\ \A q : ~ Before(1, q)
           /\ \A i \in DOMAIN ring' : /\ i + 1 \in DOMAIN ring /\ ring'[i] = ring[i + 1]
                                      /\ i + 1 = Len(ring) => i = Len(ring')
           /\ Queued = Queued' \cup {Head(ring)}
           /\ Head(ring) \notin Queued'
           /\ \A q \in Queued' : ~ SameKey(q, Head(ring))
           /\ \A q : \A i \in DOMAIN ring' : Before(i + 1, q) => Before(i, q)' \/ q = Head(ring)
           /\ NoTwice'
<1>1. /\ Len(ring) \in Nat /\ Len(ring) >= 1 /\ Len(ring') = Len(ring) - 1
      /\ DOMAIN ring = 1 .. Len(ring) /\ DOMAIN ring' = 1 .. Len(ring) - 1
      /\ ring[1] = Head(ring)
      /\ \A i \in 1 .. Len(ring) - 1 : ring'[i] = ring[i + 1]
  OBVIOUS
<1>2. 1 \in DOMAIN ring /\ \A q : ~ Before(1, q)
  BY <1>1 DEF Before
<1>3. \A i \in DOMAIN ring' : /\ i \in Nat /\ i + 1 \in DOMAIN ring /\ i + 1 # 1
                              /\ ring'[i] = ring[i + 1]
                              /\ i + 1 = Len(ring) => i = Len(ring')
  BY <1>1
<1>4. \A j \in DOMAIN ring : j = 1 \/ \E i \in DOMAIN ring' : j = i + 1
  <2>1. ASSUME NEW j \in DOMAIN ring, j # 1 PROVE j - 1 \in DOMAIN ring' /\ j = (j - 1) + 1
    BY <1>1, <2>1
  <2>2. QED
    BY <2>1
<1>5. Queued = Queued' \cup {Head(ring)}
  <2>1. Queued' \subseteq Queued
    BY <1>3 DEF Queued
  <2>2. Head(ring) \in Queued
    BY <1>1, <1>2 DEF Queued
  <2>3. ASSUME NEW j \in DOMAIN ring PROVE ring[j] = Head(ring) \/ ring[j] \in Queued'
    BY <1>1, <1>3, <1>4 DEF Queued
  <2>4. Queued \subseteq Queued' \cup {Head(ring)}
    BY <2>3 DEF Queued
  <2>5. QED
    BY <2>1, <2>2, <2>4
<1>6. \A q \in Queued' : ~ SameKey(q, Head(ring))
  <2>1. ASSUME NEW i \in DOMAIN ring' PROVE ~ SameKey(ring'[i], Head(ring))
    BY <1>1, <1>2, <1>3 DEF NoTwice
  <2>2. QED
    BY <2>1 DEF Queued
<1>7. Head(ring) \notin Queued'
  BY <1>6 DEF SameKey
<1>8. \A q : \A i \in DOMAIN ring' : Before(i + 1, q) => Before(i, q)' \/ q = Head(ring)
  <2>1. ASSUME NEW i \in DOMAIN ring', NEW q, NEW j \in 1 .. i + 1 - 1, ring[j] = q, j # 1
        PROVE  j - 1 \in 1 .. i - 1 /\ ring'[j - 1] = q
    BY <1>1, <2>1
  <2>2. QED
    BY <1>1, <2>1 DEF Before
<1>9. NoTwice'
  <2>1. ASSUME NEW i \in DOMAIN ring', NEW j \in DOMAIN ring', SameKey(ring'[i], ring'[j])
        PROVE  i = j
    <3>1. i + 1 = j + 1
      BY <1>3, <2>1 DEF NoTwice
    <3>2. QED
      BY <1>3, <3>1
  <2>2. QED
    BY <2>1 DEF NoTwice
<1>10. QED
  BY <1>1, <1>2, <1>3, <1>5, <1>6, <1>7, <1>8, <1>9

(* The commands with the key of another one. *)
LEMMA SameCommand ==
    ASSUME NEW q \in Command
    PROVE  /\ \A id : SameKey(q, CREATE(id)) => q = CREATE(id)
           /\ \A id, f : SameKey(q, OPEN(id, f)) => \E i \in StackIds : q = OPEN(i, f)
           /\ \A f : SameKey(q, CLOSE(f)) => q = CLOSE(f)
           /\ \A id : SameKey(q, DESTROY(id)) => q = DESTROY(id)
           /\ SameKey(q, SHUTDOWN) => q = SHUTDOWN
<1>1. Known(q)
  BY CommandKinds
<1>2. ASSUME NEW id, SameKey(q, CREATE(id)) PROVE q = CREATE(id)
  <2>1. q.op = "CREATE STACK" /\ q.stack = id
    BY <1>2, CommandFields DEF SameKey
  <2>2. QED
    BY <1>1, <2>1 DEF Known
<1>3. ASSUME NEW id, NEW f, SameKey(q, OPEN(id, f)) PROVE \E i \in StackIds : q = OPEN(i, f)
  <2>1. q.op = "OPEN" /\ q.fd = f
    BY <1>3 DEF SameKey, OPEN
  <2>2. QED
    BY <1>1, <2>1 DEF Known
<1>4. ASSUME NEW f, SameKey(q, CLOSE(f)) PROVE q = CLOSE(f)
  <2>1. q.op = "CLOSE" /\ q.fd = f
    BY <1>4, CommandFields DEF SameKey
  <2>2. QED
    BY <1>1, <2>1 DEF Known
<1>5. ASSUME NEW id, SameKey(q, DESTROY(id)) PROVE q = DESTROY(id)
  <2>1. q.op = "DESTROY STACK" /\ q.stack = id
    BY <1>5, CommandFields DEF SameKey
  <2>2. QED
    BY <1>1, <2>1 DEF Known
<1>6. SameKey(q, SHUTDOWN) => q = SHUTDOWN
  BY <1>1, CommandFields DEF SameKey, Known
<1>7. QED
  BY <1>2, <1>3, <1>4, <1>5, <1>6

(* A command that is like none in the ring is not there twice. *)
LEMMA AppendOnce ==
    ASSUME ring \in Seq(Command), NEW x \in Command, ring' = Append(ring, x), NoTwice,
           \A q \in Queued : ~ SameKey(q, x)
    PROVE  NoTwice'
<1>1. \A i \in DOMAIN ring' : \/ i \in DOMAIN ring /\ ring'[i] = ring[i] /\ ring'[i] \in Queued
                              \/ i = Len(ring') /\ ring'[i] = x
  BY AppendFacts DEF Queued
<1>2. \A q \in Queued : ~ SameKey(x, q)
  BY DEF SameKey
<1>3. QED
  BY <1>1, <1>2 DEF NoTwice

(* While the ring stays, so does what is in it. *)
LEMMA QueuedStays ==
    UNCHANGED ring => Queued' = Queued /\ NoTwice' = NoTwice
                      /\ (\A f : Opens(f)' = Opens(f)) /\ (\A i, q : Before(i, q)' = Before(i, q))
BY DEF Queued, NoTwice, SameKey, Opens, Before

(* What the steps that leave the ring, the stacks and the connections      *)
(* alone leave true of them.                                               *)
LEMMA RingStays ==
    ASSUME UNCHANGED <<list, ring, served>>, NoTwice, Executable, Ordered, Numbered
    PROVE  NoTwice' /\ Executable' /\ Ordered' /\ Numbered'
<1>1. NoTwice'
  BY DEF NoTwice, SameKey
<1>2. Executable'
  BY DEF Executable, Queued, served
<1>3. Ordered'
  BY DEF Ordered, Before, served
<1>4. Numbered'
  BY DEF Numbered, Queued, Listed, GetStack, served
<1>5. QED
  BY <1>1, <1>2, <1>3, <1>4

LEMMA CallsStay ==
    ASSUME UNCHANGED <<list, retired, pc, config, fd, ring, served>>, InCalls
    PROVE  InCalls'
BY DEF InCalls, InCall, InOpen, Uses, StackOf, Opens, Queued, served

LEMMA DescriptorsStay ==
    ASSUME UNCHANGED <<pc, fd, ring, held, served>>, Ending' = Ending, Descriptors
    PROVE  Descriptors'
BY DEF Descriptors, Descriptor, InOpen, Uses, Opens, Queued, served

LEMMA StacksStay ==
    ASSUME UNCHANGED <<list, retired, pc, config, ring, served>>, Stopped' = Stopped,
           Retired, Created, AfterStop
    PROVE  Retired' /\ Created' /\ AfterStop'
<1>1. Retired'
  BY DEF Retired, Queued
<1>2. Created'
  BY DEF Created, Queued, served
<1>3. AfterStop'
  BY DEF AfterStop, served
<1>4. QED
  BY <1>1, <1>2, <1>3

LEMMA SerialStays == UNCHANGED <<list_owner, pc, put>> /\ Serial => Serial'
BY DEF Serial

LEMMA LifecycleStays ==
    ASSUME UNCHANGED <<status, transport, pc, ring, worker>>, Lifecycle
    PROVE  Lifecycle'
BY DEF Lifecycle, Stopped, Ending, Queued

LEMMA SafeInit == Init => SafeInv
<1> SUFFICES ASSUME Init PROVE SafeInv
  OBVIOUS
<1>1. RaceInv
  BY RaceInit
<1>2. Queued = {} /\ \A f : ~ Opens(f)
  BY DEF Init, Queued, Opens
<1>3. Serial
  BY DEF Init, Serial
<1>4. Lifecycle
  BY <1>2 DEF Init, Lifecycle, Stopped, Ending
<1>5. NoTwice /\ Ordered
  BY DEF Init, NoTwice, Ordered
<1>6. Executable /\ Numbered
  BY <1>2 DEF Init, Executable, Numbered
<1>7. InCalls
  BY DEF Init, InCalls, InCall, InOpen
<1>8. Descriptors
  BY <1>2 DEF Init, Descriptors, Descriptor, Uses, InOpen
<1>9. Retired /\ Created /\ AfterStop /\ NoAbort
  BY <1>2 DEF Init, Retired, Created, AfterStop, Stopped, NoAbort
<1>10. QED
  BY <1>1, <1>3, <1>4, <1>5, <1>6, <1>7, <1>8, <1>9 DEF SafeInv

-----------------------------------------------------------------------------
(* The steps of the worker around its commands                             *)

LEMMA SafeWorker ==
    ASSUME SafeInv, Run \/ Wake \/ EndBatch \/ StartEvents \/ SchedulerReturns \/ Exit
    PROVE  SafeInv'
<1>1. UNCHANGED <<transport, list, list_owner, retired, pc, config, fd, put, ring, held, served,
                  aborted>>
  BY DEF Run, Wake, EndBatch, StartEvents, SchedulerReturns, Exit, Working, lists, calls, channel
<1>2. RaceInv'
  BY RaceWorker DEF SafeInv
<1>3. Stopped' = Stopped
  BY DEF SafeInv, Lifecycle, Stopped, Run, Wake, EndBatch, StartEvents, SchedulerReturns, Exit
<1>4. Queued' = Queued
  BY <1>1, QueuedStays
<1>5. Lifecycle'
  <2>1. \/ status = "STARTING" /\ status' = "RUNNING" /\ worker' = "polling"
        \/ /\ worker \in {"polling", "batch", "resuming"}
           /\ worker' \in {"polling", "batch", "resuming"} /\ UNCHANGED status
        \/ status = "STOPPING" /\ worker' = "returned" /\ UNCHANGED status
        \/ worker = "returned" /\ worker' = "exited" /\ status' = "SHUTDOWN"
    BY DEF Run, Wake, EndBatch, StartEvents, SchedulerReturns, Exit
  <2>2. QED
    BY <1>1, <1>3, <1>4, <2>1 DEF SafeInv, Lifecycle, Ending, Stopped
<1>6. Serial' /\ NoTwice' /\ Executable' /\ Ordered' /\ Numbered'
  BY <1>1, SerialStays, RingStays DEF SafeInv
<1>7. InCalls' /\ Descriptors'
  BY <1>1, CallsStay, DescriptorsStay DEF SafeInv, Ending
<1>8. Retired' /\ Created' /\ AfterStop' /\ NoAbort'
  BY <1>1, <1>3, StacksStay DEF SafeInv, NoAbort
<1>9. QED
  BY <1>2, <1>5, <1>6, <1>7, <1>8 DEF SafeInv

LEMMA SafeCreate == ASSUME SafeInv, Create \/ CreateReturns PROVE SafeInv'
<1>1. UNCHANGED <<list, list_owner, retired, pc, config, fd, put, ring, held, served, aborted>>
  BY DEF Create, CreateReturns, lists, calls, channel
<1>2. RaceInv'
  BY RaceCreate DEF SafeInv
<1>3. Stopped' = Stopped /\ Ending' = Ending
  BY DEF SafeInv, Lifecycle, Stopped, Ending, Create, CreateReturns
<1>4. Queued' = Queued
  BY <1>1, QueuedStays
<1>5. Lifecycle'
  <2>1. \/ transport = "none" /\ transport' = "creating" /\ status' = "STARTING" /\ worker' = "created"
        \/ transport = "creating" /\ transport' = "up" /\ status # "INIT" /\ UNCHANGED <<status, worker>>
    BY DEF Create, CreateReturns
  <2>2. QED
    BY <1>1, <1>3, <1>4, <2>1 DEF SafeInv, Lifecycle, Ending, Stopped
<1>6. Serial' /\ NoTwice' /\ Executable' /\ Ordered' /\ Numbered'
  BY <1>1, SerialStays, RingStays DEF SafeInv
<1>7. InCalls' /\ Descriptors'
  BY <1>1, <1>3, CallsStay, DescriptorsStay DEF SafeInv
<1>8. Retired' /\ Created' /\ AfterStop' /\ NoAbort'
  BY <1>1, <1>3, StacksStay DEF SafeInv, NoAbort
<1>9. QED
  BY <1>2, <1>5, <1>6, <1>7, <1>8 DEF SafeInv

LEMMA SafePutBegin ==
    ASSUME SafeInv, NeverFull, NEW t \in Callers, PutBegin(t) PROVE SafeInv'
<1>1. UNCHANGED <<status, transport, list, list_owner, retired, pc, config, fd, ring, held, worker,
                  served, aborted>>
  <2>1. Len(ring) < RingSize /\ pc[t] \in Writing
    BY DEF PutBegin, NeverFull
  <2>2. Len(ring) # RingSize
    <3>1. ring \in Seq(Command)
      BY DEF SafeInv, RaceInv, Types
    <3>2. QED
      BY <2>1, <3>1, RingSizeType
  <2>3. QED
    BY <2>2 DEF PutBegin
<1>2. RaceInv'
  BY RacePutBegin DEF SafeInv
<1>3. Stopped' = Stopped /\ Ending' = Ending
  BY <1>1 DEF Stopped, Ending
<1>4. Serial'
  <2>1. put' = put \/ put' = [put EXCEPT ![t] = "clear"]
    BY DEF PutBegin
  <2>2. QED
    BY <1>1, <2>1 DEF SafeInv, Serial, RaceInv, Types
<1>5. Lifecycle' /\ NoTwice' /\ Executable' /\ Ordered' /\ Numbered'
  BY <1>1, LifecycleStays, RingStays DEF SafeInv
<1>6. InCalls' /\ Descriptors'
  BY <1>1, <1>3, CallsStay, DescriptorsStay DEF SafeInv
<1>7. Retired' /\ Created' /\ AfterStop' /\ NoAbort'
  BY <1>1, <1>3, StacksStay DEF SafeInv, NoAbort
<1>8. QED
  BY <1>2, <1>4, <1>5, <1>6, <1>7 DEF SafeInv

LEMMA SafeStutter == SafeInv /\ UNCHANGED vars => SafeInv'
<1> SUFFICES ASSUME SafeInv, UNCHANGED vars PROVE SafeInv'
  OBVIOUS
<1>1. UNCHANGED <<status, transport, list, list_owner, retired, pc, config, fd, put, ring, held,
                  worker, served, aborted>>
  BY DEF vars, lists, calls, channel
<1>2. RaceInv'
  BY RaceStutter DEF SafeInv
<1>3. Stopped' = Stopped /\ Ending' = Ending
  BY <1>1 DEF Stopped, Ending
<1>4. Serial' /\ Lifecycle' /\ NoTwice' /\ Executable' /\ Ordered' /\ Numbered'
  BY <1>1, SerialStays, LifecycleStays, RingStays DEF SafeInv
<1>5. InCalls' /\ Descriptors'
  BY <1>1, <1>3, CallsStay, DescriptorsStay DEF SafeInv
<1>6. Retired' /\ Created' /\ AfterStop' /\ NoAbort'
  BY <1>1, <1>3, StacksStay DEF SafeInv, NoAbort
<1>7. QED
  BY <1>2, <1>4, <1>5, <1>6 DEF SafeInv

-----------------------------------------------------------------------------
(* The calls *)

LEMMA SafeOpenBegin ==
    ASSUME SafeInv, SerialCalls, ~ ReopenDestroyed,
           NEW t \in Callers, NEW c \in Configs, NEW f \in Fds, OpenBegin(t, c, f)
    PROVE  SafeInv'
<1>1. /\ transport = "up" /\ pc[t] = "idle" /\ f \notin open_fds /\ c \notin retired
      /\ \A u \in Callers : pc[u] \notin {"close", "pass"}
      /\ UNCHANGED <<status, transport, list, list_owner, retired, put, ring, held, worker, stacks,
                     serving, closed, aborted>>
      /\ open_fds' = open_fds \cup {f}
  BY DEF OpenBegin, Calling, MayCall, lists, channel
<1>2. /\ \A u \in Callers : pc'[u] = IF u = t THEN "lock" ELSE pc[u]
      /\ \A u \in Callers : config'[u] = IF u = t THEN c ELSE config[u]
      /\ \A u \in Callers : fd'[u] = IF u = t THEN f ELSE fd[u]
  BY DEF OpenBegin, SafeInv, RaceInv, Types
<1>3. RaceInv'
  BY RaceOpenBegin DEF SafeInv
<1>4. /\ Queued' = Queued /\ NoTwice' = NoTwice /\ (\A g : Opens(g)' = Opens(g))
      /\ Stopped' = Stopped /\ Ending' = Ending /\ ~ Stopped /\ ~ Ending /\ Listed' = Listed
  BY <1>1, QueuedStays DEF Stopped, Ending, SafeInv, Lifecycle, Listed, GetStack
<1>5. Serial'
  <2>1. \A u \in Callers : pc[u] \notin {"close", "pass", "shutdown", "waiting"}
    BY <1>1 DEF SafeInv, Lifecycle
  <2>2. QED
    BY <1>1, <1>2, <2>1 DEF SafeInv, Serial
<1>6. Lifecycle'
  BY <1>1, <1>2, <1>4 DEF SafeInv, Lifecycle, Stopped, Ending
<1>7. NoTwice' /\ Executable' /\ Ordered' /\ Numbered'
  BY <1>1, <1>4 DEF SafeInv, Executable, Ordered, Before, Numbered
<1>8. /\ serving[f] = 0 /\ ~ Opens(f) /\ CLOSE(f) \notin Queued /\ f \notin held
      /\ \A u \in Callers : ~ Uses(u, f)
  BY <1>1, <1>4 DEF SafeInv, Descriptors, Descriptor
<1>9. /\ \A u \in Callers : InOpen(u)' <=> u = t \/ InOpen(u)
      /\ \A g : \A u \in Callers : Uses(u, g)' <=> IF u = t THEN g = f ELSE Uses(u, g)
      /\ \A u \in Callers : ~ (InOpen(t) \/ pc[t] = "close")
  BY <1>1, <1>2 DEF InOpen, Uses
<1>10. InCalls'
  <2>1. InCall(t)'
    BY <1>1, <1>2, <1>4, <1>8, <1>9 DEF InCall
  <2>2. ASSUME NEW u \in Callers, u # t PROVE InCall(u)'
    <3>1. InCall(u) /\ StackOf(u)' = StackOf(u) /\ pc'[u] = pc[u] /\ fd'[u] = fd[u]
          /\ config'[u] = config[u]
      BY <1>1, <1>2, <2>2 DEF SafeInv, InCalls, StackOf
    <3>2. InOpen(u) => fd[u] # f
      BY <1>8 DEF Uses
    <3>3. QED
      BY <1>1, <1>4, <1>9, <2>2, <3>1, <3>2 DEF InCall
  <2>3. QED
    BY <2>1, <2>2 DEF InCalls
<1>11. Descriptors'
  <2>1. Descriptor(f)'
    BY <1>1, <1>2, <1>8, <1>9, <1>4 DEF Descriptor, SafeInv, Descriptors
  <2>2. ASSUME NEW g \in Fds, g # f PROVE Descriptor(g)'
    <3>1. Descriptor(g) /\ (g \in open_fds' <=> g \in open_fds)
      BY <1>1, <2>2 DEF SafeInv, Descriptors
    <3>2. \A u \in Callers : Uses(u, g)' => Uses(u, g)
      BY <1>9, <2>2
    <3>3. (\E u \in Callers : InOpen(u) /\ fd[u] = g) => (\E u \in Callers : InOpen(u)' /\ fd'[u] = g)
      BY <1>2, <1>9
    <3>4. QED
      BY <1>1, <1>4, <3>1, <3>2, <3>3 DEF Descriptor
  <2>3. QED
    BY <2>1, <2>2 DEF Descriptors
<1>12. Retired' /\ Created' /\ AfterStop' /\ NoAbort'
  <2>1. \A d : \A u \in Callers : pc[u] = "create" /\ config[u] = d => pc'[u] = "create" /\ config'[u] = d
    BY <1>1, <1>2
  <2>2. Created'
    BY <1>1, <1>4, <2>1 DEF SafeInv, Created
  <2>3. Retired' /\ AfterStop' /\ NoAbort'
    BY <1>1, <1>4 DEF SafeInv, Retired, AfterStop, NoAbort
  <2>4. QED
    BY <2>2, <2>3
<1>13. QED
  BY <1>3, <1>5, <1>6, <1>7, <1>10, <1>11, <1>12 DEF SafeInv

LEMMA SafeOpenLookup ==
    ASSUME SafeInv, NEW t \in Callers, OpenLookup(t) PROVE SafeInv'
<1> DEFINE c == config[t]
<1>1. /\ pc[t] = "lock" /\ list_owner = NoCaller /\ list_owner' = t
      /\ UNCHANGED <<status, transport, retired, config, fd, put, ring, held, worker, stacks,
                     serving, closed, open_fds, aborted>>
  BY DEF OpenLookup, channel, served
<1>2. /\ c \in Configs /\ fd[t] \in Fds /\ list \in [Configs -> {0} \cup StackIds]
      /\ pc \in [Callers -> Writing \cup {"idle", "lock", "waiting"}]
  BY Lookup DEF SafeInv, RaceInv, Types
<1>3. RaceInv'
  BY RaceOpenLookup DEF SafeInv
<1>4. /\ Queued' = Queued /\ NoTwice' = NoTwice /\ (\A g : Opens(g)' = Opens(g))
      /\ Stopped' = Stopped /\ Ending' = Ending /\ transport = "up" /\ ~ Stopped
  BY <1>1, QueuedStays DEF Stopped, Ending, SafeInv, Lifecycle
<1>5. \A u \in Callers : pc[u] \in {"idle", "lock"}
  <2>1. \A u \in Callers : list_owner # u
    BY <1>1, TransportAssumption
  <2>2. \A u \in Callers : pc[u] \notin {"create", "open", "shutdown", "waiting"}
    BY <2>1 DEF SafeInv, Serial
  <2>3. \A u \in Callers : u # t => pc[u] \notin {"close", "pass"}
    BY <1>1 DEF SafeInv, Serial
  <2>4. QED
    BY <1>1, <1>2, <2>2, <2>3 DEF Writing
<1>6. c \notin retired /\ serving[fd[t]] = 0
  BY <1>1 DEF SafeInv, InCalls, InCall, InOpen
<1>7. \E p \in {"create", "open"} : \A u \in Callers : pc'[u] = IF u = t THEN p ELSE pc[u]
  BY <1>2, Lookup DEF SafeInv
<1>8. Serial' /\ Lifecycle'
  <2>1. Serial'
    BY <1>1, <1>5, <1>7 DEF SafeInv, Serial
  <2>2. Lifecycle'
    BY <1>1, <1>4, <1>5, <1>7 DEF SafeInv, Lifecycle, Stopped, Ending
  <2>3. QED
    BY <2>1, <2>2
<1>9. NoTwice' /\ Executable' /\ Ordered'
  BY <1>1, <1>4 DEF SafeInv, Executable, Ordered, Before
<1>10. /\ \A u \in Callers : InOpen(u)' <=> InOpen(u)
       /\ \A g : \A u \in Callers : Uses(u, g)' <=> Uses(u, g)
  BY <1>1, <1>5, <1>7 DEF InOpen, Uses
<1>11. Descriptors'
  BY <1>1, <1>4, <1>10 DEF SafeInv, Descriptors, Descriptor
<1>12. AfterStop' /\ NoAbort'
  BY <1>1, <1>4 DEF SafeInv, AfterStop, NoAbort
<1>13. \A u \in Callers : u # t => InCall(u)'
  BY <1>1, <1>4, <1>5, <1>7, <1>10 DEF SafeInv, InCalls, InCall
<1>14. CASE GetStack(c)
  <2>1. list' = list /\ Listed' = Listed /\ list[c] # 0 /\ StackOf(t)' = list[c]
        /\ pc' = [pc EXCEPT ![t] = "open"]
    BY <1>1, <1>14, Lookup DEF SafeInv, GetStack, StackOf
  <2>2. list[c] \in stacks \/ CREATE(list[c]) \in Queued
    BY <1>2, <1>4, <1>5, <1>6, <2>1 DEF SafeInv, Created
  <2>3. InCall(t)'
    BY <1>1, <1>2, <1>4, <1>10, <2>1, <2>2 DEF SafeInv, InCalls, InCall, InOpen
  <2>4. Numbered' /\ Retired'
    BY <1>1, <1>4, <2>1 DEF SafeInv, Numbered, Retired
  <2>5. Created'
    BY <1>1, <1>4, <1>5, <2>1 DEF SafeInv, Created
  <2>6. InCalls'
    BY <1>13, <2>3 DEF InCalls
  <2>7. QED
    BY <1>3, <1>8, <1>9, <1>11, <1>12, <2>4, <2>5, <2>6 DEF SafeInv
<1>15. CASE ~ GetStack(c)
  <2> DEFINE n == nextStackId
  <2>1. /\ list' = [list EXCEPT ![c] = n] /\ pc' = [pc EXCEPT ![t] = "create"]
        /\ n \in StackIds /\ n = Cardinality(Listed) + 1 /\ Cardinality(Listed') = n
        /\ list[c] = 0
    BY <1>15, Lookup DEF SafeInv, GetStack
  <2> HIDE DEF n, c
  <2>2. /\ \A d \in Configs : list'[d] = IF d = c THEN n ELSE list[d]
        /\ StackOf(t)' = n /\ pc'[t] = "create"
    BY <1>1, <1>2, <2>1 DEF StackOf, c
  <2>3. /\ n \in Nat /\ StackIds \subseteq Nat /\ Cardinality(Listed) \in Nat
        /\ stacks \subseteq StackIds /\ n # 0 /\ retired \subseteq Configs
    BY <2>1, StackIdsType, ListedType DEF SafeInv, RaceInv, Types
  <2>4. \A id \in StackIds : id <= Cardinality(Listed) => id # n /\ id <= n
    BY <2>1, <2>3
  <2>5. Numbered'
    <3>1. \A id \in StackIds : id <= Cardinality(Listed) => id <= Cardinality(Listed')
      BY <2>1, <2>4
    <3>2. QED
      BY <1>1, <1>4, <2>3, <3>1 DEF SafeInv, Numbered
  <2>6. n \notin stacks /\ CREATE(n) \notin Queued /\ \A f \in Fds : OPEN(n, f) \notin Queued
    BY <2>1, <2>3, <2>4 DEF SafeInv, Numbered
  <2>7. InCall(t)'
    BY <1>1, <1>2, <1>4, <1>6, <1>10, <2>2, <2>6 DEF SafeInv, InCalls, InCall, InOpen, c
  <2>8. InCalls'
    BY <1>13, <2>7 DEF InCalls
  <2>9. Retired'
    <3>1. \A d \in retired : d \in Configs /\ d # c /\ list'[d] = list[d]
      BY <1>6, <2>2, <2>3
    <3>2. QED
      BY <1>1, <1>4, <3>1 DEF SafeInv, Retired
  <2>10. Created'
    <3>1. pc'[t] = "create" /\ config'[t] = c
      BY <1>1, <2>2 DEF c
    <3>2. \A d \in Configs : d # c => list'[d] = list[d]
      BY <2>2
    <3>3. \A d \in Configs \ retired' : d # c =>
             (list'[d] # 0 => list'[d] \in stacks' \/ CREATE(list'[d]) \in Queued')
      BY <1>1, <1>4, <1>5, <3>2 DEF SafeInv, Created
    <3>4. QED
      BY <3>1, <3>3 DEF Created
  <2>11. QED
    BY <1>3, <1>8, <1>9, <1>11, <1>12, <2>5, <2>8, <2>9, <2>10 DEF SafeInv
<1>16. QED
  BY <1>14, <1>15


LEMMA SafeCloseBegin ==
    ASSUME SafeInv, SerialCalls, NEW t \in Callers, NEW f \in Fds, CloseBegin(t, f)
    PROVE  SafeInv'
<1>1. /\ transport = "up" /\ f \in held /\ held' = held \ {f}
      /\ \A u \in Callers : pc[u] = "idle"
      /\ UNCHANGED <<status, transport, list, list_owner, retired, config, put, ring, worker, stacks,
                     serving, closed, open_fds, aborted>>
  BY DEF CloseBegin, Calling, Idle, lists, channel, served
<1>2. /\ \A u \in Callers : pc'[u] = IF u = t THEN "close" ELSE "idle"
      /\ fd'[t] = f
  BY <1>1 DEF CloseBegin, SafeInv, RaceInv, Types
<1>3. RaceInv'
  BY RaceCloseBegin DEF SafeInv
<1>4. /\ Queued' = Queued /\ NoTwice' = NoTwice /\ (\A g : Opens(g)' = Opens(g))
      /\ Stopped' = Stopped /\ Ending' = Ending /\ ~ Stopped /\ ~ Ending /\ Listed' = Listed
  BY <1>1, QueuedStays DEF Stopped, Ending, SafeInv, Lifecycle, Listed, GetStack
<1>5. Serial' /\ Lifecycle'
  <2>1. Serial'
    BY <1>1, <1>2 DEF SafeInv, Serial
  <2>2. Lifecycle'
    BY <1>1, <1>2, <1>4 DEF SafeInv, Lifecycle, Stopped, Ending
  <2>3. QED
    BY <2>1, <2>2
<1>6. NoTwice' /\ Executable' /\ Ordered' /\ Numbered'
  BY <1>1, <1>4 DEF SafeInv, Executable, Ordered, Before, Numbered
<1>7. /\ serving[f] # 0 \/ Opens(f)
      /\ f \notin closed /\ CLOSE(f) \notin Queued
  BY <1>1, <1>4 DEF SafeInv, Descriptors, Descriptor
<1>8. InCalls'
  BY <1>1, <1>2, <1>4, <1>7 DEF InCalls, InCall, InOpen
<1>9. \A g : \A u \in Callers : Uses(u, g)' => u = t /\ g = f
  BY <1>2 DEF Uses, InOpen
<1>10. Descriptors'
  BY <1>1, <1>4, <1>7, <1>9 DEF SafeInv, Descriptors, Descriptor, InOpen
<1>11. Retired' /\ Created' /\ AfterStop' /\ NoAbort'
  BY <1>1, <1>4 DEF SafeInv, Retired, Created, AfterStop, NoAbort
<1>12. QED
  BY <1>3, <1>5, <1>6, <1>8, <1>10, <1>11 DEF SafeInv

LEMMA SafePassBegin ==
    ASSUME SafeInv, NEW t \in Callers, NEW c \in Configs, PassBegin(t, c)
    PROVE  SafeInv'
<1>1. /\ transport = "up" /\ list[c] \in stacks /\ ring = <<>> /\ retired' = retired \cup {c}
      /\ \A f \in Fds : serving[f] = list[c] => f \in closed
      /\ \A u \in Callers : pc[u] = "idle"
      /\ UNCHANGED <<status, transport, list, list_owner, fd, put, ring, held, worker, stacks,
                     serving, closed, open_fds, aborted>>
  BY DEF PassBegin, Calling, Idle, channel, served
<1>2. /\ \A u \in Callers : pc'[u] = IF u = t THEN "pass" ELSE "idle"
      /\ config'[t] = c
  BY <1>1 DEF PassBegin, SafeInv, RaceInv, Types
<1>3. RaceInv'
  BY RacePassBegin DEF SafeInv
<1>4. /\ Queued' = Queued /\ NoTwice' = NoTwice /\ (\A g : Opens(g)' = Opens(g))
      /\ Stopped' = Stopped /\ Ending' = Ending /\ ~ Stopped /\ Listed' = Listed
  BY <1>1, QueuedStays DEF Stopped, Ending, SafeInv, Lifecycle, Listed, GetStack
<1>5. Serial' /\ Lifecycle'
  <2>1. Serial'
    BY <1>1, <1>2 DEF SafeInv, Serial
  <2>2. Lifecycle'
    BY <1>1, <1>2, <1>4 DEF SafeInv, Lifecycle, Stopped, Ending
  <2>3. QED
    BY <2>1, <2>2
<1>6. NoTwice' /\ Executable' /\ Ordered' /\ Numbered'
  BY <1>1, <1>4 DEF SafeInv, Executable, Ordered, Before, Numbered
<1>7. InCalls'
  BY <1>1, <1>2 DEF InCalls, InCall, InOpen, StackOf
<1>8. \A g : \A u \in Callers : ~ Uses(u, g)' /\ ~ InOpen(u)'
  BY <1>2 DEF Uses, InOpen
<1>9. Descriptors'
  <2>1. \A u \in Callers : ~ InOpen(u)
    BY <1>1 DEF InOpen
  <2>2. QED
    BY <1>1, <1>4, <1>8, <2>1 DEF SafeInv, Descriptors, Descriptor
<1>10. Queued = {}
  BY <1>1 DEF Queued
<1>11. Retired'
  <2>1. list[c] # 0
    BY <1>1, StackIdsType DEF SafeInv, RaceInv, Types
  <2>2. QED
    BY <1>1, <1>4, <1>10, <2>1 DEF SafeInv, Retired
<1>12. Created' /\ AfterStop' /\ NoAbort'
  BY <1>1, <1>4 DEF SafeInv, Created, AfterStop, NoAbort
<1>13. QED
  BY <1>3, <1>5, <1>6, <1>7, <1>9, <1>11, <1>12 DEF SafeInv

LEMMA SafeDestroyBegin ==
    ASSUME SafeInv, NEW t \in Callers, DestroyBegin(t) PROVE SafeInv'
<1>1. /\ transport = "up" /\ transport' = "destroying" /\ list_owner' = t
      /\ \A u \in Callers : pc[u] = "idle"
      /\ UNCHANGED <<status, list, retired, config, fd, put, ring, held, worker, stacks,
                     serving, closed, open_fds, aborted>>
  BY DEF DestroyBegin, Calling, Idle, channel, served
<1>2. \A u \in Callers : pc'[u] = IF u = t THEN "shutdown" ELSE "idle"
  BY <1>1 DEF DestroyBegin, SafeInv, RaceInv, Types
<1>3. RaceInv'
  BY RaceDestroy DEF SafeInv
<1>4. /\ Queued' = Queued /\ NoTwice' = NoTwice /\ (\A g : Opens(g)' = Opens(g))
      /\ Stopped' = Stopped /\ Ending' /\ ~ Stopped /\ Listed' = Listed
      /\ SHUTDOWN \notin Queued
  BY <1>1, QueuedStays DEF Stopped, Ending, SafeInv, Lifecycle, Listed, GetStack
<1>5. Serial' /\ Lifecycle'
  <2>1. Serial'
    BY <1>1, <1>2 DEF SafeInv, Serial
  <2>2. Lifecycle'
    BY <1>1, <1>2, <1>4 DEF SafeInv, Lifecycle, Stopped, Ending
  <2>3. QED
    BY <2>1, <2>2
<1>6. NoTwice' /\ Executable' /\ Ordered' /\ Numbered'
  BY <1>1, <1>4 DEF SafeInv, Executable, Ordered, Before, Numbered
<1>7. InCalls'
  BY <1>2 DEF InCalls, InCall, InOpen
<1>8. \A g : \A u \in Callers : ~ Uses(u, g)' /\ ~ InOpen(u)'
  BY <1>2 DEF Uses, InOpen
<1>9. Descriptors'
  <2>1. \A u \in Callers : ~ InOpen(u)
    BY <1>1 DEF InOpen
  <2>2. QED
    BY <1>1, <1>4, <1>8, <2>1 DEF SafeInv, Descriptors, Descriptor
<1>10. Retired' /\ Created' /\ AfterStop' /\ NoAbort'
  BY <1>1, <1>4 DEF SafeInv, Retired, Created, AfterStop, NoAbort
<1>11. QED
  BY <1>3, <1>5, <1>6, <1>7, <1>9, <1>10 DEF SafeInv

LEMMA SafeDestroyEnd ==
    ASSUME SafeInv, NEW t \in Callers, DestroyEnd(t) PROVE SafeInv'
<1>1. /\ pc[t] = "waiting" /\ status = "SHUTDOWN" /\ transport' = "gone"
      /\ closed' = {} /\ held' = {} /\ serving' = [f \in Fds |-> 0] /\ open_fds' \subseteq open_fds
      /\ UNCHANGED <<status, list, list_owner, retired, config, fd, put, ring, worker, stacks,
                     aborted>>
  BY DEF DestroyEnd, WaitForStatus, lists, channel
<1>2. /\ ring = <<>> /\ stacks = {} /\ open_fds = {} /\ Queued = {}
  BY <1>1 DEF SafeInv, AfterStop, Stopped, Queued
<1>3. \A u \in Callers : pc'[u] = "idle"
  <2>1. \A u \in Callers : u # t => pc[u] = "idle"
    BY <1>1 DEF SafeInv, Serial
  <2>2. QED
    BY <2>1 DEF DestroyEnd, SafeInv, RaceInv, Types
<1>4. RaceInv'
  BY RaceDestroy DEF SafeInv
<1>5. /\ Queued' = {} /\ NoTwice' = NoTwice /\ (\A g : ~ Opens(g)')
      /\ Stopped' /\ Ending' /\ Listed' = Listed
  BY <1>1, <1>2, QueuedStays DEF Stopped, Ending, Listed, GetStack, Opens
<1>6. Serial' /\ Lifecycle'
  <2>1. Serial'
    BY <1>1, <1>3 DEF SafeInv, Serial
  <2>2. Lifecycle'
    BY <1>1, <1>3, <1>5 DEF SafeInv, Lifecycle, Stopped, Ending
  <2>3. QED
    BY <2>1, <2>2
<1>7. NoTwice' /\ Executable' /\ Ordered' /\ Numbered'
  BY <1>1, <1>2, <1>5 DEF SafeInv, Executable, Ordered, Before, Numbered
<1>8. InCalls'
  BY <1>3 DEF InCalls, InCall, InOpen
<1>9. \A g : \A u \in Callers : ~ Uses(u, g)'
  BY <1>3 DEF Uses, InOpen
<1>10. Descriptors'
  BY <1>1, <1>2, <1>5, <1>9 DEF Descriptors, Descriptor
<1>11. Retired' /\ Created' /\ AfterStop' /\ NoAbort'
  BY <1>1, <1>2, <1>5 DEF SafeInv, Retired, Created, AfterStop, NoAbort
<1>12. QED
  BY <1>4, <1>6, <1>7, <1>8, <1>10, <1>11 DEF SafeInv


(* What a write does: it is the only one, so its command is stored.        *)
LEMMA Written ==
    ASSUME SafeInv, NEW t \in Callers, PutEnd(t)
    PROVE  /\ pc[t] \in Writing /\ CommandOf(t) \in Command /\ CommandOf(t) \in Queued'
           /\ Queued' = Queued \cup {CommandOf(t)}
           /\ ring \in Seq(Command) /\ ring' = Append(ring, CommandOf(t))
           /\ \A u \in Callers : pc'[u] = IF u # t THEN pc[u]
                 ELSE IF pc[t] = "create" THEN "open"
                 ELSE IF pc[t] = "shutdown" THEN "waiting" ELSE "idle"
           /\ held' = IF pc[t] = "open" THEN held \cup {fd[t]} ELSE held
           /\ UNCHANGED <<status, transport, list, retired, config, fd, worker, stacks, serving,
                          closed, open_fds, aborted>>
           /\ Listed' = Listed /\ Stopped' = Stopped /\ Ending' = Ending
           /\ RaceInv' /\ Serial'
           /\ \A i, q : i \in DOMAIN ring /\ Before(i, q) => Before(i, q)'
           /\ \A i, q : i \in DOMAIN ring' /\ q \in Queued /\ i = Len(ring') => Before(i, q)'
           /\ \A i \in DOMAIN ring' :
                 \/ i \in DOMAIN ring /\ i # Len(ring') /\ ring'[i] = ring[i]
                 \/ i = Len(ring') /\ ring'[i] = CommandOf(t)
<1>1. pc[t] \in Writing /\ put[t] = "clear"
  BY DEF PutEnd, SafeInv, RaceInv, Arguments, Serial, Types
<1>2. /\ CommandOf(t) \in Command /\ ring \in Seq(Command)
      /\ ring' = Append(ring, CommandOf(t))
  BY <1>1, WrittenType, StoredType DEF PutEnd, SafeInv, RaceInv, Types
<1>3. /\ Queued' = Queued \cup {CommandOf(t)}
      /\ \A i, q : i \in DOMAIN ring /\ Before(i, q) => Before(i, q)'
      /\ \A i, q : i \in DOMAIN ring' /\ q \in Queued /\ i = Len(ring') => Before(i, q)'
      /\ \A i \in DOMAIN ring' :
            \/ i \in DOMAIN ring /\ i # Len(ring') /\ ring'[i] = ring[i]
            \/ i = Len(ring') /\ ring'[i] = CommandOf(t)
  BY <1>2, AppendFacts
<1>4. /\ \A u \in Callers : pc'[u] = IF u # t THEN pc[u]
            ELSE IF pc[t] = "create" THEN "open"
            ELSE IF pc[t] = "shutdown" THEN "waiting" ELSE "idle"
      /\ held' = IF pc[t] = "open" THEN held \cup {fd[t]} ELSE held
      /\ list_owner' = IF pc[t] = "open" THEN NoCaller ELSE list_owner
  BY DEF PutEnd, AfterWrite, SafeInv, RaceInv, Types
<1>5. /\ UNCHANGED <<status, transport, list, retired, config, fd, worker, stacks, serving,
                     closed, open_fds, aborted>>
      /\ Listed' = Listed /\ Stopped' = Stopped /\ Ending' = Ending
  BY DEF PutEnd, served, Listed, GetStack, Stopped, Ending
<1>6. RaceInv'
  BY RacePutEnd DEF SafeInv
<1>7. Serial'
  <2>1. \A u \in Callers : u # t => put[u] = "no"
    <3>1. \A u \in Callers : put[u] # "no" => pc[u] \in Writing
      BY DEF SafeInv, RaceInv, Arguments
    <3>2. \A u \in Callers : u # t => pc[u] \notin Writing
      BY <1>1 DEF SafeInv, Serial, Writing
    <3>3. QED
      BY <3>1, <3>2
  <2>2. \A u \in Callers : put'[u] # "raced"
    BY <2>1 DEF PutEnd, Raced
  <2>3. \A u, v \in Callers : v # u /\ pc'[u] \in {"close", "pass", "shutdown", "waiting"} =>
           pc'[v] = "idle"
    BY <1>1, <1>4 DEF SafeInv, Serial, Writing
  <2>4. \A u \in Callers : pc'[u] \in {"create", "open", "shutdown", "waiting"} => list_owner' = u
    BY <1>1, <1>4 DEF SafeInv, Serial, Writing
  <2>5. QED
    BY <2>2, <2>3, <2>4 DEF Serial
<1>8. QED
  BY <1>1, <1>2, <1>3, <1>4, <1>5, <1>6, <1>7

LEMMA SafePutCreate ==
    ASSUME SafeInv, NEW t \in Callers, PutEnd(t), pc[t] = "create" PROVE SafeInv'
<1> DEFINE id == list[config[t]]
<1>1. /\ CommandOf(t) = CREATE(id) /\ id \in StackIds /\ config[t] \in Configs /\ fd[t] \in Fds
      /\ list[config[t]] # 0
  BY WrittenType, Written DEF SafeInv, RaceInv, Arguments, Types
<1>2. /\ id \notin stacks /\ CREATE(id) \notin Queued /\ config[t] \notin retired
      /\ \A f \in Fds : OPEN(id, f) \notin Queued
      /\ transport = "up" /\ ~ Stopped /\ ~ Ending /\ SHUTDOWN \notin Queued
  BY DEF SafeInv, InCalls, InCall, InOpen, StackOf, Lifecycle, Ending
<1>3. \A u \in Callers : u # t => pc[u] \in {"idle", "lock"}
  <2>1. \A u \in Callers : u # t => pc[u] \notin {"create", "open"}
    BY DEF SafeInv, Serial
  <2>2. \A u \in Callers : u # t => pc[u] \notin {"close", "pass", "shutdown", "waiting"}
    BY DEF SafeInv, Serial
  <2>3. QED
    BY <2>1, <2>2 DEF SafeInv, RaceInv, Types, Writing
<1> HIDE DEF id
<1>4. /\ \A i : CREATE(i) \in Queued' <=> CREATE(i) \in Queued \/ i = id
      /\ \A i, f : OPEN(i, f) \in Queued' <=> OPEN(i, f) \in Queued
      /\ \A f : CLOSE(f) \in Queued' <=> CLOSE(f) \in Queued
      /\ \A i : DESTROY(i) \in Queued' <=> DESTROY(i) \in Queued
      /\ SHUTDOWN \notin Queued' /\ \A f : Opens(f)' <=> Opens(f)
  <2>1. Queued' = Queued \cup {CREATE(id)}
    BY Written, <1>1
  <2>2. /\ \A i : CREATE(i) \in Queued' <=> CREATE(i) \in Queued \/ i = id
        /\ \A i, f : OPEN(i, f) \in Queued' <=> OPEN(i, f) \in Queued
        /\ \A f : CLOSE(f) \in Queued' <=> CLOSE(f) \in Queued
        /\ \A i : DESTROY(i) \in Queued' <=> DESTROY(i) \in Queued
        /\ SHUTDOWN \notin Queued'
    BY <2>1, <1>2, CommandsDiffer
  <2>3. QED
    BY <2>2 DEF Opens
<1>5. \A u \in Callers : pc'[u] = IF u = t THEN "open" ELSE pc[u]
  BY Written
<1>6. Lifecycle'
  BY <1>2, <1>4, <1>5, Written DEF SafeInv, Lifecycle, Stopped, Ending
<1>7. NoTwice'
  <2>1. ASSUME NEW q \in Queued, SameKey(q, CREATE(id)) PROVE FALSE
    <3>1. q \in Command
      BY Written DEF Queued
    <3>2. q = CREATE(id)
      BY <2>1, <3>1, SameCommand
    <3>3. QED
      BY <1>2, <3>2
  <2>2. QED
    BY <2>1, <1>1, Written, AppendOnce DEF SafeInv
<1>8. Executable'
  BY <1>2, <1>4, Written DEF SafeInv, Executable
<1>9. Ordered'
  <2>1. \A i \in DOMAIN ring' : \/ i \in DOMAIN ring /\ i # Len(ring') /\ ring'[i] = ring[i]
                                \/ ring'[i] = CREATE(id)
    BY Written, <1>1
  <2>2. \A i \in DOMAIN ring' : ring'[i] # SHUTDOWN
    BY <1>4 DEF Queued
  <2>3. QED
    BY <2>1, <2>2, CommandsDiffer, Written DEF SafeInv, Ordered
<1>10. Numbered'
  BY <1>1, <1>4, Written DEF SafeInv, RaceInv, Distinct, Numbered, id
<1>11. \A f : \A u \in Callers : Uses(u, f)' <=> Uses(u, f)
  BY <1>3, <1>5, Written DEF Uses, InOpen
<1>12. InCalls'
  <2>1. InCall(t)'
    BY <1>2, <1>4, <1>5, <1>11, Written DEF SafeInv, InCalls, InCall, InOpen, StackOf, id
  <2>2. ASSUME NEW u \in Callers, u # t PROVE InCall(u)'
    BY <1>3, <1>4, <1>5, <1>11, <2>2, Written DEF SafeInv, InCalls, InCall, InOpen
  <2>3. QED
    BY <2>1, <2>2 DEF InCalls
<1>13. Descriptors'
  BY <1>4, <1>5, <1>11, Written DEF SafeInv, Descriptors, Descriptor, InOpen
<1>14. Retired'
  <2>1. \A c \in retired : list[c] # id
    BY <1>1, <1>2 DEF SafeInv, RaceInv, Types, Distinct, id
  <2>2. QED
    BY <1>4, <2>1, Written DEF SafeInv, Retired
<1>15. Created'
  <2>1. CREATE(list[config[t]]) \in Queued'
    BY <1>4 DEF id
  <2>2. QED
    BY <1>4, <1>5, <2>1, Written DEF SafeInv, Created
<1>16. AfterStop' /\ NoAbort'
  BY <1>2, Written DEF SafeInv, AfterStop, NoAbort
<1>17. QED
  BY <1>6, <1>7, <1>8, <1>9, <1>10, <1>12, <1>13, <1>14, <1>15, <1>16, Written DEF SafeInv


LEMMA SafePutOpen ==
    ASSUME SafeInv, NEW t \in Callers, PutEnd(t), pc[t] = "open" PROVE SafeInv'
<1>1. PICK id \in StackIds, f \in Fds :
         /\ id = list[config[t]] /\ f = fd[t] /\ id # 0 /\ config[t] \in Configs
         /\ CommandOf(t) = OPEN(id, f)
  <2>1. /\ CommandOf(t) = OPEN(list[config[t]], fd[t]) /\ list[config[t]] \in StackIds
        /\ config[t] \in Configs /\ fd[t] \in Fds /\ list[config[t]] # 0
    BY WrittenType, Written DEF SafeInv, RaceInv, Arguments, Types
  <2>2. QED
    BY <2>1
<1>2. /\ id \in stacks \/ CREATE(id) \in Queued
      /\ config[t] \notin retired
      /\ serving[f] = 0 /\ ~ Opens(f) /\ CLOSE(f) \notin Queued
      /\ \A u \in Callers : Uses(u, f) => u = t
      /\ transport = "up" /\ ~ Stopped /\ ~ Ending /\ SHUTDOWN \notin Queued
  BY <1>1 DEF SafeInv, InCalls, InCall, InOpen, StackOf, Lifecycle, Ending
<1>3. \A u \in Callers : u # t => pc[u] \in {"idle", "lock"}
  <2>1. \A u \in Callers : u # t => pc[u] \notin {"create", "open"}
    BY DEF SafeInv, Serial
  <2>2. \A u \in Callers : u # t => pc[u] \notin {"close", "pass", "shutdown", "waiting"}
    BY DEF SafeInv, Serial
  <2>3. QED
    BY <2>1, <2>2 DEF SafeInv, RaceInv, Types, Writing
<1>0. Uses(t, f)
  BY <1>1 DEF Uses, InOpen
<1>4. /\ \A i : CREATE(i) \in Queued' <=> CREATE(i) \in Queued
      /\ \A i, g : OPEN(i, g) \in Queued' <=> OPEN(i, g) \in Queued \/ (i = id /\ g = f)
      /\ \A g : CLOSE(g) \in Queued' <=> CLOSE(g) \in Queued
      /\ \A i : DESTROY(i) \in Queued' <=> DESTROY(i) \in Queued
      /\ SHUTDOWN \notin Queued' /\ \A g : Opens(g)' <=> Opens(g) \/ g = f
  <2>1. Queued' = Queued \cup {OPEN(id, f)}
    BY Written, <1>1
  <2>2. /\ \A i : CREATE(i) \in Queued' <=> CREATE(i) \in Queued
        /\ \A i, g : OPEN(i, g) \in Queued' <=> OPEN(i, g) \in Queued \/ (i = id /\ g = f)
        /\ \A g : CLOSE(g) \in Queued' <=> CLOSE(g) \in Queued
        /\ \A i : DESTROY(i) \in Queued' <=> DESTROY(i) \in Queued
        /\ SHUTDOWN \notin Queued'
    BY <2>1, <1>2, CommandsDiffer
  <2>3. QED
    BY <1>1, <2>2 DEF Opens
<1>5. \A u \in Callers : pc'[u] = IF u = t THEN "idle" ELSE pc[u]
  BY Written
<1>6. Lifecycle'
  BY <1>2, <1>4, <1>5, Written DEF SafeInv, Lifecycle, Stopped, Ending
<1>7. NoTwice'
  <2>1. ASSUME NEW q \in Queued, SameKey(q, OPEN(id, f)) PROVE FALSE
    <3>1. q \in Command
      BY Written DEF Queued
    <3>2. PICK i \in StackIds : q = OPEN(i, f)
      BY <2>1, <3>1, SameCommand
    <3>3. QED
      BY <1>2, <3>2 DEF Opens
  <2>2. QED
    BY <2>1, <1>1, Written, AppendOnce DEF SafeInv
<1>8. Executable'
  BY <1>2, <1>4, Written DEF SafeInv, Executable
<1>9. Ordered'
  <2>1. \A i \in DOMAIN ring' : \/ i \in DOMAIN ring /\ i # Len(ring') /\ ring'[i] = ring[i]
                                \/ i = Len(ring') /\ ring'[i] = OPEN(id, f)
    BY Written, <1>1
  <2>2. \A i \in DOMAIN ring' : ring'[i] # SHUTDOWN
    BY <1>4 DEF Queued
  <2>3. \A i \in DOMAIN ring' : i = Len(ring') => id \in stacks \/ Before(i, CREATE(id))'
    BY <1>1, <1>2, Written
  <2>4. QED
    BY <2>1, <2>2, <2>3, CommandsDiffer, Written DEF SafeInv, Ordered
<1>10. Numbered'
  BY <1>1, <1>4, Written DEF SafeInv, RaceInv, Distinct, Numbered
<1>11. \A g : \A u \in Callers : Uses(u, g)' <=> Uses(u, g) /\ u # t
  BY <1>3, <1>5, Written DEF Uses, InOpen
<1>12. InCalls'
  <2>1. InCall(t)'
    BY <1>5 DEF InCall, InOpen
  <2>2. ASSUME NEW u \in Callers, u # t PROVE InCall(u)'
    <3>1. InOpen(u) => fd[u] # f
      BY <1>2, <2>2 DEF Uses
    <3>2. QED
      BY <1>3, <1>4, <1>5, <1>11, <2>2, <3>1, Written DEF SafeInv, InCalls, InCall, InOpen
  <2>3. QED
    BY <2>1, <2>2 DEF InCalls
<1>13. Descriptors'
  <2>1. f \in open_fds /\ f \notin closed
    BY <1>0, <1>1, <1>2 DEF SafeInv, Descriptors, Descriptor
  <2>2. Descriptor(f)'
    BY <1>1, <1>2, <1>4, <1>11, <2>1, Written DEF Descriptor
  <2>3. ASSUME NEW g \in Fds, g # f PROVE Descriptor(g)'
    <3>1. (\E u \in Callers : InOpen(u) /\ fd[u] = g) => (\E u \in Callers : InOpen(u)' /\ fd'[u] = g)
      BY <1>1, <1>5, <2>3, Written DEF InOpen
    <3>2. g \in held' => g \in held
      BY <1>1, <2>3, Written
    <3>3. QED
      BY <1>4, <1>11, <2>3, <3>1, <3>2, Written DEF SafeInv, Descriptors, Descriptor
  <2>4. QED
    BY <2>2, <2>3 DEF Descriptors
<1>14. Retired'
  <2>1. \A c \in retired : list[c] # id
    BY <1>1, <1>2 DEF SafeInv, RaceInv, Types, Distinct
  <2>2. QED
    BY <1>4, <2>1, Written DEF SafeInv, Retired
<1>15. Created'
  BY <1>4, <1>5, Written DEF SafeInv, Created
<1>16. AfterStop' /\ NoAbort'
  BY <1>2, Written DEF SafeInv, AfterStop, NoAbort
<1>17. QED
  BY <1>6, <1>7, <1>8, <1>9, <1>10, <1>12, <1>13, <1>14, <1>15, <1>16, Written DEF SafeInv

(* The calls that are alone. *)
LEMMA OthersIdle ==
    ASSUME SafeInv, NEW t \in Callers, pc[t] \in {"close", "pass", "shutdown", "waiting"}
    PROVE  \A u \in Callers : u # t => pc[u] = "idle"
BY DEF SafeInv, Serial

LEMMA SafePutClose ==
    ASSUME SafeInv, NEW t \in Callers, PutEnd(t), pc[t] = "close" PROVE SafeInv'
<1>1. PICK f \in Fds : f = fd[t] /\ CommandOf(t) = CLOSE(f)
  BY WrittenType, Written DEF SafeInv, RaceInv, Arguments
<1>2. /\ CLOSE(f) \notin Queued /\ f \notin closed
      /\ serving[f] # 0 \/ Opens(f)
      /\ transport = "up" /\ ~ Stopped /\ ~ Ending /\ SHUTDOWN \notin Queued
  BY <1>1 DEF SafeInv, InCalls, InCall, Lifecycle, Ending
<1>3. \A u \in Callers : u # t => pc[u] = "idle"
  BY OthersIdle
<1>0. Uses(t, f)
  BY <1>1 DEF Uses
<1>4. /\ \A i : CREATE(i) \in Queued' <=> CREATE(i) \in Queued
      /\ \A i, g : OPEN(i, g) \in Queued' <=> OPEN(i, g) \in Queued
      /\ \A g : CLOSE(g) \in Queued' <=> CLOSE(g) \in Queued \/ g = f
      /\ \A i : DESTROY(i) \in Queued' <=> DESTROY(i) \in Queued
      /\ SHUTDOWN \notin Queued' /\ \A g : Opens(g)' <=> Opens(g)
  <2>1. Queued' = Queued \cup {CLOSE(f)}
    BY Written, <1>1
  <2>2. /\ \A i : CREATE(i) \in Queued' <=> CREATE(i) \in Queued
        /\ \A i, g : OPEN(i, g) \in Queued' <=> OPEN(i, g) \in Queued
        /\ \A g : CLOSE(g) \in Queued' <=> CLOSE(g) \in Queued \/ g = f
        /\ \A i : DESTROY(i) \in Queued' <=> DESTROY(i) \in Queued
        /\ SHUTDOWN \notin Queued'
    BY <2>1, <1>2, CommandsDiffer
  <2>3. QED
    BY <2>2 DEF Opens
<1>5. \A u \in Callers : pc'[u] = "idle"
  BY <1>3, Written
<1>6. Lifecycle'
  BY <1>2, <1>4, <1>5, Written DEF SafeInv, Lifecycle, Stopped, Ending
<1>7. NoTwice'
  <2>1. ASSUME NEW q \in Queued, SameKey(q, CLOSE(f)) PROVE FALSE
    <3>1. q \in Command
      BY Written DEF Queued
    <3>2. QED
      BY <1>2, <2>1, <3>1, SameCommand
  <2>2. QED
    BY <2>1, <1>1, Written, AppendOnce DEF SafeInv
<1>8. Executable'
  BY <1>2, <1>4, Written DEF SafeInv, Executable
<1>9. Ordered'
  <2>1. \A i \in DOMAIN ring' : \/ i \in DOMAIN ring /\ i # Len(ring') /\ ring'[i] = ring[i]
                                \/ i = Len(ring') /\ ring'[i] = CLOSE(f)
    BY Written, <1>1
  <2>2. \A i \in DOMAIN ring' : ring'[i] # SHUTDOWN
    BY <1>4 DEF Queued
  <2>3. \A i \in DOMAIN ring' : i = Len(ring') =>
           serving[f] # 0 \/ \E id \in StackIds : Before(i, OPEN(id, f))'
    BY <1>1, <1>2, Written DEF Opens
  <2>4. QED
    BY <2>1, <2>2, <2>3, CommandsDiffer, Written DEF SafeInv, Ordered
<1>10. Numbered'
  BY <1>4, Written DEF SafeInv, Numbered
<1>11. \A g : \A u \in Callers : ~ Uses(u, g)' /\ ~ InOpen(u)'
  BY <1>5 DEF Uses, InOpen
<1>12. InCalls'
  BY <1>5 DEF InCalls, InCall, InOpen
<1>13. Descriptors'
  <2>1. f \in open_fds /\ f \notin held
    BY <1>0, <1>1, <1>2 DEF SafeInv, Descriptors, Descriptor
  <2>2. \A u \in Callers : ~ InOpen(u)
    BY <1>3 DEF InOpen
  <2>3. QED
    BY <1>4, <1>11, <2>1, <2>2, Written DEF SafeInv, Descriptors, Descriptor
<1>14. Retired' /\ Created' /\ AfterStop' /\ NoAbort'
  <2>1. Retired'
    BY <1>4, Written DEF SafeInv, Retired
  <2>2. Created'
    BY <1>3, <1>4, Written DEF SafeInv, Created
  <2>3. AfterStop' /\ NoAbort'
    BY <1>2, Written DEF SafeInv, AfterStop, NoAbort
  <2>4. QED
    BY <2>1, <2>2, <2>3
<1>15. QED
  BY <1>6, <1>7, <1>8, <1>9, <1>10, <1>12, <1>13, <1>14, Written DEF SafeInv


LEMMA SafePutPass ==
    ASSUME SafeInv, NEW t \in Callers, PutEnd(t), pc[t] = "pass" PROVE SafeInv'
<1>1. PICK id \in StackIds :
         id = list[config[t]] /\ config[t] \in Configs /\ CommandOf(t) = DESTROY(id)
  <2>1. /\ CommandOf(t) = DESTROY(list[config[t]]) /\ list[config[t]] \in StackIds
        /\ config[t] \in Configs
    BY WrittenType, Written DEF SafeInv, RaceInv, Arguments, Types
  <2>2. QED
    BY <2>1
<1>2. /\ ring = <<>> /\ id \in stacks /\ config[t] \in retired
      /\ \A f \in Fds : serving[f] = id => f \in closed
      /\ transport = "up" /\ ~ Stopped /\ ~ Ending
  BY <1>1 DEF SafeInv, InCalls, InCall, StackOf, Lifecycle, Ending
<1>3. \A u \in Callers : u # t => pc[u] = "idle"
  BY OthersIdle
<1>4. Queued = {} /\ Queued' = {DESTROY(id)}
  BY <1>1, <1>2, Written DEF Queued
<1>5. /\ \A i : CREATE(i) \notin Queued'
      /\ \A i, f : OPEN(i, f) \notin Queued'
      /\ \A f : CLOSE(f) \notin Queued'
      /\ \A f : ~ Opens(f)' /\ ~ Opens(f)
      /\ \A i : DESTROY(i) \in Queued' => i = id
      /\ SHUTDOWN \notin Queued'
  BY <1>4, CommandsDiffer DEF Opens
<1>6. \A u \in Callers : pc'[u] = "idle"
  BY <1>3, Written
<1>7. Lifecycle'
  BY <1>2, <1>5, <1>6, Written DEF SafeInv, Lifecycle, Stopped, Ending
<1>8. NoTwice'
  BY <1>4, Written, AppendOnce DEF SafeInv
<1>9. Executable'
  BY <1>2, <1>5, Written DEF Executable
<1>10. Ordered'
  <2>1. \A i \in DOMAIN ring' : ring'[i] = DESTROY(id)
    BY <1>4 DEF Queued
  <2>2. QED
    BY <2>1, CommandsDiffer DEF Ordered
<1>11. Numbered'
  BY <1>5, Written DEF SafeInv, Numbered
<1>12. \A g : \A u \in Callers : ~ Uses(u, g)' /\ ~ InOpen(u)'
  BY <1>6 DEF Uses, InOpen
<1>13. InCalls'
  BY <1>6 DEF InCalls, InCall, InOpen
<1>14. Descriptors'
  <2>1. \A u \in Callers : ~ InOpen(u)
    BY <1>3 DEF InOpen
  <2>2. QED
    BY <1>5, <1>12, <2>1, Written DEF SafeInv, Descriptors, Descriptor
<1>15. Retired' /\ Created' /\ AfterStop' /\ NoAbort'
  <2>1. Retired'
    BY <1>1, <1>2, <1>5, Written DEF SafeInv, Retired
  <2>2. Created'
    BY <1>3, <1>4, Written DEF SafeInv, Created
  <2>3. AfterStop' /\ NoAbort'
    BY <1>2, Written DEF SafeInv, AfterStop, NoAbort
  <2>4. QED
    BY <2>1, <2>2, <2>3
<1>16. QED
  BY <1>7, <1>8, <1>9, <1>10, <1>11, <1>13, <1>14, <1>15, Written DEF SafeInv

LEMMA SafePutShutdown ==
    ASSUME SafeInv, NEW t \in Callers, PutEnd(t), pc[t] = "shutdown" PROVE SafeInv'
<1>1. CommandOf(t) = SHUTDOWN
  BY WrittenType, Written DEF SafeInv, RaceInv
<1>2. transport = "destroying" /\ ~ Stopped /\ Ending /\ SHUTDOWN \notin Queued
  BY DEF SafeInv, Lifecycle, Ending
<1>3. \A u \in Callers : u # t => pc[u] = "idle"
  BY OthersIdle
<1>4. /\ \A i : CREATE(i) \in Queued' <=> CREATE(i) \in Queued
      /\ \A i, g : OPEN(i, g) \in Queued' <=> OPEN(i, g) \in Queued
      /\ \A g : CLOSE(g) \in Queued' <=> CLOSE(g) \in Queued
      /\ \A i : DESTROY(i) \in Queued' <=> DESTROY(i) \in Queued
      /\ \A g : Opens(g)' <=> Opens(g)
  <2>1. Queued' = Queued \cup {SHUTDOWN}
    BY Written, <1>1
  <2>2. /\ \A i : CREATE(i) \in Queued' <=> CREATE(i) \in Queued
        /\ \A i, g : OPEN(i, g) \in Queued' <=> OPEN(i, g) \in Queued
        /\ \A g : CLOSE(g) \in Queued' <=> CLOSE(g) \in Queued
        /\ \A i : DESTROY(i) \in Queued' <=> DESTROY(i) \in Queued
    BY <2>1, CommandsDiffer
  <2>3. QED
    BY <2>2 DEF Opens
<1>5. \A u \in Callers : pc'[u] = IF u = t THEN "waiting" ELSE "idle"
  BY <1>3, Written
<1>6. Lifecycle'
  BY <1>2, <1>5, Written DEF SafeInv, Lifecycle, Stopped, Ending
<1>7. NoTwice'
  <2>1. ASSUME NEW q \in Queued, SameKey(q, SHUTDOWN) PROVE FALSE
    <3>1. q \in Command
      BY Written DEF Queued
    <3>2. QED
      BY <1>2, <2>1, <3>1, SameCommand
  <2>2. QED
    BY <2>1, <1>1, Written, AppendOnce DEF SafeInv
<1>8. Executable'
  BY <1>4, Written DEF SafeInv, Executable
<1>9. Ordered'
  <2>1. \A i \in DOMAIN ring' : \/ /\ i \in DOMAIN ring /\ i # Len(ring') /\ ring'[i] = ring[i]
                                   /\ ring[i] # SHUTDOWN
                                \/ i = Len(ring') /\ ring'[i] = SHUTDOWN
    <3>1. \A i \in DOMAIN ring : ring[i] # SHUTDOWN
      BY <1>2 DEF Queued
    <3>2. QED
      BY <1>1, <3>1, Written
  <2>2. QED
    BY <2>1, CommandsDiffer, Written DEF SafeInv, Ordered
<1>10. Numbered'
  BY <1>4, Written DEF SafeInv, Numbered
<1>11. \A g : \A u \in Callers : ~ Uses(u, g)' /\ ~ InOpen(u)'
  BY <1>5 DEF Uses, InOpen
<1>12. InCalls'
  BY <1>5 DEF InCalls, InCall, InOpen
<1>13. Descriptors'
  <2>1. \A u \in Callers : ~ InOpen(u)
    BY <1>3 DEF InOpen
  <2>2. QED
    BY <1>2, <1>4, <1>11, <2>1, Written DEF SafeInv, Descriptors, Descriptor
<1>14. Retired' /\ Created' /\ AfterStop' /\ NoAbort'
  <2>1. Retired'
    BY <1>4, Written DEF SafeInv, Retired
  <2>2. Created'
    BY <1>3, <1>4, Written DEF SafeInv, Created
  <2>3. AfterStop' /\ NoAbort'
    BY <1>2, Written DEF SafeInv, AfterStop, NoAbort
  <2>4. QED
    BY <2>1, <2>2, <2>3
<1>15. QED
  BY <1>6, <1>7, <1>8, <1>9, <1>10, <1>12, <1>13, <1>14, Written DEF SafeInv

LEMMA SafePutEnd == ASSUME SafeInv, NEW t \in Callers, PutEnd(t) PROVE SafeInv'
<1>1. pc[t] \in {"create", "open", "close", "pass", "shutdown"}
  BY Written DEF Writing
<1>2. QED
  BY <1>1, SafePutCreate, SafePutOpen, SafePutClose, SafePutPass, SafePutShutdown

LEMMA SafeRelease == ASSUME SafeInv, NEW f \in Fds, Release(f) PROVE SafeInv'
<1>1. /\ f \in closed /\ closed' = closed \ {f} /\ open_fds' = open_fds \ {f}
      /\ \A g \in Fds : serving'[g] = IF g = f THEN 0 ELSE serving[g]
      /\ UNCHANGED <<status, transport, list, list_owner, retired, pc, config, fd, put, ring, held,
                     worker, stacks, aborted>>
  BY DEF Release, Working, lists, calls, channel, SafeInv, RaceInv, Types
<1>2. RaceInv'
  BY RaceRelease DEF SafeInv
<1>3. /\ Queued' = Queued /\ NoTwice' = NoTwice /\ (\A g : Opens(g)' = Opens(g))
      /\ Stopped' = Stopped /\ Ending' = Ending /\ Listed' = Listed
  BY <1>1, QueuedStays DEF Stopped, Ending, Listed, GetStack
<1>4. Serial' /\ Lifecycle'
  BY <1>1, SerialStays, LifecycleStays DEF SafeInv
<1>5. serving[f] # 0 /\ CLOSE(f) \notin Queued /\ ~ Opens(f)
  BY <1>1 DEF SafeInv, Descriptors, Descriptor, Executable, Opens
<1>6. Executable'
  <2>1. 0 \notin StackIds
    BY StackIdsType
  <2>2. QED
    BY <1>1, <1>3, <2>1 DEF SafeInv, Executable
<1>7. Ordered'
  <2>1. \A i \in DOMAIN ring : ring[i] # CLOSE(f)
    BY <1>5 DEF Queued
  <2>2. QED
    BY <1>1, <1>3, <2>1 DEF SafeInv, Ordered, Before
<1>8. Numbered' /\ NoTwice'
  BY <1>1, <1>3 DEF SafeInv, Numbered
<1>9. /\ \A u \in Callers : InOpen(u)' <=> InOpen(u)
      /\ \A g : \A u \in Callers : Uses(u, g)' <=> Uses(u, g)
      /\ \A u \in Callers : StackOf(u)' = StackOf(u)
  BY <1>1 DEF InOpen, Uses, StackOf
<1>10. InCalls'
  <2>1. \A u \in Callers : /\ InOpen(u) \/ pc[u] = "close" => fd[u] \in Fds
                           /\ pc[u] = "pass" => StackOf(u) # 0
    BY DEF SafeInv, RaceInv, Arguments, InOpen, StackOf
  <2>2. QED
    BY <1>1, <1>3, <1>9, <2>1 DEF SafeInv, InCalls, InCall
<1>11. Descriptors'
  <2>1. \A u \in Callers : ~ Uses(u, f)
    BY <1>1, <1>5 DEF SafeInv, InCalls, InCall, Uses
  <2>2. Descriptor(f)'
    BY <1>1, <1>3, <1>5, <1>9, <2>1 DEF SafeInv, Descriptors, Descriptor
  <2>3. ASSUME NEW g \in Fds, g # f PROVE Descriptor(g)'
    BY <1>1, <1>3, <1>9, <2>3 DEF SafeInv, Descriptors, Descriptor
  <2>4. QED
    BY <2>2, <2>3 DEF Descriptors
<1>12. Retired' /\ Created' /\ NoAbort'
  BY <1>1, <1>3 DEF SafeInv, Retired, Created, NoAbort
<1>13. AfterStop'
  BY <1>1, <1>3 DEF SafeInv, AfterStop
<1>14. QED
  BY <1>2, <1>4, <1>6, <1>7, <1>8, <1>10, <1>11, <1>12, <1>13 DEF SafeInv


-----------------------------------------------------------------------------
(* The commands *)

(* What reading a command does. *)
LEMMA Reading ==
    ASSUME SafeInv, NEW op, Read(op)
    PROVE  /\ Head(ring) \in Queued /\ Head(ring).op = op /\ Known(Head(ring))
           /\ Queued = Queued' \cup {Head(ring)} /\ Head(ring) \notin Queued'
           /\ \A q \in Queued' : ~ SameKey(q, Head(ring))
           /\ 1 \in DOMAIN ring /\ ring[1] = Head(ring) /\ \A q : ~ Before(1, q)
           /\ \A i \in DOMAIN ring' : /\ i + 1 \in DOMAIN ring /\ ring'[i] = ring[i + 1]
                                      /\ i + 1 = Len(ring) => i = Len(ring')
           /\ \A q : \A i \in DOMAIN ring' : Before(i + 1, q) => Before(i, q)' \/ q = Head(ring)
           /\ NoTwice' /\ Serial'
           /\ UNCHANGED <<transport, list, list_owner, retired, pc, config, fd, put, held, worker>>
           /\ ~ Stopped /\ aborted = "no" /\ worker = "batch" /\ Listed' = Listed
           /\ Ending' = Ending /\ ring # <<>> /\ (\A t \in Callers : pc[t] # "pass")
<1>1. /\ ring \in Seq(Command) /\ ring # <<>> /\ ring' = Tail(ring) /\ NoTwice
      /\ Head(ring).op = op /\ worker = "batch" /\ aborted = "no"
      /\ UNCHANGED <<transport, list, list_owner, retired, pc, config, fd, put, held, worker>>
  BY DEF Read, Working, lists, calls, SafeInv, RaceInv, Types
<1>2. /\ Queued = Queued' \cup {Head(ring)} /\ Head(ring) \notin Queued'
      /\ \A q \in Queued' : ~ SameKey(q, Head(ring))
      /\ 1 \in DOMAIN ring /\ ring[1] = Head(ring) /\ \A q : ~ Before(1, q)
      /\ \A i \in DOMAIN ring' : /\ i + 1 \in DOMAIN ring /\ ring'[i] = ring[i + 1]
                                 /\ i + 1 = Len(ring) => i = Len(ring')
      /\ \A q : \A i \in DOMAIN ring' : Before(i + 1, q) => Before(i, q)' \/ q = Head(ring)
      /\ NoTwice'
  BY <1>1, TailFacts
<1>3. Known(Head(ring))
  BY <1>1, ReadType, CommandKinds
<1>4. Serial'
  BY <1>1, SerialStays DEF SafeInv
<1>5. /\ Listed' = Listed /\ Ending' = Ending /\ ~ Stopped
      /\ \A t \in Callers : pc[t] # "pass"
  BY <1>1 DEF Listed, GetStack, Ending, SafeInv, AfterStop, InCalls, InCall
<1>6. QED
  BY <1>1, <1>2, <1>3, <1>4, <1>5

(* What the commands behind it then depend on. *)
LEMMA OrderLeft ==
    ASSUME SafeInv, NEW op, Read(op)
    PROVE  \A i \in DOMAIN ring' :
              /\ \A j \in StackIds, g \in Fds : ring'[i] = OPEN(j, g) =>
                    j \in stacks \/ Before(i, CREATE(j))' \/ Head(ring) = CREATE(j)
              /\ \A g \in Fds : ring'[i] = CLOSE(g) =>
                    \/ serving[g] # 0
                    \/ \E j \in StackIds : Before(i, OPEN(j, g))' \/ Head(ring) = OPEN(j, g)
              /\ ring'[i] = SHUTDOWN => i = Len(ring')
<1> SUFFICES ASSUME NEW i \in DOMAIN ring'
             PROVE  /\ \A j \in StackIds, g \in Fds : ring'[i] = OPEN(j, g) =>
                          j \in stacks \/ Before(i, CREATE(j))' \/ Head(ring) = CREATE(j)
                    /\ \A g \in Fds : ring'[i] = CLOSE(g) =>
                          \/ serving[g] # 0
                          \/ \E j \in StackIds : Before(i, OPEN(j, g))' \/ Head(ring) = OPEN(j, g)
                    /\ ring'[i] = SHUTDOWN => i = Len(ring')
  OBVIOUS
<1>1. /\ i + 1 \in DOMAIN ring /\ ring'[i] = ring[i + 1]
      /\ i + 1 = Len(ring) => i = Len(ring')
      /\ \A q : Before(i + 1, q) => Before(i, q)' \/ q = Head(ring)
  BY Reading
<1>2. ASSUME NEW j \in StackIds, NEW g \in Fds, ring'[i] = OPEN(j, g), j \notin stacks
      PROVE  Before(i, CREATE(j))' \/ Head(ring) = CREATE(j)
  <2>1. Before(i + 1, CREATE(j))
    BY <1>1, <1>2 DEF SafeInv, Ordered
  <2>2. QED
    BY <1>1, <2>1
<1>3. ASSUME NEW g \in Fds, ring'[i] = CLOSE(g), serving[g] = 0
      PROVE  \E j \in StackIds : Before(i, OPEN(j, g))' \/ Head(ring) = OPEN(j, g)
  <2>1. PICK j \in StackIds : Before(i + 1, OPEN(j, g))
    BY <1>1, <1>3 DEF SafeInv, Ordered
  <2>2. QED
    BY <1>1, <2>1
<1>4. ring'[i] = SHUTDOWN => i = Len(ring')
  BY <1>1 DEF SafeInv, Ordered
<1>5. QED
  BY <1>2, <1>3, <1>4

(* Calls and descriptors when the worker executes a command: what a call   *)
(* relies on only depends on these. *)
LEMMA CallsSame ==
    ASSUME UNCHANGED <<list, pc, config, fd>>
    PROVE  /\ \A u : InOpen(u)' <=> InOpen(u)
           /\ \A u, g : Uses(u, g)' <=> Uses(u, g)
           /\ \A u : StackOf(u)' = StackOf(u)
BY DEF InOpen, Uses, StackOf

LEMMA SafeExecuteCreate == ASSUME SafeInv, ExecuteCreateStack PROVE SafeInv'
<1>1. Read("CREATE STACK")
  BY DEF ExecuteCreateStack
<1>2. PICK id \in StackIds : Head(ring) = CREATE(id) /\ Head(ring).stack = id
  BY <1>1, Reading DEF Known
<1>3. /\ \A i : i \in stacks' <=> i \in stacks \/ i = id
      /\ UNCHANGED <<status, serving, closed, open_fds>>
  BY <1>2 DEF ExecuteCreateStack
<1>0. /\ UNCHANGED <<transport, list, list_owner, retired, pc, config, fd, put, held, worker>>
      /\ ~ Stopped /\ Ending' = Ending /\ ring # <<>> /\ (\A t \in Callers : pc[t] # "pass")
  BY <1>1, Reading
<1>4. CREATE(id) \in Queued /\ id \notin stacks
  BY <1>1, <1>2, Reading DEF SafeInv, Executable
<1>5. aborted' = "no"
  BY <1>2, <1>4 DEF ExecuteCreateStack, Asserts
<1>6. /\ \A i : CREATE(i) \in Queued' <=> CREATE(i) \in Queued /\ i # id
      /\ \A i, g : OPEN(i, g) \in Queued' <=> OPEN(i, g) \in Queued
      /\ \A g : CLOSE(g) \in Queued' <=> CLOSE(g) \in Queued
      /\ \A i : DESTROY(i) \in Queued' <=> DESTROY(i) \in Queued
      /\ SHUTDOWN \in Queued' <=> SHUTDOWN \in Queued
      /\ \A g : Opens(g)' <=> Opens(g)
  <2>1. Queued = Queued' \cup {CREATE(id)} /\ CREATE(id) \notin Queued'
    BY <1>1, <1>2, Reading
  <2>2. /\ \A i : CREATE(i) \in Queued' <=> CREATE(i) \in Queued /\ i # id
        /\ \A i, g : OPEN(i, g) \in Queued' <=> OPEN(i, g) \in Queued
        /\ \A g : CLOSE(g) \in Queued' <=> CLOSE(g) \in Queued
        /\ \A i : DESTROY(i) \in Queued' <=> DESTROY(i) \in Queued
        /\ SHUTDOWN \in Queued' <=> SHUTDOWN \in Queued
    BY <2>1, CommandsDiffer
  <2>3. QED
    BY <2>2 DEF Opens
<1>7. RaceInv'
  BY RaceExecute DEF SafeInv, Execute
<1>8. Lifecycle'
  BY <1>0, <1>3, <1>6 DEF SafeInv, Lifecycle, Stopped, Ending
<1>9. Executable'
  BY <1>3, <1>6 DEF SafeInv, Executable
<1>10. Ordered'
  <2>1. \A j, g : (Head(ring) = CREATE(j) => j = id) /\ Head(ring) # OPEN(j, g)
    BY <1>2, CommandsDiffer
  <2>2. QED
    BY <1>1, <1>3, <2>1, OrderLeft DEF Ordered
<1>11. Numbered'
  BY <1>1, <1>3, <1>4, <1>6, Reading DEF SafeInv, Numbered
<1>12. InCalls'
  <2>1. ASSUME NEW u \in Callers PROVE InCall(u)'
    <3>1. pc[u] = "create" => StackOf(u) # id
      BY <1>4 DEF SafeInv, InCalls, InCall
    <3>2. QED
      BY <1>0, <1>3, <1>6, <3>1, CallsSame DEF SafeInv, InCalls, InCall
  <2>2. QED
    BY <2>1 DEF InCalls
<1>13. Descriptors'
  BY <1>0, <1>3, <1>6, CallsSame DEF SafeInv, Descriptors, Descriptor
<1>14. Retired' /\ Created' /\ AfterStop' /\ NoAbort'
  <2>1. Retired'
    BY <1>0, <1>6 DEF SafeInv, Retired
  <2>2. Created'
    <3>1. Stopped' = Stopped
      BY <1>3 DEF Stopped
    <3>2. QED
      BY <1>0, <1>3, <1>6, <3>1 DEF SafeInv, Created
  <2>3. AfterStop' /\ NoAbort'
    BY <1>0, <1>3, <1>5 DEF AfterStop, NoAbort, Stopped
  <2>4. QED
    BY <2>1, <2>2, <2>3
<1>15. QED
  BY <1>1, <1>7, <1>8, <1>9, <1>10, <1>11, <1>12, <1>13, <1>14, Reading DEF SafeInv

LEMMA SafeExecuteOpen == ASSUME SafeInv, ExecuteOpenConnection PROVE SafeInv'
<1>1. Read("OPEN")
  BY DEF ExecuteOpenConnection
<1>2. PICK id \in StackIds, f \in Fds :
         Head(ring) = OPEN(id, f) /\ Head(ring).stack = id /\ Head(ring).fd = f
  BY <1>1, Reading DEF Known
<1>3. /\ \A g \in Fds : serving'[g] = IF g = f THEN id ELSE serving[g]
      /\ UNCHANGED <<status, stacks, closed, open_fds>>
  BY <1>2 DEF ExecuteOpenConnection, SafeInv, RaceInv, Types
<1>4. OPEN(id, f) \in Queued /\ serving[f] = 0 /\ id \in stacks /\ id # 0 /\ Opens(f)
  <2>1. OPEN(id, f) \in Queued /\ ring[1] = OPEN(id, f) /\ 1 \in DOMAIN ring
    BY <1>1, <1>2, Reading
  <2>2. id \in stacks
    BY <1>1, <2>1, Reading DEF SafeInv, Ordered
  <2>3. QED
    BY <2>1, <2>2, StackIdsType DEF SafeInv, Executable, Opens
<1>5. aborted' = "no"
  BY <1>2, <1>4 DEF ExecuteOpenConnection, Asserts
<1>6. /\ \A i : CREATE(i) \in Queued' <=> CREATE(i) \in Queued
      /\ \A i, g : OPEN(i, g) \in Queued' <=> OPEN(i, g) \in Queued /\ g # f
      /\ \A g : CLOSE(g) \in Queued' <=> CLOSE(g) \in Queued
      /\ \A i : DESTROY(i) \in Queued' <=> DESTROY(i) \in Queued
      /\ SHUTDOWN \in Queued' <=> SHUTDOWN \in Queued
      /\ \A g : Opens(g)' <=> Opens(g) /\ g # f
  <2>1. Queued = Queued' \cup {OPEN(id, f)}
    BY <1>1, <1>2, Reading
  <2>2. \A i : OPEN(i, f) \notin Queued'
    <3>1. \A i : SameKey(OPEN(i, f), OPEN(id, f))
      BY CommandFields DEF SameKey, OPEN
    <3>2. QED
      BY <1>1, <1>2, <3>1, Reading
  <2>3. /\ \A i : CREATE(i) \in Queued' <=> CREATE(i) \in Queued
        /\ \A i, g : OPEN(i, g) \in Queued' <=> OPEN(i, g) \in Queued /\ g # f
        /\ \A g : CLOSE(g) \in Queued' <=> CLOSE(g) \in Queued
        /\ \A i : DESTROY(i) \in Queued' <=> DESTROY(i) \in Queued
        /\ SHUTDOWN \in Queued' <=> SHUTDOWN \in Queued
    BY <2>1, <2>2, CommandsDiffer
  <2>4. QED
    BY <2>3 DEF Opens
<1>7. RaceInv'
  BY RaceExecute DEF SafeInv, Execute
<1>8. Lifecycle'
  BY <1>1, <1>3, <1>6, Reading DEF SafeInv, Lifecycle, Stopped, Ending
<1>9. Executable'
  <2>1. \A i \in StackIds : DESTROY(i) \in Queued => i # id
    BY <1>2, <1>4 DEF SafeInv, Retired
  <2>2. QED
    BY <1>3, <1>6, <2>1 DEF SafeInv, Executable
<1>10. Ordered'
  BY <1>1, <1>2, <1>3, <1>4, OrderLeft, CommandsDiffer DEF Ordered
<1>11. Numbered'
  BY <1>1, <1>3, <1>6, Reading DEF SafeInv, Numbered
<1>12. InCalls'
  <2>1. ASSUME NEW u \in Callers PROVE InCall(u)'
    <3>1. /\ InOpen(u) => fd[u] # f
          /\ InOpen(u) \/ pc[u] = "close" => fd[u] \in Fds
      BY <1>4 DEF SafeInv, InCalls, InCall, RaceInv, Arguments, InOpen
    <3>2. QED
      BY <1>1, <1>3, <1>4, <1>6, <3>1, Reading, CallsSame DEF SafeInv, InCalls, InCall
  <2>2. QED
    BY <2>1 DEF InCalls
<1>13. Descriptors'
  <2>1. Descriptor(f)'
    BY <1>1, <1>3, <1>4, <1>6, Reading, CallsSame DEF SafeInv, Descriptors, Descriptor
  <2>2. ASSUME NEW g \in Fds, g # f PROVE Descriptor(g)'
    BY <1>1, <1>3, <1>6, <2>2, Reading, CallsSame DEF SafeInv, Descriptors, Descriptor
  <2>3. QED
    BY <2>1, <2>2 DEF Descriptors
<1>14. Retired' /\ Created' /\ AfterStop' /\ NoAbort'
  <2>1. Retired'
    BY <1>1, <1>6, Reading DEF SafeInv, Retired
  <2>2. Created'
    BY <1>1, <1>3, <1>6, Reading DEF SafeInv, Created, Stopped
  <2>3. AfterStop' /\ NoAbort'
    BY <1>1, <1>3, <1>5, Reading DEF AfterStop, NoAbort, Stopped
  <2>4. QED
    BY <2>1, <2>2, <2>3
<1>15. QED
  BY <1>1, <1>7, <1>8, <1>9, <1>10, <1>11, <1>12, <1>13, <1>14, Reading DEF SafeInv


LEMMA SafeExecuteClose == ASSUME SafeInv, ExecuteCloseConnection PROVE SafeInv'
<1>1. Read("CLOSE")
  BY DEF ExecuteCloseConnection
<1>2. PICK f \in Fds : Head(ring) = CLOSE(f) /\ Head(ring).fd = f
  BY <1>1, Reading DEF Known
<1>3. /\ \A g : g \in closed' <=> g \in closed \/ g = f
      /\ UNCHANGED <<status, stacks, serving, open_fds>>
  BY <1>2 DEF ExecuteCloseConnection
<1>0. /\ UNCHANGED <<transport, list, list_owner, retired, pc, config, fd, put, held, worker>>
      /\ ~ Stopped /\ Ending' = Ending /\ ring # <<>> /\ (\A t \in Callers : pc[t] # "pass")
  BY <1>1, Reading
<1>4. CLOSE(f) \in Queued /\ serving[f] # 0 /\ f \notin closed
  <2>1. CLOSE(f) \in Queued /\ ring[1] = CLOSE(f) /\ 1 \in DOMAIN ring
    BY <1>1, <1>2, Reading
  <2>2. serving[f] # 0
    BY <1>1, <2>1, Reading DEF SafeInv, Ordered
  <2>3. QED
    BY <2>1, <2>2 DEF SafeInv, Executable
<1>5. aborted' = "no"
  BY <1>2, <1>4 DEF ExecuteCloseConnection, Asserts
<1>6. /\ \A i : CREATE(i) \in Queued' <=> CREATE(i) \in Queued
      /\ \A i, g : OPEN(i, g) \in Queued' <=> OPEN(i, g) \in Queued
      /\ \A g : CLOSE(g) \in Queued' <=> CLOSE(g) \in Queued /\ g # f
      /\ \A i : DESTROY(i) \in Queued' <=> DESTROY(i) \in Queued
      /\ SHUTDOWN \in Queued' <=> SHUTDOWN \in Queued
      /\ \A g : Opens(g)' <=> Opens(g)
  <2>1. Queued = Queued' \cup {CLOSE(f)} /\ CLOSE(f) \notin Queued'
    BY <1>1, <1>2, Reading
  <2>2. /\ \A i : CREATE(i) \in Queued' <=> CREATE(i) \in Queued
        /\ \A i, g : OPEN(i, g) \in Queued' <=> OPEN(i, g) \in Queued
        /\ \A g : CLOSE(g) \in Queued' <=> CLOSE(g) \in Queued /\ g # f
        /\ \A i : DESTROY(i) \in Queued' <=> DESTROY(i) \in Queued
        /\ SHUTDOWN \in Queued' <=> SHUTDOWN \in Queued
    BY <2>1, CommandsDiffer
  <2>3. QED
    BY <2>2 DEF Opens
<1>7. RaceInv'
  BY RaceExecute DEF SafeInv, Execute
<1>8. Lifecycle'
  BY <1>0, <1>3, <1>6 DEF SafeInv, Lifecycle, Stopped, Ending
<1>9. Executable'
  BY <1>3, <1>6 DEF SafeInv, Executable
<1>10. Ordered'
  <2>1. \A j, g : Head(ring) # CREATE(j) /\ Head(ring) # OPEN(j, g)
    BY <1>2, CommandsDiffer
  <2>2. QED
    BY <1>1, <1>3, <2>1, OrderLeft DEF Ordered
<1>11. Numbered'
  BY <1>1, <1>3, <1>6, Reading DEF SafeInv, Numbered
<1>12. InCalls'
  <2>1. ASSUME NEW u \in Callers PROVE InCall(u)'
    <3>1. pc[u] = "close" => fd[u] # f
      BY <1>4 DEF SafeInv, InCalls, InCall
    <3>2. QED
      BY <1>0, <1>3, <1>6, <3>1, CallsSame DEF SafeInv, InCalls, InCall
  <2>2. QED
    BY <2>1 DEF InCalls
<1>13. Descriptors'
  <2>1. Descriptor(f)'
    BY <1>0, <1>3, <1>4, <1>6, CallsSame DEF SafeInv, Descriptors, Descriptor
  <2>2. ASSUME NEW g \in Fds, g # f PROVE Descriptor(g)'
    BY <1>0, <1>3, <1>6, <2>2, CallsSame DEF SafeInv, Descriptors, Descriptor
  <2>3. QED
    BY <2>1, <2>2 DEF Descriptors
<1>14. Retired' /\ Created' /\ AfterStop' /\ NoAbort'
  <2>1. Retired'
    BY <1>0, <1>6 DEF SafeInv, Retired
  <2>2. Stopped' = Stopped
    BY <1>3 DEF Stopped
  <2>3. Created'
    BY <1>0, <1>3, <1>6, <2>2 DEF SafeInv, Created
  <2>4. AfterStop' /\ NoAbort'
    BY <1>0, <1>5, <2>2 DEF AfterStop, NoAbort
  <2>5. QED
    BY <2>1, <2>3, <2>4
<1>15. QED
  BY <1>1, <1>7, <1>8, <1>9, <1>10, <1>11, <1>12, <1>13, <1>14, Reading DEF SafeInv

LEMMA SafeExecuteDestroy == ASSUME SafeInv, ExecuteDestroyStack PROVE SafeInv'
<1>1. Read("DESTROY STACK")
  BY DEF ExecuteDestroyStack
<1>2. PICK id \in StackIds : Head(ring) = DESTROY(id) /\ Head(ring).stack = id
  BY <1>1, Reading DEF Known
<1>3. /\ \A i : i \in stacks' <=> i \in stacks /\ i # id
      /\ \A g \in Fds : serving'[g] = IF serving[g] = id THEN 0 ELSE serving[g]
      /\ \A g \in Fds : g \in closed' <=> g \in closed /\ serving[g] # id
      /\ \A g \in Fds : g \in open_fds' <=> g \in open_fds /\ serving[g] # id
      /\ UNCHANGED status
  BY <1>2 DEF ExecuteDestroyStack, DestroyHolders, Drained
<1>0. /\ UNCHANGED <<transport, list, list_owner, retired, pc, config, fd, put, held, worker>>
      /\ ~ Stopped /\ Ending' = Ending /\ ring # <<>> /\ (\A t \in Callers : pc[t] # "pass")
  BY <1>1, Reading
<1>4. /\ DESTROY(id) \in Queued /\ id \in stacks /\ id # 0
      /\ \A g \in Fds : serving[g] = id => g \in closed
  <2>1. DESTROY(id) \in Queued
    BY <1>1, <1>2, Reading
  <2>2. QED
    BY <2>1, StackIdsType DEF SafeInv, Executable
<1>5. aborted' = "no"
  BY <1>2, <1>4 DEF ExecuteDestroyStack, Asserts
<1>6. /\ \A i : CREATE(i) \in Queued' <=> CREATE(i) \in Queued
      /\ \A i, g : OPEN(i, g) \in Queued' <=> OPEN(i, g) \in Queued
      /\ \A g : CLOSE(g) \in Queued' <=> CLOSE(g) \in Queued
      /\ \A i : DESTROY(i) \in Queued' <=> DESTROY(i) \in Queued /\ i # id
      /\ SHUTDOWN \in Queued' <=> SHUTDOWN \in Queued
      /\ \A g : Opens(g)' <=> Opens(g)
  <2>1. Queued = Queued' \cup {DESTROY(id)} /\ DESTROY(id) \notin Queued'
    BY <1>1, <1>2, Reading
  <2>2. /\ \A i : CREATE(i) \in Queued' <=> CREATE(i) \in Queued
        /\ \A i, g : OPEN(i, g) \in Queued' <=> OPEN(i, g) \in Queued
        /\ \A g : CLOSE(g) \in Queued' <=> CLOSE(g) \in Queued
        /\ \A i : DESTROY(i) \in Queued' <=> DESTROY(i) \in Queued /\ i # id
        /\ SHUTDOWN \in Queued' <=> SHUTDOWN \in Queued
    BY <2>1, CommandsDiffer
  <2>3. QED
    BY <2>2 DEF Opens
<1>7. RaceInv'
  BY RaceExecute DEF SafeInv, Execute
<1>8. Lifecycle'
  BY <1>0, <1>3, <1>6 DEF SafeInv, Lifecycle, Stopped, Ending
<1>9. /\ \E c \in retired : list[c] = id
      /\ \A g \in Fds : OPEN(id, g) \notin Queued
      /\ CREATE(id) \notin Queued
      /\ \A c \in Configs \ retired : list[c] # id
  <2>1. PICK c \in retired : list[c] = id
    BY <1>4 DEF SafeInv, Retired
  <2>2. \A d \in Configs \ retired : list[d] # id
    BY <2>1, <1>4 DEF SafeInv, RaceInv, Types, Distinct
  <2>3. QED
    BY <2>1, <2>2 DEF SafeInv, Retired
<1>10. Executable'
  <2>1. \A i \in StackIds : i # 0
    BY StackIdsType
  <2>2. QED
    BY <1>3, <1>6, <2>1 DEF SafeInv, Executable
<1>11. Ordered'
  <2>1. \A j, g : Head(ring) # CREATE(j) /\ Head(ring) # OPEN(j, g)
    BY <1>2, CommandsDiffer
  <2>2. \A i \in DOMAIN ring' : ring'[i] \in Queued'
    BY DEF Queued
  <2>3. \A g \in Fds : CLOSE(g) \in Queued' => serving[g] # id
    BY <1>4, <1>6 DEF SafeInv, Executable
  <2>4. \A i \in DOMAIN ring', j \in StackIds, g \in Fds : ring'[i] = OPEN(j, g) =>
           j \in stacks' \/ Before(i, CREATE(j))'
    BY <1>1, <1>3, <1>6, <1>9, <2>1, <2>2, OrderLeft, ZenonT(60)
  <2>5. \A i \in DOMAIN ring', g \in Fds : ring'[i] = CLOSE(g) =>
           serving'[g] # 0 \/ \E j \in StackIds : Before(i, OPEN(j, g))'
    BY <1>1, <1>3, <2>1, <2>2, <2>3, OrderLeft
  <2>6. QED
    BY <1>1, <2>4, <2>5, OrderLeft DEF Ordered
<1>12. Numbered'
  BY <1>1, <1>3, <1>6, Reading DEF SafeInv, Numbered
<1>13. InCalls'
  <2>1. ASSUME NEW u \in Callers PROVE InCall(u)'
    <3>1. /\ InOpen(u) \/ pc[u] = "close" => fd[u] \in Fds
          /\ InOpen(u) => config[u] \in Configs \ retired
      BY DEF SafeInv, RaceInv, Arguments, InCalls, InCall, InOpen
    <3>2. pc[u] = "open" => StackOf(u) # id
      BY <1>9, <3>1 DEF StackOf, InOpen
    <3>3. pc[u] = "close" => serving[fd[u]] # id
      BY <1>4, <3>1 DEF SafeInv, InCalls, InCall
    <3>4. QED
      BY <1>0, <1>3, <1>6, <3>1, <3>2, <3>3, CallsSame DEF SafeInv, InCalls, InCall
  <2>2. QED
    BY <2>1 DEF InCalls
<1>14. Descriptors'
  <2>1. ASSUME NEW g \in Fds, serving[g] = id PROVE Descriptor(g)'
    <3>1. g \in closed /\ serving[g] # 0
      BY <1>4, <2>1
    <3>2. ~ Opens(g) /\ CLOSE(g) \notin Queued
      BY <3>1 DEF SafeInv, Executable, Opens
    <3>3. \A u \in Callers : ~ Uses(u, g)
      BY <3>1 DEF SafeInv, InCalls, InCall, Uses
    <3>4. QED
      BY <1>0, <1>3, <1>6, <2>1, <3>1, <3>2, <3>3, CallsSame DEF SafeInv, Descriptors, Descriptor
  <2>2. ASSUME NEW g \in Fds, serving[g] # id PROVE Descriptor(g)'
    BY <1>0, <1>3, <1>6, <2>2, CallsSame DEF SafeInv, Descriptors, Descriptor
  <2>3. QED
    BY <2>1, <2>2 DEF Descriptors
<1>15. Retired' /\ Created' /\ AfterStop' /\ NoAbort'
  <2>1. Retired'
    BY <1>0, <1>6 DEF SafeInv, Retired
  <2>2. Stopped' = Stopped
    BY <1>3 DEF Stopped
  <2>3. Created'
    BY <1>0, <1>3, <1>6, <1>9, <2>2 DEF SafeInv, Created
  <2>4. AfterStop' /\ NoAbort'
    BY <1>0, <1>5, <2>2 DEF AfterStop, NoAbort
  <2>5. QED
    BY <2>1, <2>3, <2>4
<1>16. QED
  BY <1>1, <1>7, <1>8, <1>10, <1>11, <1>12, <1>13, <1>14, <1>15, Reading DEF SafeInv

LEMMA SafeExecuteShutdown == ASSUME SafeInv, ExecuteShutdownFramework PROVE SafeInv'
<1>1. Read("SHUTDOWN")
  BY DEF ExecuteShutdownFramework
<1>2. Head(ring) = SHUTDOWN
  BY <1>1, Reading DEF Known
<1>0. /\ UNCHANGED <<transport, list, list_owner, retired, pc, config, fd, put, held, worker>>
      /\ ~ Stopped /\ Ending' = Ending /\ (\A t \in Callers : pc[t] # "pass") /\ worker = "batch"
      /\ Listed' = Listed
  BY <1>1, Reading
<1>3. /\ SHUTDOWN \in Queued /\ transport = "destroying" /\ Ending
      /\ 1 = Len(ring) /\ ring' = <<>> /\ Queued = {SHUTDOWN} /\ Queued' = {}
  <2>1. SHUTDOWN \in Queued /\ 1 \in DOMAIN ring /\ ring[1] = SHUTDOWN
    BY <1>1, <1>2, Reading
  <2>2. 1 = Len(ring)
    BY <2>1 DEF SafeInv, Ordered
  <2>3. ring \in Seq(Command) /\ ring' = Tail(ring) /\ ring # <<>>
    BY <1>1 DEF Read, SafeInv, RaceInv, Types
  <2>4. ring' = <<>>
    BY <2>2, <2>3
  <2>5. Queued' = {}
    BY <2>4 DEF Queued
  <2>6. Queued = {SHUTDOWN}
    BY <1>1, <1>2, <2>5, Reading
  <2>7. QED
    BY <2>1, <2>2, <2>4, <2>5, <2>6 DEF SafeInv, Lifecycle, Ending
<1>4. \A u \in Callers : pc[u] \in {"idle", "waiting"}
  BY <1>3 DEF SafeInv, Lifecycle, RaceInv, Types, Writing
<1>5. status = "RUNNING" /\ status' = "STOPPING" /\ aborted' = "no"
  <2>1. status = "RUNNING"
    BY <1>0 DEF SafeInv, RaceInv, Types, Lifecycle, Stopped
  <2>2. QED
    BY <2>1 DEF ExecuteShutdownFramework, Asserts
<1>6. \A i, g : OPEN(i, g) \notin Queued /\ ~ Opens(g)
  BY <1>3, CommandsDiffer DEF Opens
<1>7. /\ stacks' = {} /\ open_fds' = {}
      /\ \A g \in Fds : serving'[g] = 0 /\ g \notin closed'
  <2>1. 0 \notin stacks
    BY StackIdsType DEF SafeInv, RaceInv, Types
  <2>2. \A u \in Callers : ~ InOpen(u)
    BY <1>4 DEF InOpen
  <2>3. \A g \in Fds : /\ serving[g] # 0 => serving[g] \in stacks
                       /\ g \in closed => serving[g] # 0
                       /\ g \in open_fds => serving[g] # 0
    BY <1>6, <2>2 DEF SafeInv, Descriptors, Descriptor
  <2>4. /\ stacks' = stacks \ stacks /\ open_fds' = open_fds \ Drained(stacks)
        /\ closed' = closed \ Drained(stacks)
        /\ serving' = [f \in Fds |-> IF f \in Drained(stacks) THEN 0 ELSE serving[f]]
    BY DEF ExecuteShutdownFramework, DestroyHolders
  <2>5. \A g \in Fds : serving[g] # 0 => g \in Drained(stacks)
    BY <2>3 DEF Drained
  <2>6. open_fds \subseteq Fds
    BY DEF SafeInv, RaceInv, Types
  <2>7. QED
    BY <2>3, <2>4, <2>5, <2>6
<1>8. RaceInv'
  BY RaceExecute DEF SafeInv, Execute
<1>9. Lifecycle'
  BY <1>0, <1>3, <1>4, <1>5 DEF SafeInv, Lifecycle, Stopped, Ending
<1>10. Executable' /\ Numbered'
  BY <1>3, <1>7 DEF Executable, Numbered
<1>11. Ordered'
  BY <1>3 DEF Ordered
<1>12. \A g : \A u \in Callers : ~ Uses(u, g)' /\ pc'[u] \in {"idle", "waiting"}
  BY <1>0, <1>4 DEF Uses, InOpen
<1>13. InCalls'
  BY <1>12 DEF InCalls, InCall, InOpen
<1>14. Descriptors'
  <2>1. \A g : ~ Opens(g)'
    BY <1>3 DEF Opens
  <2>2. QED
    BY <1>0, <1>3, <1>7, <1>12, <2>1 DEF Descriptors, Descriptor
<1>15. Retired' /\ Created' /\ AfterStop' /\ NoAbort'
  BY <1>0, <1>3, <1>5, <1>7 DEF SafeInv, Retired, Created, AfterStop, Stopped, NoAbort
<1>16. QED
  BY <1>1, <1>8, <1>9, <1>10, <1>11, <1>13, <1>14, <1>15, Reading DEF SafeInv

LEMMA SafeNext ==
    ASSUME SerialCalls, ~ ReopenDestroyed
    PROVE  SafeInv /\ NeverFull /\ [Next]_vars => SafeInv'
BY SafeCreate, SafeOpenBegin, SafeOpenLookup, SafeCloseBegin, SafePassBegin, SafeDestroyBegin,
   SafeDestroyEnd, SafePutBegin, SafePutEnd, SafeWorker, SafeRelease, SafeStutter,
   SafeExecuteCreate, SafeExecuteOpen, SafeExecuteClose, SafeExecuteDestroy, SafeExecuteShutdown,
   Zenon DEF Next, Worker, Caller, Execute

LEMMA SafeInductive ==
    ASSUME SerialCalls, ~ ReopenDestroyed
    PROVE  Spec /\ []NeverFull => []SafeInv
<1>1. SafeInv /\ NeverFull /\ [Next]_vars => SafeInv'
  BY SafeNext
<1>2. QED
  BY SafeInit, <1>1, PTL DEF Spec

-----------------------------------------------------------------------------
(* No assertion of the worker fails as long as the application closes      *)
(* connections and destroys stacks while no other call is on its way, does *)
(* not come back to a destroyed stack, and never fills the ring.           *)
THEOREM NoAssertionFails ==
    ASSUME SerialCalls, ~ ReopenDestroyed
    PROVE  Spec /\ []NeverFull => []NoAbort
<1>1. SafeInv => NoAbort
  BY DEF SafeInv
<1>2. QED
  BY SafeInductive, <1>1, PTL

(* Then every configuration in the transport's list also has its own stack *)
(* in the worker, or the command that creates it is on its way.            *)
THEOREM ListIsServed ==
    ASSUME SerialCalls, ~ ReopenDestroyed
    PROVE  Spec /\ []NeverFull => []ListMatchesStacks
<1>1. SafeInv => ListMatchesStacks
  <2> SUFFICES ASSUME SafeInv, transport = "up"
               PROVE  /\ \A c, d \in Configs : list[c] # 0 /\ list[c] = list[d] => c = d
                      /\ \A c \in Configs \ retired : list[c] # 0 =>
                            \/ list[c] \in stacks
                            \/ \E i \in Commands("CREATE STACK") : ring[i].stack = list[c]
                            \/ \E t \in Callers : pc[t] = "create" /\ config[t] = c
    BY DEF ListMatchesStacks
  <2>1. \A c, d \in Configs : list[c] # 0 /\ list[c] = list[d] => c = d
    BY DEF SafeInv, RaceInv, Distinct
  <2>2. ASSUME NEW id, CREATE(id) \in Queued
        PROVE  \E i \in Commands("CREATE STACK") : ring[i].stack = id
    <3>1. PICK i \in DOMAIN ring : ring[i] = CREATE(id)
      BY <2>2 DEF Queued
    <3>2. ring[i].op = "CREATE STACK" /\ ring[i].stack = id
      BY <3>1, CommandFields, ZenonT(60)
    <3>3. QED
      BY <3>2 DEF Commands
  <2>3. ~ Stopped
    BY DEF SafeInv, Lifecycle, Ending
  <2>4. QED
    BY <2>1, <2>2, <2>3 DEF SafeInv, Created
<1>2. QED
  BY SafeInductive, <1>1, PTL

(* Then Destroy only returns when the worker has exited, and no stack, no  *)
(* command and no descriptor is left, whatever was open.                   *)
THEOREM DestroyLeavesNothing ==
    ASSUME SerialCalls, ~ ReopenDestroyed
    PROVE  Spec /\ []NeverFull => []NothingLeft
<1>1. SafeInv => NothingLeft
  BY DEF SafeInv, Lifecycle, AfterStop, Stopped, NothingLeft
<1>2. QED
  BY SafeInductive, <1>1, PTL


-----------------------------------------------------------------------------
(* How large the ring must be                                              *)

LEMMA Tagged ==
    ASSUME NEW S, IsFiniteSet(S), NEW tag
    PROVE  /\ IsFiniteSet({<<tag, x>> : x \in S})
           /\ Cardinality({<<tag, x>> : x \in S}) \in Nat
           /\ Cardinality({<<tag, x>> : x \in S}) <= Cardinality(S)
<1> DEFINE T == {<<tag, x>> : x \in S}
           f == [x \in S |-> <<tag, x>>]
<1>1. f \in Surjection(S, T)
  BY DEF Surjection
<1> HIDE DEF T, f
<1>2. IsFiniteSet(T) /\ Cardinality(T) <= Cardinality(S)
  BY <1>1, FS_Surjection
<1>3. QED
  BY <1>2, FS_CardinalityType DEF T

(* There is at most one command for each stack, and one to open and one to *)
(* close each descriptor, as long as a thread is about to write.           *)
Key(q) == IF q.op = "OPEN" THEN <<"OPEN", q.fd>>
          ELSE IF q.op = "CLOSE" THEN <<"CLOSE", q.fd>> ELSE <<"STACK", q.stack>>

Keys == {<<"STACK", id>> : id \in StackIds} \cup {<<"OPEN", f>> : f \in Fds}
            \cup {<<"CLOSE", f>> : f \in Fds}

LEMMA KeysType ==
    ASSUME IsFiniteSet(Fds)
    PROVE  /\ IsFiniteSet(Keys) /\ Cardinality(Keys) \in Nat
           /\ Cardinality(Keys) <= Cardinality(Configs) + 2 * Cardinality(Fds)
<1> DEFINE A == {<<"STACK", id>> : id \in StackIds}
           B == {<<"OPEN", f>> : f \in Fds}
           C == {<<"CLOSE", f>> : f \in Fds}
<1>1. Cardinality(Configs) \in Nat /\ Cardinality(Fds) \in Nat
  BY StackIdsType, FS_CardinalityType
<1>2. IsFiniteSet(StackIds) /\ Cardinality(StackIds) = Cardinality(Configs)
  BY <1>1, FS_Interval DEF StackIds
<1>3. IsFiniteSet(A) /\ Cardinality(A) \in Nat /\ Cardinality(A) <= Cardinality(Configs)
  BY <1>2, Tagged
<1>4. IsFiniteSet(B) /\ Cardinality(B) \in Nat /\ Cardinality(B) <= Cardinality(Fds)
  BY Tagged
<1>5. IsFiniteSet(C) /\ Cardinality(C) \in Nat /\ Cardinality(C) <= Cardinality(Fds)
  BY Tagged
<1>6. Keys = (A \cup B) \cup C
  BY DEF Keys
<1> HIDE DEF A, B, C
<1>7. /\ IsFiniteSet(A \cup B) /\ Cardinality(A \cup B) \in Nat
      /\ Cardinality(A \cup B) <= Cardinality(A) + Cardinality(B)
  <2>1. /\ IsFiniteSet(A \cup B)
        /\ Cardinality(A \cup B) = Cardinality(A) + Cardinality(B) - Cardinality(A \cap B)
    BY <1>3, <1>4, FS_Union
  <2>2. Cardinality(A \cup B) \in Nat /\ Cardinality(A \cap B) \in Nat
    BY <2>1, <1>3, FS_CardinalityType, FS_Intersection
  <2>3. QED
    BY <1>3, <1>4, <2>1, <2>2
<1>8. /\ IsFiniteSet(Keys) /\ Cardinality(Keys) \in Nat
      /\ Cardinality(Keys) <= Cardinality(A \cup B) + Cardinality(C)
  <2>1. /\ IsFiniteSet(Keys)
        /\ Cardinality(Keys) = Cardinality(A \cup B) + Cardinality(C) - Cardinality((A \cup B) \cap C)
    BY <1>5, <1>6, <1>7, FS_Union
  <2>2. Cardinality(Keys) \in Nat /\ Cardinality((A \cup B) \cap C) \in Nat
    BY <2>1, <1>5, FS_CardinalityType, FS_Intersection
  <2>3. QED
    BY <1>5, <1>7, <2>1, <2>2
<1>9. QED
  BY <1>1, <1>3, <1>4, <1>5, <1>7, <1>8

LEMMA KeysDiffer ==
    ASSUME SafeInv, SHUTDOWN \notin Queued, NEW i \in DOMAIN ring
    PROVE  /\ Key(ring[i]) \in Keys
           /\ \A j \in DOMAIN ring : Key(ring[i]) = Key(ring[j]) => i = j
<1>1. ring \in Seq(Command)
  BY DEF SafeInv, RaceInv, Types
<1>2. ASSUME NEW j \in DOMAIN ring
      PROVE  \/ \E id \in StackIds : ring[j] = CREATE(id) /\ Key(ring[j]) = <<"STACK", id>>
             \/ \E id \in StackIds : ring[j] = DESTROY(id) /\ Key(ring[j]) = <<"STACK", id>>
             \/ \E f \in Fds, id \in StackIds : ring[j] = OPEN(id, f) /\ Key(ring[j]) = <<"OPEN", f>>
             \/ \E f \in Fds : ring[j] = CLOSE(f) /\ Key(ring[j]) = <<"CLOSE", f>>
  <2>1. ring[j] \in Command /\ ring[j] # SHUTDOWN
    BY <1>1 DEF Queued
  <2>2. CASE ring[j] \in CreateCommands
    <3>1. PICK id \in StackIds : ring[j] = CREATE(id)
      BY <2>2 DEF CreateCommands
    <3>2. ring[j].op = "CREATE STACK" /\ ring[j].stack = id
      BY <3>1, CommandFields, ZenonT(60)
    <3>3. Key(ring[j]) = <<"STACK", id>>
      BY <3>2 DEF Key
    <3>4. QED
      BY <3>1, <3>3
  <2>3. CASE ring[j] \in DestroyCommands
    <3>1. PICK id \in StackIds : ring[j] = DESTROY(id)
      BY <2>3 DEF DestroyCommands
    <3>2. ring[j].op = "DESTROY STACK" /\ ring[j].stack = id
      BY <3>1, CommandFields, ZenonT(60)
    <3>3. Key(ring[j]) = <<"STACK", id>>
      BY <3>2 DEF Key
    <3>4. QED
      BY <3>1, <3>3
  <2>4. CASE ring[j] \in OpenCommands
    <3>1. PICK id \in StackIds, f \in Fds : ring[j] = OPEN(id, f)
      BY <2>4 DEF OpenCommands
    <3>2. Key(ring[j]) = <<"OPEN", f>>
      BY <3>1 DEF Key, OPEN
    <3>3. QED
      BY <3>1, <3>2
  <2>5. CASE ring[j] \in CloseCommands
    <3>1. PICK f \in Fds : ring[j] = CLOSE(f)
      BY <2>5 DEF CloseCommands
    <3>2. Key(ring[j]) = <<"CLOSE", f>>
      BY <3>1 DEF Key, CLOSE
    <3>3. QED
      BY <3>1, <3>2
  <2>6. QED
    BY <2>1, <2>2, <2>3, <2>4, <2>5, Zenon DEF Command
<1>3. Key(ring[i]) \in Keys
  BY <1>2 DEF Keys
<1>4. ASSUME NEW j \in DOMAIN ring, Key(ring[i]) = Key(ring[j]) PROVE SameKey(ring[i], ring[j])
  <2>1. \A id \in StackIds : ~ (CREATE(id) \in Queued /\ DESTROY(id) \in Queued)
    BY DEF SafeInv, Executable
  <2>2. ring[i] \in Queued /\ ring[j] \in Queued
    BY DEF Queued
  <2>3. ASSUME NEW id \in StackIds, Key(ring[i]) = <<"STACK", id>>, Key(ring[j]) = <<"STACK", id>>
        PROVE  ring[i] = ring[j]
    BY <1>2, <2>1, <2>2, <2>3
  <2>4. ASSUME NEW f \in Fds, Key(ring[i]) = <<"OPEN", f>>, Key(ring[j]) = <<"OPEN", f>>
        PROVE  \E a, b \in StackIds : ring[i] = OPEN(a, f) /\ ring[j] = OPEN(b, f)
    BY <1>2, <2>4
  <2>5. ASSUME NEW f \in Fds, Key(ring[i]) = <<"CLOSE", f>>, Key(ring[j]) = <<"CLOSE", f>>
        PROVE  ring[i] = ring[j]
    BY <1>2, <2>5
  <2>6. \A a, b, f : SameKey(OPEN(a, f), OPEN(b, f))
    BY DEF SameKey, OPEN
  <2>7. \A q : SameKey(q, q)
    BY DEF SameKey
  <2>8. Key(ring[i]) \in Keys
    BY <1>3
  <2>9. \/ \E id \in StackIds : Key(ring[i]) = <<"STACK", id>>
        \/ \E f \in Fds : Key(ring[i]) = <<"OPEN", f>>
        \/ \E f \in Fds : Key(ring[i]) = <<"CLOSE", f>>
    BY <2>8 DEF Keys
  <2>10. QED
    BY <1>4, <2>3, <2>4, <2>5, <2>6, <2>7, <2>9
<1>5. QED
  BY <1>3, <1>4 DEF SafeInv, NoTwice

LEMMA RingSuffices ==
    ASSUME IsFiniteSet(Fds), Cardinality(Configs) + 2 * Cardinality(Fds) < RingSize,
           SafeInv
    PROVE  NeverFull
<1> SUFFICES ASSUME NEW t \in Callers, pc[t] \in Writing PROVE Len(ring) < RingSize
  BY DEF NeverFull
<1>1. SHUTDOWN \notin Queued
  BY DEF SafeInv, Lifecycle, Writing
<1>2. ring \in Seq(Command)
  BY DEF SafeInv, RaceInv, Types
<1>3. Len(ring) \in Nat /\ DOMAIN ring = 1 .. Len(ring)
  BY <1>2
<1> DEFINE key == [i \in 1 .. Len(ring) |-> Key(ring[i])]
<1>4. key \in Injection(1 .. Len(ring), Keys)
  <2>1. \A i \in 1 .. Len(ring) : /\ Key(ring[i]) \in Keys
                                  /\ \A j \in 1 .. Len(ring) : Key(ring[i]) = Key(ring[j]) => i = j
    BY <1>1, <1>3, KeysDiffer, Zenon
  <2>2. key \in [1 .. Len(ring) -> Keys]
    BY <2>1
  <2>3. \A i \in 1 .. Len(ring) : \A j \in 1 .. Len(ring) : key[i] = key[j] => i = j
    BY <2>1
  <2> HIDE DEF key
  <2>4. QED
    BY <2>2, <2>3, Fun_IsInj
<1> HIDE DEF key
<1>5. Cardinality(1 .. Len(ring)) <= Cardinality(Keys)
  BY <1>4, KeysType, FS_Injection
<1>6. Cardinality(1 .. Len(ring)) = Len(ring)
  BY <1>3, FS_Interval
<1>7. QED
  BY <1>3, <1>5, <1>6, KeysType, RingSizeType, StackIdsType, FS_CardinalityType

(* A ring with more room than one command for each stack and two for each  *)
(* descriptor is never full when a command is written: the theorems above  *)
(* hold of it without a further assumption.                                *)
THEOREM RingIsLargeEnough ==
    ASSUME SerialCalls, ~ ReopenDestroyed,
           IsFiniteSet(Fds), Cardinality(Configs) + 2 * Cardinality(Fds) < RingSize
    PROVE  Spec => [](NeverFull /\ NoAbort /\ ListMatchesStacks /\ NothingLeft)
<1>1. SafeInv => NeverFull
  BY RingSuffices
<1>2. SafeInv /\ NeverFull /\ [Next]_vars => SafeInv'
  BY SafeNext
<1>3. Spec => []NeverFull
  BY <1>1, <1>2, SafeInit, PTL DEF Spec
<1>4. QED
  BY <1>3, NoAssertionFails, ListIsServed, DestroyLeavesNothing, PTL
=============================================================================
