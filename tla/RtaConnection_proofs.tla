------------------------ MODULE RtaConnection_proofs ------------------------
(***************************************************************************)
(* Proofs about the life of connections, for every number of stacks,       *)
(* connections, descriptors and messages.                                  *)
(***************************************************************************)
EXTENDS RtaConnection, FiniteSetTheorems, TLAPS

-----------------------------------------------------------------------------
(* The inductive invariant *)

(* A message refers to a connection as long as it exists. *)
Owned == \A m \in Msgs : place[m] = "none" <=> owner[m] = NoConn

(* A connection that was opened has a stack and descriptors. *)
Homed == \A c \in Conns : connState[c] # "none" => stackOf[c] \in Stacks /\ fd[c] \in Fds

(* The descriptors of a connection are open, and its own. *)
OwnFds ==
    \A c \in Conns : Allocated(c) =>
        /\ fd[c] \in open_fds
        /\ \A d \in Conns : Allocated(d) /\ fd[d] = fd[c] => c = d

(* Only a message that failed to decode keeps a connection without a stack. *)
LostOutlives ==
    /\ \A m \in Msgs : place[m] = "lost" => DecodeFails
    /\ \A c \in Conns : Allocated(c) =>
          \/ stack[stackOf[c]] = "up"
          \/ \E m \in Msgs : owner[m] = c /\ place[m] = "lost"

IInv ==
    /\ TypeOK /\ RefsAreHolders /\ QueueCount /\ OpenIsWired /\ ReadsWhenUnblocked
    /\ Owned /\ Homed /\ OwnFds /\ LostOutlives

-----------------------------------------------------------------------------
(* Operators on messages *)

(* What Account is given: each message made was free and refers to an open *)
(* connection, each other message exists, and is destroyed if its          *)
(* connection is closed.                                                   *)
WellFormed(to, made, state) ==
    /\ DOMAIN to \subseteq Msgs /\ DOMAIN made \subseteq DOMAIN to
    /\ \A m \in DOMAIN to : to[m] \in Places /\ (to[m] = "lost" => DecodeFails)
    /\ \A m \in DOMAIN made :
          /\ place[m] = "none" /\ to[m] # "none"
          /\ made[m] \in Conns /\ state[made[m]] \in {"OPEN", "PAUSED"}
    /\ \A m \in DOMAIN to \ DOMAIN made :
          /\ place[m] \notin {"none", "lost"}
          /\ to[m] # "none" => NotClosed(owner[m])

(* Some elements leave a finite set and some enter it. *)
LEMMA CountAfter ==
    ASSUME NEW A, IsFiniteSet(A), NEW T, T \subseteq A,
           NEW P, IsFiniteSet(P), P \cap (A \ T) = {}
    PROVE  /\ Cardinality((A \ T) \cup P) = Cardinality(A) - Cardinality(T) + Cardinality(P)
           /\ Cardinality(A) \in Nat /\ Cardinality(T) \in Nat /\ Cardinality(P) \in Nat
           /\ Cardinality((A \ T) \cup P) \in Nat
<1>1. IsFiniteSet(T) /\ IsFiniteSet(A \ T)
  BY FS_Subset, FS_Difference
<1>2. Cardinality(A \ T) = Cardinality(A) - Cardinality(T)
  <2>1. A \cap T = T
    OBVIOUS
  <2>2. QED
    BY <2>1, FS_Difference
<1>3. /\ IsFiniteSet((A \ T) \cup P)
      /\ Cardinality((A \ T) \cup P) = Cardinality(A \ T) + Cardinality(P) - Cardinality({})
  <2>1. (A \ T) \cap P = {}
    OBVIOUS
  <2>2. QED
    BY <1>1, <2>1, FS_Union
<1>4. /\ Cardinality(A) \in Nat /\ Cardinality(T) \in Nat /\ Cardinality(P) \in Nat
      /\ Cardinality((A \ T) \cup P) \in Nat /\ Cardinality({}) = 0
  BY <1>1, <1>3, FS_CardinalityType, FS_EmptySet
<1>5. QED
  BY <1>2, <1>3, <1>4

(* What Account does with the messages. *)
LEMMA AccountMoves ==
    ASSUME TypeOK, Owned, NEW to, NEW made, NEW refs, NEW state,
           WellFormed(to, made, state), Account(to, made, refs, state)
    PROVE  /\ place' \in [Msgs -> Places] /\ owner' \in [Msgs -> Conns \cup {NoConn}]
           /\ \A m \in Msgs \ DOMAIN to : place'[m] = place[m] /\ owner'[m] = owner[m]
           /\ \A m \in DOMAIN to : place'[m] = to[m]
           /\ \A m \in DOMAIN made : owner'[m] = made[m] /\ owner[m] = NoConn
           /\ \A m \in DOMAIN to \ DOMAIN made :
                 owner[m] \in Conns /\ owner'[m] = IF to[m] = "none" THEN NoConn ELSE owner[m]
           /\ Owned'
<1>1. \A m \in Msgs : place'[m] = IF m \in DOMAIN to THEN to[m] ELSE place[m]
  BY DEF Account
<1>2. \A m \in Msgs :
         owner'[m] = IF m \in DOMAIN to /\ to[m] = "none" THEN NoConn
                     ELSE IF m \in DOMAIN made THEN made[m] ELSE owner[m]
  BY DEF Account
<1>3. /\ DOMAIN place' = Msgs /\ place' = [m \in Msgs |-> place'[m]]
      /\ DOMAIN owner' = Msgs /\ owner' = [m \in Msgs |-> owner'[m]]
  BY DEF Account
<1>4. \A m \in Msgs : /\ place[m] \in Places /\ owner[m] \in Conns \cup {NoConn}
                      /\ place[m] = "none" <=> owner[m] = NoConn
  BY DEF TypeOK, Owned
<1>5. \A m \in Msgs : place'[m] \in Places /\ owner'[m] \in Conns \cup {NoConn}
  BY <1>1, <1>2, <1>4 DEF WellFormed
<1>6. \A m \in Msgs : place'[m] = "none" <=> owner'[m] = NoConn
  BY <1>1, <1>2, <1>4, ConnectionAssumption DEF WellFormed
<1>7. /\ \A m \in Msgs \ DOMAIN to : place'[m] = place[m] /\ owner'[m] = owner[m]
      /\ \A m \in DOMAIN to : place'[m] = to[m]
      /\ \A m \in DOMAIN made : owner'[m] = made[m] /\ owner[m] = NoConn
      /\ \A m \in DOMAIN to \ DOMAIN made :
            owner[m] \in Conns /\ owner'[m] = IF to[m] = "none" THEN NoConn ELSE owner[m]
  BY <1>1, <1>2, <1>4 DEF WellFormed
<1>8. place' \in [Msgs -> Places] /\ owner' \in [Msgs -> Conns \cup {NoConn}]
  BY <1>3, <1>5
<1>9. QED
  BY <1>6, <1>7, <1>8 DEF Owned

(* Both counts follow the messages: the reference count of a connection    *)
(* changes, apart from "refs", by the messages that refer to it, and its   *)
(* queue count is again the number of its messages in queues.              *)
LEMMA AccountCounts ==
    ASSUME TypeOK, Owned, QueueCount, NEW to, NEW made, NEW refs \in [Conns -> Int], NEW state,
           WellFormed(to, made, state), Account(to, made, refs, state),
           NEW c \in Conns
    PROVE  /\ refcount'[c] = refs[c] - Cardinality(Refs(c)) + Cardinality(Refs(c)')
           /\ Cardinality(Refs(c)) \in Nat /\ Cardinality(Refs(c)') \in Nat
           /\ messages_in_queue'[c] = Cardinality(InQueue(c)')
           /\ Cardinality(InQueue(c)') \in Nat
<1> DEFINE own   == [m \in Msgs |-> IF m \in DOMAIN made THEN made[m] ELSE owner[m]]
           taken == {m \in {n \in DOMAIN to : place[n] \in Queues} : own[m] = c}
           put   == {m \in {n \in DOMAIN to : to[n] \in Queues} : own[m] = c}
           gone  == {m \in {n \in DOMAIN to : to[n] = "none"} : own[m] = c}
           new   == {m \in DOMAIN made : own[m] = c}
<1>1. /\ refcount'[c] = refs[c] + Cardinality(new) - Cardinality(gone)
      /\ messages_in_queue'[c] = messages_in_queue[c] + Cardinality(put) - Cardinality(taken)
  BY DEF Account, RefsAfter, QueuedAfter, Of
<1>2. /\ \A m \in Msgs \ DOMAIN to : place'[m] = place[m] /\ owner'[m] = owner[m]
      /\ \A m \in DOMAIN to : place'[m] = to[m]
      /\ \A m \in DOMAIN made : owner'[m] = made[m] /\ owner[m] = NoConn
      /\ \A m \in DOMAIN to \ DOMAIN made :
            owner[m] \in Conns /\ owner'[m] = IF to[m] = "none" THEN NoConn ELSE owner[m]
  BY AccountMoves
<1>3. DOMAIN made \subseteq DOMAIN to /\ DOMAIN to \subseteq Msgs
  BY DEF WellFormed
<1>4. \A m \in Msgs : own[m] = IF m \in DOMAIN made THEN made[m] ELSE owner[m]
  OBVIOUS
<1>5. \A m \in DOMAIN made : place[m] = "none" /\ to[m] # "none"
  BY DEF WellFormed
<1>6. c # NoConn /\ "none" \notin Queues
  BY ConnectionAssumption DEF Queues
<1>7. /\ new \subseteq Msgs /\ taken \subseteq Msgs /\ put \subseteq Msgs
      /\ Refs(c) \subseteq Msgs /\ InQueue(c) \subseteq Msgs
  BY <1>3 DEF Refs, InQueue
<1>8. /\ IsFiniteSet(new) /\ IsFiniteSet(put) /\ IsFiniteSet(Refs(c))
      /\ IsFiniteSet(InQueue(c))
  BY <1>7, FS_Subset, ConnectionAssumption
<1>9. /\ gone \subseteq Refs(c) /\ new \cap (Refs(c) \ gone) = {}
      /\ Refs(c)' = (Refs(c) \ gone) \cup new
  BY <1>2, <1>3, <1>4, <1>5, <1>6 DEF Refs
<1>10. /\ taken \subseteq InQueue(c) /\ put \cap (InQueue(c) \ taken) = {}
       /\ InQueue(c)' = (InQueue(c) \ taken) \cup put
  BY <1>2, <1>3, <1>4, <1>5, <1>6 DEF InQueue
<1> HIDE DEF own, taken, put, gone, new
<1>11. /\ Cardinality(Refs(c)') = Cardinality(Refs(c)) - Cardinality(gone) + Cardinality(new)
       /\ Cardinality(Refs(c)) \in Nat /\ Cardinality(gone) \in Nat /\ Cardinality(new) \in Nat
       /\ Cardinality(Refs(c)') \in Nat
  <2>1. /\ Cardinality((Refs(c) \ gone) \cup new)
              = Cardinality(Refs(c)) - Cardinality(gone) + Cardinality(new)
        /\ Cardinality(Refs(c)) \in Nat /\ Cardinality(gone) \in Nat /\ Cardinality(new) \in Nat
        /\ Cardinality((Refs(c) \ gone) \cup new) \in Nat
    BY <1>8, <1>9, CountAfter
  <2>2. QED
    BY <1>9, <2>1
<1>12. /\ Cardinality(InQueue(c)') = Cardinality(InQueue(c)) - Cardinality(taken) + Cardinality(put)
       /\ Cardinality(InQueue(c)) \in Nat /\ Cardinality(taken) \in Nat /\ Cardinality(put) \in Nat
       /\ Cardinality(InQueue(c)') \in Nat
  BY <1>8, <1>10, CountAfter
<1>13. messages_in_queue[c] = Cardinality(InQueue(c))
  BY DEF QueueCount
<1>14. QED
  BY <1>1, <1>11, <1>12, <1>13

States == {"none", "OPEN", "PAUSED", "CLOSED", "freed"}

(* A connection of which the components keep h references is freed when no *)
(* message refers to it either, and only then.                             *)
LEMMA AccountStates ==
    ASSUME TypeOK, Owned, QueueCount, NEW to, NEW made, NEW refs \in [Conns -> Int],
           NEW state \in [Conns -> States], WellFormed(to, made, state),
           Account(to, made, refs, state),
           NEW c \in Conns, NEW h \in Nat, refs[c] = h + Cardinality(Refs(c)),
           state[c] \in {"none", "freed"} => h = 0 /\ Refs(c) = {}
    PROVE  /\ refcount'[c] = h + Cardinality(Refs(c)') /\ refcount'[c] \in Nat
           /\ connState'[c] \in States /\ (Allocated(c)' <=> refcount'[c] > 0)
           /\ \/ connState'[c] = state[c] 
              \/ connState'[c] = "freed" /\ state[c] \notin {"none", "freed"} /\ h = 0
<1>1. /\ refcount'[c] = refs[c] - Cardinality(Refs(c)) + Cardinality(Refs(c)')
      /\ Cardinality(Refs(c)) \in Nat /\ Cardinality(Refs(c)') \in Nat
  BY AccountCounts
<1>2. refcount'[c] = h + Cardinality(Refs(c)') /\ refcount'[c] \in Nat
  BY <1>1
<1>3. connState'[c] = IF refcount'[c] = 0 /\ state[c] \in {"OPEN", "PAUSED", "CLOSED"}
                      THEN "freed" ELSE state[c]
  BY DEF Account, Freed
<1>4. state[c] \in States
  OBVIOUS
<1>5. CASE state[c] \in {"none", "freed"}
  <2>1. \A m \in Msgs : owner'[m] # c
    <3>1. \A m \in Msgs : owner[m] # c
      BY <1>5 DEF Refs
    <3>2. \A m \in DOMAIN made : made[m] # c
      BY <1>5 DEF WellFormed
    <3>3. DOMAIN to \subseteq Msgs /\ c # NoConn
      BY ConnectionAssumption DEF WellFormed
    <3>4. QED
      BY <3>1, <3>2, <3>3, AccountMoves
  <2>2. Refs(c)' = {}
    BY <2>1 DEF Refs
  <2>3. Cardinality(Refs(c)') = 0
    BY <2>2, FS_EmptySet
  <2>4. refcount'[c] = 0
    BY <1>2, <1>5, <2>3
  <2>5. QED
    BY <1>2, <1>3, <1>5, <2>4 DEF Allocated, States
<1>6. CASE state[c] \in {"OPEN", "PAUSED", "CLOSED"}
  <2>1. connState'[c] = IF refcount'[c] = 0 THEN "freed" ELSE state[c]
    BY <1>3, <1>6
  <2>2. refcount'[c] = 0 => h = 0
    BY <1>1, <1>2
  <2>3. refcount'[c] > 0 <=> refcount'[c] # 0
    BY <1>2
  <2>4. QED
    BY <1>2, <1>6, <2>1, <2>2, <2>3 DEF Allocated, States
<1>7. QED
  BY <1>4, <1>5, <1>6 DEF States

(* Nothing happens to the messages of a connection that is closed and      *)
(* stays so, but that they are destroyed.                                  *)
LEMMA AccountQuiet ==
    ASSUME TypeOK, Owned, NEW to, NEW made, NEW refs, NEW state,
           WellFormed(to, made, state), Account(to, made, refs, state),
           NEW c \in Conns, state[c] \notin {"OPEN", "PAUSED"}, ~ NotClosed(c),
           NEW m \in Msgs, owner'[m] = c
    PROVE  owner[m] = c /\ place'[m] = place[m] /\ m \notin DOMAIN to
<1>1. c # NoConn
  BY ConnectionAssumption
<1>2. m \notin DOMAIN made
  BY AccountMoves DEF WellFormed
<1>3. m \notin DOMAIN to
  <2>1. SUFFICES ASSUME m \in DOMAIN to PROVE FALSE
    OBVIOUS
  <2>2. owner'[m] = IF to[m] = "none" THEN NoConn ELSE owner[m]
    BY <1>2, <2>1, AccountMoves
  <2>3. owner[m] = c /\ to[m] # "none"
    BY <1>1, <2>2
  <2>4. QED
    BY <1>2, <2>1, <2>3 DEF WellFormed
<1>4. QED
  BY <1>3, AccountMoves

-----------------------------------------------------------------------------
(* Steps *)

Holders(c) == Holds(table, c) + Holds(api, c) + Holds(fc, c)

(* Connections are closed, and released when they are closed; none opens.  *)
Closing ==
    /\ fd' = fd
    /\ \A c \in Conns : \/ connState'[c] = connState[c]
                        \/ NotClosed(c) /\ connState'[c] # "none"
                        \/ connState[c] = "CLOSED" /\ connState'[c] = "freed"

(* What ClosedStaysQuiet says of a step. *)
Quiet ==
    \A c \in Conns : connState[c] = "CLOSED" =>
        /\ connState'[c] \in {"CLOSED", "freed"}
        /\ \A m \in Msgs : owner'[m] = c => owner[m] = c /\ place'[m] = place[m]

LEMMA HoldersType ==
    ASSUME NEW c
    PROVE  /\ Holders(c) \in Nat
           /\ Holders(c) = 0 <=> c \notin table /\ c \notin api /\ c \notin fc
BY DEF Holders, Holds

LEMMA RefsFinite ==
    ASSUME NEW c
    PROVE  /\ IsFiniteSet(Refs(c)) /\ Cardinality(Refs(c)) \in Nat
           /\ Cardinality(Refs(c)) = 0 <=> Refs(c) = {}
<1>1. Refs(c) \subseteq Msgs
  BY DEF Refs
<1>2. IsFiniteSet(Refs(c))
  BY <1>1, FS_Subset, ConnectionAssumption
<1>3. QED
  BY <1>2, FS_CardinalityType, FS_EmptySet

(* The reference count of every connection is the number of its holders,   *)
(* and one that is not allocated has none.                                 *)
LEMMA RefsOf ==
    ASSUME RefsAreHolders, NEW c \in Conns
    PROVE  /\ refcount[c] = Holders(c) + Cardinality(Refs(c))
           /\ ~ Allocated(c) => Holders(c) = 0 /\ Refs(c) = {}
<1>1. refcount[c] = Holders(c) + Cardinality(Refs(c)) /\ (Allocated(c) <=> refcount[c] > 0)
  BY DEF RefsAreHolders, Holders
<1>2. ~ Allocated(c) => Holders(c) = 0 /\ Cardinality(Refs(c)) = 0
  BY <1>1, HoldersType, RefsFinite
<1>3. QED
  BY <1>1, <1>2, RefsFinite

(* The descriptors of connections that are released are closed, and only   *)
(* those.                                                                  *)
LEMMA ReleasedFds ==
    ASSUME OwnFds, fd' = fd, open_fds' = open_fds \ Released,
           \A c \in Conns : /\ Allocated(c)' => Allocated(c)
                            /\ connState'[c] = "freed" => Allocated(c) \/ connState[c] = "freed"
    PROVE  OwnFds'
<1>1. SUFFICES ASSUME NEW c \in Conns, Allocated(c)'
               PROVE  /\ fd[c] \in open_fds'
                      /\ \A d \in Conns : Allocated(d)' /\ fd[d] = fd[c] => c = d
  BY DEF OwnFds
<1>2. /\ fd[c] \in open_fds
      /\ \A d \in Conns : Allocated(d) /\ fd[d] = fd[c] => c = d
  BY <1>1 DEF OwnFds, Allocated
<1>3. connState'[c] # "freed"
  BY <1>1 DEF Allocated
<1>4. ASSUME NEW d \in Conns, connState'[d] = "freed" /\ connState[d] # "freed", fd[d] = fd[c]
      PROVE  FALSE
  BY <1>1, <1>2, <1>3, <1>4 DEF Allocated
<1>5. QED
  BY <1>1, <1>2, <1>4 DEF Released, Allocated

(* What Account leaves true of a connection whose state does not become    *)
(* open: the parts of the invariant that are about it.                     *)
Kept(c, state) ==
    /\ refcount'[c] = Holders(c)' + Cardinality(Refs(c)')
    /\ refcount'[c] \in Nat /\ messages_in_queue'[c] \in Nat
    /\ messages_in_queue'[c] = Cardinality(InQueue(c)')
    /\ Allocated(c)' <=> refcount'[c] > 0
    /\ connState'[c] \in States
    /\ connState'[c] = state[c] \/ (connState'[c] = "freed" /\ state[c] = "CLOSED")

(* A callback that moves messages, and blocks or pauses connections, keeps *)
(* the invariant.                                                          *)
LEMMA TrafficKeeps ==
    ASSUME IInv, NEW to, NEW made, NEW state \in [Conns -> States],
           WellFormed(to, made, state), Traffic(to, made, state),
           \A c \in Conns : \/ state[c] = connState[c]
                            \/ connState[c] = "OPEN" /\ state[c] = "PAUSED",
           blocked_down' \in [Conns -> BOOLEAN],
           reading' = {c \in api : state[c] = "OPEN" /\ ~ blocked_down'[c]}
    PROVE  IInv' /\ Closing /\ Quiet
<1> USE DEF IInv
<1>1. /\ Account(to, made, refcount, state)
      /\ open_fds' = open_fds \ Released
      /\ UNCHANGED <<stack, running, stackOf, fd, table, api, fc>>
  BY DEF Traffic, wiring
<1>2. /\ refcount \in [Conns -> Int] /\ stackOf \in [Conns -> Stacks \cup {NoStack}]
      /\ connState \in [Conns -> States]
  BY DEF TypeOK, States
<1>3. \A c \in Conns : NotClosed(c) <=> state[c] \in {"OPEN", "PAUSED"}
  BY DEF NotClosed
<1>4. \A c \in Conns : state[c] \notin {"OPEN", "PAUSED"} => state[c] = connState[c]
  OBVIOUS
<1>5. ASSUME NEW c \in Conns
      PROVE  Kept(c, state)
  <2>1. Holders(c)' = Holders(c) /\ Holders(c) \in Nat
    BY <1>1, HoldersType DEF Holders, Holds
  <2>2. refcount[c] = Holders(c) + Cardinality(Refs(c))
    BY RefsOf
  <2>3. state[c] \in {"none", "freed"} => Holders(c) = 0 /\ Refs(c) = {}
    BY <1>4, RefsOf DEF Allocated
  <2>4. state[c] \in {"OPEN", "PAUSED"} => Holders(c) # 0
    BY <1>3, HoldersType DEF OpenIsWired
  <2>5. /\ refcount'[c] = Holders(c) + Cardinality(Refs(c)') /\ refcount'[c] \in Nat
        /\ connState'[c] \in States /\ (Allocated(c)' <=> refcount'[c] > 0)
        /\ \/ connState'[c] = state[c] 
           \/ connState'[c] = "freed" /\ state[c] \notin {"none", "freed"} /\ Holders(c) = 0
    BY <1>1, <1>2, <2>1, <2>2, <2>3, AccountStates
  <2>6. /\ messages_in_queue'[c] = Cardinality(InQueue(c)')
        /\ Cardinality(InQueue(c)') \in Nat
    BY <1>1, <1>2, AccountCounts
  <2>7. state[c] \in States
    OBVIOUS
  <2>8. connState'[c] = state[c] \/ (connState'[c] = "freed" /\ state[c] = "CLOSED")
    BY <2>4, <2>5, <2>7 DEF States
  <2>9. refcount'[c] = Holders(c)' + Cardinality(Refs(c)')
    BY <2>1, <2>5
  <2>10. QED
    BY <2>5, <2>6, <2>8, <2>9 DEF Kept
<1>6. Closing
  BY <1>1, <1>4, <1>5 DEF Closing, Kept, NotClosed
<1>7. Quiet
  <2>1. SUFFICES ASSUME NEW c \in Conns, connState[c] = "CLOSED"
                 PROVE  /\ connState'[c] \in {"CLOSED", "freed"}
                        /\ \A m \in Msgs : owner'[m] = c => owner[m] = c /\ place'[m] = place[m]
    BY DEF Quiet
  <2>2. state[c] = "CLOSED" /\ ~ NotClosed(c)
    BY <2>1 DEF NotClosed
  <2>3. \A m \in Msgs : owner'[m] = c => owner[m] = c /\ place'[m] = place[m]
    BY <1>1, <2>2, AccountQuiet
  <2>4. QED
    BY <1>5, <2>2, <2>3 DEF Kept
<1>8. place' \in [Msgs -> Places] /\ owner' \in [Msgs -> Conns \cup {NoConn}] /\ Owned'
  BY <1>1, AccountMoves
<1>9. TypeOK'
  <2>1. connState' \in [Conns -> States]
    BY <1>1, <1>5 DEF Kept, Account, Freed
  <2>2. refcount' \in [Conns -> Nat] /\ messages_in_queue' \in [Conns -> Nat]
    BY <1>1, <1>5 DEF Kept, Account, RefsAfter, QueuedAfter
  <2>3. open_fds' \subseteq Fds /\ reading' \subseteq Conns
    BY <1>1 DEF TypeOK
  <2>4. QED
    BY <1>1, <1>8, <2>1, <2>2, <2>3 DEF TypeOK, States
<1>10. RefsAreHolders' /\ QueueCount'
  BY <1>5 DEF Kept, RefsAreHolders, QueueCount, Holders
<1>11. OpenIsWired'
  <2>1. SUFFICES ASSUME NEW c \in Conns
                 PROVE /\ NotClosed(c)' => /\ c \in table /\ c \in api /\ c \in fc
                                           /\ stack[stackOf[c]] = "up"
                       /\ ~ NotClosed(c)' =>
                             /\ c \notin table /\ c \notin api /\ c \notin fc
                             /\ \A m \in Msgs : owner'[m] = c => place'[m] \notin {"window", "deque"}
    BY <1>1 DEF OpenIsWired
  <2>2. NotClosed(c)' <=> NotClosed(c)
    BY <1>3, <1>5 DEF Kept, NotClosed
  <2>3. ASSUME ~ NotClosed(c), NEW m \in Msgs, owner'[m] = c
        PROVE  place'[m] \notin {"window", "deque"}
    <3>1. owner[m] = c /\ place'[m] = place[m]
      BY <1>1, <1>3, <2>3, AccountQuiet
    <3>2. QED
      BY <2>3, <3>1 DEF OpenIsWired
  <2>4. QED
    BY <2>2, <2>3 DEF OpenIsWired
<1>12. ReadsWhenUnblocked'
  <2>1. \A c \in Conns : connState'[c] = "OPEN" <=> state[c] = "OPEN"
    BY <1>5 DEF Kept
  <2>2. api \subseteq Conns
    BY DEF TypeOK
  <2>3. QED
    BY <1>1, <2>1, <2>2 DEF ReadsWhenUnblocked, BlockedDown
<1>13. Homed'
  BY <1>1, <1>6 DEF Homed, Closing, NotClosed
<1>14. OwnFds'
  <2>1. \A c \in Conns : /\ Allocated(c)' => Allocated(c)
                         /\ connState'[c] = "freed" => Allocated(c) \/ connState[c] = "freed"
    BY <1>6 DEF Closing, Allocated, NotClosed
  <2>2. QED
    BY <1>1, <2>1, ReleasedFds
<1>15. LostOutlives'
  <2>1. \A m \in Msgs : place[m] = "lost" => place'[m] = "lost" /\ owner'[m] = owner[m]
    BY <1>1, AccountMoves DEF WellFormed
  <2>2. \A m \in Msgs : place'[m] = "lost" => DecodeFails
    BY <1>1, AccountMoves DEF WellFormed, LostOutlives
  <2>3. \A c \in Conns : Allocated(c)' => Allocated(c)
    BY <1>6 DEF Closing, Allocated, NotClosed
  <2>4. QED
    BY <1>1, <2>1, <2>2, <2>3 DEF LostOutlives
<1>16. QED
  BY <1>6, <1>7, <1>8, <1>9, <1>10, <1>11, <1>12, <1>13, <1>14, <1>15

(* The same when no state changes ...                                      *)
LEMMA CallbackKeeps ==
    ASSUME IInv, NEW to, NEW made, WellFormed(to, made, connState),
           Traffic(to, made, connState), UNCHANGED <<blocked_down, reading>>
    PROVE  IInv' /\ Closing /\ Quiet
<1>1. connState \in [Conns -> States] /\ blocked_down' \in [Conns -> BOOLEAN]
  BY DEF IInv, TypeOK, States
<1>2. reading' = {c \in api : connState[c] = "OPEN" /\ ~ blocked_down'[c]}
  BY DEF IInv, ReadsWhenUnblocked, BlockedDown
<1>3. QED
  BY <1>1, <1>2, TrafficKeeps

(* ... and when the connections C are paused, blocked or unblocked.        *)
LEMMA StateChangeKeeps ==
    ASSUME IInv, NEW to, NEW made, NEW state \in [Conns -> States],
           WellFormed(to, made, state), Traffic(to, made, state),
           NEW C \in SUBSET Conns, \A c \in C : NotClosed(c),
           \A c \in C : \/ state[c] = connState[c]
                        \/ connState[c] = "OPEN" /\ state[c] = "PAUSED",
           \A c \in Conns \ C : state[c] = connState[c] /\ blocked_down'[c] = blocked_down[c],
           blocked_down' \in [Conns -> BOOLEAN],
           StateChange(C, state, blocked_down')
    PROVE  IInv' /\ Closing /\ Quiet
<1>1. \A c \in Conns : \/ state[c] = connState[c]
                       \/ connState[c] = "OPEN" /\ state[c] = "PAUSED"
  OBVIOUS
<1>2. reading = {c \in api : connState[c] = "OPEN" /\ ~ blocked_down[c]}
  BY DEF IInv, ReadsWhenUnblocked, BlockedDown
<1>3. C \subseteq api /\ api \subseteq Conns
  BY DEF IInv, OpenIsWired, TypeOK
<1>4. reading' = (reading \ C) \cup {c \in C : state[c] = "OPEN" /\ ~ blocked_down'[c]}
  BY DEF StateChange
<1>5. reading' = {c \in api : state[c] = "OPEN" /\ ~ blocked_down'[c]}
  BY <1>2, <1>3, <1>4
<1>6. QED
  BY <1>1, <1>5, TrafficKeeps

LEMMA QueuedMessages ==
    ASSUME NEW s, NEW q \in Queues, NEW m \in Queue(s, q)
    PROVE  m \in Msgs /\ place[m] \notin {"none", "lost", "window", "deque"}
BY DEF Queue, Queues

LEMMA OwnersAreOpen ==
    ASSUME NEW got
    PROVE  OwnersOf(got) \subseteq Conns /\ \A c \in OwnersOf(got) : NotClosed(c)
BY DEF OwnersOf

(* A batch read from a queue and passed on, or destroyed, as a whole.      *)
LEMMA FatesWellFormed ==
    ASSUME NEW got \in SUBSET Msgs, \A m \in got : place[m] \notin {"none", "lost"},
           NEW P, P \subseteq Places, "lost" \in P => DecodeFails, NEW fate \in Fates(got, P)
    PROVE  WellFormed(fate, NoneMade, connState)
<1>1. /\ DOMAIN fate = got /\ \A m \in got : fate[m] \in P \cup {"none"}
      /\ \A m \in got : ~ NotClosed(owner[m]) => fate[m] = "none"
  BY DEF Fates
<1>2. DOMAIN NoneMade = {} /\ "none" \in Places /\ "none" # "lost"
  BY DEF NoneMade, Places
<1>3. QED
  BY <1>1, <1>2 DEF WellFormed

(* Flow control: its batch goes to the places P or is destroyed, it sends  *)
(* messages of its own, and the messages it holds go up or are destroyed.  *)
LEMMA FlowControlKeeps ==
    ASSUME IInv, NEW got \in SUBSET Msgs, \A m \in got : place[m] \in Queues,
           NEW P, P \subseteq Places \ {"lost"},
           NEW C \in SUBSET Conns, \A c \in C : NotClosed(c),
           NEW O, O \subseteq {"fcUp", "none"}, FlowControl(got, P, C, O)
    PROVE  IInv' /\ Closing /\ Quiet
<1>1. PICK fate \in Fates(got, P), new \in SUBSET Fresh, done \in SUBSET HeldFor(C, {"window"}) :
         \E made \in [new -> C], sent \in [new -> {"fcDown", "fcUp"}], out \in [done -> O] :
            /\ \A m \in new : sent[m] = "fcDown" => ~ BlockedDown(made[m])
            /\ \A m \in done : out[m] = "fcUp" => ~ BlockedUp(owner[m])
            /\ Traffic([m \in got \cup new \cup done |->
                           IF m \in got THEN fate[m]
                           ELSE IF m \in new THEN sent[m] ELSE out[m]],
                       made, connState)
            /\ UNCHANGED <<blocked_down, reading>>
  BY DEF FlowControl
<1>2. PICK made \in [new -> C], sent \in [new -> {"fcDown", "fcUp"}], out \in [done -> O] :
            /\ Traffic([m \in got \cup new \cup done |->
                           IF m \in got THEN fate[m]
                           ELSE IF m \in new THEN sent[m] ELSE out[m]],
                       made, connState)
            /\ UNCHANGED <<blocked_down, reading>>
  BY <1>1
<1> DEFINE to == [m \in got \cup new \cup done |->
                     IF m \in got THEN fate[m]
                     ELSE IF m \in new THEN sent[m] ELSE out[m]]
<1>3. /\ \A m \in got : /\ m \in Msgs /\ place[m] \notin {"none", "lost"}
                        /\ fate[m] \in Places \ {"lost"}
                        /\ ~ NotClosed(owner[m]) => fate[m] = "none"
      /\ \A m \in new : m \in Msgs /\ place[m] = "none"
      /\ \A m \in done : m \in Msgs /\ place[m] = "window" /\ NotClosed(owner[m])
  BY DEF Fates, Places, Queues, Fresh, HeldFor
<1>4. \A m \in new : /\ m \notin got
                     /\ sent[m] \in Places \ {"none", "lost"}
                     /\ made[m] \in Conns /\ connState[made[m]] \in {"OPEN", "PAUSED"}
  BY <1>3 DEF Places, Queues, NotClosed
<1>5. \A m \in done : m \notin new /\ out[m] \in Places \ {"lost"}
  BY <1>3 DEF Places, Queues
<1>6. /\ DOMAIN to = got \cup new \cup done /\ DOMAIN made = new
      /\ \A m \in got : to[m] = fate[m]
      /\ \A m \in new : to[m] = sent[m]
      /\ \A m \in done \ got : to[m] = out[m]
  BY <1>4, <1>5
<1> HIDE DEF to
<1>7. WellFormed(to, made, connState)
  BY <1>3, <1>4, <1>5, <1>6 DEF WellFormed
<1>8. Traffic(to, made, connState) /\ UNCHANGED <<blocked_down, reading>>
  BY <1>2 DEF to
<1>9. QED
  BY <1>7, <1>8, CallbackKeeps

-----------------------------------------------------------------------------
(* One lemma per action *)

LEMMA ApiDowncallReadKeeps ==
    ASSUME IInv, NEW c \in Conns, ApiDowncallRead(c)
    PROVE  IInv' /\ Closing /\ Quiet
<1>1. PICK new \in SUBSET Fresh \ {{}}, pause \in BOOLEAN :
        \E state \in {IF pause /\ connState[c] = "OPEN"
                      THEN [connState EXCEPT ![c] = "PAUSED"] ELSE connState} :
            /\ Traffic([m \in new |-> "apiDown"], [m \in new |-> c], state)
            /\ StateChange({c}, state, blocked_down)
  BY DEF ApiDowncallRead
<1> DEFINE state == IF pause /\ connState[c] = "OPEN"
                    THEN [connState EXCEPT ![c] = "PAUSED"] ELSE connState
           to   == [m \in new |-> "apiDown"]
           made == [m \in new |-> c]
<1>2. Traffic(to, made, state) /\ StateChange({c}, state, blocked_down)
  BY <1>1
<1>3. blocked_down' = blocked_down /\ blocked_down' \in [Conns -> BOOLEAN]
  BY DEF ApiDowncallRead, IInv, TypeOK
<1>4. c \in api /\ NotClosed(c)
  BY DEF ApiDowncallRead, IInv, OpenIsWired
<1>5. connState \in [Conns -> States]
  BY DEF IInv, TypeOK, States
<1>6. /\ state \in [Conns -> States]
      /\ state[c] = connState[c] \/ (connState[c] = "OPEN" /\ state[c] = "PAUSED")
      /\ \A d \in Conns \ {c} : state[d] = connState[d]
  BY <1>5 DEF States
<1>7. state[c] \in {"OPEN", "PAUSED"}
  BY <1>4, <1>6 DEF NotClosed
<1>8. WellFormed(to, made, state)
  BY <1>7 DEF WellFormed, Fresh, Places, Queues
<1> HIDE DEF state, to, made
<1>9. QED
  BY <1>2, <1>3, <1>4, <1>6, <1>8, StateChangeKeeps

LEMMA ApiUpcallReadKeeps ==
    ASSUME IInv, NEW s \in Stacks, ApiUpcallRead(s)
    PROVE  IInv' /\ Closing /\ Quiet
<1> DEFINE to == [m \in Queue(s, "fcUp") |-> "none"]
<1>1. Traffic(to, NoneMade, connState) /\ UNCHANGED <<blocked_down, reading>>
  BY DEF ApiUpcallRead
<1>2. \A m \in Queue(s, "fcUp") : m \in Msgs /\ place[m] \notin {"none", "lost"}
  BY QueuedMessages DEF Queues
<1>3. WellFormed(to, NoneMade, connState)
  BY <1>2 DEF WellFormed, NoneMade, Places
<1> HIDE DEF to
<1>4. QED
  BY <1>1, <1>3, CallbackKeeps

LEMMA FcDowncallReadKeeps ==
    ASSUME IInv, NEW s \in Stacks, FcDowncallRead(s)
    PROVE  IInv' /\ Closing /\ Quiet
<1> DEFINE got == Queue(s, "apiDown")
<1>1. FlowControl(got, {"fcDown", "none"}, OwnersOf(got), {"none"})
  BY DEF FcDowncallRead
<1>2. got \in SUBSET Msgs /\ \A m \in got : place[m] \in Queues
  BY DEF Queue, Queues
<1>3. {"fcDown", "none"} \subseteq Places \ {"lost"}
  BY DEF Places, Queues
<1> HIDE DEF got
<1>4. QED
  BY <1>1, <1>2, <1>3, OwnersAreOpen, FlowControlKeeps

LEMMA FcUpcallReadKeeps ==
    ASSUME IInv, NEW s \in Stacks, FcUpcallRead(s)
    PROVE  IInv' /\ Closing /\ Quiet
<1> DEFINE got == Queue(s, "codecUp")
<1>1. FlowControl(got, {"fcUp", "window", "none"}, OwnersOf(got), {"fcUp", "none"})
  BY DEF FcUpcallRead
<1>2. got \in SUBSET Msgs /\ \A m \in got : place[m] \in Queues
  BY DEF Queue, Queues
<1>3. {"fcUp", "window", "none"} \subseteq Places \ {"lost"}
  BY DEF Places, Queues
<1> HIDE DEF got
<1>4. QED
  BY <1>1, <1>2, <1>3, OwnersAreOpen, FlowControlKeeps

LEMMA FcTimerKeeps ==
    ASSUME IInv, NEW c \in Conns, FcTimer(c)
    PROVE  IInv' /\ Closing /\ Quiet
<1>1. FlowControl({}, {}, {c}, {}) /\ NotClosed(c)
  BY DEF FcTimer, IInv, OpenIsWired
<1>2. QED
  BY <1>1, FlowControlKeeps

LEMMA CodecDowncallReadKeeps ==
    ASSUME IInv, NEW s \in Stacks, CodecDowncallRead(s)
    PROVE  IInv' /\ Closing /\ Quiet
<1> DEFINE got == Queue(s, "fcDown")
<1>1. PICK fate \in Fates(got, {"codecDown"}) : Traffic(fate, NoneMade, connState)
  BY DEF CodecDowncallRead
<1>2. UNCHANGED <<blocked_down, reading>>
  BY DEF CodecDowncallRead
<1>3. got \in SUBSET Msgs /\ \A m \in got : place[m] \notin {"none", "lost"}
  BY DEF Queue
<1>4. {"codecDown"} \subseteq Places /\ "lost" \notin {"codecDown"}
  BY DEF Places, Queues
<1> HIDE DEF got
<1>5. WellFormed(fate, NoneMade, connState)
  BY <1>3, <1>4, FatesWellFormed
<1>6. QED
  BY <1>1, <1>2, <1>5, CallbackKeeps

LEMMA CodecUpcallReadKeeps ==
    ASSUME IInv, NEW s \in Stacks, CodecUpcallRead(s)
    PROVE  IInv' /\ Closing /\ Quiet
<1> DEFINE got == Queue(s, "fwdUp")
           P   == IF DecodeFails THEN {"codecUp", "lost"} ELSE {"codecUp"}
<1>1. PICK fate \in Fates(got, P) : Traffic(fate, NoneMade, connState)
  BY DEF CodecUpcallRead
<1>2. UNCHANGED <<blocked_down, reading>>
  BY DEF CodecUpcallRead
<1>3. got \in SUBSET Msgs /\ \A m \in got : place[m] \notin {"none", "lost"}
  BY DEF Queue
<1>4. P \subseteq Places /\ ("lost" \in P => DecodeFails)
  BY DEF Places, Queues
<1> HIDE DEF got, P
<1>5. WellFormed(fate, NoneMade, connState)
  BY <1>3, <1>4, FatesWellFormed
<1>6. QED
  BY <1>1, <1>2, <1>5, CallbackKeeps

LEMMA FwdDowncallReadKeeps ==
    ASSUME IInv, NEW s \in Stacks, FwdDowncallRead(s)
    PROVE  IInv' /\ Closing /\ Quiet
<1> DEFINE got == Queue(s, "codecDown")
           C   == OwnersOf(got)
<1>1. PICK new \in SUBSET Fresh, blocked \in BlockedAfter(C) :
          \E made \in [new -> C] :
             /\ Traffic([m \in got \cup new |-> IF m \in got THEN "none" ELSE "fwdUp"],
                        made, connState)
             /\ blocked_down' = blocked
             /\ StateChange(C, connState, blocked)
  BY DEF FwdDowncallRead
<1>2. PICK made \in [new -> C] :
         Traffic([m \in got \cup new |-> IF m \in got THEN "none" ELSE "fwdUp"],
                 made, connState)
  BY <1>1
<1> DEFINE to == [m \in got \cup new |-> IF m \in got THEN "none" ELSE "fwdUp"]
<1>3. \A m \in got : m \in Msgs /\ place[m] \notin {"none", "lost"}
  BY QueuedMessages DEF Queues
<1>4. C \in SUBSET Conns /\ \A c \in C : NotClosed(c)
  BY OwnersAreOpen
<1>5. connState \in [Conns -> States] /\ blocked_down \in [Conns -> BOOLEAN]
  BY DEF IInv, TypeOK, States
<1> HIDE DEF got, C
<1>6. \A m \in new : m \in Msgs /\ place[m] = "none" /\ m \notin got
  BY <1>3 DEF Fresh
<1>7. /\ blocked \in [Conns -> BOOLEAN]
      /\ \A c \in Conns \ C : blocked[c] = blocked_down[c]
  <2>1. PICK B : blocked = [c \in Conns |-> IF c \in C THEN c \in B ELSE blocked_down[c]]
    BY DEF BlockedAfter
  <2>2. \A c \in Conns : (IF c \in C THEN c \in B ELSE blocked_down[c]) \in BOOLEAN
    <3>1. SUFFICES ASSUME NEW c \in Conns
                   PROVE  (IF c \in C THEN c \in B ELSE blocked_down[c]) \in BOOLEAN
      OBVIOUS
    <3>2. (c \in B) \in BOOLEAN /\ blocked_down[c] \in BOOLEAN
      BY <1>5
    <3>3. QED
      BY <3>2, Zenon
  <2>3. \A c \in Conns : blocked[c] = IF c \in C THEN c \in B ELSE blocked_down[c]
    BY <2>1, Zenon
  <2>4. blocked \in [Conns -> BOOLEAN]
    BY <2>1, <2>2, Zenon
  <2>5. QED
    BY <2>3, <2>4
<1>8. WellFormed(to, made, connState)
  BY <1>3, <1>4, <1>6 DEF WellFormed, NotClosed, Places, Queues
<1>9. Traffic(to, made, connState)
  BY <1>2
<1> HIDE DEF to
<1>10. QED
  BY <1>1, <1>4, <1>5, <1>7, <1>8, <1>9, StateChangeKeeps

LEMMA FwdReceiveKeeps ==
    ASSUME IInv, NEW c \in Conns, FwdReceive(c)
    PROVE  IInv' /\ Closing /\ Quiet
<1>1. PICK new \in SUBSET Fresh \ {{}} : \E to \in [new -> {"fwdUp", "deque"}] :
          Traffic(to, [m \in new |-> c], connState)
  BY DEF FwdReceive
<1>2. PICK to \in [new -> {"fwdUp", "deque"}] : Traffic(to, [m \in new |-> c], connState)
  BY <1>1
<1>3. UNCHANGED <<blocked_down, reading>> /\ connState[c] = "OPEN"
  BY DEF FwdReceive
<1>4. WellFormed(to, [m \in new |-> c], connState)
  BY <1>3 DEF WellFormed, Fresh, Places, Queues
<1>5. QED
  BY <1>2, <1>3, <1>4, CallbackKeeps

LEMMA FwdEventKeeps ==
    ASSUME IInv, NEW c \in Conns, NEW failed \in BOOLEAN, FwdEvent(c, failed)
    PROVE  IInv' /\ Closing /\ Quiet
<1>1. PICK m \in Fresh : Traffic([n \in {m} |-> "fwdUp"], [n \in {m} |-> c], connState)
  BY DEF FwdEvent
<1>2. /\ NotClosed(c) /\ blocked_down' = [blocked_down EXCEPT ![c] = @ \/ failed]
      /\ StateChange({c}, connState, blocked_down')
  BY DEF FwdEvent
<1>3. connState \in [Conns -> States] /\ blocked_down \in [Conns -> BOOLEAN]
  BY DEF IInv, TypeOK, States
<1>4. /\ blocked_down' \in [Conns -> BOOLEAN]
      /\ \A d \in Conns \ {c} : blocked_down'[d] = blocked_down[d]
  BY <1>2, <1>3
<1>5. WellFormed([n \in {m} |-> "fwdUp"], [n \in {m} |-> c], connState)
  BY <1>2 DEF WellFormed, Fresh, NotClosed, Places, Queues
<1> DEFINE to   == [n \in {m} |-> "fwdUp"]
           made == [n \in {m} |-> c]
<1>6. Traffic(to, made, connState) /\ WellFormed(to, made, connState)
  BY <1>1, <1>5
<1>7. {c} \in SUBSET Conns /\ \A d \in {c} : NotClosed(d)
  BY <1>2
<1> HIDE DEF to, made
<1>8. QED
  BY <1>2, <1>3, <1>4, <1>6, <1>7, StateChangeKeeps

LEMMA FwdDequeueKeeps ==
    ASSUME IInv, NEW c \in Conns, FwdDequeue(c)
    PROVE  IInv' /\ Closing /\ Quiet
<1>1. PICK moved \in SUBSET HeldFor({c}, {"deque"}) :
         Traffic([m \in moved |-> "fwdUp"], NoneMade, connState)
  BY DEF FwdDequeue
<1>2. UNCHANGED <<blocked_down, reading>>
  BY DEF FwdDequeue
<1>3. \A m \in moved : m \in Msgs /\ place[m] = "deque" /\ NotClosed(owner[m])
  BY DEF HeldFor, IInv, OpenIsWired
<1>4. WellFormed([m \in moved |-> "fwdUp"], NoneMade, connState)
  BY <1>3 DEF WellFormed, NoneMade, Places, Queues
<1>5. QED
  BY <1>1, <1>2, <1>4, CallbackKeeps

LEMMA CreateStackKeeps ==
    ASSUME IInv, NEW s \in Stacks, CreateStack(s)
    PROVE  IInv' /\ Closing /\ Quiet
<1>1. /\ stack[s] = "none" /\ stack' = [stack EXCEPT ![s] = "up"]
      /\ UNCHANGED <<running, connState, stackOf, fd, refcount, messages_in_queue, blocked_down,
                     table, api, fc, reading, place, owner, open_fds>>
  BY DEF CreateStack, counts, wiring
<1>2. TypeOK'
  BY <1>1 DEF IInv, TypeOK
<1>3. \A c \in Conns : stack[stackOf[c]] = "up" => stack'[stackOf[c]] = "up"
  BY <1>1 DEF IInv, TypeOK
<1>4. RefsAreHolders' /\ QueueCount' /\ Owned' /\ Homed' /\ OwnFds'
  BY <1>1, SMTT(30) DEF IInv, RefsAreHolders, QueueCount, Owned, Homed, OwnFds, Allocated, Refs, InQueue, Holds
<1>5. OpenIsWired' /\ ReadsWhenUnblocked'
  BY <1>1, <1>3 DEF IInv, OpenIsWired, ReadsWhenUnblocked, NotClosed, BlockedDown
<1>6. LostOutlives'
  BY <1>1, <1>3 DEF IInv, LostOutlives, Allocated
<1>7. Closing /\ Quiet
  BY <1>1 DEF Closing, Quiet
<1>8. QED
  BY <1>2, <1>4, <1>5, <1>6, <1>7 DEF IInv

(* What opening a connection does to the states and descriptors. *)
Opening(c, f) ==
    /\ connState[c] = "none" /\ f \notin open_fds
    /\ connState' = [connState EXCEPT ![c] = "OPEN"]
    /\ fd' = [fd EXCEPT ![c] = f]

LEMMA OpenConnectionKeeps ==
    ASSUME IInv, NEW c \in Conns, NEW s \in Stacks, NEW f \in Fds, OpenConnection(c, s, f)
    PROVE  IInv' /\ Opening(c, f) /\ Quiet
<1> USE DEF IInv
<1> DEFINE state == [connState EXCEPT ![c] = "OPEN"]
           refs  == [refcount EXCEPT ![c] = 3]
<1>1. PICK status \in SUBSET Fresh :
        /\ Account([m \in status |-> "fwdUp"], [m \in status |-> c], refs, state)
        /\ StateChange({c}, state, blocked_down)
  BY DEF OpenConnection
<1> DEFINE to   == [m \in status |-> "fwdUp"]
           made == [m \in status |-> c]
<1>2. /\ Account(to, made, refs, state) /\ StateChange({c}, state, blocked_down)
      /\ DOMAIN to = status /\ DOMAIN made = status
      /\ \A m \in status : m \in Msgs /\ made[m] = c /\ to[m] = "fwdUp"
  BY <1>1 DEF Fresh
<1>3. /\ stack[s] = "up" /\ connState[c] = "none" /\ f \notin open_fds
      /\ open_fds' = open_fds \cup {f} /\ table' = table \cup {c}
      /\ api' = api \cup {c} /\ fc' = fc \cup {c}
      /\ stackOf' = [stackOf EXCEPT ![c] = s] /\ fd' = [fd EXCEPT ![c] = f]
      /\ UNCHANGED <<stack, running, blocked_down>>
  BY DEF OpenConnection, Created, StackOpened
<1>4. /\ connState \in [Conns -> States] /\ refcount \in [Conns -> Nat]
      /\ stackOf \in [Conns -> Stacks \cup {NoStack}] /\ fd \in [Conns -> Fds \cup {NoFd}]
      /\ table \subseteq Conns /\ api \subseteq Conns /\ fc \subseteq Conns
  BY DEF TypeOK, States
<1>5. /\ state \in [Conns -> States] /\ refs \in [Conns -> Int]
      /\ state[c] = "OPEN" /\ refs[c] = 3
      /\ \A d \in Conns \ {c} : state[d] = connState[d] /\ refs[d] = refcount[d]
  BY <1>4 DEF States
<1>6. WellFormed(to, made, state)
  BY <1>5 DEF WellFormed, Fresh, Places, Queues
<1> HIDE DEF state, refs, to, made
<1>7. Refs(c) = {} /\ Holders(c) = 0 /\ ~ NotClosed(c)
  BY <1>3, RefsOf DEF Allocated, NotClosed
<1>8. Holders(c)' = 3 /\ \A d \in Conns \ {c} : Holders(d)' = Holders(d)
  BY <1>3 DEF Holders, Holds
<1>9. \A m \in Msgs : /\ place[m] = "lost" => place'[m] = "lost" /\ owner'[m] = owner[m]
                      /\ place'[m] = "lost" => place[m] = "lost"
                      /\ owner'[m] # c => owner'[m] = owner[m]
                      /\ owner'[m] # c => place'[m] = place[m]
                      /\ owner[m] \in Conns => owner'[m] = owner[m]
  <2>1. /\ \A m \in Msgs \ status : place'[m] = place[m] /\ owner'[m] = owner[m]
        /\ \A m \in status : place'[m] = "fwdUp" /\ owner'[m] = c /\ owner[m] = NoConn
    BY <1>2, <1>6, AccountMoves
  <2>2. \A m \in status : place[m] = "none"
    BY DEF Fresh
  <2>3. QED
    BY <2>1, <2>2, ConnectionAssumption
<1>10. \A d \in Conns : messages_in_queue'[d] = Cardinality(InQueue(d)') /\ messages_in_queue'[d] \in Nat
  BY <1>2, <1>5, <1>6, AccountCounts
<1>11. /\ refcount'[c] = Holders(c)' + Cardinality(Refs(c)') /\ refcount'[c] \in Nat
       /\ Allocated(c)' <=> refcount'[c] > 0
       /\ connState'[c] = "OPEN"
  <2>1. refs[c] = 3 + Cardinality(Refs(c))
    BY <1>5, <1>7, FS_EmptySet
  <2>2. /\ refcount'[c] = 3 + Cardinality(Refs(c)') /\ refcount'[c] \in Nat
        /\ Allocated(c)' <=> refcount'[c] > 0
        /\ connState'[c] = state[c]
    BY <1>2, <1>5, <1>6, <2>1, AccountStates
  <2>3. QED
    BY <1>5, <1>8, <2>2
<1>12. ASSUME NEW d \in Conns, d # c
       PROVE  /\ refcount'[d] = Holders(d)' + Cardinality(Refs(d)') /\ refcount'[d] \in Nat
              /\ Allocated(d)' <=> refcount'[d] > 0
              /\ connState'[d] = connState[d]
  <2>1. refs[d] = Holders(d) + Cardinality(Refs(d)) /\ state[d] = connState[d]
    BY <1>5, <1>12, RefsOf
  <2>2. Holders(d) \in Nat
    BY HoldersType
  <2>3. state[d] \in {"none", "freed"} => Holders(d) = 0 /\ Refs(d) = {}
    BY <2>1, RefsOf DEF Allocated
  <2>4. /\ refcount'[d] = Holders(d) + Cardinality(Refs(d)') /\ refcount'[d] \in Nat
        /\ Allocated(d)' <=> refcount'[d] > 0
        /\ \/ connState'[d] = state[d]
           \/ connState'[d] = "freed" /\ state[d] \notin {"none", "freed"} /\ Holders(d) = 0
    BY <1>2, <1>5, <1>6, <2>1, <2>2, <2>3, AccountStates
  <2>5. Refs(d)' = Refs(d)
    BY <1>9, <1>12 DEF Refs
  <2>6. refcount'[d] = refcount[d]
    BY <2>4, <2>5, RefsOf
  <2>7. Allocated(d) <=> refcount[d] > 0
    BY DEF RefsAreHolders
  <2>8. connState[d] \in States
    BY <1>4
  <2>9. connState'[d] = connState[d]
    BY <2>1, <2>4, <2>6, <2>7, <2>8 DEF Allocated, States
  <2>10. QED
    BY <1>8, <1>12, <2>4, <2>9
<1>13. DOMAIN connState' = Conns /\ connState' = [d \in Conns |-> connState'[d]]
  BY <1>2 DEF Account, Freed
<1>14. connState' = [connState EXCEPT ![c] = "OPEN"]
  BY <1>4, <1>11, <1>12, <1>13
<1>15. Opening(c, f)
  BY <1>3, <1>14 DEF Opening
<1>16. Quiet
  <2>1. SUFFICES ASSUME NEW d \in Conns, connState[d] = "CLOSED"
                 PROVE  /\ connState'[d] \in {"CLOSED", "freed"}
                        /\ \A m \in Msgs : owner'[m] = d => owner[m] = d /\ place'[m] = place[m]
    BY DEF Quiet
  <2>2. d # c
    BY <1>3, <2>1
  <2>3. QED
    BY <1>9, <1>12, <2>1, <2>2
<1>17. place' \in [Msgs -> Places] /\ owner' \in [Msgs -> Conns \cup {NoConn}] /\ Owned'
  BY <1>2, <1>6, AccountMoves
<1>18. TypeOK'
  <2>1. connState' \in [Conns -> States]
    BY <1>4, <1>14 DEF States
  <2>2. refcount' \in [Conns -> Nat]
    BY <1>2, <1>11, <1>12 DEF Account, RefsAfter
  <2>3. messages_in_queue' \in [Conns -> Nat]
    BY <1>2, <1>10 DEF Account, QueuedAfter
  <2>4. reading' \subseteq Conns /\ open_fds' \subseteq Fds
    BY <1>2, <1>3 DEF StateChange, TypeOK
  <2>5. stackOf' \in [Conns -> Stacks \cup {NoStack}] /\ fd' \in [Conns -> Fds \cup {NoFd}]
    BY <1>3, <1>4
  <2>6. table' \subseteq Conns /\ api' \subseteq Conns /\ fc' \subseteq Conns
    BY <1>3, <1>4
  <2>7. QED
    BY <1>3, <1>17, <2>1, <2>2, <2>3, <2>4, <2>5, <2>6 DEF TypeOK, States
<1>19. RefsAreHolders' /\ QueueCount'
  BY <1>10, <1>11, <1>12 DEF RefsAreHolders, QueueCount, Holders
<1>20. OpenIsWired'
  <2>1. SUFFICES ASSUME NEW d \in Conns
                 PROVE /\ NotClosed(d)' => /\ d \in table' /\ d \in api' /\ d \in fc'
                                           /\ stack'[stackOf'[d]] = "up"
                       /\ ~ NotClosed(d)' =>
                             /\ d \notin table' /\ d \notin api' /\ d \notin fc'
                             /\ \A m \in Msgs : owner'[m] = d => place'[m] \notin {"window", "deque"}
    BY DEF OpenIsWired
  <2>2. CASE d = c
    BY <1>3, <1>4, <1>11, <2>2 DEF NotClosed
  <2>3. CASE d # c
    <3>1. /\ NotClosed(d)' <=> NotClosed(d)
          /\ stackOf'[d] = stackOf[d]
      BY <1>3, <1>4, <1>12, <2>3 DEF NotClosed
    <3>2. \A m \in Msgs : owner'[m] = d => owner[m] = d /\ place'[m] = place[m]
      BY <1>9, <2>3
    <3>3. QED
      BY <1>3, <2>3, <3>1, <3>2 DEF OpenIsWired
  <2>4. QED
    BY <2>2, <2>3
<1>21. ReadsWhenUnblocked'
  <2>1. reading' = (reading \ {c}) \cup {d \in {c} : ~ blocked_down[d]}
    BY <1>2, <1>5 DEF StateChange
  <2>2. reading = {d \in api : connState[d] = "OPEN" /\ ~ blocked_down[d]}
    BY DEF ReadsWhenUnblocked, BlockedDown
  <2>3. reading' = {d \in api' : connState'[d] = "OPEN" /\ ~ blocked_down[d]}
    BY <1>3, <1>4, <1>11, <1>12, <2>1, <2>2
  <2>4. QED
    BY <1>3, <2>3 DEF ReadsWhenUnblocked, BlockedDown
<1>22. Homed'
  BY <1>3, <1>4, <1>12 DEF Homed
<1>23. OwnFds'
  <2>1. \A d \in Conns : Allocated(d)' => d = c \/ Allocated(d)
    BY <1>12 DEF Allocated
  <2>2. fd'[c] = f /\ \A d \in Conns \ {c} : fd'[d] = fd[d]
    BY <1>3, <1>4
  <2>3. QED
    BY <1>3, <2>1, <2>2 DEF OwnFds
<1>24. LostOutlives'
  <2>1. \A d \in Conns : Allocated(d)' => d = c \/ Allocated(d)
    BY <1>12 DEF Allocated
  <2>2. stackOf'[c] = s /\ \A d \in Conns \ {c} : stackOf'[d] = stackOf[d]
    BY <1>3, <1>4
  <2>3. QED
    BY <1>3, <1>9, <2>1, <2>2 DEF LostOutlives
<1>25. QED
  BY <1>15, <1>16, <1>17, <1>18, <1>19, <1>20, <1>21, <1>22, <1>23, <1>24

(* The invariant but for who may outlive a stack. *)
MostOfIInv ==
    /\ TypeOK /\ RefsAreHolders /\ QueueCount /\ OpenIsWired /\ ReadsWhenUnblocked
    /\ Owned /\ Homed /\ OwnFds

(* Closing connections of the table keeps it, as long as what the          *)
(* components hold for them is destroyed and the other open connections    *)
(* still have their stack.                                                 *)
LEMMA CloseAllKeeps ==
    ASSUME IInv, NEW C \in SUBSET table, NEW destroyed \in SUBSET Msgs,
           \A m \in destroyed : place[m] \notin {"none", "lost"},
           HeldFor(C, {"window", "deque"}) \subseteq destroyed, CloseAll(C, destroyed),
           stack' \in [Stacks -> {"none", "up", "gone"}], running' \in BOOLEAN,
           \A d \in Conns \ C : NotClosed(d) => stack'[stackOf[d]] = "up"
    PROVE  /\ MostOfIInv' /\ Closing /\ Quiet
           /\ \A m \in Msgs \ destroyed : owner'[m] = owner[m] /\ place'[m] = place[m]
           /\ \A m \in destroyed : place'[m] = "none" /\ owner'[m] = NoConn
           /\ \A d \in C : ~ NotClosed(d)' /\ refcount'[d] = Cardinality(Refs(d)')
<1> USE DEF IInv
<1> DEFINE to    == [m \in destroyed |-> "none"]
           refs  == [c \in Conns |-> IF c \in C THEN refcount[c] - 3 ELSE refcount[c]]
           state == [c \in Conns |-> IF c \in C THEN "CLOSED" ELSE connState[c]]
<1>1. /\ Account(to, NoneMade, refs, state)
      /\ open_fds' = open_fds \ Released
      /\ table' = table \ C /\ api' = api \ C /\ fc' = fc \ C /\ reading' = reading \ C
      /\ UNCHANGED <<stackOf, fd, blocked_down>>
  BY DEF CloseAll, StackClosed
<1>2. /\ connState \in [Conns -> States] /\ refcount \in [Conns -> Nat]
      /\ table \subseteq Conns /\ api \subseteq Conns /\ fc \subseteq Conns
  BY DEF TypeOK, States
<1>3. /\ state \in [Conns -> States] /\ refs \in [Conns -> Int]
      /\ \A d \in C : state[d] = "CLOSED" /\ refs[d] = refcount[d] - 3
      /\ \A d \in Conns \ C : state[d] = connState[d] /\ refs[d] = refcount[d]
  BY <1>2 DEF States
<1>4. /\ WellFormed(to, NoneMade, state)
      /\ DOMAIN to = destroyed /\ DOMAIN NoneMade = {}
      /\ \A m \in destroyed : to[m] = "none"
  BY DEF WellFormed, NoneMade, Places
<1> HIDE DEF to, refs, state
<1>5. \A d \in C : NotClosed(d) /\ Holders(d) = 3 /\ Holders(d)' = 0
  BY <1>1, <1>2 DEF OpenIsWired, Holders, Holds
<1>6. \A d \in Conns \ C : Holders(d)' = Holders(d)
  BY <1>1 DEF Holders, Holds
<1>7. /\ \A m \in Msgs \ destroyed : owner'[m] = owner[m] /\ place'[m] = place[m]
      /\ \A m \in destroyed : place'[m] = "none" /\ owner'[m] = NoConn
  BY <1>1, <1>4, AccountMoves
<1>8. \A d \in Conns : messages_in_queue'[d] = Cardinality(InQueue(d)') /\ messages_in_queue'[d] \in Nat
  BY <1>1, <1>3, <1>4, AccountCounts
<1>9. ASSUME NEW d \in C
      PROVE  /\ refcount'[d] = Holders(d)' + Cardinality(Refs(d)') /\ refcount'[d] \in Nat
             /\ refcount'[d] = Cardinality(Refs(d)')
             /\ Allocated(d)' <=> refcount'[d] > 0
             /\ connState'[d] \in {"CLOSED", "freed"}
  <2>1. refs[d] = 0 + Cardinality(Refs(d)) /\ state[d] = "CLOSED" /\ d \in Conns
    BY <1>2, <1>3, <1>5, RefsOf, RefsFinite
  <2>2. /\ refcount'[d] = 0 + Cardinality(Refs(d)') /\ refcount'[d] \in Nat
        /\ Allocated(d)' <=> refcount'[d] > 0
        /\ \/ connState'[d] = state[d]
           \/ connState'[d] = "freed" /\ state[d] \notin {"none", "freed"} /\ 0 = 0
    BY <1>1, <1>3, <1>4, <2>1, AccountStates
  <2>3. Cardinality(Refs(d)') \in Nat
    BY <1>1, <1>3, <1>4, <2>1, AccountCounts
  <2>4. QED
    BY <1>5, <2>1, <2>2, <2>3
<1>10. ASSUME NEW d \in Conns \ C
       PROVE  /\ refcount'[d] = Holders(d)' + Cardinality(Refs(d)') /\ refcount'[d] \in Nat
              /\ Allocated(d)' <=> refcount'[d] > 0
              /\ connState'[d] \in States
              /\ \/ connState'[d] = connState[d]
                 \/ connState[d] = "CLOSED" /\ connState'[d] = "freed"
  <2>1. refs[d] = Holders(d) + Cardinality(Refs(d)) /\ state[d] = connState[d]
    BY <1>3, RefsOf
  <2>2. Holders(d) \in Nat /\ (NotClosed(d) => Holders(d) # 0)
    BY HoldersType DEF OpenIsWired
  <2>3. state[d] \in {"none", "freed"} => Holders(d) = 0 /\ Refs(d) = {}
    BY <2>1, RefsOf DEF Allocated
  <2>4. /\ refcount'[d] = Holders(d) + Cardinality(Refs(d)') /\ refcount'[d] \in Nat
        /\ connState'[d] \in States /\ (Allocated(d)' <=> refcount'[d] > 0)
        /\ \/ connState'[d] = state[d]
           \/ connState'[d] = "freed" /\ state[d] \notin {"none", "freed"} /\ Holders(d) = 0
    BY <1>1, <1>3, <1>4, <2>1, <2>2, <2>3, AccountStates
  <2>5. connState[d] \in States
    BY <1>2
  <2>6. \/ connState'[d] = connState[d]
        \/ connState[d] = "CLOSED" /\ connState'[d] = "freed"
    BY <2>1, <2>2, <2>4, <2>5 DEF NotClosed, States
  <2>7. QED
    BY <1>6, <2>4, <2>6
<1>11. Closing
  BY <1>1, <1>5, <1>9, <1>10 DEF Closing
<1>12. Quiet
  <2>1. SUFFICES ASSUME NEW d \in Conns, connState[d] = "CLOSED"
                 PROVE  /\ connState'[d] \in {"CLOSED", "freed"}
                        /\ \A m \in Msgs : owner'[m] = d => owner[m] = d /\ place'[m] = place[m]
    BY DEF Quiet
  <2>2. d \notin C
    BY <1>5, <2>1 DEF NotClosed
  <2>3. \A m \in Msgs : owner'[m] = d => owner[m] = d /\ place'[m] = place[m]
    BY <1>7, ConnectionAssumption
  <2>4. QED
    BY <1>10, <2>1, <2>2, <2>3
<1>13. place' \in [Msgs -> Places] /\ owner' \in [Msgs -> Conns \cup {NoConn}] /\ Owned'
  BY <1>1, <1>4, AccountMoves
<1>14. TypeOK'
  <2>1. \A d \in Conns : connState'[d] \in States /\ refcount'[d] \in Nat
    BY <1>9, <1>10 DEF States
  <2>2. connState' \in [Conns -> States]
    BY <1>1, <2>1 DEF Account, Freed
  <2>3. refcount' \in [Conns -> Nat]
    BY <1>1, <2>1 DEF Account, RefsAfter
  <2>4. messages_in_queue' \in [Conns -> Nat]
    BY <1>1, <1>8 DEF Account, QueuedAfter
  <2>5. /\ table' \subseteq Conns /\ api' \subseteq Conns /\ fc' \subseteq Conns
        /\ reading' \subseteq Conns /\ open_fds' \subseteq Fds
    BY <1>1 DEF TypeOK
  <2>6. QED
    BY <1>1, <1>13, <2>2, <2>3, <2>4, <2>5 DEF TypeOK, States
<1>15. RefsAreHolders' /\ QueueCount'
  BY <1>8, <1>9, <1>10 DEF RefsAreHolders, QueueCount, Holders
<1>16. OpenIsWired'
  <2>1. SUFFICES ASSUME NEW d \in Conns
                 PROVE /\ NotClosed(d)' => /\ d \in table' /\ d \in api' /\ d \in fc'
                                           /\ stack'[stackOf[d]] = "up"
                       /\ ~ NotClosed(d)' =>
                             /\ d \notin table' /\ d \notin api' /\ d \notin fc'
                             /\ \A m \in Msgs : owner'[m] = d => place'[m] \notin {"window", "deque"}
    BY <1>1 DEF OpenIsWired
  <2>2. CASE d \in C
    <3>1. ~ NotClosed(d)'
      BY <1>9, <2>2 DEF NotClosed
    <3>2. \A m \in Msgs : owner'[m] = d => place'[m] \notin {"window", "deque"}
      BY <1>7, <2>2, ConnectionAssumption DEF HeldFor
    <3>3. QED
      BY <1>1, <2>2, <3>1, <3>2
  <2>3. CASE d \notin C
    <3>1. NotClosed(d)' <=> NotClosed(d)
      BY <1>10, <2>3 DEF NotClosed
    <3>2. \A m \in Msgs : owner'[m] = d => owner[m] = d /\ place'[m] = place[m]
      BY <1>7, ConnectionAssumption
    <3>3. QED
      BY <1>1, <2>3, <3>1, <3>2 DEF OpenIsWired
  <2>4. QED
    BY <2>2, <2>3
<1>17. ReadsWhenUnblocked'
  <2>1. reading = {d \in api : connState[d] = "OPEN" /\ ~ blocked_down[d]}
    BY DEF ReadsWhenUnblocked, BlockedDown
  <2>2. \A d \in Conns \ C : connState'[d] = "OPEN" <=> connState[d] = "OPEN"
    BY <1>10
  <2>3. reading' = {d \in api' : connState'[d] = "OPEN" /\ ~ blocked_down[d]}
    BY <1>1, <1>2, <2>1, <2>2
  <2>4. QED
    BY <1>1, <2>3 DEF ReadsWhenUnblocked, BlockedDown
<1>18. Homed'
  BY <1>1, <1>11 DEF Homed, Closing, NotClosed
<1>19. OwnFds'
  <2>1. \A d \in Conns : /\ Allocated(d)' => Allocated(d)
                         /\ connState'[d] = "freed" => Allocated(d) \/ connState[d] = "freed"
    BY <1>11 DEF Closing, Allocated, NotClosed
  <2>2. QED
    BY <1>1, <2>1, ReleasedFds
<1>20. \A d \in C : ~ NotClosed(d)' /\ refcount'[d] = Cardinality(Refs(d)')
  BY <1>9 DEF NotClosed
<1>21. QED
  BY <1>7, <1>11, <1>12, <1>13, <1>14, <1>15, <1>16, <1>17, <1>18, <1>19, <1>20 DEF MostOfIInv

LEMMA CloseConnectionKeeps ==
    ASSUME IInv, NEW c \in Conns, CloseConnection(c)
    PROVE  IInv' /\ Closing /\ Quiet
<1> DEFINE destroyed == HeldFor({c}, {"window", "deque"})
<1>1. /\ CloseAll({c}, destroyed) /\ UNCHANGED <<stack, running>>
      /\ {c} \in SUBSET table
  BY DEF CloseConnection, GetByApiFd
<1>2. /\ destroyed \in SUBSET Msgs
      /\ HeldFor({c}, {"window", "deque"}) \subseteq destroyed
      /\ \A m \in destroyed : place[m] \notin {"none", "lost"}
  BY DEF HeldFor
<1> HIDE DEF destroyed
<1>3. /\ stack' \in [Stacks -> {"none", "up", "gone"}] /\ running' \in BOOLEAN
      /\ \A d \in Conns \ {c} : NotClosed(d) => stack'[stackOf[d]] = "up"
  BY <1>1 DEF IInv, TypeOK, OpenIsWired
<1>4. /\ MostOfIInv' /\ Closing /\ Quiet
      /\ \A m \in Msgs \ destroyed : owner'[m] = owner[m] /\ place'[m] = place[m]
      /\ \A m \in destroyed : place'[m] = "none" /\ owner'[m] = NoConn
  BY <1>1, <1>2, <1>3, CloseAllKeeps
<1>5. LostOutlives'
  <2>1. \A d \in Conns : Allocated(d)' => Allocated(d)
    BY <1>4 DEF Closing, Allocated, NotClosed
  <2>2. stackOf' = stackOf
    BY <1>1 DEF CloseAll
  <2>3. QED
    BY <1>1, <1>2, <1>4, <2>1, <2>2 DEF IInv, LostOutlives
<1>6. QED
  BY <1>4, <1>5 DEF IInv, MostOfIInv

(* The drain of rtaProtocolStack_Destroy leaves nothing that refers to a   *)
(* connection of the stacks, but what was lost.                            *)
LEMMA DestroyStacksKeeps ==
    ASSUME IInv, NEW S \in SUBSET Stacks, DestroyStacks(S), running' \in BOOLEAN
    PROVE  IInv' /\ Closing /\ Quiet
<1> DEFINE C == ByStack(S)
           drained == {m \in Msgs : place[m] \in Queues /\ stackOf[owner[m]] \in S}
           destroyed == HeldFor(C, {"window", "deque"}) \cup drained
<1>1. /\ CloseAll(C, destroyed)
      /\ stack' = [s \in Stacks |-> IF s \in S THEN "gone" ELSE stack[s]]
  BY DEF DestroyStacks
<1>2. /\ C \in SUBSET table /\ destroyed \in SUBSET Msgs
      /\ HeldFor(C, {"window", "deque"}) \subseteq destroyed
      /\ \A m \in destroyed : place[m] \notin {"none", "lost"}
  BY DEF ByStack, HeldFor, Queues
<1>3. \A d \in Conns : d \in C <=> d \in table /\ stackOf[d] \in S
  BY DEF ByStack
<1>4. \A m \in Msgs : /\ place[m] \in Queues /\ stackOf[owner[m]] \in S => m \in destroyed
                      /\ place[m] \in {"window", "deque"} /\ owner[m] \in C => m \in destroyed
  BY DEF HeldFor
<1> HIDE DEF C, destroyed
<1>5. stack' \in [Stacks -> {"none", "up", "gone"}]
  BY <1>1 DEF IInv, TypeOK
<1>6. \A d \in Conns \ C : NotClosed(d) => d \in table /\ stackOf[d] \notin S /\ stack[stackOf[d]] = "up"
  BY <1>3 DEF IInv, OpenIsWired
<1>7. \A d \in Conns : connState[d] # "none" => stackOf[d] \in Stacks
  BY DEF IInv, Homed
<1>8. \A d \in Conns \ C : NotClosed(d) => stack'[stackOf[d]] = "up"
  BY <1>1, <1>6, <1>7 DEF NotClosed
<1>9. /\ MostOfIInv' /\ Closing /\ Quiet
      /\ \A m \in Msgs \ destroyed : owner'[m] = owner[m] /\ place'[m] = place[m]
      /\ \A m \in destroyed : place'[m] = "none" /\ owner'[m] = NoConn
      /\ \A d \in C : ~ NotClosed(d)' /\ refcount'[d] = Cardinality(Refs(d)')
  BY <1>1, <1>2, <1>5, <1>8, CloseAllKeeps
<1>10. LostOutlives'
  <2>1. \A d \in Conns : Allocated(d)' => Allocated(d)
    BY <1>9 DEF Closing, Allocated, NotClosed
  <2>2. stackOf' = stackOf
    BY <1>1 DEF CloseAll
  <2>3. \A m \in Msgs : place'[m] = "lost" => DecodeFails
    BY <1>9 DEF IInv, LostOutlives
  <2>4. SUFFICES ASSUME NEW d \in Conns, Allocated(d)'
                 PROVE  \/ stack'[stackOf[d]] = "up"
                        \/ \E m \in Msgs : owner'[m] = d /\ place'[m] = "lost"
    BY <2>2, <2>3 DEF LostOutlives
  <2>5. Allocated(d) /\ stackOf[d] \in Stacks
    BY <1>7, <2>1, <2>4 DEF Allocated
  <2>6. CASE stackOf[d] \notin S
    <3>1. stack'[stackOf[d]] = stack[stackOf[d]]
      BY <1>1, <2>5, <2>6
    <3>2. \A m \in Msgs : place[m] = "lost" => owner'[m] = owner[m] /\ place'[m] = "lost"
      BY <1>2, <1>9
    <3>3. QED
      BY <2>5, <3>1, <3>2 DEF IInv, LostOutlives
  <2>7. CASE stackOf[d] \in S
    <3>1. refcount'[d] > 0 /\ refcount'[d] = Cardinality(Refs(d)')
      <4>1. refcount'[d] > 0
        BY <1>9, <2>4 DEF MostOfIInv, RefsAreHolders
      <4>2. d \notin table' /\ d \notin api' /\ d \notin fc'
        <5>1. ~ NotClosed(d)'
          <6>1. CASE d \in C
            BY <1>9, <6>1
          <6>2. CASE d \notin C
            <7>1. ~ NotClosed(d)
              BY <1>6, <2>7, <6>2
            <7>2. QED
              BY <1>9, <7>1 DEF Closing, NotClosed
          <6>3. QED
            BY <6>1, <6>2
        <5>2. QED
          BY <1>9, <5>1 DEF MostOfIInv, OpenIsWired
      <4>3. refcount'[d] = 0 + 0 + 0 + Cardinality(Refs(d)')
        BY <1>9, <4>2 DEF MostOfIInv, RefsAreHolders, Holds
      <4>4. refcount'[d] \in Nat
        BY <1>9 DEF MostOfIInv, TypeOK
      <4>5. Cardinality(Refs(d)') \in Nat
        <5>1. Refs(d)' \subseteq Msgs
          BY DEF Refs
        <5>2. QED
          BY <5>1, FS_Subset, FS_CardinalityType, ConnectionAssumption
      <4>6. QED
        BY <4>1, <4>3, <4>5
    <3>2. Refs(d)' # {}
      BY <3>1, FS_EmptySet
    <3>3. PICK m \in Msgs : owner'[m] = d
      BY <3>2 DEF Refs
    <3>4. m \notin destroyed /\ owner[m] = d /\ place'[m] = place[m]
      BY <1>9, <3>3, ConnectionAssumption
    <3>5. place[m] \in Places /\ place[m] # "none"
      BY <3>4, ConnectionAssumption DEF IInv, TypeOK, Owned
    <3>6. place[m] \notin Queues
      BY <1>4, <2>7, <3>4
    <3>7. place[m] \notin {"window", "deque"}
      BY <1>3, <1>4, <2>7, <3>4 DEF IInv, OpenIsWired
    <3>8. place[m] = "lost"
      BY <3>5, <3>6, <3>7 DEF Places
    <3>9. QED
      BY <3>3, <3>4, <3>8
  <2>8. QED
    BY <2>6, <2>7
<1>11. QED
  BY <1>9, <1>10 DEF IInv, MostOfIInv

-----------------------------------------------------------------------------
(* Theorems *)

LEMMA InitKeeps == Init => IInv
<1> SUFFICES ASSUME Init PROVE IInv
  OBVIOUS
<1>1. TypeOK
  BY DEF Init, TypeOK, Places, counts, wiring
<1>2. \A c \in Conns : Refs(c) = {} /\ InQueue(c) = {} /\ ~ Allocated(c) /\ ~ NotClosed(c)
  BY ConnectionAssumption DEF Init, Refs, InQueue, Allocated, NotClosed
<1>3. RefsAreHolders
  <2>1. \A c \in Conns : Holds(table, c) = 0 /\ Holds(api, c) = 0 /\ Holds(fc, c) = 0
    BY DEF Init, Holds
  <2>2. \A c \in Conns : Cardinality(Refs(c)) = 0 /\ refcount[c] = 0
    BY <1>2, FS_EmptySet DEF Init
  <2>3. QED
    BY <1>2, <2>1, <2>2 DEF RefsAreHolders
<1>4. QueueCount
  <2>1. \A c \in Conns : Cardinality(InQueue(c)) = 0 /\ messages_in_queue[c] = 0
    BY <1>2, FS_EmptySet DEF Init
  <2>2. QED
    BY <2>1 DEF QueueCount
<1>5. OpenIsWired
  BY <1>2 DEF OpenIsWired, Init
<1>6. ReadsWhenUnblocked /\ Owned
  BY DEF Init, ReadsWhenUnblocked, Owned
<1>7. Homed /\ OwnFds /\ LostOutlives
  BY <1>2 DEF Init, Homed, OwnFds, LostOutlives
<1>8. QED
  BY <1>1, <1>3, <1>4, <1>5, <1>6, <1>7 DEF IInv

(* A step opens one connection, or only closes and releases some.          *)
LEMMA StepKeeps ==
    ASSUME IInv, Next
    PROVE  /\ IInv' /\ Quiet
           /\ Closing \/ \E c \in Conns, f \in Fds : Opening(c, f)
<1>1. ASSUME NEW s \in Stacks, CreateStack(s) PROVE IInv' /\ Closing /\ Quiet
  BY <1>1, CreateStackKeeps
<1>2. ASSUME NEW s \in Stacks, DestroyStack(s) PROVE IInv' /\ Closing /\ Quiet
  <2>1. {s} \in SUBSET Stacks /\ DestroyStacks({s}) /\ running' \in BOOLEAN
    BY <1>2 DEF DestroyStack, IInv, TypeOK
  <2>2. QED
    BY <2>1, DestroyStacksKeeps
<1>3. ASSUME Shutdown PROVE IInv' /\ Closing /\ Quiet
  <2>1. DestroyStacks({s \in Stacks : stack[s] = "up"}) /\ running' \in BOOLEAN
    BY <1>3 DEF Shutdown
  <2>2. {s \in Stacks : stack[s] = "up"} \in SUBSET Stacks
    OBVIOUS
  <2>3. QED
    BY <2>1, <2>2, DestroyStacksKeeps
<1>4. ASSUME NEW s \in Stacks, Callback(s) PROVE IInv' /\ Closing /\ Quiet
  BY <1>4, ApiUpcallReadKeeps, FcDowncallReadKeeps, FcUpcallReadKeeps, CodecDowncallReadKeeps,
     CodecUpcallReadKeeps, FwdDowncallReadKeeps DEF Callback
<1>5. ASSUME NEW c \in Conns, CloseConnection(c) PROVE IInv' /\ Closing /\ Quiet
  BY <1>5, CloseConnectionKeeps
<1>6. ASSUME NEW c \in Conns, ApiDowncallRead(c) \/ FcTimer(c) \/ FwdReceive(c) \/ FwdDequeue(c)
      PROVE  IInv' /\ Closing /\ Quiet
  BY <1>6, ApiDowncallReadKeeps, FcTimerKeeps, FwdReceiveKeeps, FwdDequeueKeeps
<1>7. ASSUME NEW c \in Conns, NEW failed \in BOOLEAN, FwdEvent(c, failed)
      PROVE  IInv' /\ Closing /\ Quiet
  BY <1>7, FwdEventKeeps
<1>8. ASSUME NEW c \in Conns, NEW s \in Stacks, NEW f \in Fds, OpenConnection(c, s, f)
      PROVE  IInv' /\ Opening(c, f) /\ Quiet
  BY <1>8, OpenConnectionKeeps
<1>9. QED
  BY <1>1, <1>2, <1>3, <1>4, <1>5, <1>6, <1>7, <1>8 DEF Next

LEMMA StutterKeeps ==
    ASSUME IInv, UNCHANGED vars
    PROVE  IInv'
<1>1. UNCHANGED <<stack, running, connState, stackOf, fd, refcount, messages_in_queue,
                  blocked_down, table, api, fc, reading, place, owner, open_fds>>
  BY DEF vars, counts, wiring
<1>2. TypeOK'
  BY <1>1 DEF IInv, TypeOK
<1>3. RefsAreHolders' /\ QueueCount' /\ Owned' /\ Homed' /\ OwnFds'
  BY <1>1 DEF IInv, RefsAreHolders, QueueCount, Owned, Homed, OwnFds, Allocated, Refs, InQueue, Holds
<1>4. OpenIsWired' /\ ReadsWhenUnblocked' /\ LostOutlives'
  BY <1>1 DEF IInv, OpenIsWired, ReadsWhenUnblocked, LostOutlives, NotClosed, BlockedDown, Allocated
<1>5. QED
  BY <1>2, <1>3, <1>4 DEF IInv

(* The inductive invariant of the connections' life. *)
THEOREM Inductive == Spec => []IInv
<1>1. Init => IInv
  BY InitKeeps
<1>2. IInv /\ [Next]_vars => IInv'
  BY StepKeeps, StutterKeeps
<1>3. QED
  BY <1>1, <1>2, PTL DEF Spec

(* Every variable keeps its type; in particular no decrement of a          *)
(* reference count or of messages_in_queue goes below zero.                *)
THEOREM TypeCorrect == Spec => []TypeOK
<1>1. IInv => TypeOK
  BY DEF IInv
<1>2. QED
  BY <1>1, Inductive, PTL

(* rtaConnection_Copy and _Destroy are balanced: the count is the number   *)
(* of holders and the connection is freed with the last of them, however   *)
(* the callbacks, commands and timers interleave.                          *)
THEOREM ReferencesBalance == Spec => []RefsAreHolders
<1>1. IInv => RefsAreHolders
  BY DEF IInv
<1>2. QED
  BY <1>1, Inductive, PTL

(* rtaComponent_PutMessage and _GetMessage keep messages_in_queue equal to *)
(* the number of the connection's messages between components.             *)
THEOREM QueuesAreCounted == Spec => []QueueCount
<1>1. IInv => QueueCount
  BY DEF IInv
<1>2. QED
  BY <1>1, Inductive, PTL

(* An open connection is known to the table and to all components of a     *)
(* running stack, and a closed one to none of them.                        *)
THEOREM OpenStaysWired == Spec => []OpenIsWired
<1>1. IInv => OpenIsWired
  BY DEF IInv
<1>2. QED
  BY <1>1, Inductive, PTL

(* The read event of the API socket is enabled exactly while the           *)
(* connection is not blocked down, whatever blocks, pauses or closes it.   *)
THEOREM ReadingFollowsBlocking == Spec => []ReadsWhenUnblocked
<1>1. IInv => ReadsWhenUnblocked
  BY DEF IInv
<1>2. QED
  BY <1>1, Inductive, PTL

(* Where every packet of the forwarder decodes, destroying a stack frees   *)
(* all its connections.  (Otherwise a message that is lost keeps its       *)
(* connection, and only such a message does: LostOutlives.)                *)
THEOREM StackTakesItsConnections ==
    ASSUME ~ DecodeFails
    PROVE  Spec => []NothingOutlivesStack
<1>1. IInv => NothingOutlivesStack
  BY DEF IInv, LostOutlives, NothingOutlivesStack
<1>2. QED
  BY <1>1, Inductive, PTL

(* Nothing is queued for, moved for or created on behalf of a closed       *)
(* connection, and it never opens again.                                   *)
THEOREM ClosedIsQuiet == Spec => ClosedStaysQuiet
<1>1. IInv /\ [Next]_vars =>
         [ \A c \in Conns : connState[c] = "CLOSED" =>
              /\ connState'[c] \in {"CLOSED", "freed"}
              /\ \A m \in Msgs : owner'[m] = c => owner[m] = c /\ place'[m] = place[m] ]_vars
  BY StepKeeps DEF Quiet
<1>2. QED
  BY <1>1, Inductive, PTL DEF Spec, ClosedStaysQuiet

(* The worker thread implements the descriptor pool: a descriptor pair     *)
(* belongs to one connection from rtaFramework_OpenConnection until        *)
(* rtaFramework_RemoveConnection closes it.                                *)
THEOREM ImplementsPool == Spec => PoolSpec
<1> DEFINE Use(c) == CASE connState[c] = "none"  -> "none"
                       [] NotClosed(c)          -> "open"
                       [] connState[c] = "CLOSED" -> "closing"
                       [] connState[c] = "freed"  -> "released"
           use == [c \in Conns |-> Use(c)]
<1>1. Init => Pool!Init
  BY DEF Init, Pool!Init, NotClosed
<1>2. IInv /\ [Next]_vars => [Pool!Next]_(Pool!vars)
  <2> SUFFICES ASSUME IInv, [Next]_vars PROVE [Pool!Next]_(Pool!vars)
    OBVIOUS
  <2>1. CASE UNCHANGED vars
    BY <2>1 DEF vars, Pool!vars, NotClosed
  <2>2. \A c \in Conns : connState[c] \in States
    BY DEF IInv, TypeOK, States
  <2>3. \A c \in Conns : /\ use[c] = "none" <=> connState[c] = "none"
                         /\ use[c] = "open" <=> NotClosed(c)
                         /\ use[c] = "closing" <=> connState[c] = "CLOSED"
                         /\ use[c] = "released" <=> connState[c] = "freed"
    BY <2>2 DEF NotClosed, States
  <2>4. ASSUME Next PROVE \A c \in Conns : connState'[c] \in States
    BY <2>4, StepKeeps DEF IInv, TypeOK, States
  <2>5. ASSUME Next
        PROVE  \A c \in Conns : /\ use'[c] = "none" <=> connState'[c] = "none"
                                /\ use'[c] = "open" <=> NotClosed(c)'
                                /\ use'[c] = "closing" <=> connState'[c] = "CLOSED"
                                /\ use'[c] = "released" <=> connState'[c] = "freed"
    BY <2>4, <2>5 DEF NotClosed, States
  <2>6. \A c \in Conns : use[c] \in {"none", "open", "closing", "released"}
    BY <2>2 DEF NotClosed, States
  <2>7. ASSUME Next
        PROVE  \A c \in Conns : use'[c] \in {"none", "open", "closing", "released"}
    BY <2>4, <2>7 DEF NotClosed, States
  <2>8. use = [c \in Conns |-> use[c]] /\ use' = [c \in Conns |-> use'[c]]
    <3> HIDE DEF Use
    <3>1. QED
      OBVIOUS
  <2> HIDE DEF use, Use
  <2>9. ASSUME Next, NEW c \in Conns, NEW f \in Fds, Opening(c, f)
        PROVE  Pool!Next
    <3>1. use' = [use EXCEPT ![c] = "open"] /\ use[c] = "none"
      <4>1. /\ connState[c] = "none" /\ connState'[c] = "OPEN"
            /\ \A d \in Conns \ {c} : connState'[d] = connState[d]
        BY <2>9 DEF Opening, IInv, TypeOK
      <4>2. use[c] = "none" /\ use'[c] = "open"
        BY <2>3, <2>5, <2>9, <4>1 DEF NotClosed
      <4>3. \A d \in Conns \ {c} : use'[d] = use[d]
        BY <2>3, <2>5, <2>6, <2>7, <2>9, <4>1 DEF NotClosed
      <4>4. QED
        BY <2>8, <4>2, <4>3
    <3>2. fd' = [fd EXCEPT ![c] = f]
      BY <2>9 DEF Opening
    <3>3. f \notin {fd[e] : e \in {d \in Conns : use[d] \in {"open", "closing"}}}
      BY <2>3, <2>9 DEF Opening, IInv, OwnFds, Allocated, NotClosed
    <3>4. Pool!Open(c, f)
      BY <3>1, <3>2, <3>3 DEF Pool!Open, Pool!InUse, use, Use
    <3>5. QED
      BY <3>4 DEF Pool!Next
  <2>10. ASSUME Next, Closing
         PROVE  Pool!Next
    <3>1. fd' = fd
      BY <2>10 DEF Closing
    <3>2. ASSUME NEW c \in Conns
          PROVE  \/ use'[c] = use[c]
                 \/ use[c] = "open" /\ use'[c] \in {"open", "closing", "released"}
                 \/ use[c] = "closing" /\ use'[c] = "released"
      BY <2>3, <2>5, <2>6, <2>7, <2>10 DEF Closing, NotClosed
    <3>3. PICK closed \in SUBSET Conns :
             \A c \in Conns : c \in closed <=> use[c] = "open" /\ use'[c] # "open"
      <4>1. WITNESS {c \in Conns : use[c] = "open" /\ use'[c] # "open"} \in SUBSET Conns
      <4>2. QED
        OBVIOUS
    <3>4. PICK released \in SUBSET Conns :
             \A c \in Conns : c \in released <=> use[c] # "released" /\ use'[c] = "released"
      <4>1. WITNESS {c \in Conns : use[c] # "released" /\ use'[c] = "released"} \in SUBSET Conns
      <4>2. QED
        OBVIOUS
    <3>5. /\ \A c \in closed : use[c] = "open"
          /\ \A c \in released : c \in closed \/ use[c] = "closing"
      BY <3>2, <3>3, <3>4
    <3>6. use' = [c \in Conns |-> IF c \in released THEN "released"
                                  ELSE IF c \in closed THEN "closing" ELSE use[c]]
      BY <2>8, <3>2, <3>3, <3>4
    <3>7. Pool!Close(closed, released)
      BY <3>1, <3>5, <3>6 DEF Pool!Close, use, Use
    <3>8. QED
      BY <3>7 DEF Pool!Next
  <2>11. QED
    BY <2>1, <2>9, <2>10, StepKeeps
<1>3. QED
  BY <1>1, <1>2, Inductive, PTL DEF Spec, PoolSpec, Pool!Spec
=============================================================================
