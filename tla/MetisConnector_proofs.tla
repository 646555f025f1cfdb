------------------------ MODULE MetisConnector_proofs ------------------------
(***************************************************************************)
(* Proofs about the Metis connector, for every stream of the forwarder,    *)
(* every way the socket cuts it into reads, and every size of the deque    *)
(* and the buffers.                                                        *)
(***************************************************************************)
EXTENDS MetisConnector, InductionOnSets, FiniteSetTheorems

-----------------------------------------------------------------------------
(* The inductive invariant *)

(* A header is still being read, and then the body is unknown; or the body *)
(* is that of the packet after the last one passed on.                     *)
Framing ==
    /\ nextMessage.remaining > 0 => nextMessage.body = NoPacket
    /\ nextMessage.remaining = 0 =>
          /\ received < Len(Stream) /\ Stream[received + 1].kind # "alien"
          /\ nextMessage.body \in 1 .. Stream[received + 1].length - HeaderSize

IsData(k) == Stream[k].kind = "data"

(* Data packets went up in order and before those of the deque. *)
Ordered ==
    /\ \A i, j \in DOMAIN up : i < j /\ IsData(up[i]) /\ IsData(up[j]) => up[i] < up[j]
    /\ \A i \in DOMAIN up, j \in DOMAIN deque : IsData(up[i]) => up[i] < deque[j]
    /\ \A i, j \in DOMAIN deque : i < j => deque[i] < deque[j]

(* Only data packets wait, and only packets that were read are anywhere. *)
Read ==
    /\ \A i \in DOMAIN deque : IsData(deque[i]) /\ deque[i] \in 1 .. received
    /\ \A i \in DOMAIN up : up[i] \in 1 .. received
    /\ dropped \subseteq 1 .. received

Went == {up[i] : i \in DOMAIN up}
Waits == {deque[i] : i \in DOMAIN deque}

Accounted ==
    kernel # "released" =>
        /\ Went \cup Waits \cup dropped = 1 .. received
        /\ Len(up) + Len(deque) + Cardinality(dropped) = received

(* Nothing is read once the socket is closed. *)
Released == kernel = "released" => ~ isConnected /\ busy # "read"

IInv == TypeOK /\ FramingIsKept /\ Framing /\ Ordered /\ Read /\ Accounted /\ Released

-----------------------------------------------------------------------------
(* The stream *)

LEMMA ElementsOf ==
    ASSUME NEW S, NEW s \in Seq(S)
    PROVE  Len(s) \in Nat /\ DOMAIN s = 1 .. Len(s) /\ \A k \in 1 .. Len(s) : s[k] \in S
OBVIOUS

LEMMA StreamFacts ==
    /\ Len(Stream) \in Nat /\ DOMAIN Stream = 1 .. Len(Stream)
    /\ HeaderSize \in Nat /\ HeaderSize > 0
    /\ \A k \in 1 .. Len(Stream) :
          /\ Stream[k].length \in Nat /\ Stream[k].length > HeaderSize
          /\ Stream[k].kind \in {"data", "control", "alien"}
<1>1. Stream \in Seq([length : Nat, kind : {"data", "control", "alien"}])
  BY MetisAssumption
<1>2. Len(Stream) \in Nat /\ DOMAIN Stream = 1 .. Len(Stream)
  BY <1>1, ElementsOf
<1>3. \A k \in 1 .. Len(Stream) : Stream[k] \in [length : Nat, kind : {"data", "control", "alien"}]
  BY <1>1, ElementsOf
<1>4. QED
  BY <1>2, <1>3, MetisAssumption

(* Each packet ends where the one before it does and its length later. *)
LEMMA EndsFacts ==
    /\ Ends \in [0 .. Len(Stream) -> Nat]
    /\ Ends[0] = 0
    /\ \A k \in 1 .. Len(Stream) : Ends[k] = Ends[k - 1] + Stream[k].length
<1> DEFINE step == [p \in (1 .. Len(Stream)) \X Nat |-> p[2] + Stream[p[1]].length]
<1>1. step \in [(1 .. Len(Stream)) \X Nat -> Nat] /\ 0 \in Nat /\ Len(Stream) \in Nat
  BY StreamFacts
<1>2. PICK f : IsRecursive(f, Len(Stream), Nat, 0, step)
  <2> HIDE DEF step
  <2>1. QED
    BY <1>1, RecursionOnInterval
<1>3. ASSUME NEW k \in 1 .. Len(Stream)
      PROVE  step[<<k, f[k - 1]>>] = f[k - 1] + Stream[k].length
  <2>1. f[k - 1] \in Nat
    BY <1>2, StreamFacts DEF IsRecursive
  <2>2. <<k, f[k - 1]>> \in (1 .. Len(Stream)) \X Nat
    BY <2>1
  <2>3. QED
    BY <2>2
<1>4. f = [k \in 0 .. Len(Stream) |-> IF k = 0 THEN 0 ELSE f[k - 1] + Stream[k].length]
  <2>1. \A k \in 0 .. Len(Stream) : f[k] = IF k = 0 THEN 0 ELSE f[k - 1] + Stream[k].length
    <3>1. \A k \in 1 .. Len(Stream) : f[k] = f[k - 1] + Stream[k].length
      BY <1>2, <1>3, Zenon DEF IsRecursive
    <3>2. QED
      BY <1>2, <3>1, StreamFacts DEF IsRecursive
  <2>2. QED
    BY <1>2, <2>1 DEF IsRecursive
<1>5. Ends = [k \in 0 .. Len(Stream) |-> IF k = 0 THEN 0 ELSE Ends[k - 1] + Stream[k].length]
  BY <1>4 DEF Ends
<1>6. \A k \in 0 .. Len(Stream) : Ends[k] = IF k = 0 THEN 0 ELSE Ends[k - 1] + Stream[k].length
  BY <1>5
<1> DEFINE Counted == {k \in Nat : k <= Len(Stream) => Ends[k] \in Nat}
<1>7. 0 \in Counted
  BY <1>6, StreamFacts
<1>8. ASSUME NEW k \in Nat, k \in Counted PROVE k + 1 \in Counted
  <2>1. SUFFICES ASSUME k + 1 <= Len(Stream) PROVE Ends[k + 1] \in Nat
    OBVIOUS
  <2>2. Ends[k] \in Nat /\ Ends[k + 1] = Ends[k] + Stream[k + 1].length
    BY <1>6, <1>8, <2>1, StreamFacts
  <2>3. QED
    BY <2>1, <2>2, StreamFacts
<1>9. Nat \subseteq Counted
  <2> HIDE DEF Counted
  <2>1. QED
    BY <1>7, <1>8, InductionOnSet
<1>10. \A k \in 0 .. Len(Stream) : Ends[k] \in Nat
  BY <1>9, StreamFacts
<1>11. Ends \in [0 .. Len(Stream) -> Nat]
  BY <1>5, <1>10
<1>12. Ends[0] = 0 /\ \A k \in 1 .. Len(Stream) : Ends[k] = Ends[k - 1] + Stream[k].length
  BY <1>6, StreamFacts
<1>13. QED
  BY <1>11, <1>12

(* No two packets end at one place. *)
LEMMA EndsGrow ==
    \A j, k \in 0 .. Len(Stream) : j < k => Ends[j] < Ends[k]
<1> DEFINE Above == {k \in Nat : k <= Len(Stream) => \A j \in 0 .. k - 1 : Ends[j] < Ends[k]}
<1>1. 0 \in Above
  OBVIOUS
<1>2. ASSUME NEW k \in Nat, k \in Above PROVE k + 1 \in Above
  <2>1. SUFFICES ASSUME k + 1 <= Len(Stream), NEW j \in 0 .. k PROVE Ends[j] < Ends[k + 1]
    OBVIOUS
  <2>2. Ends[k] \in Nat /\ Ends[j] \in Nat /\ Ends[k + 1] = Ends[k] + Stream[k + 1].length
    BY <2>1, EndsFacts, StreamFacts, SMTT(30)
  <2>3. j = k \/ Ends[j] < Ends[k]
    BY <1>2, <2>1, StreamFacts
  <2>4. Stream[k + 1].length \in Nat /\ Stream[k + 1].length > 0
    BY <2>1, StreamFacts
  <2>5. QED
    BY <2>2, <2>3, <2>4
<1>3. Nat \subseteq Above
  <2> HIDE DEF Above
  <2>1. QED
    BY <1>1, <1>2, InductionOnSet
<1>4. QED
  BY <1>3, StreamFacts


-----------------------------------------------------------------------------
(* The steps that neither read nor pass anything up *)

Flags ==
    /\ edge \in BOOLEAN /\ isConnected \in BOOLEAN /\ readEvent \in BOOLEAN
    /\ writeEvent \in BOOLEAN /\ timer \in BOOLEAN
    /\ blocked_down \in BOOLEAN /\ paused \in BOOLEAN

LEMMA FlagTypes == TypeOK => Flags
BY DEF TypeOK, Flags

LEMMA FlagTypesPrime == Flags' => {edge, isConnected, readEvent, writeEvent, timer, blocked_down, paused}' \subseteq BOOLEAN
BY DEF Flags

LEMMA Constants ==
    /\ HeaderSize \in Nat /\ HeaderSize > 0
    /\ DequeMax \in Nat /\ DequeMax > 0 /\ DequeueMax \in Nat /\ DequeueMax > 0
    /\ SendBuffer \in Nat /\ SendBuffer > 0 /\ MsgSize \in Nat /\ MsgSize > 0
    /\ OutMax \in Nat /\ MaxDown \in Nat
    /\ Ends[Len(Stream)] \in Nat
<1>1. Ends[Len(Stream)] \in Nat
  BY EndsFacts, StreamFacts
<1>2. QED
  BY <1>1, MetisAssumption

LEMMA InitIInv == Init => IInv
<1> SUFFICES ASSUME Init PROVE IInv
  OBVIOUS
<1>1. Flags
  BY DEF Init, Flags
<1>2. TypeOK
  BY <1>1, Constants, StreamFacts DEF Init, TypeOK, Flags, initialNextMessage, NoPacket
<1>3. FramingIsKept /\ Framing
  BY Constants, EndsFacts DEF Init, FramingIsKept, Framing, Consumed, initialNextMessage
<1>4. Ordered /\ Read /\ Released
  BY DEF Init, Ordered, Read, Released
<1>5. Accounted
  <2>1. Went = {} /\ Waits = {}
    BY DEF Init, Went, Waits
  <2>2. Cardinality({}) = 0
    BY FS_EmptySet
  <2>3. 1 .. 0 = {}
    OBVIOUS
  <2>4. QED
    BY <2>1, <2>2, <2>3 DEF Init, Accounted
<1>6. QED
  BY <1>2, <1>3, <1>4, <1>5 DEF IInv

(* What is read and passed up is as it was. *)
LEMMA Still ==
    ASSUME IInv, TypeOK', Released', UNCHANGED <<reader, upward>>,
           kernel = "released" => kernel' = "released"
    PROVE  IInv'
<1>1. UNCHANGED <<pos, nextMessage, received, deque, timer, up, dropped>>
  BY DEF reader, upward
<1>2. FramingIsKept' /\ Framing'
  BY <1>1 DEF IInv, FramingIsKept, Framing, Consumed
<1>3. Ordered' /\ Read'
  BY <1>1 DEF IInv, Ordered, Read
<1>4. Went' = Went /\ Waits' = Waits
  BY <1>1 DEF Went, Waits
<1>5. Accounted'
  BY <1>1, <1>4 DEF IInv, Accounted
<1>6. QED
  BY <1>2, <1>3, <1>5 DEF IInv

(* What is written leaves the buffers within their sizes. *)
LEMMA WriteTypes ==
    ASSUME TypeOK, trap = "none", NEW amount \in Nat, dequeueMessagesToMetis(amount)
    PROVE  /\ outq' \in Nat /\ room' \in 0 .. SendBuffer /\ writeEvent' \in BOOLEAN
           /\ trap' \in {"none", "_dequeueMessagesToMetis"}
<1>1. room \in 0 .. SendBuffer /\ writeEvent \in BOOLEAN
  BY FlagTypes DEF TypeOK, Flags
<1>2. CASE amount = 0 /\ outq' = amount /\ UNCHANGED <<room, writeEvent, trap>>
  BY <1>1, <1>2
<1>3. ASSUME amount # 0, NEW n \in Written(amount),
             trap' = IF n < 0 THEN "_dequeueMessagesToMetis" ELSE "none",
             outq' = IF n < 0 THEN amount ELSE amount - n,
             room' = IF n < 0 THEN room ELSE room - n,
             writeEvent' = (n < 0 \/ amount > n)
      PROVE  /\ outq' \in Nat /\ room' \in 0 .. SendBuffer /\ writeEvent' \in BOOLEAN
             /\ trap' \in {"none", "_dequeueMessagesToMetis"}
  <2>1. n = -1 \/ (n \in Nat /\ n <= room /\ n <= amount)
    BY <1>1, <1>3, Constants DEF Written, SmallerOf
  <2>2. outq' \in Nat /\ room' \in 0 .. SendBuffer
    BY <1>1, <1>3, <2>1, Constants
  <2>3. writeEvent' \in BOOLEAN
    BY <1>3
  <2>4. trap' \in {"none", "_dequeueMessagesToMetis"}
    BY <1>3
  <2>5. QED
    BY <2>2, <2>3, <2>4
<1>4. QED
  BY <1>2, <1>3 DEF dequeueMessagesToMetis


LEMMA OpenerKeeps == IInv /\ Opener => IInv'
<1> SUFFICES ASSUME IInv, Opener PROVE IInv'
  OBVIOUS
<1>1. TypeOK /\ Flags
  BY FlagTypes DEF IInv
<1>2. kernel = "none" /\ kernel' \in {"none", "up", "connecting"}
  BY DEF Opener, BeginConnect, OpenFails
<1>3. Flags'
  BY <1>1 DEF Opener, BeginConnect, OpenFails, connectionSucceeded, setupSocketEvents, events, upward,
              Flags
<1>4. TypeOK'
  <2>1. notice' \in {"none", "CONNECTION_OPEN", "FORWARDER_NOT_AVAILABLE", "CONNECTION_CLOSED"}
    BY <1>1 DEF Opener, BeginConnect, OpenFails, connectionSucceeded, TypeOK
  <2>2. trap' \in {"none", "connector_Fwd_Metis_Opener", "_setupNextPacket", "_dequeueMessagesToMetis"}
    BY <1>1 DEF Opener, OpenFails, TypeOK
  <2>3. UNCHANGED <<avail, room, pos, nextMessage, received, busy, deque, up, dropped, downq, sent, outq>>
    BY DEF Opener, reader, upward
  <2>4. QED
    BY <1>1, <1>2, <1>3, FlagTypesPrime, <2>1, <2>2, <2>3 DEF TypeOK
<1>5. Released'
  BY <1>2 DEF Released
<1>6. QED
  BY <1>2, <1>4, <1>5, Still DEF Opener

LEMMA EventRefusedKeeps == ASSUME NEW what, IInv, EventRefused(what) PROVE IInv'
<1>1. TypeOK /\ Flags
  BY FlagTypes DEF IInv
<1>2. kernel = "refused" /\ kernel' = "error" /\ busy' \in {"no", "read", "down"}
  BY <1>1 DEF EventRefused, TypeOK
<1>3. Flags'
  BY <1>1 DEF EventRefused, connectionSucceeded, events, upward, Flags
<1>4. TypeOK'
  <2>1. notice' \in {"none", "CONNECTION_OPEN", "FORWARDER_NOT_AVAILABLE", "CONNECTION_CLOSED"}
    BY <1>1 DEF EventRefused, connectionSucceeded, TypeOK
  <2>2. UNCHANGED <<avail, room, pos, nextMessage, received, deque, up, dropped, downq, sent, outq, trap>>
    BY DEF EventRefused, reader, upward
  <2>3. QED
    BY <1>1, <1>2, <1>3, FlagTypesPrime, <2>1, <2>2 DEF TypeOK
<1>5. Released'
  BY <1>2 DEF Released
<1>6. QED
  BY <1>2, <1>4, <1>5, Still DEF EventRefused

LEMMA EventConnectedKeeps == IInv /\ EventConnected => IInv'
<1> SUFFICES ASSUME IInv, EventConnected PROVE IInv'
  OBVIOUS
<1>1. TypeOK /\ Flags /\ trap = "none" /\ outq \in Nat
  BY FlagTypes DEF IInv, EventConnected, Calm, TypeOK
<1>2. kernel \in {"up", "closed"} /\ kernel' = kernel
  BY DEF EventConnected
<1>3. /\ outq' \in Nat /\ room' \in 0 .. SendBuffer /\ writeEvent' \in BOOLEAN
      /\ trap' \in {"none", "_dequeueMessagesToMetis"}
  BY <1>1, WriteTypes DEF EventConnected
<1>4. Flags'
  BY <1>1, <1>3 DEF EventConnected, connectionSucceeded, upward, Flags
<1>5. TypeOK'
  <2>1. notice' \in {"none", "CONNECTION_OPEN", "FORWARDER_NOT_AVAILABLE", "CONNECTION_CLOSED"}
    BY DEF EventConnected, connectionSucceeded
  <2>2. UNCHANGED <<avail, pos, nextMessage, received, busy, deque, up, dropped, downq, sent>>
    BY DEF EventConnected, reader, upward
  <2>3. QED
    BY <1>1, <1>2, <1>3, <1>4, FlagTypesPrime, <2>1, <2>2 DEF TypeOK
<1>6. Released'
  BY <1>2 DEF Released
<1>7. QED
  BY <1>2, <1>5, <1>6, Still DEF EventConnected

LEMMA EventWriteKeeps == IInv /\ EventWrite => IInv'
<1> SUFFICES ASSUME IInv, EventWrite PROVE IInv'
  OBVIOUS
<1>1. TypeOK /\ Flags /\ trap = "none" /\ outq \in Nat
  BY FlagTypes DEF IInv, EventWrite, Calm, TypeOK
<1>2. /\ outq' \in Nat /\ room' \in 0 .. SendBuffer /\ writeEvent' \in BOOLEAN
      /\ trap' \in {"none", "_dequeueMessagesToMetis"}
  BY <1>1, WriteTypes DEF EventWrite
<1>3. UNCHANGED <<kernel, isConnected, busy>>
  BY DEF EventWrite
<1>4. Flags'
  BY <1>1, <1>2 DEF EventWrite, conn, upward, Flags
<1>5. TypeOK'
  <2>1. UNCHANGED <<avail, pos, nextMessage, received, deque, up, dropped, downq, sent, notice>>
    BY DEF EventWrite, reader, upward, conn
  <2>2. QED
    BY <1>1, <1>2, <1>3, <1>4, FlagTypesPrime, <2>1 DEF TypeOK
<1>6. Released'
  BY <1>3 DEF Released, IInv
<1>7. QED
  BY <1>3, <1>5, <1>6, Still DEF EventWrite

LEMMA EventReadKeeps == IInv /\ EventRead => IInv'
<1> SUFFICES ASSUME IInv, EventRead PROVE IInv'
  OBVIOUS
<1>1. TypeOK /\ Flags
  BY FlagTypes DEF IInv
<1>2. kernel' = kernel /\ kernel # "released" /\ busy' = "read"
  BY DEF EventRead, network, IInv, Released
<1>3. Flags'
  BY <1>1 DEF EventRead, conn, upward, Flags
<1>4. TypeOK'
  <2>1. UNCHANGED <<avail, room, pos, nextMessage, received, deque, up, dropped, downq, sent, outq,
                    notice, trap>>
    BY DEF EventRead, network, reader, upward, conn
  <2>2. QED
    BY <1>1, <1>2, <1>3, FlagTypesPrime, <2>1 DEF TypeOK
<1>5. Released'
  BY <1>2 DEF Released
<1>6. QED
  BY <1>2, <1>4, <1>5, Still DEF EventRead

LEMMA DowncallReadKeeps == IInv /\ DowncallRead => IInv'
<1> SUFFICES ASSUME IInv, DowncallRead PROVE IInv'
  OBVIOUS
<1>1. TypeOK /\ Flags /\ trap = "none" /\ outq \in Nat /\ outq + MsgSize \in Nat
  BY FlagTypes, Constants DEF IInv, DowncallRead, TypeOK
<1>2. /\ outq' \in Nat /\ room' \in 0 .. SendBuffer /\ writeEvent' \in BOOLEAN
      /\ trap' \in {"none", "_dequeueMessagesToMetis"}
  <2>1. CASE UNCHANGED <<events, blocked_down, outq, room, trap>>
    BY <1>1, <2>1 DEF TypeOK, Flags, events
  <2>2. CASE \E amount \in {outq, queueMessageToMetis} : dequeueMessagesToMetis(amount)
    BY <1>1, <2>2, WriteTypes DEF queueMessageToMetis
  <2>3. CASE dequeueMessagesToMetis(outq)
    BY <1>1, <2>3, WriteTypes
  <2>4. QED
    BY <2>1, <2>2, <2>3 DEF DowncallRead
<1>3. UNCHANGED <<kernel, isConnected>> /\ busy' \in {"no", "down"} /\ downq' \in Nat
  BY <1>1 DEF DowncallRead, events, TypeOK
<1>4. blocked_down' \in BOOLEAN /\ readEvent' \in BOOLEAN /\ edge' \in BOOLEAN
  <2>1. CASE UNCHANGED <<edge, blocked_down, readEvent>>
    BY <1>1, <2>1 DEF Flags
  <2>2. CASE blocked_down' = (outq > OutMax) /\ StateChange(isConnected)
    <3>1. blocked_down' \in BOOLEAN
      BY <2>2
    <3>2. readEvent' \in BOOLEAN
      BY <2>2 DEF StateChange
    <3>3. edge' \in BOOLEAN
      BY <2>2 DEF StateChange
    <3>4. QED
      BY <3>1, <3>2, <3>3
  <2>3. CASE UNCHANGED <<events, blocked_down, outq, room, trap>>
    BY <2>1, <2>3 DEF events
  <2>4. CASE updateBlockedDownState
    BY <2>1, <2>2, <2>4 DEF updateBlockedDownState
  <2>5. CASE UNCHANGED <<edge, isConnected, readEvent, blocked_down>>
    BY <2>1, <2>5
  <2>6. QED
    BY <2>3, <2>4, <2>5 DEF DowncallRead
<1>5. Flags'
  BY <1>1, <1>2, <1>3, <1>4 DEF DowncallRead, upward, Flags
<1>6. TypeOK'
  <2>1. UNCHANGED <<avail, pos, nextMessage, received, deque, up, dropped, sent, notice>>
    BY DEF DowncallRead, reader, upward
  <2>2. QED
    BY <1>1, <1>2, <1>3, <1>5, FlagTypesPrime, <2>1 DEF TypeOK
<1>7. Released'
  BY <1>3 DEF Released, IInv
<1>8. QED
  BY <1>3, <1>6, <1>7, Still DEF DowncallRead

LEMMA PutMessagesKeeps == ASSUME NEW n \in 1 .. MaxDown, IInv, PutMessages(n) PROVE IInv'
<1>1. TypeOK /\ Flags
  BY FlagTypes DEF IInv
<1>2. UNCHANGED <<kernel, isConnected, busy>>
  BY DEF PutMessages, network, events
<1>3. Flags'
  BY <1>1 DEF PutMessages, events, conn, upward, Flags
<1>4. TypeOK'
  <2>1. UNCHANGED <<avail, room, pos, nextMessage, received, deque, up, dropped, outq, notice, trap>>
    BY DEF PutMessages, network, reader, upward, conn
  <2>2. sent' \in 0 .. MaxDown /\ downq' \in Nat
    BY <1>1, Constants DEF PutMessages, TypeOK
  <2>3. QED
    BY <1>1, <1>2, <1>3, FlagTypesPrime, <2>1, <2>2 DEF TypeOK
<1>5. Released'
  BY <1>2 DEF Released, IInv
<1>6. QED
  BY <1>2, <1>4, <1>5, Still DEF PutMessages

LEMMA PauseKeeps == IInv /\ Pause => IInv'
<1> SUFFICES ASSUME IInv, Pause PROVE IInv'
  OBVIOUS
<1>1. TypeOK /\ Flags
  BY FlagTypes DEF IInv
<1>2. UNCHANGED <<kernel, isConnected, busy>>
  BY DEF Pause, network
<1>3. Flags'
  BY <1>1 DEF Pause, upward, Flags
<1>4. TypeOK'
  <2>1. UNCHANGED <<avail, room, pos, nextMessage, received, deque, up, dropped, downq, sent, outq,
                    notice, trap>>
    BY DEF Pause, network, reader, upward
  <2>2. QED
    BY <1>1, <1>2, <1>3, FlagTypesPrime, <2>1 DEF TypeOK
<1>5. Released'
  BY <1>2 DEF Released, IInv
<1>6. QED
  BY <1>2, <1>4, <1>5, Still DEF Pause

LEMMA NetworkKeeps == IInv /\ (Connect \/ Arrive \/ Drain \/ RemoteClose) => IInv'
<1> SUFFICES ASSUME IInv, Connect \/ Arrive \/ Drain \/ RemoteClose PROVE IInv'
  OBVIOUS
<1>1. TypeOK /\ Flags
  BY FlagTypes DEF IInv
<1>2. Network
  BY DEF Connect, Arrive, Drain, RemoteClose
<1>3. kernel # "released" /\ kernel' \in {"up", "refused", "closed"}
  BY DEF Connect, Arrive, Drain, RemoteClose
<1>4. Flags'
  <2>1. edge' \in BOOLEAN
    BY <1>1 DEF Connect, Arrive, Drain, RemoteClose, Flags
  <2>2. QED
    BY <1>1, <1>2, <2>1 DEF Network, conn, upward, Flags
<1>5. TypeOK'
  <2>1. avail' \in 0 .. Ends[Len(Stream)] /\ pos \in 0 .. avail' /\ room' \in 0 .. SendBuffer
    <3>1. avail \in Nat /\ avail <= Ends[Len(Stream)] /\ pos \in 0 .. avail /\ room \in 0 .. SendBuffer
      BY <1>1, Constants DEF TypeOK
    <3>2. avail' = avail \/ (avail < Ends[Len(Stream)] /\ avail' = avail + 1)
      BY DEF Connect, Arrive, Drain, RemoteClose
    <3>3. room' = room \/ (room < SendBuffer /\ room' = room + 1)
      BY DEF Connect, Arrive, Drain, RemoteClose
    <3>4. QED
      BY <3>1, <3>2, <3>3, Constants
  <2>2. UNCHANGED <<pos, nextMessage, received, busy, deque, up, dropped, downq, sent, outq, notice,
                    trap>>
    BY <1>2 DEF Network, reader, upward, conn
  <2>3. QED
    BY <1>1, <1>3, <1>4, FlagTypesPrime, <2>1, <2>2 DEF TypeOK
<1>6. Released'
  BY <1>3 DEF Released
<1>7. QED
  BY <1>2, <1>3, <1>5, <1>6, Still DEF Network


-----------------------------------------------------------------------------
(* Reading *)

(* Nothing is passed up. *)
LEMMA NothingUp ==
    ASSUME IInv, UNCHANGED <<received, upward>>, kernel' = kernel
    PROVE  Ordered' /\ Read' /\ Accounted'
<1>1. UNCHANGED <<received, deque, timer, up, dropped>>
  BY DEF upward
<1>2. Went' = Went /\ Waits' = Waits
  BY <1>1 DEF Went, Waits
<1>3. QED
  BY <1>1, <1>2 DEF IInv, Ordered, Read, Accounted

LEMMA DisconnectKeeps == IInv /\ Reading /\ Disconnect => IInv'
<1> SUFFICES ASSUME IInv, Reading, Disconnect PROVE IInv'
  OBVIOUS
<1>1. TypeOK /\ Flags
  BY FlagTypes DEF IInv
<1>2. kernel' = kernel /\ busy' = "no" /\ isConnected' = FALSE
  BY DEF Reading, network, Disconnect
<1>3. Flags'
  BY <1>1 DEF Reading, Disconnect, upward, Flags
<1>4. TypeOK'
  <2>1. notice' = "CONNECTION_CLOSED"
    BY DEF Disconnect
  <2>2. UNCHANGED <<avail, room, pos, nextMessage, received, deque, up, dropped, downq, sent, outq, trap>>
    BY DEF Reading, Disconnect, network, reader, upward
  <2>3. QED
    BY <1>1, <1>2, <1>3, FlagTypesPrime, <2>1, <2>2 DEF TypeOK
<1>5. Released'
  BY <1>2 DEF Released
<1>6. QED
  BY <1>2, <1>4, <1>5, Still DEF Disconnect

(* Where the reader stands. *)
LEMMA ReaderStands ==
    ASSUME IInv, Reading
    PROVE  /\ kernel # "released" /\ kernel' = kernel
           /\ pos \in Nat /\ avail \in Nat /\ pos <= avail /\ avail <= Ends[Len(Stream)]
           /\ received \in 0 .. Len(Stream) /\ Ends[received] \in Nat
           /\ nextMessage \in [remaining : 0 .. HeaderSize, body : Nat \cup {NoPacket}]
           /\ nextMessage.remaining \in 0 .. HeaderSize
           /\ pos = Ends[received] + Consumed
<1>1. kernel # "released" /\ kernel' = kernel
  BY DEF Reading, network, IInv, Released
<1>2. pos \in Nat /\ avail \in Nat /\ pos <= avail /\ avail <= Ends[Len(Stream)]
  BY Constants DEF IInv, TypeOK
<1>3. received \in 0 .. Len(Stream) /\ Ends[received] \in Nat
  BY EndsFacts DEF IInv, TypeOK
<1>4. QED
  BY <1>1, <1>2, <1>3 DEF IInv, TypeOK, FramingIsKept

(* A part of the stream is read, and nothing else changes. *)
LEMMA PartRead ==
    ASSUME IInv, Reading, UNCHANGED <<events, received, upward, notice, trap>>,
           busy' \in {"no", "read"}, pos' \in 0 .. avail,
           nextMessage' \in [remaining : 0 .. HeaderSize, body : Nat \cup {NoPacket}]
    PROVE  TypeOK' /\ Released'
<1>1. TypeOK /\ Flags
  BY FlagTypes DEF IInv
<1>2. UNCHANGED <<kernel, avail, room, downq, sent, outq, deque, up, dropped, isConnected>>
  BY DEF Reading, network, upward, events
<1>3. Flags'
  BY <1>1 DEF Reading, events, upward, Flags
<1>4. TypeOK'
  BY <1>1, <1>2, <1>3, FlagTypesPrime DEF TypeOK
<1>5. Released'
  BY <1>2, ReaderStands DEF Released
<1>6. QED
  BY <1>4, <1>5

LEMMA PartOfHeader ==
    ASSUME NEW p \in Nat, NEW e \in Nat, NEW h \in Nat, NEW r \in 1 .. h, NEW n \in Nat,
           n < r, p = e + (h - r)
    PROVE  r - n \in 1 .. h /\ p + n = e + (h - (r - n))
OBVIOUS

LEMMA HeaderKeeps == IInv /\ readPacketHeader => IInv'
<1> SUFFICES ASSUME IInv, readPacketHeader PROVE IInv'
  OBVIOUS
<1> DEFINE r == nextMessage.remaining
<1>1. Reading /\ r > 0
  BY DEF readPacketHeader
<1>2. /\ kernel # "released" /\ kernel' = kernel /\ r \in 1 .. HeaderSize
      /\ pos \in Nat /\ avail \in Nat /\ pos <= avail
      /\ received \in 0 .. Len(Stream) /\ Ends[received] \in Nat
      /\ nextMessage.body = NoPacket /\ pos = Ends[received] + (HeaderSize - r)
  <2>1. nextMessage.body = NoPacket /\ Consumed = HeaderSize - r
    BY <1>1 DEF IInv, Framing, Consumed
  <2>2. QED
    BY <1>1, <2>1, ReaderStands, Constants
<1>3. Header \in Nat /\ Header <= r /\ Header <= avail - pos
  BY <1>2, Constants DEF Header, Recv, SmallerOf
<1>4. ASSUME Header = r, NEW k \in Starting(pos + Header - HeaderSize), Stream[k].kind # "alien",
             nextMessage' = [remaining |-> 0, body |-> Stream[k].length - HeaderSize],
             pos' = pos + Header,
             UNCHANGED <<events, received, busy, upward, notice, trap>>
      PROVE  IInv'
  <2>1. k \in 1 .. Len(Stream) /\ Ends[k - 1] = Ends[received]
    <3>1. pos + Header - HeaderSize = Ends[received]
      BY <1>2, <1>4, Constants
    <3>2. QED
      BY <3>1, <1>4, StreamFacts DEF Starting
  <2>2. k = received + 1
    <3>1. k - 1 \in 0 .. Len(Stream) /\ received \in 0 .. Len(Stream)
      BY <1>2, <2>1, StreamFacts
    <3>2. ~ (Ends[k - 1] < Ends[received]) /\ ~ (Ends[received] < Ends[k - 1])
      BY <1>2, <2>1
    <3>3. ~ (k - 1 < received) /\ ~ (received < k - 1)
      BY <3>1, <3>2, EndsGrow
    <3>4. QED
      BY <2>1, <3>1, <3>3, StreamFacts
  <2>3. Stream[k].length \in Nat /\ Stream[k].length - HeaderSize \in Nat /\ Stream[k].length - HeaderSize > 0
    BY <2>1, StreamFacts
  <2>4. pos' \in 0 .. avail
    BY <1>2, <1>3, <1>4
  <2>5. nextMessage' \in [remaining : 0 .. HeaderSize, body : Nat \cup {NoPacket}]
    BY <1>4, <2>3, Constants
  <2>6. busy' = "read"
    BY <1>1, <1>4 DEF Reading
  <2>7. TypeOK' /\ Released'
    BY <1>1, <1>4, <2>4, <2>5, <2>6, PartRead
  <2>8. Framing'
    <3>1. nextMessage'.remaining = 0 /\ nextMessage'.body = Stream[k].length - HeaderSize
      BY <1>4
    <3>2. received' = received /\ received < Len(Stream)
      BY <1>2, <1>4, <2>1, <2>2, StreamFacts
    <3>3. Stream[received' + 1].kind # "alien"
          /\ nextMessage'.body \in 1 .. Stream[received' + 1].length - HeaderSize
      BY <1>4, <2>2, <2>3, <3>1, <3>2
    <3>4. QED
      BY <3>1, <3>2, <3>3 DEF Framing
  <2>9. FramingIsKept'
    <3>1. pos' = Ends[received] + HeaderSize
      BY <1>2, <1>4, Constants
    <3>2. Consumed' = HeaderSize
      BY <1>4, <2>2, <2>3, Constants DEF Consumed
    <3>3. nextMessage'.body # NoPacket /\ nextMessage'.remaining = 0
      BY <1>4, <2>3 DEF NoPacket
    <3>4. QED
      BY <1>4, <3>1, <3>2, <3>3 DEF FramingIsKept
  <2>10. QED
    BY <1>2, <1>4, <2>7, <2>8, <2>9, NothingUp DEF IInv
<1>5. ASSUME UNCHANGED <<events, reader, busy, upward, notice>>, trap' = "_setupNextPacket"
      PROVE  IInv'
  <2>1. Flags'
    BY <1>1, <1>5, FlagTypes DEF IInv, Flags, events, upward, Reading
  <2>2. UNCHANGED <<kernel, avail, room, pos, nextMessage, received, busy, deque, up, dropped, downq,
                    sent, outq, notice, isConnected>>
    BY <1>1, <1>5 DEF Reading, network, reader, upward, events
  <2>3. TypeOK'
    BY <1>5, <2>1, <2>2, FlagTypesPrime DEF IInv, TypeOK
  <2>4. QED
    BY <1>2, <1>5, <2>2, <2>3, Still DEF Released
<1>6. ASSUME Header < r, pos' = pos + Header, busy' = "no",
             nextMessage' = [nextMessage EXCEPT !.remaining = @ - Header],
             UNCHANGED <<events, received, upward, notice, trap>>
      PROVE  IInv'
  <2>1. nextMessage \in [remaining : 0 .. HeaderSize, body : Nat \cup {NoPacket}]
    BY <1>1, ReaderStands
  <2>2. nextMessage'.remaining = r - Header /\ nextMessage'.body = NoPacket
    BY <1>2, <1>6, <2>1
  <2>3. r - Header \in 1 .. HeaderSize
    BY <1>2, <1>3, <1>6, Constants, PartOfHeader
  <2>4. nextMessage' \in [remaining : 0 .. HeaderSize, body : Nat \cup {NoPacket}]
    BY <1>2, <1>6, <2>1, <2>3
  <2>5. pos' \in 0 .. avail
    BY <1>2, <1>3, <1>6
  <2>6. TypeOK' /\ Released'
    BY <1>1, <1>6, <2>4, <2>5, PartRead
  <2>7. Framing'
    BY <2>2, <2>3 DEF Framing
  <2>8. FramingIsKept'
    <3>1. Consumed' = HeaderSize - (r - Header)
      BY <2>2, <2>3 DEF Consumed
    <3>2. pos' = Ends[received] + (HeaderSize - (r - Header))
      <4>1. /\ pos \in Nat /\ Ends[received] \in Nat /\ HeaderSize \in Nat /\ r \in 1 .. HeaderSize
            /\ Header \in Nat /\ Header < r /\ pos = Ends[received] + (HeaderSize - r)
        BY <1>2, <1>3, <1>6, Constants
      <4>2. pos + Header = Ends[received] + (HeaderSize - (r - Header))
        <5> HIDE DEF r
        <5>1. QED
          BY <4>1
      <4>3. QED
        BY <1>6, <4>2
    <3>3. QED
      BY <1>6, <2>2, <2>3, <3>1, <3>2 DEF FramingIsKept
  <2>9. QED
    BY <1>2, <1>6, <2>6, <2>7, <2>8, NothingUp DEF IInv
<1>7. QED
  BY <1>1, <1>4, <1>5, <1>6, DisconnectKeeps DEF readPacketHeader, HeaderRead, PartialRead


-----------------------------------------------------------------------------
(* Passing packets up *)

LEMMA Appended ==
    ASSUME NEW S, NEW s \in Seq(S), NEW x \in S
    PROVE  /\ Append(s, x) \in Seq(S) /\ Len(Append(s, x)) = Len(s) + 1 /\ Len(s) \in Nat
           /\ DOMAIN s = 1 .. Len(s) /\ DOMAIN Append(s, x) = 1 .. Len(s) + 1
           /\ \A i \in 1 .. Len(s) : Append(s, x)[i] = s[i]
           /\ Append(s, x)[Len(s) + 1] = x
OBVIOUS

LEMMA AppendedSet ==
    ASSUME NEW S, NEW s \in Seq(S), NEW x \in S
    PROVE  {Append(s, x)[i] : i \in DOMAIN Append(s, x)} = {s[i] : i \in DOMAIN s} \cup {x}
<1>1. /\ DOMAIN s = 1 .. Len(s) /\ DOMAIN Append(s, x) = 1 .. Len(s) + 1 /\ Len(s) \in Nat
      /\ \A i \in 1 .. Len(s) : Append(s, x)[i] = s[i]
      /\ Append(s, x)[Len(s) + 1] = x
  BY Appended
<1>2. QED
  BY <1>1

(* Where the packets of the two sequences are. *)
LEMMA Places ==
    ASSUME TypeOK
    PROVE  /\ up \in Seq(DOMAIN Stream) /\ deque \in Seq(DOMAIN Stream)
           /\ Len(up) \in Nat /\ Len(deque) \in Nat
           /\ DOMAIN up = 1 .. Len(up) /\ DOMAIN deque = 1 .. Len(deque)
           /\ Len(deque) <= DequeMax /\ dropped \subseteq DOMAIN Stream
<1>1. up \in Seq(DOMAIN Stream) /\ deque \in Seq(DOMAIN Stream)
  BY DEF TypeOK
<1>2. QED
  BY <1>1, ElementsOf DEF TypeOK

LEMMA DroppedCounted ==
    ASSUME NEW n \in Nat, NEW D, D \subseteq 1 .. n
    PROVE  /\ IsFiniteSet(D) /\ Cardinality(D) \in Nat
           /\ Cardinality(D \cup {n + 1}) = Cardinality(D) + 1
<1>1. IsFiniteSet(1 .. n)
  BY FS_Interval
<1>2. IsFiniteSet(D)
  BY <1>1, FS_Subset
<1>3. n + 1 \notin D
  OBVIOUS
<1>4. QED
  BY <1>2, <1>3, FS_AddElement, FS_CardinalityType

LEMMA PassedUp ==
    ASSUME IInv, kernel # "released", kernel' = kernel, received' = received + 1,
           received + 1 \in DOMAIN Stream, SendUpStack(received')
    PROVE  /\ up' \in Seq(DOMAIN Stream) /\ deque' \in Seq(DOMAIN Stream)
           /\ Len(deque') <= DequeMax /\ dropped' \subseteq DOMAIN Stream /\ timer' \in BOOLEAN
           /\ Ordered' /\ Read' /\ Accounted'
<1> DEFINE k == received + 1
<1>1. /\ up \in Seq(DOMAIN Stream) /\ deque \in Seq(DOMAIN Stream)
      /\ Len(up) \in Nat /\ Len(deque) \in Nat
      /\ DOMAIN up = 1 .. Len(up) /\ DOMAIN deque = 1 .. Len(deque)
      /\ Len(deque) <= DequeMax /\ dropped \subseteq DOMAIN Stream
      /\ timer \in BOOLEAN
  BY Places, FlagTypes DEF IInv, Flags
<1>2. received \in Nat /\ k \in Nat /\ 1 .. k = (1 .. received) \cup {k} /\ k \notin 1 .. received
  BY StreamFacts DEF IInv, TypeOK
<1>3. /\ \A i \in DOMAIN deque : IsData(deque[i]) /\ deque[i] \in 1 .. received
      /\ \A i \in DOMAIN up : up[i] \in 1 .. received
      /\ dropped \subseteq 1 .. received
  BY DEF IInv, Read
<1>4. /\ Went \cup Waits \cup dropped = 1 .. received
      /\ Len(up) + Len(deque) + Cardinality(dropped) = received
  BY DEF IInv, Accounted
<1>5. Cardinality(dropped) \in Nat /\ Cardinality(dropped \cup {k}) = Cardinality(dropped) + 1
  BY <1>2, <1>3, DroppedCounted
<1>6. /\ \A i, j \in DOMAIN up : i < j /\ IsData(up[i]) /\ IsData(up[j]) => up[i] < up[j]
      /\ \A i \in DOMAIN up, j \in DOMAIN deque : IsData(up[i]) => up[i] < deque[j]
      /\ \A i, j \in DOMAIN deque : i < j => deque[i] < deque[j]
  BY DEF IInv, Ordered
<1>7. CASE Stream[k].kind = "control" /\ up' = Append(up, k) /\ UNCHANGED <<deque, timer, dropped>>
  <2>1. /\ up' \in Seq(DOMAIN Stream) /\ Len(up') = Len(up) + 1
        /\ DOMAIN up' = 1 .. Len(up) + 1
        /\ \A i \in 1 .. Len(up) : up'[i] = up[i]
        /\ up'[Len(up) + 1] = k
    BY <1>1, <1>7, Appended
  <2>2. ~ IsData(k)
    BY <1>7 DEF IsData
  <2>3. Ordered'
    <3>1. ASSUME NEW i \in DOMAIN up', IsData(up'[i]) PROVE i \in DOMAIN up /\ up'[i] = up[i]
      BY <1>1, <2>1, <2>2, <3>1
    <3>2. \A i, j \in DOMAIN up' : i < j /\ IsData(up'[i]) /\ IsData(up'[j]) => up'[i] < up'[j]
      BY <1>6, <3>1
    <3>3. \A i \in DOMAIN up', j \in DOMAIN deque' : IsData(up'[i]) => up'[i] < deque'[j]
      BY <1>6, <1>7, <3>1
    <3>4. QED
      BY <1>6, <1>7, <3>2, <3>3 DEF Ordered, IsData
  <2>4. Read'
    BY <1>1, <1>2, <1>3, <1>7, <2>1 DEF Read, IsData
  <2>5. Went' = Went \cup {k} /\ Waits' = Waits
    BY <1>1, <1>7, AppendedSet DEF Went, Waits
  <2>6. Accounted'
    BY <1>1, <1>2, <1>4, <1>5, <1>7, <2>1, <2>5 DEF Accounted
  <2>7. QED
    BY <1>1, <1>7, <2>1, <2>3, <2>4, <2>6
<1>8. CASE Stream[k].kind = "data" /\ Len(deque) < DequeMax /\ deque' = Append(deque, k)
           /\ timer' = (timer \/ Len(deque') = 1) /\ UNCHANGED <<up, dropped>>
  <2>1. /\ deque' \in Seq(DOMAIN Stream) /\ Len(deque') = Len(deque) + 1
        /\ DOMAIN deque' = 1 .. Len(deque) + 1
        /\ \A i \in 1 .. Len(deque) : deque'[i] = deque[i]
        /\ deque'[Len(deque) + 1] = k
    BY <1>1, <1>8, Appended
  <2>2. ASSUME NEW j \in DOMAIN deque'
        PROVE  (j \in DOMAIN deque /\ deque'[j] = deque[j]) \/ (j = Len(deque) + 1 /\ deque'[j] = k)
    BY <1>1, <2>1
  <2>3. Ordered'
    <3>1. \A i \in DOMAIN up, j \in DOMAIN deque' : IsData(up[i]) => up[i] < deque'[j]
      BY <1>2, <1>3, <1>6, <2>2
    <3>2. \A i, j \in DOMAIN deque' : i < j => deque'[i] < deque'[j]
      <4>1. SUFFICES ASSUME NEW i \in DOMAIN deque', NEW j \in DOMAIN deque', i < j
                     PROVE  deque'[i] < deque'[j]
        OBVIOUS
      <4>2. i \in DOMAIN deque /\ deque'[i] = deque[i]
        BY <1>1, <2>1, <2>2, <4>1
      <4>3. CASE j \in DOMAIN deque /\ deque'[j] = deque[j]
        BY <1>6, <4>1, <4>2, <4>3
      <4>4. CASE deque'[j] = k
        BY <1>2, <1>3, <4>2, <4>4
      <4>5. QED
        BY <2>2, <4>3, <4>4
    <3>3. QED
      BY <1>6, <1>8, <3>1, <3>2 DEF Ordered, IsData
  <2>4. Read'
    BY <1>1, <1>2, <1>3, <1>8, <2>2 DEF Read, IsData
  <2>5. Waits' = Waits \cup {k} /\ Went' = Went
    BY <1>1, <1>8, AppendedSet DEF Went, Waits
  <2>6. Accounted'
    BY <1>1, <1>2, <1>4, <1>5, <1>8, <2>1, <2>5 DEF Accounted
  <2>7. timer' \in BOOLEAN
    BY <1>8
  <2>8. Len(deque') <= DequeMax
    BY <1>1, <1>8, <2>1, Constants
  <2>9. QED
    BY <1>1, <1>8, <2>1, <2>3, <2>4, <2>6, <2>7, <2>8
<1>9. CASE dropped' = dropped \cup {k} /\ UNCHANGED <<deque, timer, up>>
  <2>1. Ordered' /\ Went' = Went /\ Waits' = Waits
    BY <1>6, <1>9 DEF Ordered, Went, Waits, IsData
  <2>2. Read'
    BY <1>2, <1>3, <1>9 DEF Read, IsData
  <2>3. Accounted'
    BY <1>1, <1>2, <1>4, <1>5, <1>9, <2>1 DEF Accounted
  <2>4. QED
    BY <1>1, <1>9, <2>1, <2>2, <2>3
<1>10. QED
  BY <1>7, <1>8, <1>9 DEF SendUpStack

LEMMA BodyKeeps == IInv /\ readPacketBody => IInv'
<1> SUFFICES ASSUME IInv, readPacketBody PROVE IInv'
  OBVIOUS
<1> DEFINE b == nextMessage.body
           n == Recv(b)
<1>1. Reading /\ nextMessage.remaining = 0
  BY DEF readPacketBody
<1>2. TypeOK /\ Flags
  BY FlagTypes DEF IInv
<1>3. /\ received \in Nat /\ received + 1 \in DOMAIN Stream /\ received < Len(Stream)
      /\ Stream[received + 1].length \in Nat /\ Stream[received + 1].length > HeaderSize
      /\ b \in 1 .. Stream[received + 1].length - HeaderSize
      /\ Stream[received + 1].kind # "alien"
  <2>1. received \in Nat /\ received < Len(Stream)
    BY <1>1, ReaderStands, StreamFacts DEF IInv, Framing
  <2>2. received + 1 \in 1 .. Len(Stream)
    BY <2>1, StreamFacts
  <2>3. QED
    BY <1>1, <2>1, <2>2, StreamFacts DEF IInv, Framing
<1>4. /\ kernel # "released" /\ kernel' = kernel
      /\ pos \in Nat /\ avail \in Nat /\ pos <= avail /\ Ends[received] \in Nat
      /\ pos = Ends[received] + (Stream[received + 1].length - b)
  <2>1. Consumed = Stream[received + 1].length - b
    BY <1>1 DEF Consumed
  <2>2. QED
    BY <1>1, <2>1, ReaderStands
<1>5. n \in Nat /\ n <= b /\ n <= avail - pos
  BY <1>3, <1>4, Constants, SMTT(30) DEF Recv, SmallerOf
<1>6. ASSUME n = b, pos' = pos + n, received' = received + 1, nextMessage' = initialNextMessage,
             SendUpStack(received'), UNCHANGED <<events, busy, notice, trap>>
      PROVE  IInv'
  <2>1. /\ up' \in Seq(DOMAIN Stream) /\ deque' \in Seq(DOMAIN Stream)
        /\ Len(deque') <= DequeMax /\ dropped' \subseteq DOMAIN Stream /\ timer' \in BOOLEAN
        /\ Ordered' /\ Read' /\ Accounted'
    BY <1>3, <1>4, <1>6, PassedUp
  <2>2. Flags'
    BY <1>1, <1>2, <1>6, <2>1 DEF Reading, events, Flags
  <2>3. UNCHANGED <<kernel, avail, room, downq, sent, outq, isConnected, busy, notice, trap>>
    BY <1>1, <1>6 DEF Reading, network, events
  <2>4. pos' \in 0 .. avail /\ received' \in 0 .. Len(Stream)
    BY <1>3, <1>4, <1>5, <1>6, StreamFacts, SMTT(30)
  <2>5. /\ nextMessage' \in [remaining : 0 .. HeaderSize, body : Nat \cup {NoPacket}]
        /\ nextMessage'.remaining = HeaderSize /\ nextMessage'.body = NoPacket
    BY <1>6, Constants DEF initialNextMessage
  <2>6. TypeOK'
    BY <1>2, <2>1, <2>2, <2>3, <2>4, <2>5, FlagTypesPrime DEF TypeOK
  <2>7. Framing'
    BY <2>5, Constants DEF Framing
  <2>8. FramingIsKept'
    <3>1. Ends[received + 1] = Ends[received] + Stream[received + 1].length
      BY <1>3, EndsFacts, StreamFacts
    <3>2. pos' = Ends[received']
      <4> HIDE DEF n, b
      <4>1. QED
        BY <1>3, <1>4, <1>6, <3>1
    <3>3. Consumed' = 0 /\ Ends[received'] \in Nat
      BY <1>3, <1>6, <2>4, <2>5, Constants, EndsFacts DEF Consumed
    <3>4. pos' = Ends[received'] + Consumed'
      BY <3>2, <3>3
    <3>5. QED
      BY <2>5, <3>4, Constants DEF FramingIsKept
  <2>9. Released'
    BY <2>3 DEF IInv, Released
  <2>10. QED
    BY <2>1, <2>6, <2>7, <2>8, <2>9 DEF IInv
<1>7. ASSUME n < b, pos' = pos + n, busy' = "no",
             nextMessage' = [nextMessage EXCEPT !.body = @ - n],
             UNCHANGED <<events, received, upward, notice, trap>>
      PROVE  IInv'
  <2>1. nextMessage \in [remaining : 0 .. HeaderSize, body : Nat \cup {NoPacket}]
    BY <1>1, ReaderStands
  <2>2. nextMessage'.remaining = 0 /\ nextMessage'.body = b - n
    BY <1>1, <1>7, <2>1
  <2>3. b - n \in 1 .. Stream[received + 1].length - HeaderSize /\ b - n \in Nat
    <3> HIDE DEF n, b
    <3>1. QED
      BY <1>3, <1>5, <1>7, Constants, SMTT(30)
  <2>4. nextMessage' \in [remaining : 0 .. HeaderSize, body : Nat \cup {NoPacket}]
    BY <1>7, <2>1, <2>3
  <2>5. pos' \in 0 .. avail
    BY <1>4, <1>5, <1>7
  <2>6. TypeOK' /\ Released'
    BY <1>1, <1>7, <2>4, <2>5, PartRead
  <2>7. Framing'
    BY <1>3, <1>7, <2>2, <2>3 DEF Framing
  <2>8. FramingIsKept'
    <3>1. Consumed' = Stream[received + 1].length - (b - n)
      BY <1>7, <2>2 DEF Consumed
    <3>2. pos' = Ends[received] + (Stream[received + 1].length - (b - n))
      <4> HIDE DEF n, b
      <4>1. QED
        BY <1>3, <1>4, <1>5, <1>7, SMTT(30)
    <3>3. nextMessage'.body # NoPacket
      BY <2>2, <2>3 DEF NoPacket
    <3>4. QED
      BY <1>7, <2>2, <3>1, <3>2, <3>3 DEF FramingIsKept
  <2>9. QED
    BY <1>4, <1>7, <2>6, <2>7, <2>8, NothingUp DEF IInv
<1>8. QED
  BY <1>1, <1>6, <1>7, DisconnectKeeps DEF readPacketBody, PartialRead


(* v is u with the first n of s behind it, and r the others of s. *)
IsMoved(S, s, u, n, v, r) ==
    /\ v \in Seq(S) /\ r \in Seq(S)
    /\ Len(v) = Len(u) + n /\ Len(r) = Len(s) - n
    /\ DOMAIN v = 1 .. Len(u) + n /\ DOMAIN r = 1 .. Len(s) - n
    /\ \A i \in 1 .. Len(u) : v[i] = u[i]
    /\ \A i \in 1 .. n : v[Len(u) + i] = s[i]
    /\ \A i \in 1 .. Len(s) - n : r[i] = s[n + i]

LEMMA Moved ==
    ASSUME NEW S, NEW s \in Seq(S), NEW u \in Seq(S), NEW n \in 0 .. Len(s)
    PROVE  IsMoved(S, s, u, n, u \o SubSeq(s, 1, n), SubSeq(s, n + 1, Len(s)))
<1> DEFINE v == u \o SubSeq(s, 1, n)
           r == SubSeq(s, n + 1, Len(s))
<1>1. Len(s) \in Nat /\ Len(u) \in Nat
  OBVIOUS
<1>2. /\ SubSeq(s, 1, n) \in Seq(S) /\ Len(SubSeq(s, 1, n)) = n
      /\ \A i \in 1 .. n : SubSeq(s, 1, n)[i] = s[i]
  BY <1>1
<1>3. /\ r \in Seq(S) /\ Len(r) = Len(s) - n
      /\ \A i \in 1 .. Len(s) - n : r[i] = s[n + i]
  BY <1>1
<1>4. /\ v \in Seq(S) /\ Len(v) = Len(u) + n
      /\ \A i \in 1 .. Len(u) : v[i] = u[i]
      /\ \A i \in 1 .. n : v[Len(u) + i] = SubSeq(s, 1, n)[i]
  BY <1>1, <1>2
<1> HIDE DEF v, r
<1>5. DOMAIN v = 1 .. Len(u) + n /\ DOMAIN r = 1 .. Len(s) - n
  BY <1>3, <1>4, ElementsOf
<1>6. QED
  BY <1>2, <1>3, <1>4, <1>5 DEF v, r, IsMoved

LEMMA DequeueKeeps == IInv /\ Dequeue => IInv'
<1> SUFFICES ASSUME IInv, Dequeue PROVE IInv'
  OBVIOUS
<1> DEFINE S == DOMAIN Stream
<1>1. /\ up \in Seq(S) /\ deque \in Seq(S)
      /\ Len(up) \in Nat /\ Len(deque) \in Nat
      /\ DOMAIN up = 1 .. Len(up) /\ DOMAIN deque = 1 .. Len(deque)
      /\ Len(deque) <= DequeMax /\ dropped \subseteq S /\ TypeOK /\ Flags
  BY Places, FlagTypes DEF IInv
<1>2. PICK n \in 0 .. Len(deque) :
         up' = up \o SubSeq(deque, 1, n) /\ deque' = SubSeq(deque, n + 1, Len(deque))
  <2>1. SmallerOf(DequeueMax, Len(deque)) \in 0 .. Len(deque)
    BY <1>1, Constants DEF SmallerOf
  <2>2. QED
    BY <2>1 DEF Dequeue
<1> HIDE DEF S
<1>3. /\ up' \in Seq(S) /\ deque' \in Seq(S)
      /\ Len(up') = Len(up) + n /\ Len(deque') = Len(deque) - n
      /\ DOMAIN up' = 1 .. Len(up) + n /\ DOMAIN deque' = 1 .. Len(deque) - n
      /\ \A i \in 1 .. Len(up) : up'[i] = up[i]
      /\ \A i \in 1 .. n : up'[Len(up) + i] = deque[i]
      /\ \A i \in 1 .. Len(deque) - n : deque'[i] = deque[n + i]
  <2>1. IsMoved(S, deque, up, n, up', deque')
    BY <1>1, <1>2, Moved
  <2>2. QED
    BY <2>1 DEF IsMoved
<1>4. UNCHANGED <<kernel, avail, room, edge, isConnected, readEvent, writeEvent, pos, nextMessage,
                  received, busy, dropped, downq, sent, outq, blocked_down, paused, notice, trap>>
  BY DEF Dequeue, network, events, reader, conn
<1>5. TypeOK'
  <2>1. timer' \in BOOLEAN
    BY DEF Dequeue
  <2>2. Flags'
    BY <1>1, <1>4, <2>1 DEF Flags
  <2>3. Len(deque') <= DequeMax
    BY <1>1, <1>3, Constants
  <2>4. QED
    BY <1>1, <1>3, <1>4, <2>2, <2>3, FlagTypesPrime DEF TypeOK, S
<1>6. FramingIsKept' /\ Framing' /\ Released'
  BY <1>4 DEF IInv, FramingIsKept, Framing, Released, Consumed
(* Each packet of the new sequences stood in one of the old ones. *)
<1>7. ASSUME NEW i \in DOMAIN up'
      PROVE  \/ i \in DOMAIN up /\ up'[i] = up[i]
             \/ /\ i > Len(up) /\ i - Len(up) \in DOMAIN deque /\ i - Len(up) <= n
                /\ up'[i] = deque[i - Len(up)]
  <2>1. CASE i <= Len(up)
    BY <1>1, <1>3, <2>1
  <2>2. CASE i > Len(up)
    <3>1. i - Len(up) \in 1 .. n /\ Len(up) + (i - Len(up)) = i
      BY <1>1, <1>3, <2>2
    <3>2. up'[i] = deque[i - Len(up)]
      BY <1>3, <3>1
    <3>3. QED
      BY <1>1, <2>2, <3>1, <3>2
  <2>3. QED
    BY <1>1, <1>3, <2>1, <2>2
<1>8. ASSUME NEW i \in DOMAIN deque'
      PROVE  n + i \in DOMAIN deque /\ deque'[i] = deque[n + i]
  BY <1>1, <1>3
<1>9. /\ \A i, j \in DOMAIN up : i < j /\ IsData(up[i]) /\ IsData(up[j]) => up[i] < up[j]
      /\ \A i \in DOMAIN up, j \in DOMAIN deque : IsData(up[i]) => up[i] < deque[j]
      /\ \A i, j \in DOMAIN deque : i < j => deque[i] < deque[j]
  BY DEF IInv, Ordered
<1>10. Ordered'
  <2>1. ASSUME NEW i \in DOMAIN up', NEW j \in DOMAIN up', i < j, IsData(up'[i]), IsData(up'[j])
        PROVE  up'[i] < up'[j]
    <3>1. CASE i \in DOMAIN up /\ up'[i] = up[i]
      BY <1>7, <1>9, <2>1, <3>1
    <3>2. CASE /\ i > Len(up) /\ i - Len(up) \in DOMAIN deque /\ i - Len(up) <= n
               /\ up'[i] = deque[i - Len(up)]
      <4>1. j \notin DOMAIN up
        BY <1>1, <1>3, <2>1, <3>2
      <4>2. j - Len(up) \in DOMAIN deque /\ up'[j] = deque[j - Len(up)]
        BY <1>7, <4>1
      <4>3. i - Len(up) < j - Len(up)
        BY <1>1, <1>3, <2>1
      <4>4. QED
        BY <1>9, <3>2, <4>2, <4>3
    <3>3. QED
      BY <1>7, <3>1, <3>2
  <2>2. ASSUME NEW i \in DOMAIN up', NEW j \in DOMAIN deque', IsData(up'[i])
        PROVE  up'[i] < deque'[j]
    <3>1. n + j \in DOMAIN deque /\ deque'[j] = deque[n + j]
      BY <1>8
    <3>2. CASE i \in DOMAIN up /\ up'[i] = up[i]
      BY <1>9, <2>2, <3>1, <3>2
    <3>3. CASE /\ i > Len(up) /\ i - Len(up) \in DOMAIN deque /\ i - Len(up) <= n
               /\ up'[i] = deque[i - Len(up)]
      <4>1. i - Len(up) < n + j
        BY <1>1, <1>3, <3>3
      <4>2. QED
        BY <1>9, <3>1, <3>3, <4>1
    <3>4. QED
      BY <1>7, <3>2, <3>3
  <2>3. ASSUME NEW i \in DOMAIN deque', NEW j \in DOMAIN deque', i < j
        PROVE  deque'[i] < deque'[j]
    <3>1. n + i < n + j
      BY <1>1, <1>3, <2>3
    <3>2. QED
      BY <1>8, <1>9, <3>1
  <2>4. QED
    BY <2>1, <2>2, <2>3 DEF Ordered, IsData
<1>11. Read'
  <2>1. /\ \A i \in DOMAIN deque : IsData(deque[i]) /\ deque[i] \in 1 .. received
        /\ \A i \in DOMAIN up : up[i] \in 1 .. received
        /\ dropped \subseteq 1 .. received
    BY DEF IInv, Read
  <2>2. \A i \in DOMAIN up' : up'[i] \in 1 .. received
    BY <1>7, <2>1
  <2>3. \A i \in DOMAIN deque' : IsData(deque'[i]) /\ deque'[i] \in 1 .. received
    BY <1>8, <2>1
  <2>4. QED
    BY <1>4, <2>1, <2>2, <2>3 DEF Read, IsData
<1>12. Went' \cup Waits' = Went \cup Waits
  <2>1. Went' \subseteq Went \cup Waits
    BY <1>7 DEF Went, Waits
  <2>2. Waits' \subseteq Waits
    BY <1>8 DEF Waits
  <2>3. Went \subseteq Went'
    <3>1. \A i \in DOMAIN up : i \in DOMAIN up' /\ up'[i] = up[i]
      BY <1>1, <1>3
    <3>2. QED
      BY <3>1 DEF Went
  <2>4. ASSUME NEW i \in DOMAIN deque PROVE deque[i] \in Went' \cup Waits'
    <3>1. CASE i <= n
      <4>1. Len(up) + i \in DOMAIN up' /\ up'[Len(up) + i] = deque[i]
        BY <1>1, <1>3, <3>1
      <4>2. QED
        BY <4>1 DEF Went
    <3>2. CASE i > n
      <4>1. i - n \in DOMAIN deque' /\ deque'[i - n] = deque[n + (i - n)] /\ n + (i - n) = i
        BY <1>1, <1>3, <3>2
      <4>2. QED
        BY <4>1 DEF Waits
    <3>3. QED
      BY <1>1, <3>1, <3>2
  <2>5. QED
    BY <2>1, <2>2, <2>3, <2>4 DEF Waits
<1>13. Accounted'
  <2>1. Len(up') + Len(deque') = Len(up) + Len(deque)
    BY <1>1, <1>3
  <2>2. QED
    BY <1>4, <1>12, <2>1 DEF IInv, Accounted
<1>14. QED
  BY <1>5, <1>6, <1>10, <1>11, <1>13 DEF IInv

LEMMA CloserKeeps == IInv /\ Closer => IInv'
<1> SUFFICES ASSUME IInv, Closer PROVE IInv'
  OBVIOUS
<1>1. TypeOK /\ Flags
  BY FlagTypes DEF IInv
<1>2. /\ kernel' = "released" /\ isConnected' = FALSE /\ busy = "no" /\ busy' = busy
      /\ deque' = <<>> /\ nextMessage' = initialNextMessage /\ outq' = 0 /\ downq' = 0
      /\ UNCHANGED <<avail, room, pos, received, up, dropped, sent, notice, trap>>
  BY DEF Closer, Calm, conn
<1>3. Flags'
  BY <1>1 DEF Closer, conn, Flags
<1>4. /\ nextMessage' \in [remaining : 0 .. HeaderSize, body : Nat \cup {NoPacket}]
      /\ nextMessage'.remaining = HeaderSize /\ nextMessage'.body = NoPacket
  BY <1>2, Constants DEF initialNextMessage
<1>5. DOMAIN deque' = {} /\ Len(deque') = 0 /\ deque' \in Seq(DOMAIN Stream)
  BY <1>2
<1>6. TypeOK'
  BY <1>1, <1>2, <1>3, <1>4, <1>5, FlagTypesPrime, Constants DEF TypeOK
<1>7. FramingIsKept' /\ Framing' /\ Released' /\ Accounted'
  BY <1>2, <1>4, Constants DEF FramingIsKept, Framing, Released, Accounted
<1>8. Ordered' /\ Read'
  BY <1>2, <1>5 DEF IInv, Ordered, Read, IsData
<1>9. QED
  BY <1>6, <1>7, <1>8 DEF IInv

LEMMA StutterKeeps == IInv /\ UNCHANGED vars => IInv'
<1> SUFFICES ASSUME IInv, UNCHANGED vars PROVE IInv'
  OBVIOUS
<1>1. UNCHANGED <<reader, upward, kernel, isConnected, busy>>
  BY DEF vars, network, events
<1>2. TypeOK'
  BY DEF IInv, TypeOK, vars, network, events, reader, upward, conn
<1>3. Released'
  BY <1>1 DEF IInv, Released
<1>4. QED
  BY <1>1, <1>2, <1>3, Still

-----------------------------------------------------------------------------
LEMMA StepKeeps == IInv /\ [Next]_vars => IInv'
<1> SUFFICES ASSUME IInv, [Next]_vars PROVE IInv'
  OBVIOUS
<1>1. CASE Worker
  BY <1>1, EventConnectedKeeps, EventWriteKeeps, EventReadKeeps, HeaderKeeps, BodyKeeps, DequeueKeeps,
     DowncallReadKeeps DEF Worker
<1>2. CASE \E what \in ErrorEvents : EventRefused(what)
  BY <1>2, EventRefusedKeeps
<1>3. CASE \E n \in 1 .. MaxDown : PutMessages(n)
  BY <1>3, PutMessagesKeeps
<1>4. CASE Opener \/ Pause \/ Closer
  BY <1>4, OpenerKeeps, PauseKeeps, CloserKeeps
<1>5. CASE Connect \/ Arrive \/ Drain \/ RemoteClose
  BY <1>5, NetworkKeeps
<1>6. CASE UNCHANGED vars
  BY <1>6, StutterKeeps
<1>7. QED
  BY <1>1, <1>2, <1>3, <1>4, <1>5, <1>6 DEF Next

(* The inductive invariant of a connection to the forwarder. *)
THEOREM Inductive == Spec => []IInv
BY InitIInv, StepKeeps, PTL DEF Spec

(* The variables keep their types: in particular no read asks for more     *)
(* than is missing, the deque stays within METIS_INPUT_QUEUE_MESSAGES, and *)
(* no write takes more than the output buffer holds.                       *)
THEOREM TypeCorrect == Spec => []TypeOK
<1>1. IInv => TypeOK
  BY DEF IInv
<1>2. QED
  BY <1>1, Inductive, PTL

(* _readFromMetis stands inside the packet after the last one it passed    *)
(* on, and knows how much of its header or body is missing, however recv   *)
(* cuts the stream and whatever happens between two reads.                 *)
THEOREM FramesStayWhole == Spec => []FramingIsKept
<1>1. IInv => FramingIsKept
  BY DEF IInv
<1>2. QED
  BY <1>1, Inductive, PTL

(* Every packet read is passed up, waits in the deque or was dropped, just *)
(* once, and data packets reach the stack in the order of the stream.      *)
THEOREM PacketsAreAccounted == Spec => []NothingLostOrReordered
<1>1. ASSUME IInv PROVE NothingLostOrReordered
  <2> DEFINE line == up \o deque
  <2>1. /\ up \in Seq(DOMAIN Stream) /\ deque \in Seq(DOMAIN Stream)
        /\ Len(up) \in Nat /\ Len(deque) \in Nat
        /\ DOMAIN up = 1 .. Len(up) /\ DOMAIN deque = 1 .. Len(deque)
    BY <1>1, Places DEF IInv
  <2>2. /\ Len(line) = Len(up) + Len(deque) /\ DOMAIN line = 1 .. Len(up) + Len(deque)
        /\ \A i \in 1 .. Len(up) : line[i] = up[i]
        /\ \A i \in 1 .. Len(deque) : line[Len(up) + i] = deque[i]
    BY <2>1
  <2>3. ASSUME NEW i \in DOMAIN line
        PROVE  \/ i \in DOMAIN up /\ line[i] = up[i]
               \/ i > Len(up) /\ i - Len(up) \in DOMAIN deque /\ line[i] = deque[i - Len(up)]
    <3> HIDE DEF line
    <3>1. CASE i <= Len(up)
      BY <2>1, <2>2, <3>1
    <3>2. CASE i > Len(up)
      <4>1. i - Len(up) \in 1 .. Len(deque) /\ Len(up) + (i - Len(up)) = i
        BY <2>1, <2>2, <3>2
      <4>2. line[i] = deque[i - Len(up)]
        BY <2>2, <4>1
      <4>3. QED
        BY <2>1, <3>2, <4>1, <4>2
    <3>3. QED
      BY <2>1, <2>2, <3>1, <3>2
  <2>4. {line[i] : i \in DOMAIN line} = Went \cup Waits
    <3>1. {line[i] : i \in DOMAIN line} \subseteq Went \cup Waits
      BY <2>3 DEF Went, Waits
    <3>2. ASSUME NEW i \in DOMAIN up PROVE i \in DOMAIN line /\ line[i] = up[i]
      BY <2>1, <2>2
    <3>3. ASSUME NEW i \in DOMAIN deque PROVE Len(up) + i \in DOMAIN line /\ line[Len(up) + i] = deque[i]
      BY <2>1, <2>2
    <3> HIDE DEF line
    <3>4. QED
      <4>1. Went \subseteq {line[i] : i \in DOMAIN line}
        BY <3>2 DEF Went
      <4>2. Waits \subseteq {line[i] : i \in DOMAIN line}
        BY <3>3 DEF Waits
      <4>3. QED
        BY <3>1, <4>1, <4>2
  <2> HIDE DEF line
  <2>5. ASSUME NEW i \in DOMAIN line, NEW j \in DOMAIN line, i < j,
               Stream[line[i]].kind = "data", Stream[line[j]].kind = "data"
        PROVE  line[i] < line[j]
    <3>1. /\ \A a, b \in DOMAIN up : a < b /\ IsData(up[a]) /\ IsData(up[b]) => up[a] < up[b]
          /\ \A a \in DOMAIN up, b \in DOMAIN deque : IsData(up[a]) => up[a] < deque[b]
          /\ \A a, b \in DOMAIN deque : a < b => deque[a] < deque[b]
      BY <1>1 DEF IInv, Ordered
    <3>2. IsData(line[i]) /\ IsData(line[j])
      BY <2>5 DEF IsData
    <3>3. CASE i \in DOMAIN up /\ line[i] = up[i]
      BY <2>3, <2>5, <3>1, <3>2, <3>3
    <3>4. CASE i > Len(up) /\ i - Len(up) \in DOMAIN deque /\ line[i] = deque[i - Len(up)]
      <4>1. j \notin DOMAIN up /\ i - Len(up) < j - Len(up)
        BY <2>1, <2>2, <2>5, <3>4
      <4>2. j - Len(up) \in DOMAIN deque /\ line[j] = deque[j - Len(up)]
        BY <2>3, <4>1
      <4>3. QED
        BY <3>1, <3>4, <4>1, <4>2
    <3>5. QED
      BY <2>3, <3>3, <3>4
  <2>6. kernel # "released" =>
           /\ {line[i] : i \in DOMAIN line} \cup dropped = 1 .. received
           /\ Len(line) + Cardinality(dropped) = received
    BY <1>1, <2>2, <2>4 DEF IInv, Accounted
  <2>7. QED
    BY <2>5, <2>6 DEF NothingLostOrReordered, line
<1>2. QED
  BY <1>1, Inductive, PTL
=============================================================================
