# A TLA+ verification of the CCNx RTA transport

Models, model-checking runs and proofs for `Libccnx-transport-rta`: the C library that gives an
application a socket-like connection to a CCNx forwarder. Paths below are relative to
`src/ccnx/transport/transport_rta/` unless they begin with `src/`.

## 1. The system

An application thread calls `Transport_Open/Send/Recv/Close` (`rta_Transport.c`). Everything else
runs in one worker thread (`core/rta_Framework_Threaded.c`), an event loop that executes commands
from the application threads and the callbacks of *protocol stacks*. A stack is a chain of
components, `API connector / flow control / TLV codec / forwarder connector`, joined by queues of
`TransportMessage`s; a *connection* is a pair of descriptors and a reference-counted record that
each component hangs its own state on.

| Part | State it keeps | Operations | Talks to others by |
|---|---|---|---|
| Transport, API threads (`rta_Transport.c`, `commands/rta_Command.c`) | list of stacks and its lock, the command ring | Create, Open, Close, PassCommand, Destroy, Send, Recv | a ring buffer of commands and a notifier; a socket pair per connection |
| Framework (`core/rta_Framework*.c`) | status machine, stacks, scheduler | start, shut down, the five commands, batch callback | callbacks of the event scheduler |
| Connections (`core/rta_Connection.c`, `rta_ConnectionTable.c`) | state, reference count, queue count, `blocked_down`, table | open, close, copy, destroy, block | references held by table, components and every message |
| Protocol stacks and component queues (`core/rta_ProtocolStack.c`, `rta_Component.c`) | queue pairs, component operations | open, close, destroy with drain, put and get of messages, state-change broadcast | queues, direct calls of `opener/closer/stateChange` |
| API connector (`connectors/connector_Api.c`, `rta_ApiConnection.c`) | socket queue of the application side, read event | read from and write to the application, pause | queues, `stateChange` |
| Vegas flow control (`components/Flowcontrol_Vegas/`) | per flow: circular window, congestion window, RTT estimators, timers | interest, cancel, content object, RTT and RTO timers, pause | queues; interests down, objects in order up |
| TLV codec (`components/component_Codec_Tlv.c`, `codec_Signing.c`) | codec and signer per connection | encode, decode | queues |
| Metis connector (`connectors/connector_Forwarder_Metis.c`) | socket, read and write event, packet being read, deque and its timer, output buffer | connect, read loop, write, block down, close | TCP to the forwarder, queues, `blocked_down` |
| Local connector (`connectors/connector_Forwarder_Local.c`) | a local socket with its input buffer, `connected` | open, events, read loop framed by a header in the stream, write, acknowledge control requests | a PF_LOCAL socket, queues |
| Test forwarder (`src/ccnx/transport/test_tools/bent_pipe.c`) | slots of clients: length of the message begun, delayed queue with counters and a timer; status flags of its thread | accept, read, reflect to the others at once or delayed, start, stop, destroy | PF_LOCAL sockets, a condition variable |
| Configuration (`config/`, `src/ccnx/transport/common/ccnx_*Config.c`) | JSON documents, one part per component | build, read | the documents are the arguments of Open |
| Control plane and notifications (`src/ccnx/api/control/`, `src/ccnx/api/notify/`) | one sequence counter per process; documents | build, read, copy and compare values, requests, responses, acknowledgements, status | messages of a connection in both directions |
| Testing component, statistics, commands' records, message containers, traffic tools | counters and records | count, build, print | values |

What is hard here, and what would be correct:

* **Flow control.** Answers arrive lost, duplicated, late and out of order, while a ring of
  entries wraps, the congestion window shrinks below what is outstanding, and the end of the stream
  is announced by hints that need not hold. *Correct*: the chunks go up in order from the first, once each, the
  ring holds the segments from `starting_segnum` on and nothing else, a session always has
  something outstanding, and it ends at the real end.
* **Connections.** A close finds messages in six queues, in the window and in a deque, and
  callbacks already scheduled. The last of many holders frees the connection and its descriptors,
  whose numbers the kernel then hands out again. *Correct*: counts equal holders, nothing of a closed
  connection moves any more, a descriptor belongs to one connection, no connection outlives its
  stack, every closed connection is freed.
* **API threads and worker.** The ring has one writer by design, a limit of 128, and drops what does
  not fit; only the list of stacks is locked; the notifier is paused during a batch. *Correct*:
  no assertion of the worker fails, the list agrees with the worker, no wake-up is lost, Destroy
  returns and leaves nothing.
* **API connector and the application's calls.** Pointers to counted messages cross a socket pair that
  several threads write and read while the worker pauses, blocks, closes and drains it. *Correct*: a
  pointer has a reference wherever it is, messages keep their order however reads are cut, nobody is
  left waiting by a close.
* **Round trip times.** Estimators by shifts in unsigned ticks, a base that a filter moves up, a
  sampling period that doubles, shrinks and is cut, and one timer for two deadlines. *Correct*: no
  subtraction goes below zero, the estimators stay within the samples, no deadline is missed.
* **Local sockets and the bent pipe.** Messages framed by their own header, cut anywhere, in slots
  that clients leave and others take; counters kept by hand; a timer per queue started at its first
  packet. *Correct*: both readers stay at the beginning of messages, every message that one client writes
  reaches all the others, once and in order, counters describe queues, no queue waits without a timer,
  nothing but its use aborts the pipe, Start and Stop return.
* **Control plane.** Documents built by one function and read by another, in several components and
  another process; one counter numbers requests and acknowledgements alike; answers come out of
  order from three places. *Correct*: what is read is what was put in, an answer is matched with its
  request and no other, every request is answered, a connection opens as it was configured.
* **Metis connector.** An edge-triggered non-blocking socket: any split of the byte stream, any order
  of connect, refusal, data, close and full buffers. *Correct*: framing is kept, packets are passed
  once and in order or counted as dropped, whatever waits has an event on, what is blocked is
  unblocked.

The hazards of the code, each with its line, are in `PROJECT.json`.

## 2. The modules

| Module | Models | State and actions |
|---|---|---|
| `OrderedStream` | abstract: what a flow promises | the chunks passed up and the phase of the stream; Open, Deliver, Finish, Cancel |
| `VegasSession` | `vegas_Session.c`, the flow handling of `component_Vegas.c`, a lossy network | `session` is `struct vegas_session`; one action per handler: an interest, a repeated one, cancel, a received content object (whole: final chunk, window entry, in-order delivery, fast re-expression, new interests), the timer callback (whole: congestion avoidance and RTO), pause and blocking |
| `VegasSession_proofs` | | theorems about it |
| `VegasRtt` | the clocks of `vegas_Session.c`: `RunAlgorithmOnReceive`, the part of `CongestionAvoidance` and `LossBasedAvoidance` that moves the sampling period, `TimerCallback` | `base_RTT`, `min_RTT`, `SRTT`, `RTTVAR`, `RTO`, the period and the deadlines as distances from now; a sample, the callback of the timer, a tick |
| `VegasRtt_proofs` | | theorems about it |
| `DescriptorPool` | abstract: what a descriptor pair goes through | open, closing, released |
| `RtaConnection` | `rta_Connection.c`, `rta_ConnectionTable.c`, `rta_Component.c`, `rta_ProtocolStack.c`, `rta_Framework_Commands.c` and what every component does with messages | one action per command and per callback of a queue, timer or socket; a queue is the set of messages whose `place` it is |
| `RtaConnection_proofs` | | theorems about it |
| `RtaTransport` | `rta_Transport.c`, `rta_Framework_Threaded.c`, the command callback | a program counter per API thread, the ring, the notifier; the worker executes one command per step |
| `RtaTransport_proofs` | | theorems about it |
| `MetisConnector` | one connection of `connector_Forwarder_Metis.c` and its socket | bytes are units and a packet is a length and a kind; the read loop is one step per `recv` |
| `MetisConnector_proofs` | | theorems about it |
| `InductionOnSets` | | lemmas that the proofs share: induction over the naturals for a set, and definition by recursion on an interval |
| `ApiConnection` | one connection's socket pair: `rtaTransport_Send`, `Recv` and `Close`, `connector_Api.c`, `rta_ApiConnection.c`, the drain and the end of a connection in `rta_Framework_Commands.c` | a program counter per application thread (select, then write or read), the pointers in the kernel and in the output buffer, the references to each message; the worker reads a batch per step |
| `ApiConnection_proofs` | | theorems about it |
| `LocalSocket` | external: PF_LOCAL sockets | the units in both directions and the state of both ends |
| `LocalConnector` | `connector_Forwarder_Local.c` | per connection: open, connect and error events, the read loop (one message per step), a write, pause, close |
| `BentPipe` | `bent_pipe.c` | per slot: what was read, the length of the message begun, the delayed queue, its counters and timer; the thread, its flags and the calls of its user |
| `LocalPipe` | both together | the composition and its properties |
| `LocalPipe_proofs` | | theorems about it |
| `Json` | external: the documents of libparc | an object is a sequence of pairs; a lookup finds the first |
| `CpiValues` | addresses, interfaces, tunnels, connections, routes, listeners (`cpi_*.c`) | each value is a record; operators that build, copy, compare, write and read it |
| `CpiMessages` | `controlPlaneInterface.c`, `cpi_ControlMessage.c`, `cpi_ControlFacade.c`, `cpi_Acks.c`, `cpi_Forwarding.c`, `cpi_ManageLinks.c`, `cpi_CancelFlow.c`, `notify_Status.c` | requests, responses, acknowledgements, notifications; how each is told from the others and read |
| `StackConfig` | `config/*.c`, `ccnx_StackConfig.c`, `ccnx_ConnectionConfig.c`, the configuration of `rta_ProtocolStack.c` | operators that build and read configurations; the queue pairs of a stack, component by component |
| `ControlPlane` | who handles control messages: the API connector, Vegas, the two forwarder connectors, the Metis forwarder and the users | per connection: its stack, the queue of each handler and what its user made and waits for; one action per callback |
| `MC...` | | streams, configurations, and requests for TLC |

`MCControlPlane` also states, as the assumption `ValuesSurvive` that TLC evaluates, that values of every
kind come back from their documents and copies as they went in, and that comparisons tell different
values apart: this reaches the operators that no message of the run needs.

How they fit together: `VegasSession` implements `OrderedStream` and `RtaConnection` implements
`DescriptorPool`, both by a refinement mapping that a run checks. `LocalPipe` composes the two ends
of the local sockets, and `ControlPlane` the documents, the configuration and the components that
look at them. The other detailed modules meet at interfaces where each makes a choice that another
one resolves: `RtaConnection` lets a component hold, pass or destroy a message, which is what
`VegasSession` and `MetisConnector` decide; `RtaTransport` lets a closed connection release its
descriptors at once or later (`Release`), which is `RtaConnection`'s reference count;
`VegasSession.BlockDown` is what `MetisConnector` does with `blocked_down`;
`MetisConnector.PutMessages` stands for the stack above it; `ApiConnection.DowncallRead` and
`UpcallRead` are `RtaConnection.ApiDowncallRead` and `ApiUpcallRead` with the messages' contents and
order, and its `StackDone` stands for the components below; `VegasSession` takes from `VegasRtt`
that a round trip time is not below the base (`BaseIsLeast`); `LocalConnector.Pause` is the state
that `ApiConnection` sets; `ControlPlane` passes control messages through the queues of
`RtaConnection` at once and in order.

Conventions. A failed `assert` or a `trap...` aborts the process: the variable `trap` (or `aborted`)
names the function and no action is enabled afterwards. An operator named `Op_Suffix` with a
comment "Mutant" is a plausible bug in `Op`; nothing uses it, it is the material for showing that a
property can fail. Definitions keep the names of the C functions and fields.

### Abstractions, and why they keep what matters

* *Vegas.* RTT samples are a small set (`Rtts` = 1, 2, 40) chosen so that all four branches of the
  time-based rule are taken; the time of a segment relative to the last adjustment is kept as the set
  `fresh`. Alpha, beta and gamma are the code's. The network keeps up to `MaxCopies` answers per
  segment and answers in any order. `fc_window_entry.segnum` and the `valid` flag are kept, because
  `vegasSession_GetWindowEntry` checks them.
* *Connections.* A callback reads its whole queue (as the C loops do), so order inside a queue is
  not represented. What a component decides by content is a choice. `blocked_up` is left out since
  nothing in the source sets it.
* *Transport.* A put into the ring takes two steps, so that two writers can overlap. Two overlapping
  writers may lose one command, which is what a one-writer ring may do. Stack configurations are
  compared by identity (the code by hash).
* *Metis.* Packets are well formed or of another version (`alien`), and the code traps on the latter.
  The event library reports an event when the kernel has news and may report again what is still
  there; only the former is fair. What it reports for a refused connect is a constant
  (`ErrorEvents`), because the source's comment and the handler disagree about it. A write to a full
  socket returns -1, as `evbuffer_write` does for would-block.

* *Clocks.* A deadline is its distance from now, which is how the code looks at one (`now - deadline`
  with a sign), so runs do not end when a counter does. The number of samples of a period is kept up
  to three: the code compares it with two.
* *Local sockets.* A byte is a unit that knows its client, message and place, so a reader that stands
  at the wrong place is seen; a header read from units that are none yields any length. A direction of
  a socket is one sequence, the buffer of its writer included, and a read takes any part of it.
* *Bent pipe.* The deadlines of a queue are kept as waits. Whether a packet is lost is a choice, as
  in the code it is a random number. The length from which `single_read` refuses a message (64000 in the
  code) is the constant `MsgLimit`. The signals masked around a write are left out.
* *Control plane.* A document is the sequence of its pairs; conversions to text (base 64, URI, names of
  types) are tables or constructors undone by their inverses only. A message carries what its sender
  meant beside its document; no handler looks at that, the properties compare the two. A stack is
  followed through the queue pairs its configuration produced, so a wrong pair loses messages.
* *API connector.* A pointer is read and written whole: the code writes and reads eight bytes at a
  time, and a local socket does not split so short a write. The timeout of a call is a choice made
  while it finds nothing, or no room. Two rules of the application are assumed, both stated in the
  module's header.

## 3. The runs

Every run is `tlc -config <run>.cfg <module>.tla`. `CHECK_DEADLOCK FALSE` everywhere: each system
may stop, when the session, transport or connection is over, when an assertion fails, or when a
bound is reached. Every module has a type invariant `TypeOK` (the documents of the control plane have
none: they are what the functions build); those of the two Vegas modules,
`RtaConnection`, `RtaTransport`, `MetisConnector`, `ApiConnection` and `LocalPipe` are proved, the others are checked by adding them to a
run, and are kept for changes to the modules.

| Run | Module | States | Shows |
|---|---|---|---|
| `VegasOrder` | `MCVegasSession` | 12 291 | with the end announced by the last chunk only: the ring is consistent, nothing traps, what is next in order is never held back, and (fair) every session finishes |
| `VegasReopen` | `MCVegasSession` | 9 380 | with cancelled, repeated and reopened flows, early hints, pause and blocking: whatever chunk the interest names, delivery is in order from 0, as in `OrderedStream` (section 4, `VegasBegin`, says what that means for a flow asked to begin later) |
| `VegasRtt` | `VegasRtt` | 281 588 | the base stays below every sample it is compared with, the estimators within the samples, and no deadline is overdue by more than a period and the lateness of the event loop |
| `ConnLife` | `RtaConnection` | 178 069 | references and queue counts are their holders, an open connection is wired, blocking follows what waits, nothing of a closed connection moves or outlives its stack, in every order of commands and callbacks of two stacks; refinement of `DescriptorPool`; and (fair) a closed connection is freed |
| `TransportSafe` | `RtaTransport` | 910 023 | no assertion of the worker fails, list and worker agree, Destroy leaves nothing; and (fair) no wake-up is lost: an opened descriptor is served and Destroy returns |
| `MetisConnection` | `MCMetisConnector` | 268 694 | framing, order, drops, and (fair) packets go up and output drains |
| `ApiMessages` | `ApiConnection` | 687 840 | references, order and pauses in both directions, and (fair) a close gives the descriptors back and brings every thread home |
| `LocalPipe` | `MCLocalPipe` | 517 080 | both readers stay at message boundaries, every message taken from one client goes to all the others and none is dropped on its way, in the order they were written, counters describe the queues, the head of a queue is timed, nothing but its use and a message that is too long aborts the process, and (fair) streams drain and Start and Stop return |
| `ControlPlane` | `MCControlPlane` | 93 842 | answers find their requests, every configuration opens as it was meant, and (fair) every request is answered |
| `VegasStall`, `VegasBegin`, `MetisBlocked` | | | the findings of section 4 |

### Bounds, and why they are enough

* `VegasOrder`: a stream of five chunks with `MaxCwnd` 8, two answers per segment in the network.
  The window doubles, is reduced, and its tail passes the end of the ring; the congestion window stays
  below the ring's size, where the ring is sound (`VegasFull`, section 4, is about the rest).
  `VegasReopen`: three chunks, a ring of four, which wraps at once, and two sessions of one name so
  that answers to the first reach the second. The interest names chunk 1 (`FromChunk1`), in
  `VegasBegin` too.
* `VegasRtt`: samples of 1, 3 and 8 ticks below, between and above the initial period (2) and its limit
  (6), so that each of `min`, the doubling, the cut and the filter decides; 8 is where the shifts by
  eight begin to count. Timeouts are looked at up to `MaxRto`, twice the longest sample. Nothing else
  is cut: the proofs (section 5) have no bound.
* `ConnLife`: two stacks, two connections, two descriptor pairs and two messages are the fewest that
  let a descriptor be reused while a message of its former connection is still queued, and one stack
  be destroyed while the other works. `DequeueMax` 1 (6 in the code) makes
  the deque need its timer twice. No symmetry is used, since liveness is checked in the same run.
* `TransportSafe`: two threads, two configurations and two descriptors; a ring of 8 does not fill
  under these (the ring of 128 of the code does under more calls, see `TransportFull`). `SerialCalls` says
  what the code needs of its users: Close and PassCommand are not
  called while another thread is in a call. `ReopenDestroyed = FALSE` likewise.
* `MetisConnection`: five packets, `HeaderSize` 2 and bodies of one and two, so that headers and
  bodies are cut; two control orders; a deque of 2 for three data packets, so it fills; a send
  buffer of one unit and messages of two, so that a message never fits; `OutMax` 0, so the third message meets a
  blocked connection. `MaxDown` bounds the messages from above.
* `ApiMessages`: two threads that send, one of which also receives; three messages down for a socket of
  two, so that it fills and a write waits behind another sender's; one of the three is a pause, which is
  read before, between and after the others; two messages up, one of them control. Each message is
  sent once, so an order is visible.
* `LocalPipe`: three clients for two slots, so that a slot is used again; a client that sends two messages
  of three units, cut everywhere, and a third whose body of two is as long as `MsgLimit` and is refused;
  a queue that takes two packets (`Buffers` 7), and waits of one or two ticks, so that the first in the queue is not the first due. The one
  that sends is the one that closes, when its messages were read (`Graceful`) and nothing is queued for
  it; section 4 has the other cases (`PipeCut`). `Opened` orders the opening: the clients that
  only receive differ in nothing else.
* `ControlPlane`: one connection over Vegas to the local connector and one to the Metis forwarder, two
  requests out of sixteen, in every pair; the two may be of one user and overtake each other
  in its hands, or of both and share the counter. A flow is named by two components and a segment, the
  fewest that Vegas accepts (`component_Vegas.c:485`). A user with two signers shows which one is taken; lists of
  two interfaces and two connections show their order.

### Fairness, and why the code justifies it

* Callbacks of queues, timers and sockets are weakly fair: the event loop serves every pending
  event, and a callback runs to its end. In `ConnLife` a callback reads all of its queue and puts nothing
  back, so its weak fairness is written as what it comes to: while the scheduler runs, the queue is empty
  again and again. `VegasSession` asks this of the RTO timer, which starts
  itself again in every callback.
* `SF` of receiving each segment says that the network does not lose the answers to one segment for
  ever; without it no protocol finishes.
* API threads finish the calls they have begun (weak fairness of `Caller`), and need not make any.
* In `ApiMessages` the worker takes a step as long as it has one, and so does some thread of the application
  whose call can go on or whose time may be up. Nobody has to send, receive or close.
* `LocalPipe`: a step is taken as long as a callback of either loop, the return of a call or a tick is
  there to be taken (weak fairness of `Progress`, with its guard `CanStep` written out; TLC confirmed that
  `CanStep` is `ENABLED <<Progress>>_vars`). No order between them is assumed; each such step brings its queue or deadline nearer,
  so none of them can go on for ever alone.
* `ControlPlane`: weak fairness of `Callbacks`, with its guard (`CanStep`: some queue is not empty) written
  out. Nobody has to open, ask or send, and the socket need not connect.
* `Drain` is fair: the forwarder goes on reading. Nothing forces a forwarder to send, accept or close.

## 4. Where the code and what it says of itself disagree

Each run below checks one property, and TLC finds it violated; the quotation is in `PROJECT.json`.

* `VegasStall` (`RtoFindsSegment`): the end of the stream is known early and the answers come out of
  order, so the window empties with the final segment never asked for. `SendMoreInterests` asks only
  while `starting_segnum < final_segnum`; the RTO then finds no entry and fails its assertion.
* `VegasBegin` (`StartsWhereAsked`): an interest that ends in a segment number begins its flow there, say
  `component_Vegas.c:76-78` and the parameter `begin` of `vegasSession_Create` (`vegas_private.h:86`). The
  function sets `starting_segnum` to 0 and does not look at `begin` (`vegas_Session.c:1051`), so the flow is
  delivered from chunk 0. `InOrderDelivery` and `OrderedStream` describe what the code does: order, no
  gap and no repetition from chunk 0.
* `MetisBlocked` (`BlockingEnds`): the down direction is unblocked only when another message comes
  down, and none comes because it is blocked.

Further configurations, kept beside the runs, each showing one more disagreement when run with the
module of its group (TLC reports a violation in each):

| Configuration | Property | What it shows |
|---|---|---|
| `VegasFull` | `TailAlwaysFree` | the congestion window may grow to `FC_MAX_CWND`, the size of the ring; a full ring looks empty (`tail == head`) and the next interest finds its entry in use (the assertion of `vegas_Session.c:887`) |
| `VegasLate` | `OutsideWindowIsDropped` | a late answer to a cancelled flow fails the assertion of `vegasSession_GetWindowEntry`; `component_Vegas.c:99` says such objects are dropped |
| `VegasExtended` | `FinishedMeansComplete` | an early hint of the end that arrives late ends the stream in the middle; `vegas_Session.c:1212` says hints are not binding |
| `VegasDrift` | `SmoothedIsAMean` | SRTT is moved by the distance of SRTT and the sample, not by the sample: with a steady round trip time of 64 it falls from 64 to 56, and on to half; `vegas_Session.c:450` says "as per RFC6298" |
| `ConnLeak` | `NothingOutlivesStack` | a packet that does not decode is neither passed on nor destroyed (`component_Codec_Tlv.c:163`), so its connection and descriptors outlive even the stack |
| `TransportRace` | `NoAbort` | Close and PassCommand write to the one-writer ring without the lock Open holds (`rta_Transport.c:573`); a command is lost and the worker fails an assertion, although `rta_Transport.h:72` calls the transport thread safe |
| `TransportFull` | `NoAbort` | a full ring drops a command and reports success (`rta_Transport.c:193`) |
| `TransportStuck` | `DestroyReturns` | a dropped shutdown command: Destroy waits for ever (`rta_Transport.c:231`) |
| `ApiLeak` | `NothingLeaks` | messages the application sent and the connector has not read when the connection is closed are never released (`rta_ApiConnection.c:181` says the queues are drained and all messages released) |
| `ApiRecv` | `RecvDoesNotWait` | with two threads in Recv, one waits in `read` although its `select` found a message, whatever its timeout |
| `MetisFull` | `FullSocketIsWaitedFor` | a write without room is taken for an error: the second message of a batch aborts the process (`connector_Forwarder_Metis.c:1353` means to wait for the write event) |
| `MetisRefused` | `RefusalIsReported` | a refusal that the library reports as a write event is reported to nobody (`connector_Forwarder_Metis.c:457`, `:902`) |
| `MetisClosed` | `CloseIsNoticed` | a close that came together with half a packet is not noticed: the loop stops at the partial read and the edge is used up |
| `PipeCut` | `FramesAreWhole` | a client that closes in the middle of a message leaves its length in the slot (`deallocate_connection`), and the messages of the next client of the slot are cut by it |
| `ControlEarly` | `Answered` | a request sent before the socket to Metis is connected is dropped and answered by nobody |
| `EtherRemove` | `DecodesAsBuilt` | a request to remove an Ethernet connection is not decoded: `cpi_ConnectionEthernet.c:289` compares with `strcasecmp` and forgets the `== 0`, so every other key is |

A passed DESTROY STACK leaves the stack in the list of the transport, and the next Open aborts: `NoAbort`
fails in `TransportSafe` with `ReopenDestroyed = TRUE`, where the application does that.

A client that closes with packets queued for it leaves them and their count in its slot, so the timer of the
next client's queue is never started (the count decides, `bent_pipe.c:737`): `HeadIsTimed` fails in
`LocalPipe` with `Closers = {c2}` and `Opened <- InAnyOrder`.

`AbortsHaveCauses` names the traps of the bent pipe; `NoTrap` shows each in a trace. `single_read` asserts
that a message is shorter than 64000 (`bent_pipe.c:565`), while the local connector sends one of any length
(`connector_Forwarder_Local.c:485`): a longer one aborts the forwarder. With more
clients than slots open at once, `listener_cb` uses the slot `allocate_connection` returns without asking
whether there was one; with `Reports <- AnyEvents`, an event with both bits, end and error, makes
`conn_errorcb` deallocate the client twice; with `MayRestart = TRUE`, the second Start finds `killme` as the last
Stop left it, its thread ends at once, and Stop asserts that it runs (`bent_pipe.c:367`). Two more oddities are in the operators, at their comments: `cpiInterfaceSet_Equals` compares an interface of
the second set with itself (`cpi_InterfaceSet.c:195`; the header says that equal sets have equal
interfaces), so it only tells sets of different sizes apart; and the search for the name of a queue goes one
past the table (`rta_ProtocolStack.c:454`, logging, not modelled).

## 5. What is proved

Seven modules hold the theorems (an eighth, `InductionOnSets`, lemmas they share), for every value of the constants that the assumptions of the modules
allow: any number of threads, connections, stacks, slots, messages, segments, any stream, any size of ring,
socket, deque and header, any delays, and any way a stream is cut into reads. The theorems about a run's properties are
listed in `PROJECT.json`. Each rests on an inductive invariant, with one lemma per action and the
arithmetic and the sequences in lemmas of their own. TLC checked the invariants of the proofs on the
instances of the runs before they were proved.

### Flow control (`VegasSession_proofs`)

* `TypeCorrect`. Besides the types it contains the limits of the congestion window (between 2 and
  `FC_MAX_CWND` whatever adjusts it) and of the slow-start threshold.
* `WindowIsConsistent`: the ring holds exactly the consecutive segments from `starting_segnum` on, each at
  its offset from the head, and every other entry is released.
* `DeliveryInOrder`: what has gone up is 0, 1, 2, ... without a gap or a repetition, and
  `starting_segnum` counts it.

These follow from

    IInv == TypeOK /\ WindowConsistent /\ InOrderDelivery /\ IdleSession

`WindowConsistent` needs the types of the ring's arithmetic; `InOrderDelivery` needs
`WindowConsistent`, because what goes up next is what the entries at the head hold, which must be the
segments from `starting_segnum` on; `IdleSession` (a session that is not active is a new one) is
needed for the steps that begin and end a session. The arithmetic of the ring is in the lemmas `Wrap`,
`SlotWraps`, `RingPosition` and `TailPosition`; the operators that move the window have a lemma each. These
theorems include a full ring: `TailIsFree` guards the step, and the step that finds it false is the
abort of `VegasFull` (section 4).

* `HeadIsEmpty` and `NothingIsHeldBack`: while the connection is not paused, the entry of the next chunk in
  order is empty, unless the ring is full and its size reads as zero; so `NothingHeldBack` holds as long as
  the ring never fills. `HeadInv` is the strengthening: a step that fills the head also forwards from it.
* `AssertionsHaveCauses`: `TrapCause` names, for each assertion of the session, what must have happened before:
  a repeated interest, an answer to an earlier session, a full ring, an empty window at the RTO. `AskedFor`
  (an answer is on its way only to a segment the session asked for) is the strengthening.
  `NoAssertionFails` follows: `NoTrap` for one session, no repeated interest, and a window that is neither
  full nor empty while it runs. `VegasLate` (a second session), `VegasFull` and `VegasStall` (an empty
  window) show the traps outside these hypotheses.
* `ImplementsStream`: a session implements `OrderedStream`, if the producer announces no wrong last chunk
  (`Honest`; `VegasExtended` is what happens otherwise). `FinalKnown` (what the session takes for the last
  chunk is the last chunk or nothing) is what `Finish` needs.

### Clocks (`VegasRtt_proofs`)

* `BaseStaysLeast`: the base is positive and not above the least sample of the
  period, so that the subtraction and division of the time-based rule, in unsigned ticks, are sound. The
  filter that moves the base up at the end of a period is why this takes an invariant.
* `EstimatesStayBounded`: SRTT and RTTVAR stay within the longest sample.
  `SmoothedBound` and `SmoothedVarBound` are the arithmetic of the shifts.
* `NoDeadlineIsMissed`: the one timer is set for the sampling period, yet a
  retransmission timeout is noticed within the longest period and the lateness of the loop.

The inductive invariant is

    IInv == TypeOK /\ TimersAgree /\ NoSampleYet /\ BaseIsLeast /\ SmoothedIsBounded

where `TimersAgree` says how far the timer may be behind each deadline (needed for the third theorem: a
callback sets the timer from deadlines that may both have passed) and `NoSampleYet` that a period without
samples has no least one.

### Connections (`RtaConnection_proofs`)

    IInv == TypeOK /\ RefsAreHolders /\ QueueCount /\ OpenIsWired /\ ReadsWhenUnblocked
              /\ Owned /\ Homed /\ OwnFds /\ LostOutlives

The first five are properties of `ConnLife`: `TypeCorrect`, `ReferencesBalance`, `QueuesAreCounted`,
`OpenStaysWired`, `ReadingFollowsBlocking`. Most handlers move messages and account for them by one operator,
`Account`; its lemma says that references and queue counts change by exactly the messages that change
hands, by the library's facts on cardinality. The others are what the handlers rely on: a message refers
to a connection as long as it exists (`Owned`), a connection that was opened has a stack and descriptors
(`Homed`), which are open and its own (`OwnFds`), and only a message lost in decoding keeps a connection beyond
its stack (`LostOutlives`). From it also

* `StackTakesItsConnections`: `NothingOutlivesStack`, where every packet decodes (`~ DecodeFails`; `ConnLeak` is
  the other case);
* `ClosedIsQuiet`: the action property `ClosedStaysQuiet`;
* `ImplementsPool`: the refinement of `DescriptorPool`, step by step.

### API threads and worker (`RtaTransport_proofs`)

However the threads race, `RaceInv` (types, arguments of the calls, ids given out once) is inductive, hence
`TypeCorrect`. The rest needs the rules the code needs of its users, `SerialCalls` and `~ ReopenDestroyed`,
and that no write finds the ring full (`NeverFull`); `TransportRace` and `TransportFull` show what
happens otherwise. Under these

    SafeInv == RaceInv /\ Serial /\ Lifecycle /\ NoTwice /\ Executable /\ Ordered /\ Numbered
                 /\ InCalls /\ Descriptors /\ Retired /\ Created /\ AfterStop /\ NoAbort

says what a command in the ring will find when the worker gets to it (`Executable`, `Ordered`), what each call
relies on until its command is written (`InCalls`), and where a descriptor is between Open and its release
(`Descriptors`). It gives `NoAssertionFails`, `ListIsServed` and `DestroyLeavesNothing`. `RingIsLargeEnough` does
without `NeverFull`: a ring with more room than one command per configuration and two per
descriptor is never full, since no command is in it twice. `TransportSafe` is such an instance (2 + 2·2 < 8).

### Metis connector (`MetisConnector_proofs`)

    IInv == TypeOK /\ FramingIsKept /\ Framing /\ Ordered /\ Read /\ Accounted /\ Released

gives `TypeCorrect`, `FramesStayWhole` (the read state stands inside the packet after the last one passed on)
and `PacketsAreAccounted` (`NothingLostOrReordered`): `Ordered` compares what went up, what waits in the deque and
what will be read; `Accounted` counts them with the drops. Where a packet ends in the stream is a recursive
function; its defining equation comes from `RecursionOnInterval` of `InductionOnSets`.

### The socket pair of a connection (`ApiConnection_proofs`)

    IInv == TypeOK /\ Calls /\ Down /\ Up /\ DownOrder /\ Draining /\ PointersAreAlive

gives `TypeCorrect`, `PointersStayAlive` and `OrderIsKept`. `Calls` and `Down` say that a message on its way down is
in one call, the socket or the stack, and once in it, so that each place accounts for one reference (`AliveStep`:
references change as messages change places). `Up` says that what was received, then the socket, then
the output buffer are the offered messages in their order, all of them while the connection is in use.
`DownOrder` says that what is on the stack is what `GoDown` lets through of all that was read: the lemma
`GoDownConcat` shows that the state the connector keeps between two batches (open, or paused) is all it
needs to know of the batches before. The loop over a batch (`Kept`) is a recursive function, and
`KeptFacts` and `KeptConcat` are proved by induction on sets of numbers.

### Local sockets and the bent pipe (`LocalPipe_proofs`)

The invariants are stacked, each kept by a step in which those before it hold.

    Base       == Typed /\ ThreadIsKnown /\ SlotsAreUsed /\ EndsAgree /\ QueuesAreCounted
    FramesKept == DownKept /\ UpKept /\ SlotsFull /\ QueuesCarry
    LinesRise  == ClientLines of every client and SlotLines of every slot

* `Base` holds whatever the users do. It says what a slot, its client's two ends, the reading of its input
  and the thread know of each other, and gives `LocalPipeTypes` and `LocalPipeCounts` (`CountsAgree`).
  `LocalPipeTimers`: a timer that is set stands at the deadline of a head, so `timer_cb` never finds its queue empty.
* `LocalPipeHeads` (`HeadIsTimed`) is for connections of which none that may close is sent anything (`OneWay`):
  a queue left in a slot has no timer, as section 4 shows.
* `FramesKept` is for connections that close only after the pipe has read what they wrote (`Graceful`; `PipeCut`
  is the other case). Every direction of a socket and every queue is a stream of whole messages; a slot that is
  not being read holds less than the message it begins with, which is why a length kept for the
  next read fits. It gives `LocalPipeFrames` (`FramesAreWhole`).
* `LocalPipeOrder` (`InOrder`): what `b` gets of `a` is in the order it was written, nothing twice, nothing of
  `b`'s own, and without delays no gap behind the first. `ClientLines` puts the messages of `a` that `b`
  has, that are on their way up to `b`, in its queue, and on their way down from `a` in one line, which rises
  to what `a` wrote last and, without delays, counts up to it. A slot keeps its queue for the
  client after, so each slot has such a line too (`SlotLines`), used or not; accepting a client joins the two.
* `LocalPipeDelivers` (`NothingIsLost`): with the order alone a pipe that reflects nothing would do. Each
  step leaves a line as it is, adds what `a` writes to its end, moves a message from what `a` has
  sent to what is passed on to `b`, or loses it where delays allow that (`LineGoes`, and `LinesGo` for all
  lines; every lemma of a step concludes it beside `LinesRise'`). `LineLosesNothing` reads the property off the
  sets of numbers in the line.
* `LocalPipeAborts` (`AbortsHaveCauses`): from `FramesKept`, the length that `single_read` goes by is that of the message it
  takes, so it refuses only one that is too long; from `SlotsAreUsed`, slots run out only when each serves an open
  client; and from `StopsAreAsked` (`killme` is set only by a stop, unless the pipe is started again), Stop finds the
  thread that it stops.

How sequences are cut and put together again is in lemmas of their own: `FlattenSeq`, `Messages` and `Numbers` of a
concatenation are the concatenation of those of its parts, proved by induction over sets of
numbers from the definition of the fold.

### What is only model-checked

`ControlPlane`: the values of its documents are what folds over lists of handlers and components compute, case by case, and
the runs and `ValuesSurvive` stand for that. All
liveness (the prover has no rules for fairness and `ENABLED`). The library's induction theorems take an operator as a
parameter, which the provers cannot instantiate; `InductionOnSets` derives induction for a set of numbers
from the library's well-founded relations, and that carried the proofs above.

## 6. Not modelled, and why

* Several flows of one connection: they share nothing but the connection's state.
* Signals that interrupt a `read` or `write` of the application, and partial reads of a pointer
  (`rta_Transport.c:498`): a socket pair of one process passes eight bytes whole.
* Encoding, decoding, signing: external libraries. The path of a failed decode is in `RtaConnection`, the choice
  of the signer in `StackConfig`.
* `src/ccnx/transport/common/transport.c`: one pointer to one transport and a count of its users. Two threads that both find
  it NULL (`transport.c:74`) make it twice and lose one, and one may use it before it is complete; there is no
  lock, and the model of that would say only this.
* The framework without a thread and its stepping (`rta_Framework_NonThreaded.c`, a test interface), and
  the tick timer, which is `VegasRtt.Tick`.
* The records of the commands and their copies: immutable values; how one travels is `RtaTransport`.
* Statistics, logging, printing and the text of JSON: no decision of the program reads them.
* The testing component, the traffic tools and the unit tests.
* The text of names and URIs, letter case (`strcasecmp` is equality) and key stores on disk.
* `ntohl` of an interface index beyond 2^31 is negative in `CpiValues` as in the `int` of the code; nothing depends on it.

The map names implementation lines. A large share of the repository's lines are headers (declarations and
their documentation), licences, accessors, assertions on arguments and printing, which no definition stands
for.

## 7. Plan

Done, in the order of importance: flow control and its proofs; connections and their messages; the
API threads and the worker; the Metis connector; the API connector and the application's calls; the
round trip times and their proofs; the local connector with the bent pipe; configuration, control plane and
notifications; the theorems of section 5. To come:

1. Theorems about `ControlPlane`: the matching of answers.
2. The commands of a framework without a thread, as a second scheduler of `RtaTransport`'s worker.
3. Two flows of one connection, with the table of sessions of `component_Vegas.c`.
