----------------------------- MODULE ControlPlane -----------------------------
(***************************************************************************)
(* The control plane of a process: users open connections with             *)
(* configurations, send requests down their stacks and read                *)
(* acknowledgements, responses and notifications.  A request is handled    *)
(* by the API connector (pause), by Vegas (cancel a flow), by the          *)
(* forwarder connector, or by the Metis forwarder, another process.  The   *)
(* components between these pass control messages on at once.              *)
(*                                                                         *)
(* A message carries, beside its document, what its sender meant by it:    *)
(* "said", and the requests it answers.  No handler looks at those.        *)
(***************************************************************************)
EXTENDS CpiMessages, StackConfig

CONSTANTS
    Conns,
    Setup,        \* what the user of a connection configures
    Requests,     \* the things a user may ask for, [op, arg]
    Menu,         \* Menu[u]: the indices of those that u may ask for
    MaxRequests,  \* bound: how many requests there are
    Fd,           \* Fd[u]: the descriptor of the user's socket
    Interfaces, Connections,  \* the tables of the Metis forwarder
    Patient       \* the users that wait for CONNECTION_OPEN before they ask

VARIABLES
    cpiNextSequenceNumber,  \* one counter for all threads of the process
    forwarder,              \* the Metis forwarder: its counter and its routes
    conn,                   \* conn[u]: the connection of u, its queues and its user
    trapped                 \* an assertion of the code failed

vars == <<cpiNextSequenceNumber, forwarder, conn, trapped>>

Message(json, said, answers) == [json |-> json, said |-> said, answers |-> answers]
Interest(name) == Message(<< <<"Name", name>> >>, <<"Interest", <<name>> >>, {})
IsControl(m) == ~Has(m.json, "Name")

-----------------------------------------------------------------------------
(* Requests: how they are built, and what the one who handles them reads. *)
Meaning(request) ==
    CASE request.op = "AddRouteToSelf" ->
            <<"CPI_REGISTER_PREFIX", <<cpiRouteEntry_CreateRouteToSelf(request.arg[1])>> >>
      [] request.op = "RemoveRouteToSelf" ->
            <<"CPI_UNREGISTER_PREFIX", <<cpiRouteEntry_CreateRouteToSelf(request.arg[1])>> >>
      [] OTHER -> <<request.op, request.arg>>

Build(request, n) ==
    LET op == request.op IN
    CASE op = "CPI_REGISTER_PREFIX"   -> cpiForwarding_CreateAddRouteRequest(request.arg[1], n)
      [] op = "CPI_UNREGISTER_PREFIX" -> cpiForwarding_CreateRemoveRouteRequest(request.arg[1], n)
      [] op = "AddRouteToSelf"        -> cpiForwarding_AddRouteToSelf(request.arg[1], n)
      [] op = "RemoveRouteToSelf"     -> cpiForwarding_RemoveRouteToSelf(request.arg[1], n)
      [] op = "CPI_PREFIX_REGISTRATION_LIST" -> cpiForwarding_CreateRouteListRequest(n)
      [] op = "CPI_INTERFACE_LIST"    -> cpiLinks_CreateInterfaceListRequest(n)
      [] op = "CPI_CONNECTION_LIST"   -> cpiLinks_CreateConnectionListRequest(n)
      [] op = "CPI_CREATE_TUNNEL"     -> cpiLinks_CreateIPTunnel(request.arg[1], n)
      [] op = "CPI_PAUSE"             -> cpi_CreatePauseInputRequest(n)
      [] op = "CPI_FLUSH"             -> cpi_CreateFlushRequest(n)
      [] op = "CPI_CANCEL_FLOW"       -> cpiCancelFlow_CreateRequest(request.arg[1], n)
      [] op = "CPI_ADD_CONNECTION_ETHERNET"    -> cpiConnectionEthernet_CreateControlMessage(request.arg[1], "AddConnEther", n)
      [] op = "CPI_REMOVE_CONNECTION_ETHERNET" -> cpiConnectionEthernet_CreateControlMessage(request.arg[1], "RemoveConnEther", n)
      [] op = "CPI_ADD_LISTENER"      -> cpiListener_CreateControlMessage(request.arg[1], "AddListener", n)
      [] op = "CPI_REMOVE_LISTENER"   -> cpiListener_CreateControlMessage(request.arg[1], "RemoveListener", n)

ReadRequest(control) ==
    LET op == cpi_GetMessageOperation(control)
    IN  <<op, CASE op \in {"CPI_REGISTER_PREFIX", "CPI_UNREGISTER_PREFIX"} -> <<cpiForwarding_RouteFromControlMessage(control)>>
                [] op = "CPI_CREATE_TUNNEL" -> <<cpiLinks_CreateIPTunnelFromControlMessage(control)>>
                [] op = "CPI_CANCEL_FLOW"   -> <<cpiCancelFlow_GetFlowName(ccnxControlFacade_GetJson(control))>>
                [] op \in {"CPI_ADD_CONNECTION_ETHERNET", "CPI_REMOVE_CONNECTION_ETHERNET"} -> cpiConnectionEthernet_FromControl(control)
                [] op \in {"CPI_ADD_LISTENER", "CPI_REMOVE_LISTENER"} -> cpiListener_FromControl(control)
                [] OTHER -> Null >>

IsRequest(m) == ccnxControlFacade_IsCPI(m.json) /\ cpi_GetMessageType(m.json) = "CPI_REQUEST"
Operation(m) == cpi_getCPIOperation2(ccnxControlFacade_GetJson(m.json))

-----------------------------------------------------------------------------
(* The stack: the next component below or above that looks at control      *)
(* messages.  "lost" if the wiring leads nowhere.                          *)
Handlers == {"API", "FC_VEGAS", "FWD_LOCAL", "FWD_METIS"}
Follow(stack, Readers(_, _), start) ==
    LET Step(at, i) == IF at = "lost" \/ (at \in Handlers /\ i > 1) THEN at
                       ELSE IF \E d \in Range(stack.components) : Readers(stack, at) = {d}
                            THEN CHOOSE d \in Range(stack.components) : Readers(stack, at) = {d}
                            ELSE "lost"
    IN  FoldLeft(Step, start, [i \in 1..MAX_STACK_DEPTH |-> i])

(* A message to the handler below, and one to the user above. *)
PutDown(c, from, m) ==
    CASE c.below[from] = "FC_VEGAS" -> [c EXCEPT !.fc = Append(@, m)]
      [] c.below[from] \in {"FWD_LOCAL", "FWD_METIS"} -> [c EXCEPT !.fwd = Append(@, m)]
      [] OTHER -> c
PutUp(c, from, m) ==
    IF c.above[from] = "API" \/ (c.above[from] = "FC_VEGAS" /\ c.above["FC_VEGAS"] = "API")
    THEN [c EXCEPT !.up = Append(@, m)] ELSE c

rtaConnection_SendStatus(c, component, code, optionalName, optionalMessage) ==
    LET status == notifyStatus_Create(c.api_fd, code, optionalName, optionalMessage)
    IN  PutUp(c, component, Message(ccnxControlFacade_CreateNotification(notifyStatus_ToJSON(status)), <<"Status", <<status>> >>, {}))

(* The state that a callback works on, and what it leaves behind. *)
World(u) == [seq |-> cpiNextSequenceNumber, c |-> conn[u]]
Become(u, world) ==
    \E w \in {world} :
        /\ cpiNextSequenceNumber' = w.seq
        /\ conn' = [conn EXCEPT ![u] = w.c]
        /\ UNCHANGED <<forwarder, trapped>>

cpi_GetNextSequenceNumber(seq) == seq + 1

(* An acknowledgement of a request takes a number of its own. *)
Answer(world, from, m, ack) ==
    LET json == ccnxControlFacade_GetJson(m.json)
        doc  == IF ack THEN cpiAcks_CreateAck(json, world.seq) ELSE cpiAcks_CreateNack(json, world.seq)
    IN  [seq |-> cpi_GetNextSequenceNumber(world.seq),
         c   |-> PutUp(world.c, from, Message(doc, <<IF ack THEN "ACK" ELSE "NACK", Null>>, m.answers))]

-----------------------------------------------------------------------------
(* Opening a connection. *)
StackParams(setup) ==
    LET added == FoldLeft(LAMBDA config, name :
                     CASE name = "API"       -> apiConnector_ProtocolStackConfig(config)
                       [] name = "FC_VEGAS"  -> vegasFlowController_ProtocolStackConfig(config)
                       [] name = "CODEC_TLV" -> tlvCodec_ProtocolStackConfig(config)
                       [] name = "FWD_LOCAL" -> localForwarder_ProtocolStackConfig(config)
                       [] name = "FWD_METIS" -> metisForwarder_ProtocolStackConfig(config),
                     ccnxStackConfig_Create, setup.components)
    IN  protocolStack_ComponentsConfigArrayList(added, setup.components)

AddSigner(config, signer) ==
    IF signer.type = "SignerType_PublicKeySigner"
    THEN publicKeySigner_ConnectionConfig(config, signer.keystore.filename, signer.keystore.password)
    ELSE symmetricKeySigner_ConnectionConfig(config, signer.keystore.filename, signer.keystore.password)

(* The user may set a signer after another: the first stays. *)
ConnectionParams(setup) ==
    LET added == FoldLeft(LAMBDA config, name :
                     CASE name = "API"       -> apiConnector_ConnectionConfig(config)
                       [] name = "FC_VEGAS"  -> vegasFlowController_ConnectionConfig(config)
                       [] name = "CODEC_TLV" -> inMemoryVerifier_ConnectionConfig(tlvCodec_ConnectionConfig(config))
                       [] name = "FWD_LOCAL" -> localForwarder_ConnectionConfig(config, setup.path)
                       [] name = "FWD_METIS" -> metisForwarder_ConnectionConfig(config, setup.port),
                     ccnxConnectionConfig_Create, setup.components)
    IN  FoldLeft(AddSigner, added, setup.signers)

(* What the components read when the connection opens. *)
Settings(params) ==
    [path   |-> IF Has(params, "FWD_LOCAL") THEN localForwarder_GetPath(params) ELSE "",
     port   |-> IF Has(params, "FWD_METIS") THEN metisForwarder_GetPortFromConfig(params) ELSE 0,
     signer |-> component_Codec_GetSigner(params)]

Open(u) ==
    LET config == ccnxTransportConfig_Create(StackParams(Setup[u]), ConnectionParams(Setup[u]))
        stack  == rtaProtocolStack_ConfigureComponents(rtaProtocolStack_Create, config.stackConfig)
    IN  /\ conn[u].state = "none"
        /\ IF stack.trap \/ ~HasSigner(config.connConfig)
           THEN trapped' = TRUE /\ UNCHANGED conn
           ELSE /\ conn' = [conn EXCEPT ![u].state = "CONN_OPEN", ![u].components = stack.components,
                                        ![u].settings = Settings(config.connConfig),
                                        ![u].below = [h \in Handlers |-> Follow(stack, ReadersBelow, h)],
                                        ![u].above = [h \in Handlers |-> Follow(stack, ReadersAbove, h)]]
                /\ UNCHANGED trapped
        /\ UNCHANGED <<cpiNextSequenceNumber, forwarder>>

Connector(u) == Last(conn[u].components)

(* The socket to the forwarder is connected, or refused. *)
Connected(u) ==
    /\ conn[u].state # "none" /\ conn[u].socket = "connecting"
    /\ Become(u, [World(u) EXCEPT !.c = rtaConnection_SendStatus([@ EXCEPT !.socket = "connected"], Connector(u),
                                            notifyStatusCode_CONNECTION_OPEN, Null, Null)])
NotAvailable(u) ==
    /\ conn[u].state # "none" /\ conn[u].socket = "connecting"
    /\ Become(u, [World(u) EXCEPT !.c = rtaConnection_SendStatus([@ EXCEPT !.socket = "refused"], Connector(u),
                                            notifyStatusCode_FORWARDER_NOT_AVAILABLE, Null, Null)])

-----------------------------------------------------------------------------
(* The user: builds messages, sends them in any order, reads what comes. *)
SumAsked == FoldFunction(+, 0, [v \in Conns |-> conn[v].count])

Ask(u, i) ==
    LET request == Requests[i] IN
    /\ conn[u].state # "none"
    /\ u \in Patient => conn[u].ready
    /\ i \in Menu[u] /\ SumAsked < MaxRequests
    /\ IF request.op = "Interest"
       THEN Become(u, [World(u) EXCEPT !.c.count = @ + 1,
                                       !.c.made = Append(@, Interest(request.arg[1]))])
       ELSE Become(u, [seq |-> cpi_GetNextSequenceNumber(cpiNextSequenceNumber),
                       c   |-> [conn[u] EXCEPT !.count = @ + 1,
                                               !.made = Append(@, Message(ccnxControlFacade_CreateCPI(Build(request, cpiNextSequenceNumber)),
                                                                          Meaning(request), {i}))]])

Send(u, k) ==
    LET m == conn[u].made[k] IN
    /\ k \in DOMAIN conn[u].made
    /\ Become(u, [World(u) EXCEPT !.c.made = RemoveAt(@, k), !.c.socketDown = Append(@, m),
                                  !.c.pending = IF IsControl(m)
                                                THEN @ \union {<<controlPlaneInterface_GetSequenceNumber(m.json), i>> : i \in m.answers}
                                                ELSE @])

(* What a user makes of a message that came up. *)
ReadAnswer(control) ==
    LET json == ccnxControlFacade_GetJson(control) IN
    CASE ccnxControlFacade_IsNotification(control) -> <<"Status", ccnxControl_GetNotifyStatus(control)>>
      [] ~ccnxControlFacade_IsNotification(control) /\ cpi_GetMessageType(control) = "CPI_ACK" ->
            <<IF ccnxControl_IsACK(control) THEN "ACK" ELSE "NACK", Null>>
      [] ~ccnxControlFacade_IsNotification(control) /\ cpi_GetMessageType(control) = "CPI_RESPONSE" ->
            LET op == cpi_getCPIOperation2(json)
            IN  <<op, CASE op = "CPI_PREFIX_REGISTRATION_LIST" ->
                              LET list == cpiForwarding_RouteListFromControlMessage(control)
                              IN  [i \in DOMAIN list |-> cpiRouteEntryList_Get(list, i - 1)]
                        [] op = "CPI_INTERFACE_LIST"  -> cpiLinks_InterfacesFromControlMessage(control)
                        [] op = "CPI_CONNECTION_LIST" ->
                              LET list == cpiLinks_ConnectionListFromControlMessage(control)
                              IN  [i \in DOMAIN list |-> cpiConnectionList_Get(list, i - 1)] >>
      [] OTHER -> <<"trap">>

(* The number of the request that a message answers, if it answers one. *)
AnsweredNumber(control) ==
    CASE ccnxControlFacade_IsNotification(control) -> {}
      [] ~ccnxControlFacade_IsNotification(control) /\ cpi_GetMessageType(control) = "CPI_ACK" ->
            {ccnxControl_GetAckOriginalSequenceNumber(control)}
      [] OTHER -> {controlPlaneInterface_GetSequenceNumber(ccnxControlFacade_GetJson(control))}

(* The requests of a user that it takes a message for the answer of. *)
Matched(u, m) == {request \in conn[u].pending : request[1] \in AnsweredNumber(m.json)}

Receive(u) ==
    LET m == Head(conn[u].up)
        read == ReadAnswer(m.json)
    IN  /\ conn[u].up # <<>>
        /\ IF read[1] = "trap"
           THEN /\ trapped' = TRUE
                /\ UNCHANGED <<cpiNextSequenceNumber, forwarder, conn>>
           ELSE Become(u, [World(u) EXCEPT
                    !.c.up = Tail(@), !.c.pending = @ \ Matched(u, m),
                    !.c.ready = @ \/ (read[1] = "Status" /\ read[2][1].code = notifyStatusCode_CONNECTION_OPEN)])

-----------------------------------------------------------------------------
(* The API connector reads some of what the user wrote. *)
rtaApiConnection_Downcall_ProcessDictionary(c, m) ==
    LET paused == IF IsControl(m) /\ IsRequest(m) /\ Operation(m) = "CPI_PAUSE" /\ c.state = "CONN_OPEN"
                  THEN [c EXCEPT !.state = "CONN_PAUSED"] ELSE c
    IN  IF paused.state = "CONN_OPEN" \/ IsControl(m) THEN PutDown(paused, "API", m) ELSE paused

rtaApiConnection_Downcall_Read(u, n) ==
    /\ n \in 1..Len(conn[u].socketDown)
    /\ Become(u, [World(u) EXCEPT !.c = FoldLeft(rtaApiConnection_Downcall_ProcessDictionary,
                                                 [@ EXCEPT !.socketDown = SubSeq(@, n + 1, Len(@))],
                                                 SubSeq(@.socketDown, 1, n))])

(* Vegas: flows by the name without its segment. *)
vegas_HandleInterest(c, original_name) ==
    LET basename == Front(original_name)
    IN  IF basename \in c.flows THEN c
        ELSE rtaConnection_SendStatus([c EXCEPT !.flows = @ \union {basename}], "FC_VEGAS",
                 notifyStatusCode_FLOW_CONTROL_STARTED, <<original_name>>, Null)

vegas_HandleControl(world, m) ==
    LET name == cpiCancelFlow_GetFlowName(ccnxControlFacade_GetJson(m.json))
    IN  Answer([world EXCEPT !.c.flows = @ \ {name}], "FC_VEGAS", m, name \in world.c.flows)

component_Fc_Vegas_Downcall_Read(u) ==
    LET Handle(world, m) ==
            CASE ~IsControl(m) -> [world EXCEPT !.c = vegas_HandleInterest(@, GetValueByName(m.json, "Name"))]
              [] IsControl(m) /\ ccnxControlFacade_IsCPI(m.json) /\ Operation(m) = "CPI_CANCEL_FLOW" -> vegas_HandleControl(world, m)
              [] OTHER -> [world EXCEPT !.c = PutDown(@, "FC_VEGAS", m)]
    IN  /\ conn[u].fc # <<>>
        /\ Become(u, FoldLeft(Handle, [World(u) EXCEPT !.c.fc = <<>>], conn[u].fc))

vegas_EndSession(u, basename) ==
    /\ basename \in conn[u].flows
    /\ Become(u, [World(u) EXCEPT !.c = rtaConnection_SendStatus([@ EXCEPT !.flows = @ \ {basename}], "FC_VEGAS",
                                            notifyStatusCode_FLOW_CONTROL_FINISHED, <<basename>>, Null)])

(* Mutant: only what the connector knows is acknowledged. *)
connector_Fwd_Local_ProcessControl_Known(world, m) ==
    IF IsControl(m) /\ IsRequest(m) /\ Operation(m) \in {"CPI_PAUSE", "CPI_FLUSH"} THEN Answer(world, "FWD_LOCAL", m, TRUE) ELSE world

(* The local connector acknowledges every request and passes none on. *)
connector_Fwd_Local_ProcessControl(world, m) ==
    IF IsControl(m) /\ IsRequest(m) THEN Answer(world, "FWD_LOCAL", m, TRUE) ELSE world

(* The Metis connector acknowledges two; a message before it is connected is dropped. *)
MetisDowncall(world, m) ==
    CASE IsControl(m) /\ IsRequest(m) /\ Operation(m) \in {"CPI_PAUSE", "CPI_FLUSH"} -> Answer(world, "FWD_METIS", m, TRUE)
      [] world.c.socket # "connected" -> world
      [] OTHER -> [world EXCEPT !.c.net = Append(@, m)]

Forwarder_Downcall_Read(u) ==
    LET Handle(world, m) ==
            IF Connector(u) = "FWD_LOCAL" THEN connector_Fwd_Local_ProcessControl(world, m) ELSE MetisDowncall(world, m)
    IN  /\ conn[u].fwd # <<>>
        /\ Become(u, FoldLeft(Handle, [World(u) EXCEPT !.c.fwd = <<>>], conn[u].fwd))

-----------------------------------------------------------------------------
(* The Metis forwarder: applies a request and answers it with a list or an *)
(* acknowledgement, which takes a number of the forwarder's own.           *)
Routes(request) ==
    CASE request[1] = "CPI_REGISTER_PREFIX"   -> Append(forwarder.routes, request[2][1])
      [] request[1] = "CPI_UNREGISTER_PREFIX" -> SelectSeq(forwarder.routes, LAMBDA r : ~cpiRouteEntry_Equals(r, request[2][1]))
      [] OTHER -> forwarder.routes

Reply(m, request) ==
    LET Listing(table, json) == Message(ccnxControlFacade_CreateCPI(cpi_CreateResponse(m.json, json)), <<request[1], table>>, m.answers)
        Ack(doc, said)       == Message(ccnxControlFacade_CreateCPI(doc), <<said, Null>>, m.answers)
    IN  CASE request[1] = "CPI_PREFIX_REGISTRATION_LIST" -> Listing(forwarder.routes, cpiRouteEntryList_ToJson(forwarder.routes))
          [] request[1] = "CPI_INTERFACE_LIST"  -> Listing(Interfaces, cpiInterfaceSet_ToJson(Interfaces))
          [] request[1] = "CPI_CONNECTION_LIST" -> Listing(Connections, cpiConnectionList_ToJson(Connections))
          [] request[1] = "CPI_UNREGISTER_PREFIX" /\ Routes(request) = forwarder.routes -> Ack(cpiAcks_CreateNack(m.json, forwarder.seq), "NACK")
          [] OTHER -> Ack(cpiAcks_CreateAck(m.json, forwarder.seq), "ACK")

Forward(u) ==
    LET m == Head(conn[u].net)
        request == ReadRequest(m.json)
    IN  /\ conn[u].net # <<>>
        /\ IF IsControl(m)
           THEN /\ conn' = [conn EXCEPT ![u].net = Tail(@), ![u].back = Append(@, Reply(m, request))]
                /\ forwarder' = [seq |-> forwarder.seq + 1, routes |-> Routes(request)]
           ELSE conn' = [conn EXCEPT ![u].net = Tail(@)] /\ UNCHANGED forwarder
        /\ UNCHANGED <<cpiNextSequenceNumber, trapped>>

(* A control message of the forwarder is put up as soon as it is read. *)
receiveControlMessage(u) ==
    /\ conn[u].back # <<>>
    /\ Become(u, [World(u) EXCEPT !.c = PutUp([@ EXCEPT !.back = Tail(@)], "FWD_METIS", Head(@.back))])

-----------------------------------------------------------------------------
Closed(u) ==
    [state |-> "none", components |-> <<>>, settings |-> Null, below |-> Null, above |-> Null,
     socket |-> "connecting", api_fd |-> Fd[u], flows |-> {}, count |-> 0, made |-> <<>>, pending |-> {}, ready |-> FALSE,
     socketDown |-> <<>>, fc |-> <<>>, fwd |-> <<>>, net |-> <<>>, back |-> <<>>, up |-> <<>>]

Init ==
    /\ cpiNextSequenceNumber = 1
    /\ forwarder = [seq |-> 1, routes |-> <<>>]
    /\ conn = [u \in Conns |-> Closed(u)]
    /\ trapped = FALSE

User(u) == \/ Open(u)
           \/ \E i \in Menu[u] : Ask(u, i)
           \/ \E k \in 1..MaxRequests : Send(u, k)
Network(u) == Connected(u) \/ NotAvailable(u)
Data(u) == \E name \in conn[u].flows : vegas_EndSession(u, name)
Step(u) == \/ \E n \in 1..MaxRequests : rtaApiConnection_Downcall_Read(u, n)
           \/ component_Fc_Vegas_Downcall_Read(u)
           \/ Forwarder_Downcall_Read(u)
           \/ Forward(u)
           \/ receiveControlMessage(u)
           \/ Receive(u)

Callbacks == \E u \in Conns : Step(u)
Next == Callbacks \/ \E u \in Conns : User(u) \/ Network(u) \/ Data(u)

(* The event loop, the forwarder and users that read what comes make       *)
(* progress: weak fairness of Callbacks, with its guard written out.       *)
CanStep == \E u \in Conns : \E queue \in {"socketDown", "fc", "fwd", "net", "back", "up"} : conn[u][queue] # <<>>
Spec     == Init /\ [][Next]_vars
FairSpec == Spec /\ ([]<>~CanStep \/ []<><<Callbacks>>_vars)

-----------------------------------------------------------------------------
(* What a handler reads from a request that waits for it (Vegas the name   *)
(* of a flow, the forwarder everything) is what its user put in, and a     *)
(* user reads a status, a list or the result of a request as the component *)
(* that sent it meant it, asking what a message is before it reads it.     *)
DecodesAsBuilt ==
    \A u \in Conns :
        /\ \A m \in Range(conn[u].fc) \union Range(conn[u].fwd) \union Range(conn[u].net) :
              IsControl(m) => ReadRequest(m.json) = m.said
        /\ \A m \in Range(conn[u].up) : ReadAnswer(m.json) = m.said

(* An answer is matched, by the number of its request, with the request it *)
(* answers and with no other, though acknowledgements take numbers of the  *)
(* same counter and the forwarder counts by itself.                        *)
AnswersMatch ==
    \A u \in Conns : \A m \in Range(conn[u].up) : {request[2] : request \in Matched(u, m)} = m.answers

(* Every configuration of a user can be wired, and its connection opens    *)
(* with the settings of its user, the first signer among them, and a stack *)
(* that joins the components in the order listed.                          *)
OpensAsConfigured ==
    /\ ~ trapped
    /\ \A u \in Conns : conn[u].state # "none" =>
          LET setup    == Setup[u]
              handlers == SelectSeq(setup.components, LAMBDA c : c \in Handlers)
          IN  /\ conn[u].settings = [path |-> setup.path, port |-> setup.port, signer |-> setup.signers[1]]
              /\ \A i \in 1..Len(handlers) - 1 :
                    /\ conn[u].below[handlers[i]] = handlers[i + 1]
                    /\ conn[u].above[handlers[i + 1]] = handlers[i]

(* Every request that was sent is answered and the answer is read.         *)
Answered == (\E u \in Conns : conn[u].pending # {}) ~> (\A u \in Conns : conn[u].pending = {})
=============================================================================
