----------------------------- MODULE CpiMessages -----------------------------
(***************************************************************************)
(* The control messages (CCNxControl): requests, responses and             *)
(* acknowledgements of the control plane interface (controlPlaneInterface, *)
(* cpi_Acks, cpi_Forwarding, cpi_ManageLinks, cpi_CancelFlow) and the      *)
(* notifications of the transport (notify_Status).  A message is its       *)
(* document.  The sequence number that a function takes from the counter   *)
(* of the process is its last argument.                                    *)
(***************************************************************************)
EXTENDS CpiValues

cpiRequest_GetJsonTag  == "CPI_REQUEST"
cpiResponse_GetJsonTag == "CPI_RESPONSE"
cpiAck                 == "CPI_ACK"

(* The keys of the operations, in the order they are tried. *)
operationKeys == <<
    <<"CPI_REGISTER_PREFIX", "REGISTER">>, <<"CPI_UNREGISTER_PREFIX", "UNREGISTER">>, <<"CPI_PAUSE", "CPI_PAUSE">>,
    <<"CPI_FLUSH", "CPI_FLUSH">>, <<"CPI_CANCEL_FLOW", "CPI_CANCEL_FLOW">>, <<"CPI_INTERFACE_LIST", "INTERFACE_LIST">>,
    <<"CPI_PREFIX_REGISTRATION_LIST", "ROUTE_LIST">>, <<"CPI_CREATE_TUNNEL", "CREATE_TUNNEL">>,
    <<"CPI_REMOVE_TUNNEL", "REMOVE_TUNNEL">>, <<"CPI_CONNECTION_LIST", "CONNECTION_LIST">>,
    <<"CPI_ADD_ETHER_CONNECTION", "AddConnEther">>, <<"CPI_REMOVE_CONNECTION_ETHERNET", "RemoveConnEther">>,
    <<"CPI_ADD_LISTENER", "AddListener">>, <<"CPI_REMOVE_LISTENER", "RemoveListener">> >>

-----------------------------------------------------------------------------
(* Messages as CCNxControl carries them: a notification is wrapped. *)
ccnxControlFacade_CreateCPI(json) == json
ccnxControlFacade_CreateNotification(payload) ==
    << <<"notificationWrapper", TRUE>>, <<"notificationPayload", payload>> >>

ccnxControlFacade_IsNotification(control) == Has(control, "notificationWrapper")
ccnxControlFacade_IsCPI(control) == ~Has(control, "notificationWrapper")
ccnxControlFacade_GetJson(control) ==
    IF ccnxControlFacade_IsNotification(control) THEN GetValueByName(control, "notificationPayload") ELSE control

-----------------------------------------------------------------------------
(* Requests. *)
cpi_CreateRequest(key, operation, seqnum) ==
    Add(EmptyObject, cpiRequest_GetJsonTag, << <<"SEQUENCE", seqnum>>, <<key, operation>> >>)

cpiForwarding_CreateAddRouteRequest(route, seqnum)    == cpi_CreateRequest("REGISTER", cpiRouteEntry_ToJson(route), seqnum)
cpiForwarding_CreateRemoveRouteRequest(route, seqnum) == cpi_CreateRequest("UNREGISTER", cpiRouteEntry_ToJson(route), seqnum)
cpiForwarding_AddRouteToSelf(prefix, seqnum) ==
    cpiForwarding_CreateAddRouteRequest(cpiRouteEntry_CreateRouteToSelf(prefix), seqnum)
cpiForwarding_RemoveRouteToSelf(prefix, seqnum) ==
    cpiForwarding_CreateRemoveRouteRequest(cpiRouteEntry_CreateRouteToSelf(prefix), seqnum)
cpiForwarding_CreateRouteListRequest(seqnum)    == cpi_CreateRequest("ROUTE_LIST", EmptyObject, seqnum)
cpiLinks_CreateInterfaceListRequest(seqnum)     == cpi_CreateRequest("INTERFACE_LIST", EmptyObject, seqnum)
cpiLinks_CreateConnectionListRequest(seqnum)    == cpi_CreateRequest("CONNECTION_LIST", EmptyObject, seqnum)
cpiLinks_CreateIPTunnel(iptun, seqnum) == cpi_CreateRequest("CREATE_TUNNEL", cpiInterfaceIPTunnel_ToJson(iptun), seqnum)
cpi_CreatePauseInputRequest(seqnum)    == cpi_CreateRequest("CPI_PAUSE", EmptyObject, seqnum)
cpi_CreateFlushRequest(seqnum)         == cpi_CreateRequest("CPI_FLUSH", EmptyObject, seqnum)
cpiCancelFlow_CreateRequest(name, seqnum) ==
    cpi_CreateRequest("CPI_CANCEL_FLOW", Add(EmptyObject, "FLOW_NAME", Uri(name)), seqnum)
cpiConnectionEthernet_CreateControlMessage(etherConn, operationName, seqnum) ==
    cpi_CreateRequest(operationName, cpiConnectionEthernet_ToJson(etherConn), seqnum)
cpiListener_CreateControlMessage(listener, operationName, seqnum) ==
    cpi_CreateRequest(operationName, cpiListener_ToJson(listener), seqnum)

(* The name and the value of the operation of a request: its second pair. *)
cpi_ParseRequest(request) == GetValueByName(request, cpiRequest_GetJsonTag)[2]

controlPlaneInterface_GetCPIMessageType(json) ==
    CASE Has(json, cpiResponse_GetJsonTag) -> "CPI_RESPONSE"
      [] ~Has(json, cpiResponse_GetJsonTag) /\ Has(json, cpiRequest_GetJsonTag) -> "CPI_REQUEST"
      [] ~Has(json, cpiResponse_GetJsonTag) /\ ~Has(json, cpiRequest_GetJsonTag) /\ Has(json, cpiAck) -> "CPI_ACK"
      [] OTHER -> "trap"
cpi_GetMessageType(control) == controlPlaneInterface_GetCPIMessageType(ccnxControlFacade_GetJson(control))

(* The request of a message, or else its response. *)
RequestOrResponse(json) ==
    IF Has(json, cpiRequest_GetJsonTag) THEN GetValueByName(json, cpiRequest_GetJsonTag)
                                        ELSE GetValueByName(json, cpiResponse_GetJsonTag)

controlPlaneInterface_GetSequenceNumber(json) ==
    GetValueByName(IF Has(json, cpiRequest_GetJsonTag) \/ Has(json, cpiResponse_GetJsonTag)
                   THEN RequestOrResponse(json) ELSE GetValueByName(json, cpiAck), "SEQUENCE")

cpi_getCPIOperation2(json) == TypeFromString(operationKeys, NameAt(RequestOrResponse(json), 1))

cpiConnectionEthernet_IsMessageType(control, operationName) ==
    /\ ccnxControlFacade_IsCPI(control)
    /\ Has(control, cpiRequest_GetJsonTag)
    /\ cpi_ParseRequest(control)[1] = operationName
cpiListener_IsMessageType(control, operationName) == cpiConnectionEthernet_IsMessageType(control, operationName)

cpi_GetMessageOperation(control) ==
    CASE cpiConnectionEthernet_IsMessageType(control, "AddConnEther")    -> "CPI_ADD_CONNECTION_ETHERNET"
      [] cpiConnectionEthernet_IsMessageType(control, "RemoveConnEther") -> "CPI_REMOVE_CONNECTION_ETHERNET"
      [] OTHER -> cpi_getCPIOperation2(ccnxControlFacade_GetJson(control))

(* The values of messages. *)
cpiForwarding_RouteFromControlMessage(control) ==
    cpiRouteEntry_FromJson(cpi_ParseRequest(ccnxControlFacade_GetJson(control))[2])
cpiForwarding_RouteListFromControlMessage(control) ==
    cpiRouteEntryList_FromJson(GetValueByName(RequestOrResponse(ccnxControlFacade_GetJson(control)), "ROUTE_LIST"))
cpiLinks_InterfacesFromControlMessage(response) ==
    cpiInterfaceSet_FromJson(GetValueByName(GetValueByName(ccnxControlFacade_GetJson(response), cpiResponse_GetJsonTag), "INTERFACE_LIST"))
cpiLinks_CreateIPTunnelFromControlMessage(control) ==
    cpiInterfaceIPTunnel_CreateFromJson(GetValueByName(RequestOrResponse(ccnxControlFacade_GetJson(control)), "CREATE_TUNNEL"))
cpiLinks_ConnectionListFromControlMessage(control) ==
    cpiConnectionList_FromJson(GetValueByName(RequestOrResponse(ccnxControlFacade_GetJson(control)), "CONNECTION_LIST"))
cpiCancelFlow_GetFlowName(controlMessage) ==
    FromUri(GetValueByName(GetValueByName(GetValueByName(controlMessage, cpiRequest_GetJsonTag), "CPI_CANCEL_FLOW"), "FLOW_NAME"))

(* Line 289 asks strcasecmp(opKey, "RemoveConnEther") without "== 0": any key but that one is decoded. *)
cpiConnectionEthernet_FromControl(control) ==
    IF /\ ccnxControlFacade_IsCPI(control)
       /\ Has(control, cpiRequest_GetJsonTag)
       /\ \/ cpi_ParseRequest(control)[1] = "AddConnEther"
          \/ cpi_ParseRequest(control)[1] # "RemoveConnEther"
    THEN <<cpiConnectionEthernet_FromJson(cpi_ParseRequest(control)[2])>>
    ELSE Null

cpiListener_FromControl(control) ==
    IF /\ ccnxControlFacade_IsCPI(control)
       /\ Has(control, cpiRequest_GetJsonTag)
       /\ cpi_ParseRequest(control)[1] \in {"AddListener", "RemoveListener"}
    THEN <<cpiListener_FromJson(cpi_ParseRequest(control)[2])>>
    ELSE Null

-----------------------------------------------------------------------------
(* Responses and acknowledgements. *)
cpi_CreateResponse(request, operation) ==
    LET json == ccnxControlFacade_GetJson(request)
    IN  Add(EmptyObject, cpiResponse_GetJsonTag,
            << <<"SEQUENCE", controlPlaneInterface_GetSequenceNumber(json)>>, <<cpi_ParseRequest(json)[1], operation>> >>)

CreateAck(return, originalRequest, seqnum) ==
    Add(EmptyObject, cpiAck, << <<"SEQUENCE", seqnum>>, <<"RETURN", return>>, <<"REQUEST", originalRequest>> >>)
cpiAcks_CreateAck(originalRequest, seqnum) == CreateAck("ACK", originalRequest, seqnum)
cpiAcks_CreateNack(request, seqnum)        == CreateAck("NACK", request, seqnum)

cpiAcks_IsAck(json) == Has(json, cpiAck) /\ GetValueByName(GetValueByName(json, cpiAck), "RETURN") = "ACK"

(* Mutant: the number of the acknowledgement itself. *)
cpiAcks_GetAckOriginalSequenceNumber_Own(json) == GetValueByName(GetValueByName(json, cpiAck), "SEQUENCE")

cpiAcks_GetAckOriginalSequenceNumber(json) ==
    GetValueByName(GetValueByName(GetValueByName(GetValueByName(json, cpiAck), "REQUEST"), cpiRequest_GetJsonTag), "SEQUENCE")

ccnxControl_IsACK(control)  == cpi_GetMessageType(control) = "CPI_ACK" /\ cpiAcks_IsAck(ccnxControlFacade_GetJson(control))
ccnxControl_IsNACK(control) == cpi_GetMessageType(control) = "CPI_ACK" /\ ~cpiAcks_IsAck(ccnxControlFacade_GetJson(control))
ccnxControl_GetAckOriginalSequenceNumber(control) ==
    cpiAcks_GetAckOriginalSequenceNumber(ccnxControlFacade_GetJson(control))

-----------------------------------------------------------------------------
(* Notifications.  A name and a message need not be there. *)
notifyStatusCode_FORWARDER_NOT_AVAILABLE == 6
notifyStatusCode_CONNECTION_OPEN         == 4
notifyStatusCode_FLOW_CONTROL_STARTED    == 7
notifyStatusCode_FLOW_CONTROL_FINISHED   == 8

notifyStatus_Create(apiFd, code, name, message) == [apiFd |-> apiFd, code |-> code, name |-> name, message |-> message]

notifyStatus_Equals(x, y) == x.apiFd = y.apiFd /\ x.code = y.code /\ x.message = y.message /\ x.name = y.name

notifyStatus_ToJSON(status) ==
    LET json  == << <<"connectionId", status.apiFd>>, <<"statusCode", status.code>> >>
        named == IF status.name = Null THEN json ELSE Add(json, "name", Uri(status.name[1]))
    IN  Add(EmptyObject, "notifyStatus", IF status.message = Null THEN named ELSE Add(named, "message", status.message[1]))

notifyStatus_ParseJSON(json) ==
    IF Has(json, "notifyStatus")
    THEN LET status_json == GetValueByName(json, "notifyStatus")
         IN  <<notifyStatus_Create(GetValueByName(status_json, "connectionId"), GetValueByName(status_json, "statusCode"),
                                   FromArray(Optional(status_json, "name"), FromUri), Optional(status_json, "message"))>>
    ELSE Null
ccnxControl_GetNotifyStatus(control) == notifyStatus_ParseJSON(ccnxControlFacade_GetJson(control))
=============================================================================
