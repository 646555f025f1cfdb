--------------------------- MODULE MCControlPlane ---------------------------
(* Two connections, what their users configure and may ask for, for TLC. *)
EXTENDS ControlPlane

CONSTANTS c1, c2

Signer(kind, file) == [type |-> kind, keystore |-> [filename |-> file, password |-> "password"]]
PublicKey    == Signer("SignerType_PublicKeySigner", "file.p12")
SymmetricKey == Signer("SignerType_SymmetricKeySigner", "file.key")

TwoSetups ==
    [u \in Conns |->
        IF u = c1 THEN [components |-> <<"API", "FC_VEGAS", "CODEC_TLV", "FWD_LOCAL">>, path |-> "/tmp/pipe", port |-> 0,
                        signers |-> <<PublicKey>>]
        ELSE [components |-> <<"API", "CODEC_TLV", "FWD_METIS">>, path |-> "", port |-> 9695,
              signers |-> <<SymmetricKey, PublicKey>>]]
Descriptors == [u \in Conns |-> IF u = c1 THEN 5 ELSE 7]

Ask1(op)      == [op |-> op, arg |-> <<>>]
AskFor(op, v) == [op |-> op, arg |-> <<v>>]

Inet(b)  == cpiAddress_CreateFromInet(<<0, 9, b>>)
Link     == cpiAddress_CreateFromLink(<<1, 2, 3>>)
UDP      == "IPTUN_UDP"
Symbolic == cpiRouteEntry_CreateSymbolic(<<"a">>, "tun0", "cpiNameRouteProtocolType_STATIC", "cpiNameRouteType_EXACT_MATCH", Null, 2)
Nexthop  == cpiRouteEntry_Create(<<"b">>, 3, <<Inet(1)>>, "cpiNameRouteProtocolType_CONNECTED",
                                 "cpiNameRouteType_LONGEST_MATCH", << <<60, 0>> >>, 1)
Ether    == cpiConnectionEthernet_Create("eth0", Link, 2049, "conn1")

AllRequests == <<
    AskFor("Interest", <<"a", "b", "seg">>), AskFor("CPI_CANCEL_FLOW", <<"a", "b">>), Ask1("CPI_PAUSE"), Ask1("CPI_FLUSH"),
    AskFor("AddRouteToSelf", <<"a">>), AskFor("RemoveRouteToSelf", <<"a">>),
    AskFor("CPI_REGISTER_PREFIX", cpiRouteEntry_SetInterfaceIndex(Symbolic, 4)), AskFor("CPI_REGISTER_PREFIX", Nexthop),
    AskFor("CPI_UNREGISTER_PREFIX", Symbolic), Ask1("CPI_PREFIX_REGISTRATION_LIST"), Ask1("CPI_INTERFACE_LIST"),
    Ask1("CPI_CONNECTION_LIST"),
    AskFor("CPI_CREATE_TUNNEL", cpiInterfaceIPTunnel_Create(4, Inet(1), Inet(2), UDP, "tun0")),
    AskFor("CPI_ADD_CONNECTION_ETHERNET", Ether),
    AskFor("CPI_ADD_LISTENER", cpiListener_CreateEther("eth0", 2049, "l1")),
    AskFor("CPI_REMOVE_LISTENER", cpiListener_CreateIP(UDP, Inet(1), "l2")),
    AskFor("CPI_REMOVE_CONNECTION_ETHERNET", Ether) >>

Menus      == [u \in Conns |-> IF u = c1 THEN {1, 2, 3, 5} ELSE 3..16]
FewMenus   == [u \in Conns |-> IF u = c1 THEN {1, 2} ELSE {3, 10}]
EtherMenus == [u \in Conns |-> IF u = c1 THEN {4} ELSE {14, 17}]

Eth0 == cpiInterface_AddAddress(cpiInterface_Create("eth0", 1, FALSE, TRUE, 1500), Link)
Lo0  == cpiInterface_Create("lo0", 2, TRUE, FALSE, 16384)
TwoInterfaces == cpiInterfaceSet_Add(cpiInterfaceSet_Add(<<>>, Eth0), Lo0)
TwoConnections ==
    LET udp == cpiConnection_Create(3, Inet(1), Inet(2), "cpiConnection_UDP")
    IN  <<udp, cpiConnection_SetState(cpiConnection_Create(4, Link, Link, "cpiConnection_L2"), "CPI_IFACE_UP")>>

Metis  == {c2}
Nobody == {}
(* Values of every kind that messages carry. *)
Unix      == cpiAddress_CreateFromUnix(<<AF_UNIX, 47, 116>>)
AtIndex(i) == cpiAddress_CreateFromInterface(i)
Addresses == {Inet(1), Link, Unix, cpiAddress_CreateFromInet6(<<AF_INET6, 0, 9>>), AtIndex(1), AtIndex(70000)}
Ethernet  == [cpiInterfaceEthernet_Create(3, <<Link, Inet(1)>>) EXCEPT !.generic = cpiInterfaceGeneric_SetState(@, "CPI_IFACE_DOWN")]
Tunnels   == <<cpiInterfaceIPTunnel_Create(4, Inet(1), Inet(2), UDP, "tun0"), cpiInterfaceIPTunnel_Create(5, Inet(2), Inet(3), "IPTUN_GRE", "tun1")>>
AllRoutes == <<Nexthop, Symbolic, cpiRouteEntry_CreateRouteToSelf(<<"c">>)>>
Listeners == {cpiListener_CreateEther("eth0", 65537, "l1"), cpiListener_CreateIP(UDP, Inet(1), "l1"), cpiListener_CreateIP(UDP, Inet(2), "l1")}

(* Survives a document: what is read of the document of a value equals it by   *)
(* its own comparison, and differs from another value.                         *)
Survives(value, ToJson(_), FromJson(_), Equals(_, _)) == Equals(FromJson(ToJson(value)), value)

(* The values of the interface come back from their documents and their copies *)
(* as they went in, and comparisons tell different values apart                *)
(* (cpi_Address.c, cpi_RouteEntry.c, cpi_Interface*.c, cpi_Connection*.c,      *)
(* cpi_Listener.c, notify_Status.c).                                           *)
ASSUME ValuesSurvive ==
    /\ \A a \in Addresses : Survives(a, cpiAddress_ToJson, cpiAddress_CreateFromJson, cpiAddress_Equals)
    /\ \A a, b \in Addresses : cpiAddress_Equals(cpiAddress_Copy(a), b) <=> a = b
    /\ cpiAddress_GetInterfaceIndex(AtIndex(70000)) = <<70000>> /\ cpiAddress_GetInterfaceIndex(Link) = Null
    /\ \A i \in DOMAIN TwoInterfaces :
          Survives(TwoInterfaces[i], cpiInterface_ToJson, cpiInterface_FromJson, cpiInterface_Equals)
    /\ Survives(TwoInterfaces, cpiInterfaceSet_ToJson, cpiInterfaceSet_FromJson, LAMBDA a, b : a = b /\ cpiInterfaceSet_Equals(a, b))
    /\ Survives(Ethernet, cpiInterfaceEthernet_ToJson, cpiInterfaceEthernet_CreateFromJson, cpiInterfaceEthernet_Equals)
    /\ cpiInterfaceEthernet_Equals(cpiInterfaceEthernet_Copy(Ethernet), Ethernet)
    /\ ~cpiInterfaceEthernet_Equals(Ethernet, cpiInterfaceEthernet_Create(3, <<Link, Inet(1)>>))
    /\ Survives(Tunnels, cpiInterfaceIPTunnelList_ToJson, cpiInterfaceIPTunnelList_FromJson, cpiInterfaceIPTunnelList_Equals)
    /\ ~cpiInterfaceIPTunnel_Equals(cpiInterfaceIPTunnelList_Get(Tunnels, 0), Tunnels[2])
    /\ Survives(TwoConnections, cpiConnectionList_ToJson, cpiConnectionList_FromJson, cpiConnectionList_Equals)
    /\ ~cpiConnection_Equals(cpiConnectionList_Get(TwoConnections, 0), TwoConnections[2])
    /\ Survives(AllRoutes, cpiRouteEntryList_ToJson, cpiRouteEntryList_FromJson, cpiRouteEntryList_Equals)
    /\ \A i, j \in DOMAIN AllRoutes : cpiRouteEntry_Equals(cpiRouteEntryList_Get(AllRoutes, i - 1), AllRoutes[j]) <=> i = j
    /\ Survives(Ether, cpiConnectionEthernet_ToJson, cpiConnectionEthernet_FromJson, cpiConnectionEthernet_Equals)
    /\ \A a \in Listeners : Survives(a, cpiListener_ToJson, cpiListener_FromJson, cpiListener_Equals)
    /\ \A a, b \in Listeners : cpiListener_Equals(a, b) <=> a = b
    /\ \A name \in {Null, << <<"a">> >>}, text \in {Null, <<"text">>} :
          LET status == notifyStatus_Create(5, notifyStatusCode_CONNECTION_OPEN, name, text)
          IN  notifyStatus_Equals(notifyStatus_ParseJSON(notifyStatus_ToJSON(status))[1], status)
    /\ \A listener \in Listeners : LET asked == cpiListener_CreateControlMessage(listener, "AddListener", 1) IN
          /\ cpiListener_IsMessageType(asked, "AddListener") /\ ~cpiListener_IsMessageType(asked, "RemoveListener")
          /\ ccnxControl_IsNACK(cpiAcks_CreateNack(asked, 2)) /\ ~ccnxControl_IsNACK(cpiAcks_CreateAck(asked, 2))
=============================================================================
