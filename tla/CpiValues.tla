------------------------------ MODULE CpiValues ------------------------------
(***************************************************************************)
(* The values that control messages carry (cpi_Address, cpi_RouteEntry,    *)
(* cpi_Interface*, cpi_Connection*, cpi_Listener): how each is built,      *)
(* written to a JSON document, read back, copied and compared.  A pointer  *)
(* that may be NULL is a sequence of at most one value.  Names are model   *)
(* strings in one letter case, so that strcmp and strcasecmp agree.        *)
(***************************************************************************)
EXTENDS Json

Null       == <<>>
UINT32_MAX == -1           \* the same 32 bits
INT_MAX    == 2147483647
CPI_CURRENT_INTERFACE == 2147483647
uint16(n)  == n % 65536

(* The tables of type names, searched both ways. *)
cpiAddressTypeString == <<
    <<"cpiAddressType_INET", "INET">>, <<"cpiAddressType_INET6", "INET6">>, <<"cpiAddressType_LINK", "LINK">>,
    <<"cpiAddressType_IFACE", "IFACE">>, <<"cpiAddressType_UNIX", "UNIX">> >>
iptunnelTypeStrings == << <<"IPTUN_UDP", "UDP">>, <<"IPTUN_TCP", "TCP">>, <<"IPTUN_GRE", "GRE">> >>
connectionTypeStrings == <<
    <<"cpiConnection_UDP", "UDP">>, <<"cpiConnection_TCP", "TCP">>, <<"cpiConnection_GRE", "GRE">>,
    <<"cpiConnection_MULTICAST", "MCAST">>, <<"cpiConnection_L2", "L2">> >>
interfaceStateTypesArray == << <<"CPI_IFACE_UNKNOWN", "UNKNOWN">>, <<"CPI_IFACE_UP", "UP">>, <<"CPI_IFACE_DOWN", "DOWN">> >>
nameRouteProtocolTypeString == <<
    <<"cpiNameRouteProtocolType_LOCAL", "LOCAL">>, <<"cpiNameRouteProtocolType_CONNECTED", "CONNECTED">>,
    <<"cpiNameRouteProtocolType_STATIC", "STATIC">>, <<"cpiNameRouteProtocolType_ACORN", "ACORN">> >>
nameRouteTypeString == <<
    <<"cpiNameRouteType_EXACT_MATCH", "EXACT">>, <<"cpiNameRouteType_LONGEST_MATCH", "LONGEST">>,
    <<"cpiNameRouteType_DEFAULT", "DEFAULT">> >>

TypeToString(table, type) == table[SelectInSeq(table, LAMBDA row : row[1] = type)][2]
TypeFromString(table, str) == table[SelectInSeq(table, LAMBDA row : row[2] = str)][1]

Flag(boolean) == IF boolean THEN "true" ELSE "false"

-----------------------------------------------------------------------------
(* Addresses.  A sockaddr is the sequence of its bytes, the family first. *)
AF_UNIX  == 1
AF_INET  == 2
AF_INET6 == 10

Byte(n, place) == (n \div 256^place) % 256
htonl(n) == <<Byte(n, 3), Byte(n, 2), Byte(n, 1), Byte(n, 0)>>
ntohl(bytes) == (IF bytes[1] < 128 THEN bytes[1] ELSE bytes[1] - 256) * 16777216
                  + bytes[2] * 65536 + bytes[3] * 256 + bytes[4]

Address(addressType, blob) == [addressType |-> addressType, blob |-> blob]

cpiAddress_CreateFromInet(addr_in)   == Address("cpiAddressType_INET", <<AF_INET>> \o Tail(addr_in))
cpiAddress_CreateFromInet6(addr_in6) == Address("cpiAddressType_INET6", addr_in6)
cpiAddress_CreateFromLink(linkaddr)  == Address("cpiAddressType_LINK", linkaddr)
cpiAddress_CreateFromInterface(interfaceIndex) == Address("cpiAddressType_IFACE", htonl(interfaceIndex))
cpiAddress_CreateFromUnix(addr_un)   == Address("cpiAddressType_UNIX", addr_un)
cpiAddress_Copy(original)            == Address(original.addressType, original.blob)

cpiAddress_Equals(a, b) == a.addressType = b.addressType /\ a.blob = b.blob

cpiAddress_ToJson(address) ==
    Add(Add(EmptyObject, "ADDRESSTYPE", TypeToString(cpiAddressTypeString, address.addressType)), "DATA", Base64(address.blob))

cpiAddress_CreateFromJson(json) ==
    Address(TypeFromString(cpiAddressTypeString, GetValueByName(json, "ADDRESSTYPE")), FromBase64(GetValueByName(json, "DATA")))

cpiAddress_GetInterfaceIndex(address) ==
    IF address.addressType = "cpiAddressType_IFACE" THEN <<ntohl(address.blob)>> ELSE Null

(* A pointer to an address, which may be NULL. *)
SameAddress(a, b) == Len(a) = Len(b) /\ \A i \in DOMAIN a : cpiAddress_Equals(a[i], b[i])

cpiAddressList_Append(list, address) == Append(list, address)
cpiAddressList_Copy(original) == [i \in DOMAIN original |-> cpiAddress_Copy(original[i])]
cpiAddressList_Equals(a, b) == SameAddress(a, b)
cpiAddressList_ToJson(list) == ToArray(list, cpiAddress_ToJson)
cpiAddressList_CreateFromJson(array) == FromArray(array, cpiAddress_CreateFromJson)

-----------------------------------------------------------------------------
(* Interfaces. *)
cpiInterface_Create(name, interfaceIndex, loopback, supportMulticast, mtu) ==
    [name |-> name, interfaceIndex |-> interfaceIndex, loopback |-> loopback,
     supportMulticast |-> supportMulticast, mtu |-> mtu, addressList |-> <<>>]

cpiInterface_AddAddress(iface, address) ==
    IF \E i \in DOMAIN iface.addressList : cpiAddress_Equals(iface.addressList[i], address)
    THEN iface
    ELSE [iface EXCEPT !.addressList = cpiAddressList_Append(@, address)]

cpiInterface_Equals(a, b) ==
    /\ a.interfaceIndex = b.interfaceIndex
    /\ a.loopback = b.loopback
    /\ a.supportMulticast = b.supportMulticast
    /\ a.mtu = b.mtu
    /\ a.name = b.name
    /\ cpiAddressList_Equals(a.addressList, b.addressList)

cpiInterface_ToJson(iface) ==
    Add(EmptyObject, "Interface",
        << <<"Name", iface.name>>, <<"Index", iface.interfaceIndex>>, <<"Loopback", Flag(iface.loopback)>>,
           <<"Multicast", Flag(iface.supportMulticast)>>, <<"MTU", iface.mtu>>,
           <<"Addrs", cpiAddressList_ToJson(iface.addressList)>> >>)

cpiInterface_FromJson(json) ==
    LET ifaceJson == GetValueByName(json, "Interface")
        iface == cpiInterface_Create(GetValueByName(ifaceJson, "Name"), GetValueByName(ifaceJson, "Index"),
                     GetValueByName(ifaceJson, "Loopback") = "true", GetValueByName(ifaceJson, "Multicast") = "true",
                     GetValueByName(ifaceJson, "MTU"))
        addrs == cpiAddressList_CreateFromJson(GetValueByName(ifaceJson, "Addrs"))
    IN  FoldLeft(LAMBDA i, address : cpiInterface_AddAddress(i, cpiAddress_Copy(address)), iface, addrs)

cpiInterfaceSet_GetByInterfaceIndex(set, interfaceIndex) ==
    SelectSeq(set, LAMBDA entry : entry.interfaceIndex = interfaceIndex)

(* An interface whose index is in the set is refused. *)
cpiInterfaceSet_Add(set, iface) ==
    IF cpiInterfaceSet_GetByInterfaceIndex(set, iface.interfaceIndex) # Null THEN set ELSE Append(set, iface)

cpiInterfaceSet_ToJson(set) == Add(EmptyObject, "Interfaces", ToArray(set, cpiInterface_ToJson))
cpiInterfaceSet_FromJson(json) ==
    FoldLeft(cpiInterfaceSet_Add, <<>>, FromArray(GetValueByName(json, "Interfaces"), cpiInterface_FromJson))

(* Line 195 compares the interface of b with itself. *)
cpiInterfaceSet_Equals(a, b) ==
    /\ Len(a) = Len(b)
    /\ \A i \in DOMAIN a :
          LET iface_b == cpiInterfaceSet_GetByInterfaceIndex(b, a[i].interfaceIndex)
          IN  iface_b = Null \/ cpiInterface_Equals(iface_b[1], iface_b[1])

(* The part that tunnels, connections and ethernet interfaces share. *)
cpiInterfaceGeneric_Create(ifidx, addresses) == [ifidx |-> ifidx, state |-> "CPI_IFACE_UNKNOWN", addresses |-> addresses]
cpiInterfaceGeneric_SetState(generic, state) == [generic EXCEPT !.state = state]
cpiInterfaceGeneric_Copy(original) ==
    [ifidx |-> original.ifidx, state |-> original.state, addresses |-> cpiAddressList_Copy(original.addresses)]
cpiInterfaceGeneric_Equals(a, b) ==
    a.ifidx = b.ifidx /\ a.state = b.state /\ cpiAddressList_Equals(a.addresses, b.addresses)

AddState(json, generic) ==
    AddIf(json, generic.state # "CPI_IFACE_UNKNOWN", "STATE", TypeToString(interfaceStateTypesArray, generic.state))

ReadState(json, generic) ==
    IF Has(json, "STATE")
    THEN cpiInterfaceGeneric_SetState(generic, TypeFromString(interfaceStateTypesArray, GetValueByName(json, "STATE")))
    ELSE generic

cpiInterfaceEthernet_Create(ifidx, addresses) == [generic |-> cpiInterfaceGeneric_Create(ifidx, addresses)]
cpiInterfaceEthernet_Copy(original) == [generic |-> cpiInterfaceGeneric_Copy(original.generic)]
cpiInterfaceEthernet_Equals(a, b) == cpiInterfaceGeneric_Equals(a.generic, b.generic)
cpiInterfaceEthernet_ToJson(ethernet) ==
    Add(EmptyObject, "ETHERNET",
        Add(AddState(Add(EmptyObject, "IFIDX", ethernet.generic.ifidx), ethernet.generic),
            "ADDRS", cpiAddressList_ToJson(ethernet.generic.addresses)))
cpiInterfaceEthernet_CreateFromJson(json) ==
    LET etherJson == GetValueByName(json, "ETHERNET")
    IN  [generic |-> ReadState(etherJson,
            cpiInterfaceGeneric_Create(GetValueByName(etherJson, "IFIDX"),
                                       cpiAddressList_CreateFromJson(GetValueByName(etherJson, "ADDRS"))))]

AddEnds(json, generic) ==
    Add(Add(json, "SRC", cpiAddress_ToJson(generic.addresses[1])), "DST", cpiAddress_ToJson(generic.addresses[2]))

(* Tunnels over IP. *)
cpiInterfaceIPTunnel_Create(ifidx, source, destination, tunnelType, symbolic) ==
    [generic |-> cpiInterfaceGeneric_Create(ifidx, <<source, destination>>), tunnelType |-> tunnelType, symbolic |-> symbolic]
cpiInterfaceIPTunnel_Copy(original) ==
    [generic |-> cpiInterfaceGeneric_Copy(original.generic), tunnelType |-> original.tunnelType, symbolic |-> original.symbolic]
cpiInterfaceIPTunnel_Equals(a, b) ==
    a.tunnelType = b.tunnelType /\ cpiInterfaceGeneric_Equals(a.generic, b.generic) /\ a.symbolic = b.symbolic
cpiInterfaceIPTunnel_ToJson(iptun) ==
    LET head == << <<"IFIDX", iptun.generic.ifidx>>, <<"SYMBOLIC", iptun.symbolic>> >>
    IN  Add(EmptyObject, "TUNNEL",
            AddEnds(Add(AddState(head, iptun.generic), "TUNTYPE", TypeToString(iptunnelTypeStrings, iptun.tunnelType)), iptun.generic))
cpiInterfaceIPTunnel_CreateFromJson(json) ==
    LET tunnelJson == GetValueByName(json, "TUNNEL")
        iptun == cpiInterfaceIPTunnel_Create(GetValueByName(tunnelJson, "IFIDX"),
                     cpiAddress_CreateFromJson(GetValueByName(tunnelJson, "SRC")),
                     cpiAddress_CreateFromJson(GetValueByName(tunnelJson, "DST")),
                     TypeFromString(iptunnelTypeStrings, GetValueByName(tunnelJson, "TUNTYPE")),
                     GetValueByName(tunnelJson, "SYMBOLIC"))
    IN  [iptun EXCEPT !.generic = ReadState(tunnelJson, @)]

(* Connections of the forwarder. *)
cpiConnection_Create(ifidx, source, destination, tunnelType) ==
    [generic |-> cpiInterfaceGeneric_Create(ifidx, <<source, destination>>), tunnelType |-> tunnelType]
cpiConnection_SetState(iptun, state) == [iptun EXCEPT !.generic = cpiInterfaceGeneric_SetState(@, state)]
cpiConnection_Copy(original) == [generic |-> cpiInterfaceGeneric_Copy(original.generic), tunnelType |-> original.tunnelType]
cpiConnection_Equals(a, b) == a.tunnelType = b.tunnelType /\ cpiInterfaceGeneric_Equals(a.generic, b.generic)
cpiConnection_ToJson(iptun) ==
    Add(EmptyObject, "Connection",
        AddEnds(Add(AddState(Add(EmptyObject, "IFIDX", iptun.generic.ifidx), iptun.generic),
                    "CONNTYPE", TypeToString(connectionTypeStrings, iptun.tunnelType)), iptun.generic))
cpiConnection_CreateFromJson(json) ==
    LET connectionJson == GetValueByName(json, "Connection")
        iptun == cpiConnection_Create(GetValueByName(connectionJson, "IFIDX"),
                     cpiAddress_CreateFromJson(GetValueByName(connectionJson, "SRC")),
                     cpiAddress_CreateFromJson(GetValueByName(connectionJson, "DST")),
                     TypeFromString(connectionTypeStrings, GetValueByName(connectionJson, "CONNTYPE")))
    IN  [iptun EXCEPT !.generic = ReadState(connectionJson, @)]

cpiConnectionList_ToJson(list) == Add(EmptyObject, "ConnectionList", ToArray(list, cpiConnection_ToJson))
cpiConnectionList_FromJson(json) == FromArray(GetValueByName(json, "ConnectionList"), cpiConnection_CreateFromJson)
cpiConnectionList_Get(list, index) == cpiConnection_Copy(list[index + 1])
cpiConnectionList_Equals(a, b) == Len(a) = Len(b) /\ \A i \in DOMAIN a : cpiConnection_Equals(a[i], b[i])

cpiInterfaceIPTunnelList_ToJson(list) == Add(EmptyObject, "TunnelList", ToArray(list, cpiInterfaceIPTunnel_ToJson))
cpiInterfaceIPTunnelList_FromJson(json) == FromArray(GetValueByName(json, "TunnelList"), cpiInterfaceIPTunnel_CreateFromJson)
cpiInterfaceIPTunnelList_Get(list, index) == cpiInterfaceIPTunnel_Copy(list[index + 1])
cpiInterfaceIPTunnelList_Equals(a, b) == Len(a) = Len(b) /\ \A i \in DOMAIN a : cpiInterfaceIPTunnel_Equals(a[i], b[i])

-----------------------------------------------------------------------------
(* Routes. *)
Lifetime(optionalLifetime) == IF optionalLifetime = Null THEN <<INT_MAX, 0>> ELSE optionalLifetime[1]

cpiRouteEntry_Create(prefix, interfaceIndex, optionalNexthop, routingProtocol, routeType, optionalLifetime, cost) ==
    [prefix |-> prefix, symbolic |-> Null, interfaceIndex |-> interfaceIndex, hasInterfaceIndex |-> TRUE,
     nexthop |-> optionalNexthop, routingProtocol |-> routingProtocol, routeType |-> routeType, cost |-> cost,
     hasLifetime |-> optionalLifetime # Null, lifetime |-> Lifetime(optionalLifetime)]

cpiRouteEntry_CreateSymbolic(prefix, symbolicName, routingProtocol, routeType, optionalLifetime, cost) ==
    [prefix |-> prefix, symbolic |-> <<symbolicName>>, interfaceIndex |-> UINT32_MAX, hasInterfaceIndex |-> FALSE,
     nexthop |-> Null, routingProtocol |-> routingProtocol, routeType |-> routeType, cost |-> cost,
     hasLifetime |-> optionalLifetime # Null, lifetime |-> Lifetime(optionalLifetime)]

cpiRouteEntry_CreateRouteToSelf(prefix) ==
    cpiRouteEntry_Create(prefix, CPI_CURRENT_INTERFACE, Null, "cpiNameRouteProtocolType_LOCAL",
                         "cpiNameRouteType_LONGEST_MATCH", Null, 0)

cpiRouteEntry_SetInterfaceIndex(route, interfaceIndex) ==
    [route EXCEPT !.interfaceIndex = interfaceIndex, !.hasInterfaceIndex = TRUE]

LifetimeOf(route) == IF route.hasLifetime THEN <<route.lifetime>> ELSE Null

cpiRouteEntry_Copy(original) ==
    IF original.hasInterfaceIndex
    THEN [cpiRouteEntry_Create(original.prefix, original.interfaceIndex, original.nexthop, original.routingProtocol,
                               original.routeType, LifetimeOf(original), original.cost)
             EXCEPT !.symbolic = original.symbolic]
    ELSE cpiRouteEntry_CreateSymbolic(original.prefix, original.symbolic[1], original.routingProtocol,
                                      original.routeType, LifetimeOf(original), original.cost)

cpiRouteEntry_Equals(a, b) ==
    /\ a.interfaceIndex = b.interfaceIndex
    /\ a.routeType = b.routeType
    /\ a.routingProtocol = b.routingProtocol
    /\ a.cost = b.cost
    /\ a.prefix = b.prefix
    /\ SameAddress(a.nexthop, b.nexthop)
    /\ a.hasLifetime = b.hasLifetime
    /\ a.lifetime = b.lifetime
    /\ a.symbolic = b.symbolic

cpiRouteEntry_ToJson(route) ==
    LET named == AddIf(Add(EmptyObject, "PREFIX", Uri(route.prefix)), route.symbolic # Null, "SYMBOLIC", route.symbolic[1])
        sent  == Add(AddIf(named, route.hasInterfaceIndex, "INTERFACE", route.interfaceIndex), "FLAGS", 0)
        next  == IF route.nexthop = Null THEN sent ELSE Add(sent, "NEXTHOP", cpiAddress_ToJson(route.nexthop[1]))
        typed == Add(Add(next, "PROTOCOL", TypeToString(nameRouteProtocolTypeString, route.routingProtocol)),
                     "ROUTETYPE", TypeToString(nameRouteTypeString, route.routeType))
    IN  AddIf(Add(typed, "COST", route.cost), route.hasLifetime, "LIFETIME", route.lifetime)

ReadInterface(json, route) ==
    IF Has(json, "INTERFACE") THEN cpiRouteEntry_SetInterfaceIndex(route, GetValueByName(json, "INTERFACE")) ELSE route

cpiRouteEntry_FromJson(json) ==
    LET prefix   == FromUri(GetValueByName(json, "PREFIX"))
        protocol == TypeFromString(nameRouteProtocolTypeString, GetValueByName(json, "PROTOCOL"))
        type     == TypeFromString(nameRouteTypeString, GetValueByName(json, "ROUTETYPE"))
        cost     == GetValueByName(json, "COST")
        lifetime == Optional(json, "LIFETIME")
        nexthop  == FromArray(Optional(json, "NEXTHOP"), cpiAddress_CreateFromJson)
        interfaceIndex == IF Has(json, "INTERFACE") THEN GetValueByName(json, "INTERFACE") ELSE UINT32_MAX
    IN  IF Has(json, "SYMBOLIC")
        THEN ReadInterface(json, cpiRouteEntry_CreateSymbolic(prefix, GetValueByName(json, "SYMBOLIC"), protocol, type, lifetime, cost))
        ELSE cpiRouteEntry_Create(prefix, interfaceIndex, nexthop, protocol, type, lifetime, cost)

cpiRouteEntryList_ToJson(list) == Add(EmptyObject, "Routes", ToArray(list, cpiRouteEntry_ToJson))
cpiRouteEntryList_FromJson(json) == FromArray(GetValueByName(json, "Routes"), cpiRouteEntry_FromJson)
cpiRouteEntryList_Get(list, index) == cpiRouteEntry_Copy(list[index + 1])
cpiRouteEntryList_Equals(a, b) == Len(a) = Len(b) /\ \A i \in DOMAIN a : cpiRouteEntry_Equals(a[i], b[i])

-----------------------------------------------------------------------------
(* Ethernet connections and listeners. *)
cpiConnectionEthernet_Create(interfaceName, peerLinkAddress, ethertype, symbolic) ==
    [interfaceName |-> interfaceName, symbolic |-> symbolic, peerLinkAddress |-> cpiAddress_Copy(peerLinkAddress),
     ethertype |-> uint16(ethertype)]
cpiConnectionEthernet_Equals(a, b) ==
    /\ a.ethertype = b.ethertype
    /\ cpiAddress_Equals(a.peerLinkAddress, b.peerLinkAddress)
    /\ a.interfaceName = b.interfaceName
    /\ a.symbolic = b.symbolic
cpiConnectionEthernet_ToJson(etherConn) ==
    << <<"IFNAME", etherConn.interfaceName>>, <<"SYMBOLIC", etherConn.symbolic>>,
       <<"PEER_ADDR", cpiAddress_ToJson(etherConn.peerLinkAddress)>>, <<"ETHERTYPE", etherConn.ethertype>> >>
cpiConnectionEthernet_FromJson(json) ==
    cpiConnectionEthernet_Create(GetValueByName(json, "IFNAME"), cpiAddress_CreateFromJson(GetValueByName(json, "PEER_ADDR")),
                                 GetValueByName(json, "ETHERTYPE"), GetValueByName(json, "SYMBOLIC"))

cpiListener_CreateEther(interfaceName, ethertype, symbolic) ==
    [mode |-> "CPIListenerMode_ETHER", interfaceName |-> interfaceName, ethertype |-> uint16(ethertype), symbolic |-> symbolic]
cpiListener_CreateIP(type, localAddress, symbolic) ==
    [mode |-> "CPIListenerMode_IP", type |-> type, address |-> cpiAddress_Copy(localAddress), symbolic |-> symbolic]
cpiListener_Equals(a, b) ==
    /\ a.mode = b.mode
    /\ a.symbolic = b.symbolic
    /\ IF a.mode = "CPIListenerMode_ETHER"
       THEN a.ethertype = b.ethertype /\ a.interfaceName = b.interfaceName
       ELSE a.type = b.type /\ cpiAddress_Equals(a.address, b.address)
encodeEther(listener) ==
    << <<"IFNAME", listener.interfaceName>>, <<"ETHERTYPE", listener.ethertype>>, <<"SYMBOLIC", listener.symbolic>> >>
encodeIP(listener) ==
    << <<"IPROTO", TypeToString(iptunnelTypeStrings, listener.type)>>, <<"ADDR", cpiAddress_ToJson(listener.address)>>,
       <<"SYMBOLIC", listener.symbolic>> >>
cpiListener_ToJson(listener) == IF listener.mode = "CPIListenerMode_ETHER" THEN encodeEther(listener) ELSE encodeIP(listener)
parseEther(json) ==
    cpiListener_CreateEther(GetValueByName(json, "IFNAME"), GetValueByName(json, "ETHERTYPE"), GetValueByName(json, "SYMBOLIC"))
parseIP(json) ==
    cpiListener_CreateIP(TypeFromString(iptunnelTypeStrings, GetValueByName(json, "IPROTO")),
                         cpiAddress_CreateFromJson(GetValueByName(json, "ADDR")), GetValueByName(json, "SYMBOLIC"))
cpiListener_FromJson(json) == IF Has(json, "IFNAME") THEN parseEther(json) ELSE parseIP(json)
=============================================================================
