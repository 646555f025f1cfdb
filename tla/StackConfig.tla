----------------------------- MODULE StackConfig -----------------------------
(***************************************************************************)
(* How a stack and a connection are configured (ccnxStackConfig,           *)
(* ccnxConnectionConfig, config_*.c), how a stack wires the components     *)
(* that its configuration names (rta_ProtocolStack.c), and what the        *)
(* components of a connection read from its configuration.                 *)
(***************************************************************************)
EXTENDS Json, TLC

(* The names of the components, in the order of their types. *)
RtaComponentNames == <<
    "API", "FC_NONE", "FC_VEGAS", "FC_PIPELINE", "VERIFY_NONE", "VERIFY_ENUMERATED", "VERIFY_LOCATOR", "CODEC_NONE",
    "", "CODEC_TLV", "CODEC_CCNB", "CODE_FLAN", "", "FWD_LOCAL", "FWD_FLAN", "FWD_CCND", "TESTING_UPPER",
    "TESTING_LOWER", "CCND_REGISTRAR", "FWD_METIS" >>
MAX_STACK_DEPTH == 10

-----------------------------------------------------------------------------
(* Configurations: documents to which each component adds its own part. *)
ccnxStackConfig_Create      == EmptyObject
ccnxConnectionConfig_Create == EmptyObject
ccnxStackConfig_Add(config, componentKey, jsonObject)      == Add(config, componentKey, jsonObject)
ccnxConnectionConfig_Add(config, componentKey, jsonObject) == Add(config, componentKey, jsonObject)
ccnxTransportConfig_Create(stackConfig, connConfig) == [stackConfig |-> stackConfig, connConfig |-> connConfig]

apiConnector_ProtocolStackConfig(stackConfig)        == ccnxStackConfig_Add(stackConfig, "API", NullValue)
vegasFlowController_ProtocolStackConfig(stackConfig) == ccnxStackConfig_Add(stackConfig, "FC_VEGAS", NullValue)
tlvCodec_ProtocolStackConfig(stackConfig)            == ccnxStackConfig_Add(stackConfig, "CODEC_TLV", NullValue)
localForwarder_ProtocolStackConfig(stackConfig)      == ccnxStackConfig_Add(stackConfig, "FWD_LOCAL", NullValue)
metisForwarder_ProtocolStackConfig(stackConfig)      == ccnxStackConfig_Add(stackConfig, "FWD_METIS", NullValue)
protocolStack_ComponentsConfigArrayList(stackConfig, listOfComponentNames) ==
    ccnxStackConfig_Add(stackConfig, "STACK", Add(EmptyObject, "COMPONENTS", listOfComponentNames))

apiConnector_ConnectionConfig(connConfig)        == ccnxConnectionConfig_Add(connConfig, "API", NullValue)
vegasFlowController_ConnectionConfig(connConfig) == ccnxConnectionConfig_Add(connConfig, "FC_VEGAS", NullValue)
tlvCodec_ConnectionConfig(connConfig)            == ccnxConnectionConfig_Add(connConfig, "CODEC_TLV", NullValue)
inMemoryVerifier_ConnectionConfig(connConfig)    == ccnxConnectionConfig_Add(connConfig, "InMemoryVerifier", NullValue)
localForwarder_ConnectionConfig(connConfig, pipePath) ==
    ccnxConnectionConfig_Add(connConfig, "FWD_LOCAL", Add(EmptyObject, "LOCAL_NAME", pipePath))
metisForwarder_ConnectionConfig(connConfig, port) ==
    ccnxConnectionConfig_Add(connConfig, "FWD_METIS", Add(EmptyObject, "METIS_PORT", port))

Keystore(filename, password) == << <<"KEYSTORE_NAME", filename>>, <<"KEYSTORE_PASSWD", password>> >>
publicKeySigner_ConnectionConfig(connConfig, filename, password) ==
    ccnxConnectionConfig_Add(ccnxConnectionConfig_Add(connConfig, "SIGNER", "publicKeySigner"),
                             "publicKeySigner", Keystore(filename, password))
symmetricKeySigner_ConnectionConfig(connConfig, filename, password) ==
    ccnxConnectionConfig_Add(ccnxConnectionConfig_Add(connConfig, "SIGNER", "SymmetricKeySigner"),
                             "SymmetricKeySigner", Keystore(filename, password))

-----------------------------------------------------------------------------
(* What the components of a connection read from its configuration. *)
localForwarder_GetPath(json) == GetValueByName(GetValueByName(json, "FWD_LOCAL"), "LOCAL_NAME")
metisForwarder_GetPortFromConfig(json) == GetValueByName(GetValueByName(json, "FWD_METIS"), "METIS_PORT") % 65536

signer_GetImplementationType(connectionJson) ==
    CASE GetValueByName(connectionJson, "SIGNER") = "publicKeySigner"    -> "SignerType_PublicKeySigner"
      [] GetValueByName(connectionJson, "SIGNER") = "SymmetricKeySigner" -> "SignerType_SymmetricKeySigner"
      [] OTHER -> "SignerType_Unknown"

KeystoreOf(keystoreJson) ==
    [filename |-> GetValueByName(keystoreJson, "KEYSTORE_NAME"), password |-> GetValueByName(keystoreJson, "KEYSTORE_PASSWD")]
publicKeySigner_GetConnectionParams(connectionJson)    == KeystoreOf(GetValueByName(connectionJson, "publicKeySigner"))
symmetricKeySigner_GetConnectionParams(connectionJson) == KeystoreOf(GetValueByName(connectionJson, "SymmetricKeySigner"))

(* The signer of a connection; a connection with none does not open. *)
component_Codec_GetSigner(connectionJson) ==
    [type |-> signer_GetImplementationType(connectionJson),
     keystore |-> IF signer_GetImplementationType(connectionJson) = "SignerType_SymmetricKeySigner"
                  THEN symmetricKeySigner_GetConnectionParams(connectionJson)
                  ELSE publicKeySigner_GetConnectionParams(connectionJson)]
HasSigner(connectionJson) ==
    Has(connectionJson, "SIGNER") /\ signer_GetImplementationType(connectionJson) # "SignerType_Unknown"

-----------------------------------------------------------------------------
(* Stacks.  Queue pair i joins two neighbours: what is put on its down end *)
(* is read at its up end, and the other way round.  NULL is an end that    *)
(* was never set.                                                          *)
NULL == MAX_STACK_DEPTH
rtaProtocolStack_Create ==
    [components |-> <<>>, trap |-> FALSE, queues |-> [c \in Range(RtaComponentNames) |-> [up |-> NULL, down |-> NULL]]]

component_count(stack) == Len(stack.components)
Listed(stack, comp_type) == [stack EXCEPT !.components = Append(@, comp_type)]

(* Mutant: the up end is taken of the pair below. *)
set_queue_pairs_Same(stack, comp_type) ==
    [stack EXCEPT !.queues[comp_type] = [up |-> component_count(stack), down |-> component_count(stack)]]

set_queue_pairs(stack, comp_type) ==
    [stack EXCEPT !.queues[comp_type] = [up |-> component_count(stack) - 1, down |-> component_count(stack)]]

configure_ApiConnector(stack, comp_type) ==
    Listed([stack EXCEPT !.queues[comp_type].down = component_count(stack)], comp_type)
configure_Component(stack, comp_type) == Listed(set_queue_pairs(stack, comp_type), comp_type)
configure_FwdConnector(stack, comp_type) ==
    Listed([stack EXCEPT !.queues[comp_type].up = component_count(stack) - 1], comp_type)

getComponentTypeFromName(name) == IF Contains(RtaComponentNames, name) THEN name ELSE "UNKNOWN_COMPONENT"

(* A component that needs a neighbour above and has none reads the pair before the first. *)
ConfigureComponent(stack, name) ==
    LET comp_type == getComponentTypeFromName(name)
    IN  CASE comp_type = "API" -> configure_ApiConnector(stack, comp_type)
          [] comp_type \in {"FC_VEGAS", "CODEC_TLV", "TESTING_UPPER", "TESTING_LOWER"} /\ component_count(stack) > 0 ->
                configure_Component(stack, comp_type)
          [] comp_type \in {"FWD_LOCAL", "FWD_METIS"} /\ component_count(stack) > 0 ->
                configure_FwdConnector(stack, comp_type)
          [] OTHER -> [stack EXCEPT !.trap = TRUE]

protocolStack_GetComponentNameArray(protocolStackJson) ==
    GetValueByName(GetValueByName(protocolStackJson, "STACK"), "COMPONENTS")

rtaProtocolStack_ConfigureComponents(stack, params) ==
    LET names == protocolStack_GetComponentNameArray(params)
    IN  IF Len(names) < MAX_STACK_DEPTH THEN FoldLeft(ConfigureComponent, stack, names) ELSE [stack EXCEPT !.trap = TRUE]

(* Who reads what a component puts down, or up: the components at the other end of the pair. *)
ReadersBelow(stack, c) == {d \in Range(stack.components) : stack.queues[d].up   # NULL /\ stack.queues[d].up   = stack.queues[c].down}
ReadersAbove(stack, c) == {d \in Range(stack.components) : stack.queues[d].down # NULL /\ stack.queues[d].down = stack.queues[c].up}
=============================================================================
