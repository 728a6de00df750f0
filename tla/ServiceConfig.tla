---------------------------- MODULE ServiceConfig ----------------------------
(***************************************************************************)
(* From a manifest of services to the programs that read it: the generator *)
(* of service_config_generator.py, the checks of validate_configs.py, and  *)
(* initialize_services of RpcServicesClient and of the servers.            *)
(*                                                                         *)
(* A manifest is a record: services, a sequence; endpoints, node -> [role, *)
(* port]; queueDepth; and wellFormed, the checks of single fields in one   *)
(* flag.  A client's name is <<prefix, index>>.                            *)
(***************************************************************************)
EXTENDS ConfigFiles

CONSTANT Unset      \* a manifest's service without clientNamePrefix

-----------------------------------------------------------------------------
(* The generator.  _service_key keeps the part of the name after the last   *)
(* "/", which is the second component of a name here.                       *)
ServiceKey(name) == name[2]

Prefix(service) == IF service.prefix = Unset THEN ServiceKey(service.name) ELSE service.prefix

ValidateService(service) ==
  /\ service.maxClients > 0
  /\ \A node \in {service.client, service.server} : SafeId(node) # <<>>
  /\ service.client # service.server

EndpointRef(node) == [nodeId |-> node, endpointId |-> SafeId(node)]

GeneratedClients(service) ==
  [i \in 1..service.maxClients |->
     [name |-> <<Prefix(service), i - 1>>,
      requestChannelId |-> (i - 1) * 2, responseChannelId |-> (i - 1) * 2 + 1,
      client_endpoint |-> EndpointRef(service.client)]]

Referenced(m) == UNION {{m.services[i].client, m.services[i].server} : i \in DOMAIN m.services}

Resolves(m) ==
  /\ m.wellFormed
  /\ m.services # <<>>
  /\ \A i \in DOMAIN m.services : ValidateService(m.services[i])
  /\ \A i, j \in DOMAIN m.services : m.services[i].name = m.services[j].name => i = j
  /\ m.queueDepth > 0
  /\ DOMAIN m.endpoints = Referenced(m)
  /\ \A i \in DOMAIN m.services :
       /\ m.endpoints[m.services[i].client].role = "client"
       /\ m.endpoints[m.services[i].server].role = "server"

(* The entries of rpc-server-services.json and rpc-client-services.json.    *)
ServiceEntry(service, server_endpoints) ==
  [name |-> service.name, maxClients |-> service.maxClients,
   clients |-> GeneratedClients(service), server_endpoints |-> server_endpoints]

ServerServices(m) ==
  [i \in DOMAIN m.services |-> ServiceEntry(m.services[i], <<EndpointRef(m.services[i].server)>>)]

ClientServices(m) == [i \in DOMAIN m.services |-> ServiceEntry(m.services[i], <<>>)]

(* Mutant: the last service of a server sets what it expects. *)
ExpectedByServerLast(m, node) ==
  m.services[Max({i \in DOMAIN m.services : m.services[i].server = node})].maxClients

ExpectedByServer(m, node) ==
  MapThenSumSet(LAMBDA i : m.services[i].maxClients,
                {i \in DOMAIN m.services : m.services[i].server = node})

Transport(m, node) ==
  [deployment |-> m.endpoints[node],
   expected_clients |-> IF m.endpoints[node].role = "server" THEN ExpectedByServer(m, node) ELSE 0]

ServiceNodeFiles(m, node) ==
  NodeFiles(node, [pdu_def_path |-> Path("pdudef.json"), cache |-> Path("queue.json")], Transport(m, node))

(* The files of generate(), in the order it writes them.                    *)
Writes(m) ==
  LET nodes == Sorted(Referenced(m))
  IN << <<Path("resolved-service.json"), m>>,
        <<Path("rpc-server-services.json"), ServerServices(m)>>,
        <<Path("rpc-client-services.json"), ClientServices(m)>>,
        <<Path("queue.json"), m.queueDepth>>, <<Path("pdudef.json"), "HakoniwaRpcService">> >>
     \o FlattenSeq([i \in DOMAIN nodes |-> ServiceNodeFiles(m, nodes[i])])
     \o << <<Path("endpoints.json"), EndpointEntries(Referenced(m))>> >>

Generate(m) == BeginGeneration(m, Resolves(m), Writes(m))

-----------------------------------------------------------------------------
(* check_rpc_semantics of the validator.  endpoint_idx, the endpoint ids of *)
(* each node, comes from an "endpoints" list in the services file itself;   *)
(* the generated ones have none, so the checks against it are skipped.      *)
EndpointIndexed(ref, index) ==
  index # {} => \E e \in index : e.nodeId = ref.nodeId /\ e.id = ref.endpointId

CheckRpcSemantics(services, index) ==
  /\ \A i, j \in DOMAIN services : services[i].name = services[j].name => i = j
  /\ \A i \in DOMAIN services :
       LET clients == services[i].clients
       IN /\ Len(clients) <= services[i].maxClients
          /\ \A e \in DOMAIN services[i].server_endpoints : EndpointIndexed(services[i].server_endpoints[e], index)
          /\ \A c \in DOMAIN clients :
               /\ clients[c].requestChannelId # clients[c].responseChannelId
               /\ EndpointIndexed(clients[c].client_endpoint, index)
          /\ \A c, d \in DOMAIN clients :
               c # d => /\ clients[c].name # clients[d].name
                        /\ {clients[c].requestChannelId, clients[c].responseChannelId}
                             \cap {clients[d].requestChannelId, clients[d].responseChannelId} = {}

(* RpcServicesClient: the services a program with this name gets on a node, *)
(* and whether the container has their endpoints.  The first entry with the *)
(* client's name counts.                                                    *)
ClientSpec(service, client_name) ==
  LET named == {c \in DOMAIN service.clients : service.clients[c].name = client_name}
  IN IF named = {} THEN <<>> ELSE <<service.clients[Min(named)]>>

ClientInitializes(node, client_name, services) ==
  \A i \in DOMAIN services :
    LET spec == ClientSpec(services[i], client_name)
    IN spec # <<>> /\ spec[1].client_endpoint.nodeId = node =>
         \E e \in Entries : e.id = spec[1].client_endpoint.endpointId

ServicesOf(node, client_name, services) ==
  {services[i].name : i \in {j \in DOMAIN services :
     LET spec == ClientSpec(services[j], client_name)
     IN spec # <<>> /\ spec[1].client_endpoint.nodeId = node}}

-----------------------------------------------------------------------------
ServiceConfigNext ==
  \/ \E m \in Manifests : Generate(m)
  \/ WriteNext
  \/ Killed

ServiceConfigSpec == ConfigInit /\ [][ServiceConfigNext]_configVars

-----------------------------------------------------------------------------
(* The programs that connect to a server when every client of every service *)
(* runs: one for each node and client name.                                 *)
Programs(m, server) ==
  UNION {{<<m.services[i].client, <<Prefix(m.services[i]), c - 1>> >> : c \in 1..m.services[i].maxClients} :
           i \in {j \in DOMAIN m.services : m.services[j].server = server}}

(* What the generator accepts, the validator accepts and the programs can   *)
(* run: with the files of a settled manifest each client program finds its  *)
(* endpoint and is given every service that lists it.                       *)
ServiceConfigurationLoads ==
  settled # NoManifest =>
    LET services == files[Path("rpc-client-services.json")]
    IN /\ CheckRpcSemantics(files[Path("rpc-server-services.json")], {})
       /\ CheckRpcSemantics(files[Path("rpc-server-services.json")], Entries)
       /\ CheckRpcSemantics(services, {})
       /\ \A i \in DOMAIN settled.services :
            \A c \in 0..(settled.services[i].maxClients - 1) :
              LET name == <<Prefix(settled.services[i]), c>>
                  node == settled.services[i].client
              IN /\ ClientInitializes(node, name, services)
                 /\ settled.services[i].name \in ServicesOf(node, name, services)

(* Room for every client: the multiplexer server, which turns connections   *)
(* away beyond expected_clients, has room for all the client programs of    *)
(* the services at its node at once, and each node finds its own transport. *)
RoomForEveryClient ==
  settled # NoManifest =>
    \A node \in Referenced(settled) :
      \E e \in Entries :
        /\ e.nodeId = node
        /\ TransportOf(e).deployment = settled.endpoints[node]
        /\ TransportOf(e).deployment.role = "server" =>
             Cardinality(Programs(settled, node)) <= TransportOf(e).expected_clients
=============================================================================
