---------------------------- MODULE ActionConfig ----------------------------
(***************************************************************************)
(* From a manifest of Actions to the running endpoints: the generator of   *)
(* action_config_generator.py, and what ActionConfigurationLoader and the  *)
(* endpoints make of the files it writes.  The two compute the channels of *)
(* each slot on their own, one in Python's integers and one in 32 bits.    *)
(*                                                                         *)
(* A manifest is a record: actions, a sequence; endpoints, node -> [role,  *)
(* port]; queueDepth; and wellFormed, the checks of single fields (types,  *)
(* unknown fields, non-empty text, ports) in one flag.                     *)
(***************************************************************************)
EXTENDS ConfigFiles

CONSTANTS
  ChannelIds,       \* 2^32, the number of channel ids
  DefaultHeap,      \* DEFAULT_ACTION_BUFFER_HEAP_SIZE
  MaxHeap,          \* 2^31 - 1
  Unset             \* a manifest's action without bufferHeap

ASSUME ActionConfigAssumption ==
  /\ ChannelIds \in Nat /\ ChannelIds > 2 /\ ChannelIds % 3 # 0
  /\ DefaultHeap \in 0..MaxHeap

Kinds == <<"REQUEST", "RESPONSE", "FEEDBACK">>

-----------------------------------------------------------------------------
(* The generator.                                                           *)
PyMaxSlotCount == (ChannelIds - 1) \div 3

PyChannels(slotCount) ==
  {[slot |-> s, kind |-> Kinds[k], id |-> s * 3 + k - 1] : s \in 0..(slotCount - 1), k \in 1..3}

BufferHeap(action) == IF action.heap = Unset THEN DefaultHeap ELSE action.heap

ValidateAction(action) ==
  /\ action.slotCount > 0 /\ action.slotCount <= PyMaxSlotCount
  /\ BufferHeap(action) \in 0..MaxHeap
  /\ \A node \in {action.client, action.server} : SafeId(node) # <<>>

Referenced(m) == UNION {{m.actions[i].client, m.actions[i].server} : i \in DOMAIN m.actions}

Resolves(m) ==
  /\ m.wellFormed
  /\ m.actions # <<>>
  /\ \A i \in DOMAIN m.actions : ValidateAction(m.actions[i])
  /\ \A i, j \in DOMAIN m.actions : m.actions[i].name = m.actions[j].name => i = j
  /\ m.queueDepth > 0
  /\ DOMAIN m.endpoints = Referenced(m)
  /\ {m.endpoints[n].role : n \in Referenced(m)} = {"server", "client"}
  /\ \A i \in DOMAIN m.actions :
       m.endpoints[m.actions[i].client].role # m.endpoints[m.actions[i].server].role

(* resolved-action.json *)
ResolvedAction(action) ==
  [name |-> action.name, slotCount |-> action.slotCount, heap |-> BufferHeap(action),
   client |-> [nodeId |-> action.client, endpointId |-> SafeId(action.client)],
   server |-> [nodeId |-> action.server, endpointId |-> SafeId(action.server)],
   channels |-> PyChannels(action.slotCount)]

ResolvedFile(m) ==
  <<Path("resolved-action.json"), [i \in DOMAIN m.actions |-> ResolvedAction(m.actions[i])]>>

ActionNodeFiles(m, node) ==
  NodeFiles(node, [cache |-> Path("queue.json")], m.endpoints[node])

(* Mutant: endpoints.json before the files it refers to. *)
WritesIndexFirst(m) ==
  LET nodes == Sorted(Referenced(m))
  IN <<ResolvedFile(m), <<Path("queue.json"), m.queueDepth>>,
       <<Path("endpoints.json"), EndpointEntries(Referenced(m))>> >>
     \o FlattenSeq([i \in DOMAIN nodes |-> ActionNodeFiles(m, nodes[i])])

(* The files of generate(), in the order it writes them.                    *)
Writes(m) ==
  LET nodes == Sorted(Referenced(m))
  IN <<ResolvedFile(m), <<Path("queue.json"), m.queueDepth>> >>
     \o FlattenSeq([i \in DOMAIN nodes |-> ActionNodeFiles(m, nodes[i])])
     \o << <<Path("endpoints.json"), EndpointEntries(Referenced(m))>> >>

Generate(m) == BeginGeneration(m, Resolves(m), Writes(m))

-----------------------------------------------------------------------------
(* The loader: ActionConfigurationLoader and the endpoints' initialize.     *)
MaxSlotCount == (ChannelIds - 1 - 2) \div 3 + 1

SlotChannels(slot) ==
  LET base == (slot * 3) % ChannelIds
  IN {[slot |-> slot, kind |-> Kinds[k], id |-> (base + k - 1) % ChannelIds] : k \in 1..3}

AppendSlotChannels(slotCount) == UNION {SlotChannels(s) : s \in 0..(slotCount - 1)}

ParseAction(entry) ==
  /\ entry.slotCount > 0 /\ entry.slotCount <= MaxSlotCount
  /\ entry.heap \in 0..MaxHeap

ParseConfiguration(entries) ==
  /\ entries # <<>>
  /\ \A i \in DOMAIN entries : ParseAction(entries[i])
  /\ \A i, j \in DOMAIN entries : entries[i].name = entries[j].name => i = j

(* initialize of the client's and the server's endpoint: no channel id      *)
(* twice, and the three kinds of channel for every slot.                    *)
EndpointInitializes(entry) ==
  LET channels == AppendSlotChannels(entry.slotCount)
  IN /\ \A c, d \in channels : c.id = d.id => c = d
     /\ \A s \in 0..(entry.slotCount - 1), k \in 1..3 :
          \E c \in channels : c.slot = s /\ c.kind = Kinds[k]

(* initialize_services of a node's services: its Actions are those whose    *)
(* endpoint it is, and the container must have that endpoint.               *)
InitializeServices(node, entries) ==
  /\ ParseConfiguration(entries)
  /\ \A i \in DOMAIN entries :
       \A side \in {entries[i].client, entries[i].server} :
         side.nodeId = node =>
           /\ \E e \in Entries : e.id = side.endpointId
           /\ EndpointInitializes(entries[i])

-----------------------------------------------------------------------------
ActionConfigNext ==
  \/ \E m \in Manifests : Generate(m)
  \/ WriteNext
  \/ Killed

ActionConfigSpec == ConfigInit /\ [][ActionConfigNext]_configVars

-----------------------------------------------------------------------------
(* What the generator accepts, the programs can run: with the files of a    *)
(* settled manifest every node initializes its Actions, and the channels    *)
(* the loader computes in 32 bits are those the generator wrote.            *)
GeneratedConfigurationLoads ==
  settled # NoManifest =>
    LET entries == files[Path("resolved-action.json")]
    IN /\ \A node \in Referenced(settled) : InitializeServices(node, entries)
       /\ \A i \in DOMAIN entries : entries[i].channels = AppendSlotChannels(entries[i].slotCount)

(* Each node finds its own transport: the role and the address the manifest *)
(* gives it, and the two ends of an Action connect to each other.  The      *)
(* documentation makes the endpoint id "<nodeId>-action-tcp", one per node. *)
NodeFindsItsTransport ==
  settled # NoManifest =>
    \A node \in Referenced(settled) :
      \E e \in Entries : e.nodeId = node /\ TransportOf(e) = settled.endpoints[node]
=============================================================================
