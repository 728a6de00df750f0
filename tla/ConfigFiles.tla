----------------------------- MODULE ConfigFiles -----------------------------
(***************************************************************************)
(* What action_config_generator.py and service_config_generator.py share:  *)
(* safe file names, one endpoint file and one transport file for each      *)
(* node, _write_json, and a run of a generator as a process that can be    *)
(* killed (or fail on an I/O error) between two files.  Nothing ever       *)
(* removes a file.                                                         *)
(*                                                                         *)
(* A path is <<kind, name>>, the name empty for the files there is one of. *)
(* A node id is a sequence of characters: "-", the other characters that   *)
(* _safe_id keeps (SafeCharacters), and those that it does not.            *)
(***************************************************************************)
EXTENDS Naturals, Sequences, FiniteSets, FiniteSetsExt, SequencesExt, TLC

CONSTANTS
  NodeOrder,       \* every node id, in the order of sorted()
  SafeCharacters,  \* the characters other than "-" in [A-Za-z0-9_.-]
  Manifests,       \* the manifests the generator may be given
  NoManifest

VARIABLES
  files,    \* path -> content, of the output directory
  running,  \* the manifest of the generator that is running, or NoManifest
  todo,     \* the _write_json calls it has still to make: <<path, content>>
  settled   \* the manifest whose generation was the last to end, unless one
            \* of another manifest has begun since

configVars == <<files, running, todo, settled>>

Nodes == {NodeOrder[i] : i \in DOMAIN NodeOrder}
Sorted(nodes) == SelectSeq(NodeOrder, LAMBDA n : n \in nodes)

Path(kind) == <<kind, <<>> >>

(* re.sub(r"[^A-Za-z0-9_.-]+", "-", value).strip("-"): a maximal run of     *)
(* other characters becomes one "-".                                        *)
SafeId(value) ==
  LET Safe(i)  == value[i] \in SafeCharacters \cup {"-"}
      kept     == SelectSeq([i \in DOMAIN value |-> i], LAMBDA i : Safe(i) \/ i = 1 \/ Safe(i - 1))
      replaced == [i \in DOMAIN kept |-> IF Safe(kept[i]) THEN value[kept[i]] ELSE "-"]
      solid    == {i \in DOMAIN replaced : replaced[i] # "-"}
  IN IF solid = {} THEN <<>> ELSE SubSeq(replaced, Min(solid), Max(solid))

EndpointPath(node) == <<"endpoints/", SafeId(node)>>
TransportPath(node) == <<"transport/", SafeId(node)>>

(* The two files of a node: what its endpoint reads, and its transport.     *)
NodeFiles(node, references, transport) ==
  << <<EndpointPath(node), references @@ [comm |-> TransportPath(node)]>>,
     <<TransportPath(node), transport>> >>

(* endpoints.json: one entry for each node.                                 *)
EndpointEntries(nodes) ==
  {[nodeId |-> n, id |-> SafeId(n), config_path |-> EndpointPath(n)] : n \in nodes}


(* _write_json: a temporary file renamed over the old one, so the content   *)
(* changes as a whole.                                                      *)
WriteJson(path, content) ==
  files' = IF path \in DOMAIN files /\ files[path] = content
           THEN files
           ELSE (path :> content) @@ files

-----------------------------------------------------------------------------
ConfigInit ==
  /\ files = <<>>
  /\ running = NoManifest
  /\ todo = <<>>
  /\ settled = NoManifest

(* generate(): resolve() rejects the manifest before the first file.        *)
BeginGeneration(manifest, resolves, writes) ==
  /\ running = NoManifest
  /\ resolves
  /\ running' = manifest
  /\ todo' = writes
  /\ settled' = IF settled = manifest THEN settled ELSE NoManifest
  /\ UNCHANGED files

(* The next _write_json of generate(); after the last one it returns.       *)
WriteNext ==
  /\ running # NoManifest
  /\ WriteJson(todo[1][1], todo[1][2])
  /\ todo' = Tail(todo)
  /\ IF Len(todo) = 1
     THEN running' = NoManifest /\ settled' = running
     ELSE UNCHANGED <<running, settled>>

(* The process is killed, or a write raises and generate() with it.         *)
Killed ==
  /\ running # NoManifest
  /\ running' = NoManifest
  /\ todo' = <<>>
  /\ UNCHANGED <<files, settled>>

-----------------------------------------------------------------------------
(* What the endpoint container finds, following the paths in the files.     *)
Entries == IF Path("endpoints.json") \in DOMAIN files THEN files[Path("endpoints.json")] ELSE {}

TransportOf(entry) == files[files[entry.config_path].comm]

(* No dangling reference: whatever generations were killed, wherever, each  *)
(* entry of endpoints.json leads to an endpoint file, and that to files     *)
(* that are there.  endpoints.json is written last, and no file is removed. *)
ReferencesNeverDangle ==
  \A e \in Entries :
    /\ e.config_path \in DOMAIN files
    /\ LET references == files[e.config_path]
       IN \A field \in DOMAIN references : references[field] \in DOMAIN files
=============================================================================
