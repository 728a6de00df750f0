--------------------------- MODULE MCConfiguration ---------------------------
(***************************************************************************)
(* Manifests of one and two Actions, and of one and two services. Channel  *)
(* ids have three bits, so two slots are the most, and three would wrap.   *)
(* Two services share a server, and with it, through the last part of      *)
(* their names, their clients' names.                                      *)
(***************************************************************************)
EXTENDS Configuration

A == <<"a">>
B == <<"b", " ", "b">>
C == <<"/", "c", "/">>
S == <<"s">>
T == <<"t", "/">>

MCNodeOrder == <<C, A, B, S, T>>

Action(name, slots, heap, client, server) ==
  [name |-> name, slotCount |-> slots, heap |-> heap, client |-> client, server |-> server]

Roles(f) == [n \in DOMAIN f |-> [role |-> f[n], port |-> 1]]

ActionManifest(actions, roles, depth, wellFormed) ==
  [actions |-> actions, endpoints |-> Roles(roles), queueDepth |-> depth, wellFormed |-> wellFormed]

Heaps == {Unset, 0, MaxHeap, MaxHeap + 1}

ThreeNodes == (A :> "client") @@ (B :> "server") @@ (C :> "client")

MCManifests ==
  {ActionManifest(<<Action("fibonacci", slots, MaxHeap, A, B)>>, roles, 1, TRUE) :
     slots \in 0..3, roles \in [{A, B} -> {"client", "server"}]}
  \cup {ActionManifest(<<Action("fibonacci", 1, heap, A, B)>>, (A :> "client") @@ (B :> "server"), 2, TRUE) :
          heap \in Heaps}
  \cup {ActionManifest(<<Action("fibonacci", 1, 0, A, B), Action(name, 2, Unset, B, C)>>, ThreeNodes, 1, good) :
          name \in {"fibonacci", "move"}, good \in BOOLEAN}
  \cup {ActionManifest(<<Action("fibonacci", 1, 0, A, B)>>, ThreeNodes, 1, TRUE)}

Service(name, clients, prefix, client, server) ==
  [name |-> name, maxClients |-> clients, prefix |-> prefix, client |-> client, server |-> server]

ServiceManifest(services, nodes) ==
  [services |-> services, queueDepth |-> 1, wellFormed |-> TRUE,
   endpoints |-> Roles([n \in nodes |-> IF n \in {S, T} THEN "server" ELSE "client"])]

Add == <<"x", "add">>
OtherAdd == <<"y", "add">>

MCServiceManifests ==
  {ServiceManifest(<<Service(Add, n, Unset, A, S)>>, {A, S}) : n \in 0..2}
  \cup {ServiceManifest(<<Service(Add, 1, Unset, A, S), Service(name, 2, Unset, node, S)>>, {A, S, node}) :
          name \in {Add, OtherAdd}, node \in {A, B}}
  \cup {ServiceManifest(<<Service(Add, 1, Unset, A, S), Service(OtherAdd, 2, "p", A, S)>>, {A, S}),
        ServiceManifest(<<Service(Add, 1, Unset, A, S), Service(OtherAdd, 1, Unset, A, T)>>, {A, S, T}),
        ServiceManifest(<<Service(Add, 1, Unset, S, A)>>, {A, S}),
        ServiceManifest(<<Service(Add, 1, Unset, A, S)>>, {A, B, S}),
        [ServiceManifest(<<Service(Add, 1, Unset, A, S)>>, {A, S}) EXCEPT !.wellFormed = FALSE]}
=============================================================================
