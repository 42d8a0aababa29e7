------------------------------- MODULE Router -------------------------------
(***************************************************************************)
(* The router of the load balancer (pkg/routing/router.go): New loads the  *)
(* packet programs (pkg/routing/xdp.go), then makes the ring; AddNode and  *)
(* RemoveNode are the ring's.  loadProgram acquires a collection and two   *)
(* links, each with a deferred Close, and may fail between any two.  The   *)
(* programs see packets while they are attached.                           *)
(***************************************************************************)
EXTENDS Ring, PacketPrograms

VARIABLES
  stage,       \* how far New has come; see Stage
  collection,  \* the collection with programs and maps is open
  links,       \* the programs that are attached to an interface
  oneCard      \* the public and the private interface are the same

loaderVars == <<stage, collection, links, oneCard>>
routerVars == <<vars, loaderVars, packetVars>>

Stage == {"load", "collection", "find", "attachDNAT", "attachSNAT", "return", "fail",
          "ready", "failed"}

RouterTypeOK ==
  /\ TypeOK
  /\ PacketTypeOK
  /\ stage \in Stage
  /\ collection \in BOOLEAN
  /\ links \subseteq {"dnat_prog", "snat_prog"}
  /\ oneCard \in BOOLEAN

RouterInit ==
  /\ hasher = [v \in Virtual |-> 0] /\ ring = <<>> /\ nodes = <<>> /\ members = {}
  /\ stage = "load" /\ collection = FALSE /\ links = {}
  /\ oneCard \in BOOLEAN
  /\ noPackets

\* RemoveMemlock, LoadCollectionSpecFromReader
LoadSpec ==
  /\ stage = "load"
  /\ stage' = "collection"
  /\ UNCHANGED <<vars, packetVars, collection, links, oneCard>>

NewCollection ==
  /\ stage = "collection"
  /\ stage' = "find" /\ collection' = TRUE
  /\ UNCHANGED <<vars, packetVars, links, oneCard>>

\* Both programs are in the collection, both interfaces have an index.
Find ==
  /\ stage = "find"
  /\ stage' = "attachDNAT"
  /\ UNCHANGED <<vars, packetVars, collection, links, oneCard>>

AttachDNAT ==
  /\ stage = "attachDNAT"
  /\ stage' = "attachSNAT" /\ links' = links \cup {"dnat_prog"}
  /\ UNCHANGED <<vars, packetVars, collection, oneCard>>

\* An interface takes one program.
AttachSNAT ==
  /\ stage = "attachSNAT" /\ ~oneCard
  /\ stage' = "return" /\ links' = links \cup {"snat_prog"}
  /\ UNCHANGED <<vars, packetVars, collection, oneCard>>

\* Any of these steps returns an error instead.
LoadError ==
  /\ stage \in {"load", "collection", "find", "attachDNAT", "attachSNAT"}
  /\ stage' = "fail"
  /\ UNCHANGED <<vars, packetVars, collection, links, oneCard>>

\* Mutant: the links are closed on success only, as if each error path did its own.
DefersAfterSuccess ==
  /\ links' = IF stage = "return" THEN {} ELSE links
  /\ collection' = FALSE
  /\ closeMap

\* The deferred Close calls, on every return from loadProgram; the map goes with the
\* collection.
Defers ==
  /\ links' = {}
  /\ collection' = FALSE
  /\ closeMap

\* loadProgram returns nil and New makes the ring.
New ==
  /\ stage = "return"
  /\ Defers
  /\ stage' = "ready"
  /\ hasher' \in [Virtual -> Hash] /\ ring' = zeroEntries
  /\ UNCHANGED <<nodes, members, oneCard>>

NewFails ==
  /\ stage = "fail"
  /\ Defers
  /\ stage' = "failed"
  /\ UNCHANGED <<vars, oneCard>>

AddNode(n) == stage = "ready" /\ addNode(n) /\ UNCHANGED <<loaderVars, packetVars>>
RemoveNode(n) == stage = "ready" /\ removeNode(n) /\ UNCHANGED <<loaderVars, packetVars>>

\* A packet comes in at the public card, one goes through the private card.
Ingress(p) == "dnat_prog" \in links /\ dnat_prog(p) /\ UNCHANGED <<vars, loaderVars>>
Egress(p) == "snat_prog" \in links /\ snat_prog(p) /\ UNCHANGED <<vars, loaderVars>>

RouterNext ==
  \/ LoadSpec \/ NewCollection \/ Find \/ AttachDNAT \/ AttachSNAT
  \/ LoadError \/ New \/ NewFails
  \/ \E p \in Incoming : Ingress(p)
  \/ \E p \in Outgoing : Egress(p)
  \/ \E n \in Node : AddNode(n) \/ RemoveNode(n)

RouterSpec == RouterInit /\ [][RouterNext]_routerVars

(***************************************************************************)
(* Whichever step of loadProgram fails, no link and no collection is left  *)
(* open.  The deferred calls also run when all went well: a router that    *)
(* New returned, and whose ring gets nodes, has no program attached.       *)
(***************************************************************************)
NothingOutlivesLoad ==
  stage \in {"ready", "failed"} => links = {} /\ ~collection
=============================================================================
