---------------------------- MODULE NodeRegistry ----------------------------
(***************************************************************************)
(* The load balancer's node registry (pkg/registry/registry.go): a map     *)
(* from node keys ("IP:port" of the node's connection) to node records.    *)
(* Every method holds globalLock from its first to its last line, so each  *)
(* is one atomic action here.  The blackList map is created and never      *)
(* touched again; it has no variable.                                      *)
(***************************************************************************)
EXTENDS Naturals

CONSTANTS
  Key,      \* node keys, tcpAddr.String() of the peer of a stream
  NoNode    \* what the map lookup of an absent key yields (ok = false)

VARIABLE registry

(***************************************************************************)
(* type node struct.  lastHealthCheck is kept as "has been stamped": the   *)
(* zero time.Time is FALSE, time.Now() is TRUE.                            *)
(***************************************************************************)
Node == [continuousHealthChecks : Nat, lastHealthCheck : BOOLEAN]

ASSUME NoNodeAssumption == NoNode \notin Node /\ NoNode \notin Nat

NewNode == [continuousHealthChecks |-> 0, lastHealthCheck |-> FALSE]

RegistryTypeOK == registry \in [Key -> Node \cup {NoNode}]

Present(k) == registry[k] # NoNode

\* New
RegistryInit == registry = [k \in Key |-> NoNode]

\* Mutant: no test whether the node is there already.
RegisterNodeAnew(k) == registry' = [registry EXCEPT ![k] = NewNode]

RegisterNode(k) ==
  registry' = IF Present(k) THEN registry ELSE [registry EXCEPT ![k] = NewNode]

ReportNewHealthCheck(k) ==
  registry' = IF Present(k)
              THEN [registry EXCEPT
                      ![k] = [continuousHealthChecks |-> @.continuousHealthChecks + 1,
                              lastHealthCheck |-> TRUE]]
              ELSE registry

\* Mutant: the failed node is deleted from the map (the todo's unregisterNode).
ReportNodeFailureDeletes(k) == registry' = [registry EXCEPT ![k] = NoNode]

\* Mutant: a failure takes one check off the streak.
ReportNodeFailureTakesOne(k) ==
  registry' = [registry EXCEPT ![k].continuousHealthChecks = @ - 1]

\* Mutant: a failure leaves the entry as it is.
ReportNodeFailureIgnored(k) == UNCHANGED registry

ReportNodeFailure(k) ==
  registry' = IF Present(k)
              THEN [registry EXCEPT ![k].continuousHealthChecks = 0]
              ELSE registry

\* The streak the registry holds for k; an absent key has none.
Checks(k) == IF Present(k) THEN registry[k].continuousHealthChecks ELSE 0
=============================================================================
