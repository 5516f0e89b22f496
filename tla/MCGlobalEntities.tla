-------------------------- MODULE MCGlobalEntities --------------------------
(* Small instances of GlobalEntities for TLC. *)
EXTENDS GlobalEntities

\* No outside event at all but the ones given.
Only(budget) == [e \in Events |-> IF e \in DOMAIN budget THEN budget[e] ELSE 0]

\* Two specs, both dashboard sets, and a configuration without verrazzanoURI.
MCConfigs == {[uri |-> TRUE, spec |-> "s1", shared |-> FALSE],
              [uri |-> TRUE, spec |-> "s2", shared |-> TRUE],
              [uri |-> FALSE, spec |-> "s1", shared |-> TRUE]}
MCSpecs == {"s1", "s2"}
MCOtherSecrets == {"system", "stray1", "stray2"}

\* VMO, administrator, restart and API errors around the VMI.
VmiBudget == Only([pvc |-> 1, vmiEdit |-> 2, secretBreak |-> 1, restart |-> 1, fault |-> 1])
\* Secrets are set, deleted and strewn about, but never left incomplete.
SecretBudget == Only([secretEdit |-> 2, stray |-> 2, restart |-> 1, fault |-> 1])
\* Secrets are also left without a key.
BrokenSecretBudget == Only([secretEdit |-> 2, secretBreak |-> 2, restart |-> 1, fault |-> 1])
\* The dashboards ConfigMap appears, is edited, adopted and deleted.
ConfigMapBudget == Only([dashboards |-> 2, owner |-> 1, stray |-> 2, restart |-> 1, fault |-> 1])
=============================================================================
