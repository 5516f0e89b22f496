------------------------- MODULE MCManagedResources -------------------------
(* Small instances of ManagedResources for TLC. *)
EXTENDS ManagedResources, TLC

CONSTANTS b1, b2, c1, c2

SystemNamespace == [kind |-> "namespace", name |-> VerrazzanoSystem, ns |-> "",
                    binding |-> None, app |-> TRUE]
Namespace(n, b) == [kind |-> "namespace", name |-> n, ns |-> "", binding |-> b, app |-> TRUE]
Deployment(n, b) == [kind |-> "deployment", name |-> "app", ns |-> n, binding |-> b, app |-> TRUE]

\* A WebLogic secret; secrets carry no labels.
Secret(n) == [kind |-> "secret", name |-> "wls", ns |-> n, binding |-> None, app |-> FALSE]

MCObjects ==
    {SystemNamespace, Namespace("n1", b1), Deployment("n1", b1), Secret("n1")}
MCWlsSecrets == {Secret("n1")}

\* b1 has all it wants on c1, or has moved it, without the deployment, to c2 and
\* kept the system namespace on c1; b2 has only the system namespace, on c1.
MCSpecs ==
    b1 :> {c1 :> {SystemNamespace, Namespace("n1", b1), Deployment("n1", b1), Secret("n1")}
             @@ c2 :> {},
           c1 :> {SystemNamespace} @@ c2 :> {SystemNamespace, Namespace("n1", b1)}}
    @@ b2 :> {c1 :> {SystemNamespace} @@ c2 :> {}}

\* Nobody has put the secret in the management cluster yet, or somebody has.
NoOriginals == {{}}
AllOriginals == {SecretNames}

\* The managedInterface there should be, and the one there is.
AnyInterface == {{}, NotDelegated}
FullInterface == {{}}
=============================================================================
