-------------------------- MODULE ManagedResources --------------------------
(***************************************************************************)
(* What the controller creates, cleans up and deletes on the managed       *)
(* clusters for application bindings: the package pkg/managed, as          *)
(* createManagedClusterResourcesForBinding, cleanupOrphanedResources and   *)
(* processApplicationBindingDeleted of pkg/controller/controller.go drive  *)
(* it.  Handlers run one after the other; a handler is a sequence of calls,*)
(* a call visits clusters, and a visit sends requests, one at a time, each *)
(* decided by what the connection's listers show.                          *)
(*                                                                         *)
(* The models of all bindings are taken to be registered and the sync      *)
(* threshold to have passed (see BindingRegistry).  Four of the methods the*)
(* handlers call are declared by managedInterface but not by               *)
(* managedPackage, and calling them panics: Lacking says which are         *)
(* missing, and the behaviours in which all four are missing are those of  *)
(* the code as it stands.  DaemonSets, which only the system binding has,  *)
(* are left to Startup.                                                    *)
(***************************************************************************)
EXTENDS Naturals, Sequences, FiniteSets

CONSTANTS
    Bindings, Clusters,   \* names
    None,         \* no binding, no cluster
    Objects,      \* the objects that may exist on a cluster
    WlsSecrets,   \* the secrets among them of type wlsRuntimeEncryptionSecret
    Specs,        \* the contents each binding may ask for
    Originals,    \* the sets of secrets the management cluster may have at first
    Lacking,      \* the sets of methods the controller's managedInterface may lack
    MaxChanges,   \* bound: changes users make to bindings
    MaxMishaps    \* bound: failing API requests, restarts of the operator and
                  \* objects disturbed by administrators

Kinds == {"namespace", "secret", "serviceAccount", "configMap", "clusterRole",
          "clusterRoleBinding", "deployment", "service"}

\* A call of the managedInterface: what it does, and to which kind of objects.
Call(op, kind) == [op |-> op, kind |-> kind]
Calls == [op : {"create", "cleanup", "delete", "deleteShared"},
          kind : Kinds \cup {"customResource", "serviceEntry", "ingress"}]

\* The methods managedPackage does not delegate.  The objects they are for are
\* not among those of the model.
CleanupOrphanedCustomResources == Call("cleanup", "customResource")
CleanupOrphanedServiceEntries == Call("cleanup", "serviceEntry")
CleanupOrphanedIngresses == Call("cleanup", "ingress")
DeleteCustomResources == Call("delete", "customResource")
NotDelegated ==
    {CleanupOrphanedCustomResources, CleanupOrphanedServiceEntries,
     CleanupOrphanedIngresses, DeleteCustomResources}

\* Constant names (pkg/constants): the namespace, cluster role and cluster role
\* binding all bindings share have the same name.
VerrazzanoSystem == "verrazzano-system"
MonitoringNamespace == "monitoring"

\* An object's kind, name, namespace ("" if it has none), its verrazzano.binding
\* label, and whether it has the k8s-app label (of a service or a deployment:
\* and the istio-injection one).  The cluster label is always that of the
\* cluster the object is on.
Object == [kind : Kinds, name : STRING, ns : STRING, binding : Bindings \cup {None},
           app : BOOLEAN]

\* A SyntheticModelBinding: the objects wanted on each of its ManagedClusters.
\* Every ManagedCluster wants at least the system namespace.
Pair == [Clusters -> SUBSET Objects]
NoPair == [c \in Clusters |-> {}]
ManagedClusters(pair) == {c \in Clusters : pair[c] # {}}

Namespaces == {o \in Objects : o.kind = "namespace"}
Secrets == {o \in Objects : o.kind = "secret"}
SecretNames == {o.name : o \in Secrets}

Homed(o, objects) == o.ns # "" => \E n \in objects : n \in Namespaces /\ n.name = o.ns

\* What a binding asks for carries its own label or belongs to all bindings;
\* namespaced objects come with their namespace, and namespaces are not shared
\* by two bindings (checkForDuplicateNamespaces, which nothing calls).  The
\* namespace, cluster role and cluster role binding without a binding's label
\* are the system's.
ASSUME ConstantsAssumption ==
    /\ None \notin Bindings \cup Clusters /\ IsFiniteSet(Bindings)
    /\ Objects \subseteq Object /\ WlsSecrets \subseteq Secrets
    /\ Originals \subseteq SUBSET SecretNames /\ Lacking \subseteq SUBSET NotDelegated
    /\ Specs \in [Bindings -> SUBSET (Pair \ {NoPair})]
    /\ MaxChanges \in Nat /\ MaxMishaps \in Nat
ASSUME ObjectsAssumption ==
    /\ \A o, p \in Namespaces : o.name = p.name => o = p
    /\ \A o \in Namespaces : o.name # "" /\ o.ns = ""
    /\ \A b \in Bindings : \A s \in Specs[b] : \A c \in Clusters : \A o \in s[c] :
         /\ o.binding \in {b, None} /\ Homed(o, s[c])
         /\ o.binding = None /\ o.kind \in {"namespace", "clusterRole", "clusterRoleBinding"}
              => o.name = VerrazzanoSystem

VARIABLES
    api,          \* the bindings in the API server
    deleting,     \* those of them that are marked for deletion
    sources,      \* the names of the secrets there are in the management cluster
    lacks,        \* the methods the managedInterface lacks; never changes
    pairs,        \* SyntheticModelBindings
    connections,  \* managedClusterConnections
    store,        \* the objects of each cluster
    cache,        \* the same, as the listers of the connection show them
    job,          \* the handler that runs, and for which binding
    step,         \* the call it is at, 0: none
    left,         \* the visits the current call has yet to make
    visit,        \* the current visit
    listed,       \* the objects this visit has yet to handle
    waiting,      \* the namespace waitForNSDeletion waits for, if any
    changes, mishaps,  \* what is left of the bounds
    restarts      \* restarts of the operator so far, counted up to 1

handler == <<job, step, left, visit, listed, waiting>>
vars == <<api, deleting, sources, lacks, pairs, connections, store, cache, handler,
          changes, mishaps, restarts>>

\* A namespace that is being deleted is "terminating" until its objects are gone.
Status == {"absent", "wanted", "altered", "terminating"}
Empty == [c \in Clusters |-> [o \in Objects |-> "absent"]]

\* A visit: the cluster, and which of its objects the call is after.
Scopes == {"wanted", "unexpected", "labelled", "shared"}
Visit == [cluster : Clusters, scope : Scopes]
NoVisit == [cluster |-> None, scope |-> "none"]

Idle == [binding |-> None, phase |-> "idle"]
Phases == {"sync", "teardown", "last"}
Jobs == [binding : Bindings, phase : Phases]

TypeOK ==
    /\ api \in [Bindings -> Pair] /\ deleting \subseteq Bindings
    /\ sources \subseteq SecretNames /\ lacks \in Lacking
    /\ pairs \in [Bindings -> Pair] /\ connections \subseteq Clusters
    /\ store \in [Clusters -> [Objects -> Status]]
    /\ cache \in [Clusters -> [Objects -> Status]]
    /\ job \in Jobs \cup {Idle} /\ step \in Nat
    /\ left \subseteq Visit /\ visit \in Visit \cup {NoVisit}
    /\ listed \subseteq Objects /\ waiting \subseteq Namespaces
    /\ changes \in Nat /\ mishaps \in Nat /\ restarts \in 0..1

-----------------------------------------------------------------------------
(* Calls, visits and requests *)

\* The functions of pkg/managed; what they have in common is below.
CreateNamespaces == Call("create", "namespace")
CreateSecrets == Call("create", "secret")
CreateServiceAccounts == Call("create", "serviceAccount")
CreateConfigMaps == Call("create", "configMap")
CreateClusterRoles == Call("create", "clusterRole")
CreateClusterRoleBindings == Call("create", "clusterRoleBinding")
CreateDeployments == Call("create", "deployment")
CreateServices == Call("create", "service")
CleanupOrphanedServices == Call("cleanup", "service")
CleanupOrphanedDeployments == Call("cleanup", "deployment")
CleanupOrphanedClusterRoleBindings == Call("cleanup", "clusterRoleBinding")
CleanupOrphanedClusterRoles == Call("cleanup", "clusterRole")
CleanupOrphanedConfigMaps == Call("cleanup", "configMap")
CleanupOrphanedNamespaces == Call("cleanup", "namespace")
DeleteServices == Call("delete", "service")
DeleteDeployments == Call("delete", "deployment")

\* With the bindingLabel argument, and without it.
DeleteClusterRoleBindings(label) ==
    Call(IF label THEN "delete" ELSE "deleteShared", "clusterRoleBinding")
DeleteClusterRoles(label) ==
    Call(IF label THEN "delete" ELSE "deleteShared", "clusterRole")
DeleteNamespaces(label) ==
    Call(IF label THEN "delete" ELSE "deleteShared", "namespace")

\* The calls of createManagedClusterResourcesForBinding, of
\* cleanupOrphanedResources, of processApplicationBindingDeleted, and what the
\* latter adds for the last binding.
CreateCalls ==
    <<CreateNamespaces, CreateSecrets, CreateServiceAccounts, CreateConfigMaps,
      CreateClusterRoles, CreateClusterRoleBindings, CreateDeployments, CreateServices>>
CleanupCalls ==
    <<CleanupOrphanedCustomResources, CleanupOrphanedServices, CleanupOrphanedDeployments,
      CleanupOrphanedServiceEntries, CleanupOrphanedIngresses,
      CleanupOrphanedClusterRoleBindings, CleanupOrphanedClusterRoles,
      CleanupOrphanedConfigMaps, CleanupOrphanedNamespaces>>
DeleteCalls ==
    <<DeleteCustomResources, DeleteServices, DeleteDeployments,
      DeleteClusterRoleBindings(TRUE), DeleteClusterRoles(TRUE), DeleteNamespaces(TRUE)>>
LastCalls ==
    <<DeleteClusterRoleBindings(FALSE), DeleteClusterRoles(FALSE), DeleteNamespaces(FALSE)>>

\* The calls of the handlers' phases.
Program_CleanupFirst ==
    [sync |-> CleanupCalls \o CreateCalls, teardown |-> DeleteCalls, last |-> LastCalls]
Program == [sync |-> CreateCalls \o CleanupCalls, teardown |-> DeleteCalls, last |-> LastCalls]

\* The calls after the i-th that can matter.  Those on kinds of which there are
\* no objects change nothing, unless they panic, or fail in a deletion.
KindsInUse == {o.kind : o \in Objects}
Remaining(phase, i) ==
    {j \in i + 1..Len(Program[phase]) :
       \/ Program[phase][j].kind \in KindsInUse
       \/ Program[phase][j] \in lacks \cup {DeleteCustomResources}}

ThisCall == Program[job.phase][step]
Creating == step # 0 /\ ThisCall.op = "create"

Registered == {b \in Bindings : pairs[b] # NoPair}

\* GetManagedClustersForVerrazzanoBinding returns no error.
Available(pair) == ManagedClusters(pair) \subseteq connections

\* IsClusterInBinding
IsClusterInBinding_InAll(c, mbs) == \A b \in Bindings : c \in ManagedClusters(mbs[b])
IsClusterInBinding(c, mbs) == \E b \in Bindings : c \in ManagedClusters(mbs[b])

\* The visits of a call for binding b, mbs being the registered pairs.  Most
\* calls do nothing, and return no error, if a cluster of the binding is not
\* connected; the Create... functions do not look.  Services, deployments and
\* namespaces are cleaned up on the binding's own clusters too.
Visits(call, mbs, b) ==
    {v \in Visit : call.kind \in Kinds /\
       LET own == v.cluster \in ManagedClusters(mbs[b])
           other == v.cluster \in connections \ ManagedClusters(mbs[b])
           thorough == call.kind \in {"service", "deployment", "namespace"}
       IN \/ call.op = "create" /\ v.scope = "wanted" /\ own
          \/ /\ call.op = "cleanup" /\ (thorough => Available(mbs[b]))
             /\ \/ v.scope = "unexpected" /\ own /\ thorough
                \/ v.scope = "labelled" /\ other
                \/ /\ v.scope = "shared" /\ other /\ call.kind = "namespace"
                   /\ ~IsClusterInBinding(v.cluster, mbs)
          \/ call.op = "delete" /\ v.scope = "labelled" /\ own /\ Available(mbs[b])
          \/ call.op = "deleteShared" /\ v.scope = "shared" /\ own /\ Available(mbs[b])}

\* The clusters of the binding come before the others, and a cluster's shared
\* namespaces right after the labelled ones.
Due(v) ==
    \A w \in left \ {v} :
        /\ w.scope = "unexpected" => v.scope = "unexpected"
        /\ w.scope = "labelled" => w.cluster # v.cluster
        /\ w.scope = "shared" /\ v.scope = "labelled" =>
             [cluster |-> w.cluster, scope |-> "labelled"] \in left

\* util.Contains goes by the name alone.
Expected(o, c, b) == \E w \in pairs[b][c] : w.kind = o.kind /\ w.name = o.name

\* The names the cleanup and delete functions skip.
Skipped_Monitoring(call, scope) == {MonitoringNamespace}
Skipped(call, scope) ==
    {name \in {MonitoringNamespace, VerrazzanoSystem, "verrazzano-system-admin"} :
       \/ /\ call.kind = "namespace" /\ scope # "unexpected"
          /\ \/ name = MonitoringNamespace
             \/ name = VerrazzanoSystem /\ (call.op = "cleanup" => scope = "shared")
       \/ /\ call.kind \in {"clusterRole", "clusterRoleBinding"} /\ call.op # "cleanup"
          /\ name # MonitoringNamespace}

\* The label selector of a visit that deletes.  Labels select every object that
\* has them: the shared selector {k8s-app, cluster} selects the objects of all
\* bindings as well.
Matches(o, scope, c, b) ==
    \/ scope = "unexpected" /\ o.binding = b /\ ~Expected(o, c, b)
    \/ scope = "labelled" /\ o.binding = b
    \/ scope = "shared" /\ o.app

\* What a visit handles: the objects to create, or the listed ones to delete.
\* newSecrets leaves out a secret that is not in the management cluster.
Handled(call, v, b) ==
    IF call.op = "create"
      THEN {o \in pairs[b][v.cluster] :
              o.kind = call.kind /\ (o \in Secrets => o.name \in sources)}
      ELSE {o \in Objects :
              /\ o.kind = call.kind /\ cache[v.cluster][o] # "absent"
              /\ Matches(o, v.scope, v.cluster, b)
              /\ call \in {DeleteServices, DeleteDeployments} => o.app
              /\ o.name \notin Skipped(call, v.scope)}

\* The API server takes an object only into a namespace that is there.
HomeReady(c, o) ==
    o.ns # "" => \E n \in Namespaces : n.name = o.ns /\ store[c][n] = "wanted"

Delivered(c, kind) ==
    [o \in Objects |-> IF o.kind = kind THEN store[c][o] ELSE cache[c][o]]

-----------------------------------------------------------------------------
(* The handlers *)

Mishap == mishaps > 0 /\ mishaps' = mishaps - 1

Surroundings ==
    UNCHANGED <<api, deleting, sources, lacks, connections, cache, changes, restarts>>

\* The handler makes the first call after the i-th, or comes to its end.
EnterAfter(i, j, mbs) ==
    /\ job' = j /\ visit' = NoVisit /\ listed' = {} /\ waiting' = {}
    /\ \/ Remaining(j.phase, i) = {} /\ step' = 0 /\ left' = {}
       \/ \E k \in Remaining(j.phase, i) :
            /\ \A n \in Remaining(j.phase, i) : k <= n
            /\ step' = k
            /\ left' = Visits(Program[j.phase][k], mbs, j.binding)
Return ==
    /\ job' = Idle /\ step' = 0 /\ left' = {}
    /\ visit' = NoVisit /\ listed' = {} /\ waiting' = {}

\* A sync logs the error of a call and goes on with the next one; a deletion
\* returns and keeps the binding registered.
Failed == IF job.phase = "sync" THEN EnterAfter(step, job, pairs) ELSE Return

\* processApplicationBindingAdded: the pair is built or rebuilt; without its
\* clusters (waitForManagedClusters times out) the handler does nothing more.
StartSync_NoWait(b) ==
    /\ job = Idle /\ api[b] # NoPair /\ b \notin deleting
    /\ pairs' = [pairs EXCEPT ![b] = api[b]]
    /\ EnterAfter(0, [binding |-> b, phase |-> "sync"], pairs')
    /\ Surroundings /\ UNCHANGED <<store, mishaps>>
StartSync(b) ==
    /\ job = Idle /\ api[b] # NoPair /\ b \notin deleting
    /\ pairs' = [pairs EXCEPT ![b] = api[b]]
    /\ IF Available(api[b])
         THEN EnterAfter(0, [binding |-> b, phase |-> "sync"], pairs')
         ELSE UNCHANGED handler
    /\ Surroundings /\ UNCHANGED <<store, mishaps>>

\* The pair a deletion works on: the one there is, or else a new one.
DeletedPair_NotRebuilt(b) == pairs[b]
DeletedPair(b) == IF pairs[b] = NoPair THEN api[b] ELSE pairs[b]

\* processApplicationBindingAdded on a binding marked for deletion, and
\* processApplicationBindingDeleted.  A failure to delete the binding's local
\* objects ends it.
StartTeardown(b) ==
    /\ job = Idle /\ b \in deleting
    /\ pairs' = [pairs EXCEPT ![b] = DeletedPair(b)]
    /\ \/ EnterAfter(0, [binding |-> b, phase |-> "teardown"], pairs')
          /\ UNCHANGED mishaps
       \/ Mishap /\ UNCHANGED handler
    /\ Surroundings /\ UNCHANGED store

Start(b) == StartSync(b) \/ StartTeardown(b)

\* The call goes on with the objects and the clusters it has left, or is over.
GoOn(v, objects, awaited, others) ==
    IF objects = {} /\ awaited = {} /\ others = {}
      THEN EnterAfter(step, job, pairs)
      ELSE /\ visit' = v /\ listed' = objects /\ waiting' = awaited /\ left' = others
           /\ UNCHANGED <<job, step>>

\* The call turns to the next cluster and reads the lister there.  A secret whose
\* original cannot be read in the management cluster is left out, without an
\* error.
VisitCluster(v) ==
    /\ step # 0 /\ listed = {} /\ waiting = {}
    /\ v \in left /\ Due(v)
    /\ \E unread \in SUBSET Secrets :
         /\ unread \subseteq Handled(ThisCall, v, job.binding)
         /\ IF unread = {} THEN UNCHANGED mishaps ELSE Mishap /\ Creating
         /\ GoOn(v, Handled(ThisCall, v, job.binding) \ unread, {}, left \ {v})
    /\ Surroundings /\ UNCHANGED <<pairs, store>>

\* The call has no cluster to visit.
SkipCall ==
    /\ step # 0 /\ left = {} /\ listed = {} /\ waiting = {} /\ ThisCall \notin lacks
    /\ EnterAfter(step, job, pairs)
    /\ Surroundings /\ UNCHANGED <<pairs, store, mishaps>>

\* The request for object o of the current visit succeeds.
Accepted(o, status, awaited) ==
    /\ store' = [store EXCEPT ![visit.cluster][o] = status]
    /\ GoOn(visit, listed \ {o}, awaited, left)
    /\ UNCHANGED mishaps

\* It fails, or the API server refuses it.
Rejected(refused) ==
    /\ IF refused THEN UNCHANGED mishaps ELSE Mishap
    /\ Failed /\ UNCHANGED store

\* The Create... functions: create what the lister does not have, update what
\* differs from what is wanted, leave an existing namespace alone, and a secret
\* of WebLogic's runtime encryption too.
RequestNeeded_NoUpdate(o, known) == known = "absent"
RequestNeeded(o, known) ==
    known = "absent" \/ (known = "altered" /\ o \notin Namespaces \cup WlsSecrets)
CreateListed(o) ==
    LET c == visit.cluster
        known == cache[c][o]
        refused == IF known = "absent" THEN store[c][o] # "absent" \/ ~HomeReady(c, o)
                                       ELSE store[c][o] = "absent"
    IN
    /\ o \in listed /\ Creating
    /\ \/ ~RequestNeeded(o, known) /\ Accepted(o, store[c][o], {})
       \/ RequestNeeded(o, known) /\ ~refused /\ Accepted(o, "wanted", {})
       \/ RequestNeeded(o, known) /\ Rejected(refused)
    /\ Surroundings /\ UNCHANGED pairs

\* The Cleanup... and Delete... functions: delete what was listed.  A namespace
\* goes once it is empty, and is waited for unless it was an unexpected one.
Awaited_Any(o) == {o}
Awaited(o) == IF o \in Namespaces /\ visit.scope # "unexpected" THEN {o} ELSE {}
DeleteListed(o) ==
    LET c == visit.cluster IN
    /\ o \in listed /\ waiting = {} /\ ~Creating
    /\ \/ /\ store[c][o] # "absent"
          /\ Accepted(o, IF o \in Namespaces THEN "terminating" ELSE "absent", Awaited(o))
       \/ Rejected(store[c][o] = "absent")
    /\ Surroundings /\ UNCHANGED pairs

\* waitForNSDeletion: the namespace is gone, or is still there after two
\* minutes, or the request fails.
WaitForNSDeletion ==
    /\ \E n \in waiting :
         \/ /\ store[visit.cluster][n] = "absent"
            /\ GoOn(visit, listed, {}, left) /\ UNCHANGED <<store, mishaps>>
         \/ store[visit.cluster][n] # "absent" /\ Rejected(TRUE)
         \/ Rejected(FALSE)
    /\ Surroundings /\ UNCHANGED pairs

\* An implementation of DeleteCustomResources fails, and with it the deletion.
DeleteCustomResourcesFails ==
    /\ step # 0 /\ ThisCall = DeleteCustomResources /\ ThisCall \notin lacks
    /\ Rejected(FALSE)
    /\ Surroundings /\ UNCHANGED pairs

\* The end of the process; the next one has no pairs and no connections, and
\* finds the clusters as they are.
Die ==
    /\ pairs' = [b \in Bindings |-> NoPair] /\ connections' = {}
    /\ cache' = Empty /\ Return /\ restarts' = 1
    /\ UNCHANGED <<api, deleting, sources, lacks, store, changes>>

\* A call of a method that managedPackage has only from the nil interface it
\* embeds.
Panic ==
    /\ step # 0 /\ ThisCall \in lacks
    /\ Die /\ UNCHANGED mishaps

\* cleanupOrphanedResources was the end of the handler.
EndSync ==
    /\ job.phase = "sync" /\ step = 0 /\ Return
    /\ Surroundings /\ UNCHANGED <<pairs, store, mishaps>>

\* processApplicationBindingDeleted, after the binding's own objects: if this is
\* the only pair, the shared objects are deleted too; then the pair is forgotten.
EndTeardown ==
    /\ job.phase \in {"teardown", "last"} /\ step = 0
    /\ IF job.phase = "teardown" /\ Cardinality(Registered) = 1
         THEN EnterAfter(0, [job EXCEPT !.phase = "last"], pairs) /\ UNCHANGED pairs
         ELSE Return /\ pairs' = [pairs EXCEPT ![job.binding] = NoPair]
    /\ Surroundings /\ UNCHANGED <<store, mishaps>>

Running ==
    \/ SkipCall \/ DeleteCustomResourcesFails \/ Panic
    \/ WaitForNSDeletion \/ EndSync \/ EndTeardown
    \/ \E v \in left : VisitCluster(v)
    \/ \E o \in listed : CreateListed(o) \/ DeleteListed(o)

-----------------------------------------------------------------------------
(* Surroundings (external) *)

NotHandlers == UNCHANGED <<lacks, pairs, handler, mishaps, restarts>>

\* processManagedCluster stores a connection once three of its informers have
\* synced; the other caches may still be empty.
Connect(c) ==
    /\ c \notin connections /\ connections' = connections \cup {c}
    /\ cache' = [cache EXCEPT ![c] = [o \in Objects |->
         IF o.kind \in {"deployment", "namespace", "secret"} THEN store[c][o] ELSE "absent"]]
    /\ NotHandlers /\ UNCHANGED <<api, deleting, sources, store, changes>>

\* An informer of a connection catches up.
Deliver(c, kind) ==
    /\ c \in connections
    /\ \E o \in Objects : o.kind = kind /\ cache[c][o] # store[c][o]
    /\ cache' = [cache EXCEPT ![c] = Delivered(c, kind)]
    /\ NotHandlers /\ UNCHANGED <<api, deleting, sources, connections, store, changes>>

\* A terminating namespace goes, and everything in it.
NamespaceGone(c, n) ==
    /\ store[c][n] = "terminating"
    /\ store' = [store EXCEPT ![c] = [o \in Objects |->
         IF o = n \/ o.ns = n.name THEN "absent" ELSE @[o]]]
    /\ NotHandlers /\ UNCHANGED <<api, deleting, sources, connections, cache, changes>>

Change == changes > 0 /\ changes' = changes - 1

\* A user creates or changes a binding, or asks for its deletion (the finalizer
\* keeps the object).
UserPutsBinding(b) ==
    /\ Change /\ b \notin deleting
    /\ \E s \in Specs[b] : s # api[b] /\ api' = [api EXCEPT ![b] = s]
    /\ NotHandlers /\ UNCHANGED <<deleting, sources, connections, store, cache>>
UserDeletesBinding(b) ==
    /\ Change /\ api[b] # NoPair /\ b \notin deleting
    /\ deleting' = deleting \cup {b}
    /\ NotHandlers /\ UNCHANGED <<api, sources, connections, store, cache>>

\* A user creates or deletes a secret in the management cluster.
UserChangesSecrets(name) ==
    /\ Change
    /\ sources' = IF name \in sources THEN sources \ {name} ELSE sources \cup {name}
    /\ NotHandlers /\ UNCHANGED <<api, deleting, connections, store, cache>>

\* An administrator deletes an object or changes its content (that of a secret
\* also by changing the original).
AdminDisturbs(c, o) ==
    /\ Mishap /\ o \notin Namespaces /\ store[c][o] # "absent"
    /\ \E new \in {"altered", "absent"} : store' = [store EXCEPT ![c][o] = new]
    /\ UNCHANGED <<api, deleting, sources, lacks, pairs, connections, cache, handler,
                   changes, restarts>>

Restart == Mishap /\ Die

Init ==
    /\ api \in [Bindings -> Pair] /\ deleting = {}
    /\ \A b \in Bindings : api[b] \in Specs[b] \cup {NoPair}
    /\ sources \in Originals /\ lacks \in Lacking
    /\ pairs = [b \in Bindings |-> NoPair] /\ connections = {}
    /\ store = Empty /\ cache = Empty
    /\ job = Idle /\ step = 0 /\ left = {} /\ visit = NoVisit
    /\ listed = {} /\ waiting = {}
    /\ changes = MaxChanges /\ mishaps = MaxMishaps /\ restarts = 0

Next ==
    \/ \E b \in Bindings : Start(b) \/ UserPutsBinding(b) \/ UserDeletesBinding(b)
    \/ Running \/ Restart
    \/ \E name \in SecretNames : UserChangesSecrets(name)
    \/ \E c \in Clusters :
         \/ Connect(c)
         \/ \E kind \in KindsInUse : Deliver(c, kind)
         \/ \E n \in Namespaces : NamespaceGone(c, n)
         \/ \E o \in Objects : AdminDisturbs(c, o)

\* The resyncs of all bindings go through one queue, so each gets its turn, and
\* a handler that runs goes on.  Nothing makes a cluster connect.
Fairness ==
    /\ WF_vars(Running)
    /\ \A b \in Bindings : SF_vars(Start(b))
    /\ WF_vars(\E c \in Clusters, kind \in KindsInUse : Deliver(c, kind))
    /\ WF_vars(\E c \in Clusters, n \in Namespaces : NamespaceGone(c, n))

Spec == Init /\ [][Next]_vars /\ Fairness

-----------------------------------------------------------------------------
(* Properties *)

\* What a deletion of o takes away.
Doomed(o) == {p \in Objects : p = o \/ (o \in Namespaces /\ p.ns = o.name)}

\* No handler deletes what another registered pair wants, although it goes by
\* lists that may be old, by labels that other bindings' objects have too, and
\* by a count of the pairs taken before it waited for namespaces to go; and a
\* sync deletes nothing its own pair wants.
OthersKept ==
    ~Creating =>
        \A o \in listed : \A p \in Doomed(o) : \A b \in Bindings :
            p \in pairs[b][visit.cluster] => b = job.binding /\ job.phase # "sync"

\* The Create... functions use the connection of every cluster of the pair
\* without looking whether there is one: it is always there.
ConnectionsHeld ==
    Creating =>
        \A v \in left \cup ({visit} \ {NoVisit}) : v.cluster \in connections

\* What a sync brings about: everything the binding wants is there as wanted,
\* except that a WebLogic secret keeps a content that was changed, and that a
\* secret nobody has put in the management cluster need not be there.
InPlace(c, o) ==
    \/ store[c][o] = "wanted"
    \/ o \in WlsSecrets /\ store[c][o] = "altered"
    \/ o \in Secrets /\ o.name \notin sources
Deployed(b) == \A c \in Clusters : \A o \in api[b][c] : InPlace(c, o)

\* If the managedInterface had all its methods: a binding that stays, with its
\* clusters connected, ends up with all it wants in place and nothing left of
\* what it no longer wants, whatever failed, was refused for a stale list, or was
\* disturbed on the way.
Stays(b) == api[b] # NoPair /\ b \notin deleting /\ Available(api[b])
Orphan(o, c, b) ==
    /\ o.binding = b
    /\ IF c \in ManagedClusters(api[b])
         THEN /\ o.kind \in {"service", "deployment", "namespace"}
              /\ ~\E w \in api[b][c] : w.kind = o.kind /\ w.name = o.name
         ELSE c \in connections /\ o.name # MonitoringNamespace
SyncConverges ==
    \A b \in Bindings : <>[](lacks = {} /\ Stays(b)) =>
        <>[](Deployed(b) /\ \A c \in Clusters : \A o \in Objects :
               Orphan(o, c, b) => store[c][o] = "absent")

\* The code as it stands: every sync comes to its end in the panic of
\* cleanupOrphanedResources, which takes the pairs and the connections with it.
\* The binding is deployed all the same, and stays so, if only syncs of it begin
\* again and again with its clusters connected and their listers current: what is
\* created comes before the panic, and no call that failed is needed for another.
SyncBegins(b) ==
    /\ job = [binding |-> b, phase |-> "sync"] /\ visit = NoVisit
    /\ step \in Remaining("sync", 0) /\ \A i \in Remaining("sync", 0) : step <= i
    /\ \A c \in ManagedClusters(pairs[b]) : cache[c] = store[c]
CreatesSurvive ==
    \A b \in Bindings :
        <>[](api[b] # NoPair /\ b \notin deleting) /\ []<>SyncBegins(b) => <>[]Deployed(b)

\* A sync of binding b that goes by the listers as they are sends no request, up
\* to the call that panics if there is one.
SyncQuiet(b) ==
    \A i \in 1..Len(Program["sync"]) : LET call == Program["sync"][i] IN
        (\A k \in 1..i : Program["sync"][k] \notin lacks) =>
            \A v \in Visits(call, pairs, b) : \A o \in Handled(call, v, b) :
                call.op = "create" /\ ~RequestNeeded(o, cache[v.cluster][o])

\* There is no wrong state in which the syncs of a binding come to rest: once the
\* listers are current and no namespace is going, a sync that sends no request
\* has found all the binding wants in place and, if it gets through its cleanup,
\* nothing left that the cleanup functions are there for.
CleanedUp == {CleanupCalls[i].kind : i \in 1..Len(CleanupCalls)}
RestIsDeployed ==
    \A b \in Bindings :
        /\ Stays(b) /\ pairs[b] = api[b] /\ SyncQuiet(b)
        /\ \A c \in connections : cache[c] = store[c]
        /\ \A c \in Clusters, n \in Namespaces : store[c][n] # "terminating"
        => /\ Deployed(b)
           /\ lacks = {} => \A c \in Clusters, o \in Objects :
                Orphan(o, c, b) /\ o.kind \in CleanedUp => store[c][o] = "absent"

\* If the managedInterface had DeleteCustomResources: the objects of a binding
\* marked for deletion go from its clusters in the end, although the Delete...
\* functions do nothing while one of them is not connected and the binding is
\* then forgotten.
TeardownCollects ==
    \A b \in Bindings : <>[](lacks = {} /\ b \in deleting /\ Available(api[b])) =>
        <>[](\A c \in ManagedClusters(api[b]) : \A o \in Objects :
               o.binding = b => store[c][o] = "absent")

\* "DeleteNamespaces deletes namespaces for a given binding": what is deleted for a
\* binding marked for deletion is wanted by no other binding that stays.  (Nothing
\* is deleted unless the managedInterface has DeleteCustomResources.)
OwnNamespacesOnly ==
    job.phase \in {"teardown", "last"} =>
        \A o \in listed : \A b \in Bindings \ (deleting \cup {job.binding}) :
            o \notin api[b][visit.cluster]

\* It takes a restart of the operator to get there: as long as there was none,
\* the objects of every binding that stays have a registered pair, so a deletion
\* that finds its own pair to be the only one finds no other binding's objects.
OwnUnlessRestarted == restarts = 0 => OwnNamespacesOnly
=============================================================================
