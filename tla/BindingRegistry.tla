-------------------------- MODULE BindingRegistry --------------------------
(***************************************************************************)
(* The controller's in-memory registry of application models, application  *)
(* bindings and model/binding pairs, and the four handlers that maintain   *)
(* it: processApplicationModelAdded/Deleted and                            *)
(* processApplicationBindingAdded/Deleted of pkg/controller/controller.go. *)
(* The handlers receive whatever the informers deliver: models and         *)
(* bindings in any order, resyncs of unchanged objects, objects marked for *)
(* deletion, and everything from the beginning after a restart.            *)
(*                                                                         *)
(* Each handler runs to completion before the next.  Outside the registry  *)
(* the model keeps the VMI of each binding and the clusters the controller *)
(* is connected to.  managedPackage lacks four of the methods the handlers *)
(* call (see README); a package that has them is assumed, as the tests do. *)
(***************************************************************************)
EXTENDS Integers, FiniteSets

CONSTANTS
    Models, Bindings, Clusters,  \* names
    MaxChanges,  \* bound: changes users make to models and bindings
    MaxFaults,   \* bound: failing calls on the VMI, failing delete steps
    MaxRestarts  \* bound: restarts of the operator

ASSUME ConstantsAssumption ==
    /\ MaxChanges \in Nat /\ MaxFaults \in Nat /\ MaxRestarts \in Nat

VARIABLES
    apiModels,    \* resourceVersion of each model in the API server, 0: absent
    apiBindings,  \* the bindings in the API server
    models,       \* applicationModels: resourceVersion, 0: not registered
    bindings,     \* applicationBindings
    pairs,        \* SyntheticModelBindings
    threshold,    \* bindingSyncThreshold, NoCount: no entry
    connections,  \* managedClusterConnections
    vmis,         \* bindings whose VMI exists
    synced,       \* the binding the last handler call synced, if any
    changes, faults, restarts   \* what is left of the bounds

api == <<apiModels, apiBindings>>
registry == <<models, bindings, pairs, threshold>>
bounds == <<changes, faults, restarts>>
vars == <<api, registry, connections, vmis, synced, bounds>>

NoModel == "none"
NoBinding == [rv |-> 0, model |-> NoModel, clusters |-> {}, deleting |-> FALSE,
              finalizer |-> FALSE]
Binding == [rv : Nat \ {0}, model : Models, clusters : SUBSET Clusters,
            deleting : BOOLEAN, finalizer : BOOLEAN]

\* A SyntheticModelBinding: the versions of the model and of the binding it was
\* built from, and its ManagedClusters, one per placement of the binding.
NoPair == [modelRv |-> 0, bindingRv |-> 0, clusters |-> {}]
Pair == [modelRv : Nat, bindingRv : Nat, clusters : SUBSET Clusters]

SyncThreshold == 4
NoCount == -1

NoOne == {}

TypeOK ==
    /\ apiModels \in [Models -> Nat] /\ apiBindings \in [Bindings -> Binding \cup {NoBinding}]
    /\ models \in [Models -> Nat] /\ bindings \in [Bindings -> Binding \cup {NoBinding}]
    /\ pairs \in [Bindings -> Pair] /\ threshold \in [Bindings -> NoCount..SyncThreshold]
    /\ connections \subseteq Clusters /\ vmis \subseteq Bindings
    /\ synced \subseteq Bindings
    /\ changes \in 0..MaxChanges /\ faults \in Nat /\ restarts \in Nat

EmptyRegistry ==
    /\ models = [m \in Models |-> 0]
    /\ bindings = [b \in Bindings |-> NoBinding]
    /\ pairs = [b \in Bindings |-> NoPair]
    /\ threshold = [b \in Bindings |-> NoCount]

Init ==
    /\ apiModels = [m \in Models |-> 0]
    /\ apiBindings = [b \in Bindings |-> NoBinding]
    /\ EmptyRegistry
    /\ connections = {} /\ vmis = {} /\ synced = NoOne
    /\ changes = MaxChanges /\ faults = MaxFaults /\ restarts = MaxRestarts

-----------------------------------------------------------------------------
(* Handlers *)

\* CreateSyntheticModelBinding
NewPair(modelRv, o) ==
    [modelRv |-> modelRv, bindingRv |-> o.rv, clusters |-> o.clusters]

\* Bindings registered without a pair for a model.
Unpaired(m) == {b \in Bindings : /\ bindings[b] # NoBinding
                                 /\ bindings[b].model = m /\ pairs[b] = NoPair}

\* processApplicationModelAdded: registers a new version of a model and builds
\* the pair of one binding that waited for it (the loop breaks after the first).
ModelAdded(m) ==
    /\ apiModels[m] # 0 /\ models[m] # apiModels[m]
    /\ models' = [models EXCEPT ![m] = apiModels[m]]
    /\ IF Unpaired(m) = {}
         THEN UNCHANGED pairs
         ELSE \E b \in Unpaired(m) :
                pairs' = [pairs EXCEPT ![b] = NewPair(apiModels[m], bindings[b])]
    /\ synced' = NoOne
    /\ UNCHANGED <<api, bindings, threshold, connections, vmis, bounds>>

\* processApplicationModelDeleted: the pairs built from the model stay.
ModelDeleted(m) ==
    /\ apiModels[m] = 0 /\ models[m] # 0
    /\ models' = [models EXCEPT ![m] = 0]
    /\ synced' = NoOne
    /\ UNCHANGED <<api, bindings, pairs, threshold, connections, vmis, bounds>>

\* A resync brought a version of the binding the registry already has.
Unchanged(b) == bindings[b] # NoBinding /\ bindings[b].rv = apiBindings[b].rv

\* The counter processApplicationBindingAdded reads; a missing entry reads as 0.
Counter(b) == IF threshold[b] = NoCount THEN 0 ELSE threshold[b]

SyncDue(b) == ~Unchanged(b) \/ Counter(b) >= SyncThreshold

NextCount_NoReset(b) ==
    IF threshold[b] = NoCount THEN 0 ELSE Counter(b) + 1
NextCount_ResetsEarly(b) ==
    IF threshold[b] = NoCount \/ Counter(b) + 1 >= SyncThreshold THEN 0 ELSE Counter(b) + 1
NextCount(b) ==
    IF threshold[b] = NoCount THEN 0
    ELSE IF SyncDue(b) THEN 0 ELSE Counter(b) + 1

\* The pair after processApplicationBindingAdded: built, or rebuilt, if the
\* binding's model is registered, and otherwise left as it is.
BindingPair_BuiltOnce(b) ==
    LET o == apiBindings[b] IN
    IF models[o.model] # 0 /\ pairs[b] = NoPair THEN NewPair(models[o.model], o) ELSE pairs[b]
BindingPair(b) ==
    LET o == apiBindings[b] IN
    IF models[o.model] # 0 THEN NewPair(models[o.model], o) ELSE pairs[b]

\* waitForManagedClusters returns in time: every cluster is connected.
ClustersAvailable(pair) == pair.clusters \subseteq connections

\* processApplicationBindingAdded on an unchanged binding, below the threshold.
BindingSkipped(b) ==
    /\ apiBindings[b] # NoBinding /\ ~apiBindings[b].deleting /\ ~SyncDue(b)
    /\ threshold' = [threshold EXCEPT ![b] = NextCount(b)]
    /\ synced' = NoOne
    /\ UNCHANGED <<api, models, bindings, pairs, connections, vmis, bounds>>

\* A failing call on the VMI or a failing delete step uses up one fault.
Faulty(fails) == IF fails THEN faults > 0 /\ faults' = faults - 1 ELSE UNCHANGED faults

\* processApplicationBindingAdded otherwise: register, build the pair, wait for
\* the clusters, create the local and the managed artifacts, clean up orphans.
\* A failing CreateUpdateVmi is only logged.
BindingAdded(b) ==
    LET pair == BindingPair(b)
        ready == pair # NoPair /\ ClustersAvailable(pair)
    IN
    /\ apiBindings[b] # NoBinding /\ ~apiBindings[b].deleting /\ SyncDue(b)
    /\ bindings' = [bindings EXCEPT ![b] = IF Unchanged(b) THEN @ ELSE apiBindings[b]]
    /\ threshold' = IF Unchanged(b) THEN [threshold EXCEPT ![b] = NextCount(b)]
                                    ELSE threshold
    /\ pairs' = [pairs EXCEPT ![b] = pair]
    /\ \E vmiFails \in BOOLEAN :
         /\ vmiFails => ready
         /\ Faulty(vmiFails)
         /\ vmis' = IF ready /\ ~vmiFails THEN vmis \cup {b} ELSE vmis
    /\ synced' = IF ready THEN {b} ELSE NoOne
    /\ UNCHANGED <<api, models, connections, changes, restarts>>

\* The registry the deletion branch of processApplicationBindingAdded hands on:
\* the binding is registered if it was not, and its pair built if it can be.
DeletedBinding(b) == IF bindings[b] = NoBinding THEN apiBindings[b] ELSE bindings[b]
DeletedPair_NotRebuilt(b) == pairs[b]
DeletedPair(b) ==
    LET o == apiBindings[b] IN
    IF pairs[b] = NoPair /\ models[o.model] # 0 THEN NewPair(models[o.model], o) ELSE pairs[b]

\* The end of processApplicationBindingDeleted: forget the binding everywhere.
Forget_KeepsThreshold(b) ==
    /\ bindings' = [bindings EXCEPT ![b] = NoBinding]
    /\ pairs' = [pairs EXCEPT ![b] = NoPair]
    /\ UNCHANGED threshold
Forget(b) ==
    /\ bindings' = [bindings EXCEPT ![b] = NoBinding]
    /\ pairs' = [pairs EXCEPT ![b] = NoPair]
    /\ threshold' = [threshold EXCEPT ![b] = NoCount]

\* processApplicationBindingDeleted for a binding with a pair.  A failing
\* DeleteVmi is only logged; any later failure returns and keeps the binding.
Teardown(b) ==
    \E vmiFails, laterFails \in BOOLEAN :
      /\ Faulty(vmiFails \/ laterFails)
      /\ vmis' = IF vmiFails THEN vmis ELSE vmis \ {b}
      /\ IF laterFails
           THEN /\ bindings' = [bindings EXCEPT ![b] = DeletedBinding(b)]
                /\ pairs' = [pairs EXCEPT ![b] = DeletedPair(b)]
                /\ UNCHANGED threshold
           ELSE Forget(b)

\* processApplicationBindingAdded on a binding marked for deletion, with the
\* finalizer: it goes through processApplicationBindingDeleted, which does
\* nothing without a pair.
BindingMarkedDeleted(b) ==
    /\ apiBindings[b].deleting /\ apiBindings[b].finalizer
    /\ IF DeletedPair(b) # NoPair
         THEN Teardown(b)
         ELSE /\ bindings' = [bindings EXCEPT ![b] = DeletedBinding(b)]
              /\ UNCHANGED <<pairs, threshold, vmis, faults>>
    /\ synced' = NoOne
    /\ UNCHANGED <<api, models, connections, changes, restarts>>

-----------------------------------------------------------------------------
(* Surroundings (external) *)

UserChange == changes > 0 /\ changes' = changes - 1

NotHandlers == UNCHANGED <<registry, connections, vmis, synced, faults, restarts>>

\* A fresh resourceVersion: one per change.
NewVersion == MaxChanges - changes + 1

\* A user creates, changes or deletes a model.
UserChangesModel(m) ==
    /\ UserChange
    /\ \E rv \in {0, NewVersion} :
         rv # apiModels[m] /\ apiModels' = [apiModels EXCEPT ![m] = rv]
    /\ NotHandlers /\ UNCHANGED apiBindings

\* A user creates or changes a binding.
UserPutsBinding(b) ==
    /\ UserChange
    /\ ~apiBindings[b].deleting
    /\ \E m \in Models, cs \in SUBSET Clusters, f \in BOOLEAN :
         /\ apiBindings[b] = NoBinding \/ f = apiBindings[b].finalizer
         /\ apiBindings' = [apiBindings EXCEPT ![b] =
              [rv |-> NewVersion, model |-> m, clusters |-> cs,
               deleting |-> FALSE, finalizer |-> f]]
    /\ NotHandlers /\ UNCHANGED apiModels

\* A user asks for the deletion of a binding: without the finalizer the object
\* is gone at once, and the informer's delete event makes
\* processApplicationBindingDeleted return at its first test.
UserDeletesBinding(b) ==
    /\ UserChange
    /\ apiBindings[b] # NoBinding /\ ~apiBindings[b].deleting
    /\ apiBindings' = [apiBindings EXCEPT ![b] =
         IF @.finalizer THEN [@ EXCEPT !.deleting = TRUE, !.rv = NewVersion]
                        ELSE NoBinding]
    /\ NotHandlers /\ UNCHANGED apiModels

\* processManagedCluster stores a connection.
ClusterConnected(c) ==
    /\ c \notin connections
    /\ connections' = connections \cup {c}
    /\ synced' = NoOne
    /\ UNCHANGED <<api, registry, vmis, bounds>>

\* A new process: the maps are empty, the objects are still there.
Restart ==
    /\ restarts > 0 /\ restarts' = restarts - 1
    /\ models' = [m \in Models |-> 0]
    /\ bindings' = [b \in Bindings |-> NoBinding]
    /\ pairs' = [b \in Bindings |-> NoPair]
    /\ threshold' = [b \in Bindings |-> NoCount]
    /\ connections' = {} /\ synced' = NoOne
    /\ UNCHANGED <<api, vmis, changes, faults>>

BindingEvent(b) == BindingSkipped(b) \/ BindingAdded(b) \/ BindingMarkedDeleted(b)
ModelEvent(m) == ModelAdded(m) \/ ModelDeleted(m)

Next ==
    \/ \E b \in Bindings : BindingEvent(b) \/ UserPutsBinding(b) \/ UserDeletesBinding(b)
    \/ \E m \in Models : ModelEvent(m) \/ UserChangesModel(m)
    \/ \E c \in Clusters : ClusterConnected(c)
    \/ Restart

\* Informers resync every constants.ResyncPeriod (15 s), so each object's
\* handler is called again and again.  Nothing makes a cluster connect.
Fairness ==
    /\ \A b \in Bindings : WF_vars(BindingEvent(b))
    /\ \A m \in Models : WF_vars(ModelEvent(m))

Spec == Init /\ [][Next]_vars /\ Fairness

-----------------------------------------------------------------------------
(* Properties *)

\* The maps agree: a pair or a sync counter exists only for a registered
\* binding, in every interleaving of models, bindings, deletions and restarts.
MapsAgree ==
    \A b \in Bindings : bindings[b] = NoBinding => pairs[b] = NoPair /\ threshold[b] = NoCount

\* A binding that stays deployable is synced with the cluster again and again,
\* although most resyncs of an unchanged binding are skipped.
Deployable(b) ==
    /\ apiBindings[b] # NoBinding /\ ~apiBindings[b].deleting
    /\ apiModels[apiBindings[b].model] # 0
SyncRecurs ==
    \A b \in Bindings :
        <>[](Deployable(b) /\ apiBindings[b].clusters \subseteq connections)
          => []<>(b \in synced)

\* A pair catches up with the registered model, even though a change of the
\* model does not rebuild the pairs that exist.
PairsFollowModels ==
    \A b \in Bindings : <>[]Deployable(b) =>
        <>[](Deployable(b) /\ pairs[b].modelRv = models[apiBindings[b].model])

\* The VMI of a binding marked for deletion goes away in the end, although a
\* failing DeleteVmi is only logged and the binding forgotten: the next resync
\* registers it again and tears it down again, as long as its model is there.
DeletedVmiCollected ==
    \A b \in Bindings :
        <>[](/\ apiBindings[b].deleting /\ apiBindings[b].finalizer
             /\ apiModels[apiBindings[b].model] # 0)
          => <>[](b \notin vmis)
=============================================================================
