----------------------- MODULE BindingRegistry_proofs -----------------------
(* The registry's types and the agreement of its maps, for any number of     *)
(* models, bindings, clusters, changes, faults and restarts.                 *)
EXTENDS BindingRegistry, TLAPS

Inv == TypeOK /\ MapsAgree

\* A pair built by CreateSyntheticModelBinding is well typed.
LEMMA NewPairType ==
    ASSUME NEW rv \in Nat, NEW o \in Binding
    PROVE  NewPair(rv, o) \in Pair
BY DEF NewPair, Pair, Binding

\* A binding marked for deletion is one that exists.
LEMMA DeletingExists ==
    ASSUME NEW o \in Binding \cup {NoBinding}, o.deleting
    PROVE  o \in Binding /\ o # NoBinding
BY DEF Binding, NoBinding

\* No version of a binding that exists is mistaken for its absence.
LEMMA BindingIsNotAbsent ==
    ASSUME NEW o \in Binding
    PROVE  o # NoBinding /\ o.model \in Models /\ o.rv \in Nat \ {0}
BY DEF Binding, NoBinding

\* What the pair constructors of the two binding handlers return.
LEMMA PairTypes ==
    ASSUME TypeOK, NEW b \in Bindings, apiBindings[b] # NoBinding
    PROVE  BindingPair(b) \in Pair /\ DeletedPair(b) \in Pair
<1>1. apiBindings[b] \in Binding
  BY DEF TypeOK
<1>2. apiBindings[b].model \in Models
  BY <1>1, BindingIsNotAbsent
<1>3. models[apiBindings[b].model] \in Nat /\ pairs[b] \in Pair
  BY <1>2 DEF TypeOK
<1>4. NewPair(models[apiBindings[b].model], apiBindings[b]) \in Pair
  BY <1>1, <1>3, NewPairType
<1> QED
  BY <1>3, <1>4 DEF BindingPair, DeletedPair

\* The sync counter stays between 0 and the threshold: a resync that would
\* exceed it is the one that syncs and resets it.
LEMMA NextCountType ==
    ASSUME TypeOK, NEW b \in Bindings, Unchanged(b)
    PROVE  NextCount(b) \in NoCount..SyncThreshold
<1>1. threshold[b] \in NoCount..SyncThreshold
  BY DEF TypeOK
<1> QED
  BY <1>1 DEF NextCount, SyncDue, Counter, NoCount, SyncThreshold

\* The fresh version a change gets is not 0.
LEMMA NewVersionType ==
    ASSUME TypeOK, UserChange
    PROVE  NewVersion \in Nat \ {0} /\ changes' \in 0..MaxChanges
BY ConstantsAssumption DEF TypeOK, UserChange, NewVersion

\* The processes start with empty maps.
LEMMA InitInv == Init => Inv
<1> SUFFICES ASSUME Init PROVE Inv
  OBVIOUS
<1>1. NoPair \in Pair /\ NoCount \in NoCount..SyncThreshold
  BY DEF NoPair, Pair, NoCount, SyncThreshold
<1>2. changes \in 0..MaxChanges /\ faults \in Nat /\ restarts \in Nat
  BY ConstantsAssumption DEF Init
<1>3. TypeOK
  BY <1>1, <1>2 DEF Init, EmptyRegistry, TypeOK, NoOne
<1>4. MapsAgree
  BY DEF Init, EmptyRegistry, MapsAgree
<1> QED BY <1>3, <1>4 DEF Inv

\* processApplicationModelAdded gives a pair only to registered bindings.
LEMMA ModelAddedInv ==
    ASSUME Inv, NEW m \in Models, ModelAdded(m)
    PROVE  Inv'
<1>1. apiModels[m] \in Nat
  BY DEF Inv, TypeOK
<1>2. models' \in [Models -> Nat]
  BY <1>1 DEF Inv, TypeOK, ModelAdded
<1>3. pairs' \in [Bindings -> Pair] /\ MapsAgree'
  <2>1. CASE Unpaired(m) = {}
    BY <2>1 DEF Inv, TypeOK, MapsAgree, ModelAdded
  <2>2. CASE Unpaired(m) # {}
    <3>1. PICK b \in Unpaired(m) :
            pairs' = [pairs EXCEPT ![b] = NewPair(apiModels[m], bindings[b])]
      BY <2>2 DEF ModelAdded
    <3>2. b \in Bindings /\ bindings[b] # NoBinding
      BY DEF Unpaired
    <3>3. bindings[b] \in Binding
      BY <3>2 DEF Inv, TypeOK
    <3>4. NewPair(apiModels[m], bindings[b]) \in Pair
      BY <1>1, <3>3, NewPairType
    <3>5. bindings' = bindings /\ threshold' = threshold
      BY DEF ModelAdded
    <3> QED
      BY <3>1, <3>2, <3>4, <3>5 DEF Inv, TypeOK, MapsAgree
  <2> QED BY <2>1, <2>2
<1> QED
  BY <1>2, <1>3 DEF Inv, TypeOK, ModelAdded, api, bounds, NoOne

\* processApplicationModelDeleted touches the models alone.
LEMMA ModelDeletedInv ==
    ASSUME Inv, NEW m \in Models, ModelDeleted(m)
    PROVE  Inv'
BY DEF Inv, TypeOK, MapsAgree, ModelDeleted, api, bounds, NoOne

\* A skipped resync counts, and only for a registered binding.
LEMMA BindingSkippedInv ==
    ASSUME Inv, NEW b \in Bindings, BindingSkipped(b)
    PROVE  Inv'
<1>1. Unchanged(b)
  BY DEF BindingSkipped, SyncDue
<1>2. NextCount(b) \in NoCount..SyncThreshold
  BY <1>1, NextCountType DEF Inv
<1>3. threshold' \in [Bindings -> NoCount..SyncThreshold]
  BY <1>2 DEF Inv, TypeOK, BindingSkipped
<1>4. MapsAgree'
  BY <1>1 DEF Inv, TypeOK, MapsAgree, BindingSkipped, Unchanged
<1> QED
  BY <1>3, <1>4 DEF Inv, TypeOK, BindingSkipped, api, bounds, NoOne

\* A call that syncs leaves the binding registered, whatever it does to the
\* pair and to the counter.
LEMMA BindingAddedInv ==
    ASSUME Inv, NEW b \in Bindings, BindingAdded(b)
    PROVE  Inv'
<1>1. apiBindings[b] # NoBinding /\ apiBindings[b] \in Binding
  BY DEF Inv, TypeOK, BindingAdded
<1>2. BindingPair(b) \in Pair
  BY <1>1, PairTypes DEF Inv
<1>3. bindings' \in [Bindings -> Binding \cup {NoBinding}] /\ bindings'[b] # NoBinding
  <2>1. bindings' = [bindings EXCEPT ![b] = IF Unchanged(b) THEN @ ELSE apiBindings[b]]
    BY DEF BindingAdded
  <2> QED
    BY <1>1, <2>1 DEF Inv, TypeOK, Unchanged
<1>4. threshold' \in [Bindings -> NoCount..SyncThreshold]
  <2>1. CASE Unchanged(b)
    BY <2>1, NextCountType DEF Inv, TypeOK, BindingAdded
  <2>2. CASE ~Unchanged(b)
    BY <2>2 DEF Inv, TypeOK, BindingAdded
  <2> QED BY <2>1, <2>2
<1>5. pairs' = [pairs EXCEPT ![b] = BindingPair(b)]
  BY DEF BindingAdded
<1>6. \A c \in Bindings : c # b =>
        bindings'[c] = bindings[c] /\ pairs'[c] = pairs[c] /\ threshold'[c] = threshold[c]
  BY <1>5 DEF Inv, TypeOK, BindingAdded
<1>7. MapsAgree'
  BY <1>3, <1>6 DEF Inv, MapsAgree
<1>8. pairs' \in [Bindings -> Pair]
  BY <1>2, <1>5 DEF Inv, TypeOK
<1>9. faults' \in Nat /\ vmis' \subseteq Bindings
  BY DEF Inv, TypeOK, BindingAdded, Faulty
<1>10. synced' \subseteq Bindings
  BY DEF BindingAdded, NoOne
<1>11. UNCHANGED <<api, models, connections, changes, restarts>>
  BY DEF BindingAdded
<1> QED
  BY <1>3, <1>4, <1>7, <1>8, <1>9, <1>10, <1>11 DEF Inv, TypeOK, api

\* Deleting a binding either forgets it in all three maps at once or leaves it
\* registered.
LEMMA BindingMarkedDeletedInv ==
    ASSUME Inv, NEW b \in Bindings, BindingMarkedDeleted(b)
    PROVE  Inv'
<1>1. apiBindings[b] \in Binding /\ apiBindings[b] # NoBinding
  BY DeletingExists DEF Inv, TypeOK, BindingMarkedDeleted
<1>2. DeletedPair(b) \in Pair
  BY <1>1, PairTypes DEF Inv
<1>3. DeletedBinding(b) \in Binding /\ DeletedBinding(b) # NoBinding
  BY <1>1 DEF Inv, TypeOK, DeletedBinding
<1>4. UNCHANGED <<api, models, connections, changes, restarts>> /\ synced' = NoOne
  BY DEF BindingMarkedDeleted
<1> DEFINE
      Kept == /\ bindings' = [bindings EXCEPT ![b] = DeletedBinding(b)]
              /\ pairs' = pairs \/ pairs' = [pairs EXCEPT ![b] = DeletedPair(b)]
              /\ UNCHANGED threshold
<1>5. ASSUME Kept PROVE
        /\ bindings' \in [Bindings -> Binding \cup {NoBinding}]
        /\ pairs' \in [Bindings -> Pair]
        /\ threshold' \in [Bindings -> NoCount..SyncThreshold]
        /\ MapsAgree'
  <2>1. /\ bindings' \in [Bindings -> Binding \cup {NoBinding}]
        /\ pairs' \in [Bindings -> Pair]
        /\ threshold' \in [Bindings -> NoCount..SyncThreshold]
    BY <1>2, <1>3, <1>5 DEF Inv, TypeOK
  <2>2. bindings'[b] # NoBinding
    BY <1>3, <1>5 DEF Inv, TypeOK
  <2>3. \A c \in Bindings : c # b =>
          bindings'[c] = bindings[c] /\ pairs'[c] = pairs[c] /\ threshold'[c] = threshold[c]
    BY <1>5 DEF Inv, TypeOK
  <2> QED
    BY <2>1, <2>2, <2>3 DEF Inv, MapsAgree
<1>6. ASSUME Forget(b) PROVE
        /\ bindings' \in [Bindings -> Binding \cup {NoBinding}]
        /\ pairs' \in [Bindings -> Pair]
        /\ threshold' \in [Bindings -> NoCount..SyncThreshold]
        /\ MapsAgree'
  <2>1. NoPair \in Pair /\ NoCount \in NoCount..SyncThreshold
    BY DEF NoPair, Pair, NoCount, SyncThreshold
  <2> QED
    BY <1>6, <2>1 DEF Forget, Inv, TypeOK, MapsAgree
<1>7. CASE DeletedPair(b) # NoPair
  <2>1. Teardown(b)
    BY <1>7 DEF BindingMarkedDeleted
  <2>2. faults' \in Nat /\ vmis' \subseteq Bindings
    BY <2>1 DEF Teardown, Faulty, Inv, TypeOK
  <2>3. Kept \/ Forget(b)
    BY <2>1 DEF Teardown
  <2> QED
    BY <1>4, <1>5, <1>6, <2>2, <2>3 DEF Inv, TypeOK, api, NoOne
<1>8. CASE DeletedPair(b) = NoPair
  <2>1. Kept /\ UNCHANGED <<vmis, faults>>
    BY <1>8 DEF BindingMarkedDeleted
  <2> QED
    BY <1>4, <1>5, <2>1 DEF Inv, TypeOK, api, NoOne
<1> QED BY <1>7, <1>8

\* Users change the API server's objects, not the maps.
LEMMA UserStep ==
    ASSUME Inv, UserChange, NotHandlers,
           apiModels' \in [Models -> Nat],
           apiBindings' \in [Bindings -> Binding \cup {NoBinding}]
    PROVE  Inv'
<1>1. changes' \in 0..MaxChanges
  BY NewVersionType DEF Inv
<1>2. MapsAgree'
  BY DEF NotHandlers, registry, Inv, MapsAgree
<1> QED
  BY <1>1, <1>2 DEF NotHandlers, registry, Inv, TypeOK

\* A created, changed or deleted model.
LEMMA UserChangesModelInv ==
    ASSUME Inv, NEW m \in Models, UserChangesModel(m)
    PROVE  Inv'
<1>1. PICK rv \in {0, NewVersion} : apiModels' = [apiModels EXCEPT ![m] = rv]
  BY DEF UserChangesModel
<1>2. rv \in Nat
  BY NewVersionType DEF Inv, UserChangesModel
<1>3. apiModels' \in [Models -> Nat]
  BY <1>1, <1>2 DEF Inv, TypeOK
<1>4. apiBindings' \in [Bindings -> Binding \cup {NoBinding}]
  BY DEF UserChangesModel, Inv, TypeOK
<1> QED
  BY <1>3, <1>4, UserStep DEF UserChangesModel

\* A created or changed binding.
LEMMA UserPutsBindingInv ==
    ASSUME Inv, NEW b \in Bindings, UserPutsBinding(b)
    PROVE  Inv'
<1>1. NewVersion \in Nat \ {0}
  BY NewVersionType DEF Inv, UserPutsBinding
<1>2. PICK m \in Models, cs \in SUBSET Clusters, f \in BOOLEAN :
        apiBindings' = [apiBindings EXCEPT ![b] =
          [rv |-> NewVersion, model |-> m, clusters |-> cs, deleting |-> FALSE, finalizer |-> f]]
  BY DEF UserPutsBinding
<1>3. [rv |-> NewVersion, model |-> m, clusters |-> cs, deleting |-> FALSE, finalizer |-> f]
        \in Binding
  BY <1>1 DEF Binding
<1>4. apiBindings' \in [Bindings -> Binding \cup {NoBinding}]
  BY <1>2, <1>3 DEF Inv, TypeOK
<1>5. apiModels' \in [Models -> Nat]
  BY DEF UserPutsBinding, Inv, TypeOK
<1> QED
  BY <1>4, <1>5, UserStep DEF UserPutsBinding

\* A deleted binding.
LEMMA UserDeletesBindingInv ==
    ASSUME Inv, NEW b \in Bindings, UserDeletesBinding(b)
    PROVE  Inv'
<1>1. NewVersion \in Nat \ {0}
  BY NewVersionType DEF Inv, UserDeletesBinding
<1>2. apiBindings[b] \in Binding
  BY DEF Inv, TypeOK, UserDeletesBinding
<1>3. [apiBindings[b] EXCEPT !.deleting = TRUE, !.rv = NewVersion] \in Binding
  BY <1>1, <1>2 DEF Binding
<1>4. apiBindings' \in [Bindings -> Binding \cup {NoBinding}]
  BY <1>3 DEF Inv, TypeOK, UserDeletesBinding
<1>5. apiModels' \in [Models -> Nat]
  BY DEF UserDeletesBinding, Inv, TypeOK
<1> QED
  BY <1>4, <1>5, UserStep DEF UserDeletesBinding

\* A connection and a restart.
LEMMA SurroundingsInv ==
    ASSUME Inv, Restart \/ \E c \in Clusters : ClusterConnected(c)
    PROVE  Inv'
<1>1. CASE Restart
  <2>1. NoPair \in Pair /\ NoCount \in NoCount..SyncThreshold
    BY DEF NoPair, Pair, NoCount, SyncThreshold
  <2>2. MapsAgree'
    BY <1>1 DEF Restart, MapsAgree
  <2>3. /\ models' \in [Models -> Nat] /\ bindings' \in [Bindings -> Binding \cup {NoBinding}]
        /\ pairs' \in [Bindings -> Pair]
        /\ threshold' \in [Bindings -> NoCount..SyncThreshold]
    BY <1>1, <2>1 DEF Restart
  <2>4. /\ connections' \subseteq Clusters /\ synced' \subseteq Bindings
    BY <1>1, Zenon DEF Restart, NoOne
  <2>5. restarts \in Nat /\ restarts > 0 /\ restarts' = restarts - 1
    BY <1>1, Zenon DEF Restart, Inv, TypeOK
  <2>6. restarts' \in Nat
    BY <2>5
  <2>7. UNCHANGED <<api, vmis, changes, faults>>
    BY <1>1 DEF Restart
  <2>8. TypeOK'
    BY <2>3, <2>4, <2>6, <2>7 DEF Inv, TypeOK, api
  <2> QED BY <2>2, <2>8 DEF Inv
<1>2. CASE \E c \in Clusters : ClusterConnected(c)
  BY <1>2 DEF ClusterConnected, Inv, TypeOK, MapsAgree, api, registry, bounds, NoOne
<1> QED BY <1>1, <1>2

\* Every step keeps the types and the agreement of the maps.
LEMMA NextInv == Inv /\ [Next]_vars => Inv'
<1> SUFFICES ASSUME Inv, [Next]_vars PROVE Inv'
  OBVIOUS
<1>1. ASSUME NEW b \in Bindings, BindingEvent(b) PROVE Inv'
  BY <1>1, BindingSkippedInv, BindingAddedInv, BindingMarkedDeletedInv DEF BindingEvent
<1>2. ASSUME NEW m \in Models, ModelEvent(m) PROVE Inv'
  BY <1>2, ModelAddedInv, ModelDeletedInv DEF ModelEvent
<1>3. CASE \/ \E m \in Models : UserChangesModel(m)
           \/ \E b \in Bindings : UserPutsBinding(b) \/ UserDeletesBinding(b)
  BY <1>3, UserChangesModelInv, UserPutsBindingInv, UserDeletesBindingInv
<1>4. CASE Restart \/ \E c \in Clusters : ClusterConnected(c)
  BY <1>4, SurroundingsInv
<1>5. CASE UNCHANGED vars
  BY <1>5 DEF vars, api, registry, bounds, Inv, TypeOK, MapsAgree
<1> QED
  BY <1>1, <1>2, <1>3, <1>4, <1>5 DEF Next

\* The maps of the registry have the shapes the handlers rely on; in
\* particular a sync counter never passes the threshold.
THEOREM RegistryTypes == Spec => []TypeOK
<1>1. Inv => TypeOK
  BY DEF Inv
<1> QED
  BY <1>1, InitInv, NextInv, PTL DEF Spec

\* In every interleaving of models, bindings, deletions that fail halfway and
\* restarts, no pair and no counter outlives its binding in the registry.
THEOREM RegistryAgrees == Spec => []MapsAgree
<1>1. Inv => MapsAgree
  BY DEF Inv
<1> QED
  BY <1>1, InitInv, NextInv, PTL DEF Spec
=============================================================================
