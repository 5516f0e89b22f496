--------------------------- MODULE Startup_proofs ---------------------------
(* The one pass over the managed cluster leaves nothing out, for any number  *)
(* of faults, of tampering and of operator versions.                         *)
EXTENDS Startup, TLAPS

BeforeConnection == {"setup", "syncLocal", "serviceAccount", "connect"}
Connected == {"syncManaged", "pass", "blocked"}

\* The listers show nothing before the connection; after it, as long as nothing
\* fails or is tampered with, they show only what exists, and every object of a
\* step that was made exists.  A namespace that is being deleted is tampered with.
PassInv ==
    /\ TypeOK
    /\ terminating => ~clean
    /\ pc \in BeforeConnection => step = 1 /\ \A k \in Kinds : cache[k] = 0
    /\ pc = "syncManaged" => step = 1
    /\ pc \in Connected /\ clean => \A k \in Kinds : cache[k] # 0 => store[k] # 0
    /\ pc \in Connected /\ clean =>
         \A i \in 1..Len(PassOrder) : i < step => store[PassOrder[i]] # 0
    /\ pc = "blocked" /\ clean => step > Len(PassOrder)

\* The pass has six steps, one for each kind of object, the namespace first.
LEMMA PassOrderFacts ==
    /\ Len(PassOrder) = 6
    /\ PassOrder[1] = "namespace"
    /\ \A i \in 1..Len(PassOrder) : PassOrder[i] \in Kinds
    /\ \A i \in 1..Len(PassOrder) : PassOrder[i] = "namespace" => i = 1
    /\ \A k \in Kinds : \E i \in 1..Len(PassOrder) : PassOrder[i] = k
BY DEF PassOrder, Kinds

\* What a create-or-update leaves in the store is absent or of some version.
LEMMA EnsuredType ==
    ASSUME TypeOK, NEW k \in Kinds
    PROVE  Ensured(k) \in 0..MaxVersion
<1>1. store[k] \in 0..MaxVersion /\ cache[k] \in 0..MaxVersion /\ version \in 0..MaxVersion
  BY ConstantsAssumption DEF TypeOK
<1>2. 0 \in 0..MaxVersion
  BY ConstantsAssumption
<1> QED
  BY <1>1, <1>2 DEF Ensured

\* A create-or-update on a lister that shows only what exists leaves the object
\* in place, once the namespace is there.
LEMMA EnsuredExists ==
    ASSUME TypeOK, NEW k \in Kinds,
           cache[k] # 0 => store[k] # 0,
           k = "namespace" \/ (store["namespace"] # 0 /\ ~terminating)
    PROVE  Ensured(k) # 0
<1>1. version # 0
  BY ConstantsAssumption DEF TypeOK
<1>2. "namespace" \notin Namespaced
  BY DEF Namespaced
<1> QED
  BY <1>1, <1>2 DEF Ensured, Creatable

\* A failing API call uses up one fault.
LEMMA FaultType ==
    ASSUME TypeOK, Fault
    PROVE  faults' \in 0..MaxFaults
BY ConstantsAssumption DEF TypeOK, Fault

\* A process starts with empty listers.
LEMMA InitPassInv == Init => PassInv
<1> SUFFICES ASSUME Init PROVE PassInv
  OBVIOUS
<1>1. Len(PassOrder) = 6
  BY PassOrderFacts
<1>2. TypeOK
  <2>1. /\ step \in 1..Len(PassOrder) + 1 /\ signals \in 0..2 /\ version \in 1..MaxVersion
        /\ faults \in 0..MaxFaults /\ tampering \in 0..MaxTampering
    BY <1>1, ConstantsAssumption DEF Init, Fresh
  <2>2. store \in [Kinds -> 0..MaxVersion] /\ cache \in [Kinds -> 0..MaxVersion]
    BY ConstantsAssumption DEF Init, Fresh
  <2>3. /\ pc \in PCs /\ loop \in BOOLEAN /\ clean \in BOOLEAN /\ terminating \in BOOLEAN
        /\ localSynced \subseteq {"secret", "vmi"} /\ managedSynced \subseteq Kinds
    BY DEF Init, Fresh, PCs
  <2> QED BY <2>1, <2>2, <2>3 DEF TypeOK
<1> QED
  BY <1>2 DEF Init, Fresh, PassInv, BeforeConnection, Connected

\* The steps of the main goroutine up to the pass.
LEMMA ApproachInv ==
    ASSUME PassInv,
           \/ SetUp \/ SyncLocal \/ GetServiceAccount
           \/ BuildManagedClusterConnection \/ SyncManaged
    PROVE  PassInv'
<1>1. Len(PassOrder) = 6
  BY PassOrderFacts
<1>2. CASE SetUp
  BY <1>2 DEF SetUp, cluster, Goto, PassInv, TypeOK, PCs, BeforeConnection, Connected
<1>3. CASE SyncLocal
  BY <1>3 DEF SyncLocal, cluster, Goto, PassInv, TypeOK, PCs, BeforeConnection, Connected
<1>4. CASE GetServiceAccount
  <2>1. CASE Goto("connect") /\ UNCHANGED <<clean, faults>>
    BY <1>4, <2>1 DEF GetServiceAccount, cluster, Goto, PassInv, TypeOK, PCs, BeforeConnection, Connected
  <2>2. CASE Fault /\ clean' = FALSE /\ Goto("blocked")
    <3>1. faults' \in 0..MaxFaults
      BY <2>2, FaultType DEF PassInv
    <3> QED
      BY <1>4, <2>2, <3>1
         DEF GetServiceAccount, cluster, Goto, PassInv, TypeOK, PCs, BeforeConnection, Connected
  <2> QED BY <1>4, <2>1, <2>2 DEF GetServiceAccount
<1>5. CASE BuildManagedClusterConnection
  <2>1. CASE clean' = ~terminating /\ Goto("syncManaged") /\ UNCHANGED faults
    BY <1>5, <2>1
       DEF BuildManagedClusterConnection, cluster, Goto, PassInv, TypeOK, PCs, BeforeConnection, Connected
  <2>2. CASE Fault /\ clean' = FALSE /\ Goto("blocked")
    <3>1. faults' \in 0..MaxFaults
      BY <2>2, FaultType DEF PassInv
    <3> QED
      BY <1>5, <2>2, <3>1
         DEF BuildManagedClusterConnection, cluster, Goto, PassInv, TypeOK, PCs, BeforeConnection, Connected
  <2> QED BY <1>5, <2>1, <2>2 DEF BuildManagedClusterConnection
<1>6. CASE SyncManaged
  BY <1>6 DEF SyncManaged, cluster, Goto, PassInv, TypeOK, PCs, BeforeConnection, Connected
<1> QED BY <1>2, <1>3, <1>4, <1>5, <1>6

\* A step of the pass.
LEMMA CreateInv ==
    ASSUME PassInv, NEW kind \in Kinds, Create(kind)
    PROVE  PassInv'
<1>1. Len(PassOrder) = 6 /\ step \in 1..Len(PassOrder) /\ PassOrder[step] = kind
  BY PassOrderFacts DEF PassInv, TypeOK, Create
<1>2. pc = "pass" /\ pc' = "pass" /\ step' = step + 1 /\ cache' = cache
  BY DEF Create
<1>3. CASE store' = [store EXCEPT ![kind] = Ensured(kind)] /\ UNCHANGED <<clean, faults>>
  <2>1. Ensured(kind) \in 0..MaxVersion
    BY <1>1, EnsuredType DEF PassInv
  <2>2. store \in [Kinds -> 0..MaxVersion] /\ store' \in [Kinds -> 0..MaxVersion]
    BY <1>3, <2>1 DEF PassInv, TypeOK
  <2>3. TypeOK'
    BY <1>1, <1>2, <1>3, <2>2 DEF PassInv, TypeOK, Create
  <2>4. ASSUME clean
        PROVE /\ \A k \in Kinds : cache[k] # 0 => store'[k] # 0
              /\ \A i \in 1..Len(PassOrder) : i < step + 1 => store'[PassOrder[i]] # 0
    <3>1. \A k \in Kinds : cache[k] # 0 => store[k] # 0
      BY <1>2, <2>4 DEF PassInv, Connected
    <3>2. \A i \in 1..Len(PassOrder) : i < step => store[PassOrder[i]] # 0
      BY <1>2, <2>4 DEF PassInv, Connected
    <3>3. kind = "namespace" \/ (store["namespace"] # 0 /\ ~terminating)
      BY <1>1, <2>4, <3>2, PassOrderFacts DEF PassInv
    <3>4. Ensured(kind) # 0
      BY <1>1, <3>1, <3>3, EnsuredExists DEF PassInv
    <3>5. store'[kind] # 0 /\ \A k \in Kinds : store[k] # 0 => store'[k] # 0
      BY <1>1, <1>3, <2>2, <3>4
    <3>6. ASSUME NEW i \in 1..Len(PassOrder), i < step + 1
          PROVE store'[PassOrder[i]] # 0
      <4>1. i = step \/ i < step
        BY <1>1, <3>6
      <4>2. PassOrder[i] \in Kinds
        BY PassOrderFacts
      <4> QED BY <1>1, <3>2, <3>5, <4>1, <4>2
    <3> QED BY <3>1, <3>5, <3>6
  <2>5. (terminating => ~clean) /\ UNCHANGED terminating
    BY DEF PassInv, Create
  <2> QED
    BY <1>2, <1>3, <2>3, <2>4, <2>5 DEF PassInv, BeforeConnection, Connected
<1>4. CASE Fault /\ clean' = FALSE /\ UNCHANGED store
  <2>1. faults' \in 0..MaxFaults
    BY <1>4, FaultType DEF PassInv
  <2>2. /\ clean' \in BOOLEAN /\ UNCHANGED store
        /\ UNCHANGED <<signals, loop, localSynced, managedSynced, version, terminating,
                      tampering>>
    BY <1>4 DEF Create
  <2>3. TypeOK'
    BY <1>1, <1>2, <2>1, <2>2 DEF PassInv, TypeOK
  <2> QED
    BY <1>2, <1>4, <2>3 DEF PassInv, BeforeConnection, Connected
<1> QED
  BY <1>3, <1>4 DEF Create

\* The calls of createManagedClusterResourcesForBinding.
LEMMA PassStepInv ==
    ASSUME PassInv, PassStep
    PROVE  PassInv'
<1>1. \E k \in Kinds : Create(k)
  BY DEF PassStep, CreateNamespaces, CreateServiceAccounts, CreateClusterRoles,
         CreateClusterRoleBindings, CreateServices, CreateDaemonSets, Kinds
<1> QED BY <1>1, CreateInv

\* The end of the pass.
LEMMA PassDoneInv ==
    ASSUME PassInv, PassDone
    PROVE  PassInv'
BY DEF PassDone, cluster, Goto, PassInv, TypeOK, PCs, BeforeConnection, Connected

\* An informer delivers.
LEMMA InformersInv ==
    ASSUME PassInv, Informers
    PROVE  PassInv'
<1>1. ASSUME NEW i \in {"secret", "vmi"}, DeliverLocal(i) PROVE PassInv'
  BY <1>1 DEF DeliverLocal, cluster, PassInv, TypeOK, PCs, BeforeConnection, Connected
<1>2. ASSUME NEW k \in Kinds, DeliverManaged(k) PROVE PassInv'
  BY <1>2 DEF DeliverManaged, cluster, PassInv, TypeOK, PCs, BeforeConnection, Connected
<1> QED BY <1>1, <1>2 DEF Informers

\* Signals, the next process, somebody else's deletions and the cluster's.
LEMMA OutsideInv ==
    ASSUME PassInv, Signal \/ Replace \/ Tamper \/ \E k \in Kinds : Terminate(k)
    PROVE  PassInv'
<1>1. Len(PassOrder) = 6
  BY PassOrderFacts
<1>2. CASE Signal
  BY <1>2 DEF Signal, cluster, Goto, PassInv, TypeOK, PCs, BeforeConnection, Connected
<1>3. CASE Replace
  <2>1. cache' = [k \in Kinds |-> 0] /\ step' = 1 /\ pc' = "setup"
    BY <1>3 DEF Replace
  <2>2. cache' \in [Kinds -> 0..MaxVersion] /\ version' \in 1..MaxVersion
    BY <1>3, <2>1, ConstantsAssumption DEF Replace, PassInv, TypeOK
  <2>3. /\ pc' \in PCs /\ step' \in 1..Len(PassOrder) + 1
        /\ localSynced' \subseteq {"secret", "vmi"} /\ managedSynced' \subseteq Kinds
        /\ signals' \in 0..2
    BY <1>1, <1>3 DEF Replace, PCs
  <2>4. loop' \in BOOLEAN
    BY <1>3, Zenon DEF Replace
  <2>5. UNCHANGED <<store, terminating, clean, faults, tampering>>
    BY <1>3 DEF Replace, cluster
  <2>6. TypeOK'
    BY <2>2, <2>3, <2>4, <2>5 DEF PassInv, TypeOK
  <2> QED
    BY <2>1, <2>5, <2>6 DEF PassInv, BeforeConnection, Connected
<1>4. CASE Tamper
  <2>1. UNCHANGED process /\ faults' = faults /\ clean' = FALSE
    BY <1>4 DEF Tamper
  <2>2. tampering' \in 0..MaxTampering
    BY <1>4, ConstantsAssumption DEF Tamper, PassInv, TypeOK
  <2>3. store' \in [Kinds -> 0..MaxVersion]
    BY <1>4, ConstantsAssumption DEF Tamper, PassInv, TypeOK
  <2>4. terminating' \in BOOLEAN
    BY <1>4 DEF Tamper, PassInv, TypeOK
  <2> QED
    BY <2>1, <2>2, <2>3, <2>4 DEF process, PassInv, TypeOK, BeforeConnection, Connected
<1>5. ASSUME NEW k \in Kinds, Terminate(k) PROVE PassInv'
  <2>1. UNCHANGED <<process, clean, faults, tampering>> /\ clean = FALSE
    BY <1>5 DEF Terminate, PassInv, TypeOK
  <2>2. store' \in [Kinds -> 0..MaxVersion] /\ terminating' \in BOOLEAN
    BY <1>5, ConstantsAssumption DEF Terminate, PassInv, TypeOK
  <2> QED
    BY <2>1, <2>2 DEF process, PassInv, TypeOK, BeforeConnection, Connected
<1> QED BY <1>2, <1>3, <1>4, <1>5

\* Every step preserves the invariant.
LEMMA NextPassInv == PassInv /\ [Next]_vars => PassInv'
<1> SUFFICES ASSUME PassInv, [Next]_vars PROVE PassInv'
  OBVIOUS
<1>1. CASE Main
  BY <1>1, ApproachInv, PassStepInv, PassDoneInv DEF Main
<1>2. CASE Informers
  BY <1>2, InformersInv
<1>3. CASE Signal \/ Replace \/ Tamper \/ \E k \in Kinds : Terminate(k)
  BY <1>3, OutsideInv
<1>4. CASE UNCHANGED vars
  BY <1>4 DEF vars, process, cluster, PassInv, TypeOK
<1> QED
  BY <1>1, <1>2, <1>3, <1>4 DEF Next

\* The variables of the process and the cluster have the shapes the code gives
\* them.
THEOREM StartupTypes == Spec => []TypeOK
<1>1. PassInv => TypeOK
  BY DEF PassInv
<1> QED
  BY <1>1, InitPassInv, NextPassInv, PTL DEF Spec

\* A pass in which nothing failed and nobody interfered has installed every
\* object of the node exporter, although processManagedCluster waits for only
\* one of the informers its steps go by.
THEOREM PassIsComplete == Spec => []PassComplete
<1>1. PassInv => PassComplete
  BY PassOrderFacts DEF PassInv, PassComplete, Connected, TypeOK
<1> QED
  BY <1>1, InitPassInv, NextPassInv, PTL DEF Spec

-----------------------------------------------------------------------------
(* Which steps of the pass update *)

\* A lister that has not been filled shows nothing; one that has been filled
\* shows, as long as nothing fails or is tampered with, what is stored until the
\* step that goes by it is made.
ListerInv ==
    /\ pc \in BeforeConnection => managedSynced = {}
    /\ \A k \in Kinds \ managedSynced : cache[k] = 0
    /\ pc \in Connected /\ clean =>
         \A i \in 1..Len(PassOrder) : i >= step /\ PassOrder[i] \in managedSynced
           => cache[PassOrder[i]] = store[PassOrder[i]]

\* No kind of object has two steps.
LEMMA PassOrderInjective ==
    \A i, j \in 1..Len(PassOrder) : PassOrder[i] = PassOrder[j] => i = j
<1> SUFFICES ASSUME NEW i \in 1..Len(PassOrder), NEW j \in 1..Len(PassOrder), i # j
             PROVE  PassOrder[i] # PassOrder[j]
  OBVIOUS
<1>1. i \in 1..6 /\ j \in 1..6
  BY PassOrderFacts
<1> QED
  BY <1>1 DEF PassOrder

\* A step of the pass writes only its own object.
LEMMA CreateLister ==
    ASSUME PassInv, ListerInv, NEW kind \in Kinds, Create(kind)
    PROVE  ListerInv'
<1>1. /\ pc = "pass" /\ pc' = "pass" /\ step' = step + 1 /\ cache' = cache
      /\ managedSynced' = managedSynced
      /\ step \in 1..Len(PassOrder) /\ Len(PassOrder) = 6 /\ PassOrder[step] = kind
  BY PassOrderFacts DEF Create, PassInv, TypeOK
<1>2. ASSUME clean', NEW i \in 1..Len(PassOrder), i >= step',
             PassOrder[i] \in managedSynced
      PROVE  cache'[PassOrder[i]] = store'[PassOrder[i]]
  <2>1. clean /\ store' = [store EXCEPT ![kind] = Ensured(kind)]
    BY <1>2 DEF Create
  <2>2. i # step /\ i >= step
    BY <1>1, <1>2
  <2>3. PassOrder[i] # kind /\ PassOrder[i] \in Kinds
    BY <1>1, <2>2, PassOrderInjective, PassOrderFacts
  <2>4. store'[PassOrder[i]] = store[PassOrder[i]]
    BY <2>1, <2>3 DEF PassInv, TypeOK
  <2>5. cache[PassOrder[i]] = store[PassOrder[i]]
    BY <1>1, <1>2, <2>1, <2>2 DEF ListerInv, Connected
  <2> QED
    BY <1>1, <2>4, <2>5
<1> QED
  BY <1>1, <1>2 DEF ListerInv, BeforeConnection, Connected

\* Every step keeps what the listers show.
LEMMA NextListerInv ==
    ASSUME PassInv, ListerInv, [Next]_vars
    PROVE  ListerInv'
<1> USE DEF BeforeConnection, Connected
<1>1. CASE SetUp \/ SyncLocal \/ SyncManaged
  BY <1>1 DEF SetUp, SyncLocal, SyncManaged, cluster, Goto, ListerInv
<1>2. CASE GetServiceAccount
  BY <1>2 DEF GetServiceAccount, cluster, Goto, ListerInv
<1>3. CASE BuildManagedClusterConnection
  BY <1>3 DEF BuildManagedClusterConnection, cluster, Goto, ListerInv
<1>4. CASE PassStep
  <2>1. \E k \in Kinds : Create(k)
    BY <1>4 DEF PassStep, CreateNamespaces, CreateServiceAccounts, CreateClusterRoles,
           CreateClusterRoleBindings, CreateServices, CreateDaemonSets, Kinds
  <2> QED
    BY <2>1, CreateLister
<1>5. CASE PassDone
  BY <1>5 DEF PassDone, cluster, Goto, ListerInv
<1>6. ASSUME NEW i \in {"secret", "vmi"}, DeliverLocal(i) PROVE ListerInv'
  BY <1>6 DEF DeliverLocal, cluster, ListerInv
<1>7. ASSUME NEW k \in Kinds, DeliverManaged(k) PROVE ListerInv'
  <2>1. /\ pc \in Connected /\ UNCHANGED <<pc, step, store, clean>>
        /\ managedSynced' = managedSynced \cup {k}
        /\ cache' = [cache EXCEPT ![k] = store[k]]
    BY <1>7 DEF DeliverManaged, cluster
  <2>2. /\ cache'[k] = store[k]
        /\ \A j \in Kinds \ {k} : cache'[j] = cache[j]
    BY <2>1 DEF PassInv, TypeOK
  <2>3. \A i \in 1..Len(PassOrder) : PassOrder[i] \in Kinds
    BY PassOrderFacts
  <2> QED
    BY <2>1, <2>2, <2>3 DEF ListerInv
<1>8. CASE Signal
  BY <1>8 DEF Signal, cluster, Goto, ListerInv
<1>9. CASE Replace
  BY <1>9 DEF Replace, cluster, ListerInv
<1>10. CASE Tamper
  BY <1>10 DEF Tamper, process, ListerInv
<1>11. ASSUME NEW k \in Kinds, Terminate(k) PROVE ListerInv'
  <2>1. UNCHANGED process /\ clean' = FALSE
    BY <1>11 DEF Terminate, PassInv, TypeOK
  <2> QED
    BY <2>1 DEF process, ListerInv
<1>12. CASE UNCHANGED vars
  BY <1>12 DEF vars, process, cluster, ListerInv
<1> QED
  BY <1>1, <1>2, <1>3, <1>4, <1>5, <1>6, <1>7, <1>8, <1>9, <1>10, <1>11, <1>12
  DEF Next, Main, Informers

\* In a pass without errors or interference, an object keeps an old content if
\* and only if its informer had not filled the lister when its step was made.
THEOREM OnlyUnlistedStaysOld == Spec => UpdatesIfListed
<1> DEFINE Updated(k) ==
      store'[k] = version <=> k \in managedSynced \/ store[k] \in {0, version}
<1>1. Init => ListerInv
  BY DEF Init, Fresh, ListerInv, Connected, BeforeConnection
<1>2. ASSUME PassInv, ListerInv, NEW k \in Kinds \ {"namespace"}, Create(k), clean'
      PROVE  Updated(k)
  <2>1. /\ pc = "pass" /\ step \in 1..Len(PassOrder) /\ Len(PassOrder) = 6
        /\ PassOrder[step] = k
    BY <1>2, PassOrderFacts DEF Create, PassInv, TypeOK
  <2> HIDE DEF Updated
  <2>2. clean /\ store' = [store EXCEPT ![k] = Ensured(k)]
    BY <1>2 DEF Create
  <2>3. store'[k] = Ensured(k)
    BY <1>2, <2>2 DEF PassInv, TypeOK
  <2>4. 1 \in 1..Len(PassOrder) /\ 1 < step
    BY <1>2, <2>1, PassOrderFacts
  <2>5. store["namespace"] # 0 /\ ~terminating
    BY <1>2, <2>1, <2>2, <2>4, PassOrderFacts DEF PassInv, Connected
  <2>6. k \in managedSynced => cache[k] = store[k]
    BY <1>2, <2>1, <2>2 DEF ListerInv, Connected
  <2>7. k \notin managedSynced => cache[k] = 0
    BY <1>2 DEF ListerInv
  <2>8. version # 0
    BY <1>2, ConstantsAssumption DEF PassInv, TypeOK
  <2> QED
    BY <1>2, <2>3, <2>5, <2>6, <2>7, <2>8 DEF Ensured, Creatable, Updated
<1>3. PassInv /\ ListerInv =>
        [\A k \in Kinds \ {"namespace"} : Create(k) /\ clean' => Updated(k)]_vars
  <2> SUFFICES ASSUME PassInv, ListerInv
               PROVE  \A k \in Kinds \ {"namespace"} : Create(k) /\ clean' => Updated(k)
    OBVIOUS
  <2> QED
    BY <1>2
<1> QED
  BY <1>1, <1>3, InitPassInv, NextPassInv, NextListerInv, PTL DEF Spec, UpdatesIfListed
=============================================================================
