----------------------- MODULE GlobalEntities_proofs -----------------------
(***************************************************************************)
(* Proofs about GlobalEntities, for every set of specs, claims, passwords  *)
(* and configurations, every number of outside events and every cache lag. *)
(***************************************************************************)
EXTENDS GlobalEntities, TLAPS

\* Writing a well-typed snapshot keeps a well-typed watch well-typed.
LEMMA AppendType ==
    ASSUME NEW S, NEW w \in Seq(S), NEW s \in S
    PROVE  Append(w, s) \in Seq(S)
  OBVIOUS

\* What Deliver takes from a non-empty watch is a snapshot, and a watch remains.
LEMMA HeadTailType ==
    ASSUME NEW S, NEW w \in Seq(S), w # <<>>
    PROVE  Head(w) \in S /\ Tail(w) \in Seq(S)
  OBVIOUS

\* A write of a well-typed object keeps the store, the cache and the watch of
\* its kind well-typed.
LEMMA VmiWriteType ==
    ASSUME TypeOK, NEW new \in Vmi, Vmis!Write(new)
    PROVE  vmi' \in Vmi /\ vmiCache' \in Vmi /\ vmiWatch' \in Seq(Vmi)
  BY AppendType DEF TypeOK, Vmis!Write

\* A write of the secrets keeps them, and the watch, typed.
LEMMA SecretWriteType ==
    ASSUME TypeOK, NEW new \in SecretStore, Secrets!Write(new)
    PROVE  /\ secrets' \in SecretStore /\ secretCache' \in SecretStore
           /\ secretWatch' \in Seq(SecretStore)
  BY AppendType DEF TypeOK, Secrets!Write

\* A write of the ConfigMaps keeps them, and the watch, typed.
LEMMA ConfigMapWriteType ==
    ASSUME TypeOK, NEW new \in ConfigMapStore, ConfigMaps!Write(new)
    PROVE  /\ configMaps' \in ConfigMapStore /\ configMapCache' \in ConfigMapStore
           /\ configMapWatch' \in Seq(ConfigMapStore)
  BY AppendType DEF TypeOK, ConfigMaps!Write

\* VMO's and an administrator's edits of a VMI give a well-typed object.
LEMMA EditedVmiType ==
    ASSUME NEW v \in Vmi, NEW r \in Nat
    PROVE  /\ \A p \in Pvcs : [v EXCEPT !.rv = r + 1, !.pvcs = @ \cup {p}] \in Vmi
           /\ \A s \in Specs : [v EXCEPT !.rv = r + 1, !.spec = s] \in Vmi
<1> DEFINE w == [v EXCEPT !.rv = r + 1]
<1>1. w \in Vmi
  BY DEF Vmi
<1> HIDE DEF w
<1>2. \A p \in Pvcs : [w EXCEPT !.pvcs = @ \cup {p}] \in Vmi
  BY <1>1 DEF Vmi
<1>3. \A s \in Specs : [w EXCEPT !.spec = s] \in Vmi
  BY <1>1 DEF Vmi
<1> QED
  BY <1>2, <1>3 DEF w

\* The loop only asks for VMIs that are well-typed objects.
LEMMA VmiWantedType ==
    ASSUME TypeOK PROVE VmiWanted \in Vmi
<1>1. config.spec \in Specs
  BY ConstantsAssumption DEF Config, TypeOK
<1>2. \A claims \in SUBSET Pvcs, id \in Nat :
        /\ Instance(claims) \in Vmi
        /\ [Instance(claims) EXCEPT !.uid = id] \in Vmi
  <2> TAKE claims \in SUBSET Pvcs, id \in Nat
  <2>1. revision + 1 \in Nat
    BY DEF TypeOK
  <2>2. Instance(claims) \in Vmi
    BY <1>1, <2>1 DEF Instance, Vmi
  <2>3. [Instance(claims) EXCEPT !.uid = id] \in Vmi
    BY <2>2 DEF Vmi
  <2> QED
    BY <2>2, <2>3
<1>3. VmiCreated \in Vmi
  BY <1>2 DEF TypeOK, VmiCreated
<1>4. vmiCache.pvcs \in SUBSET Pvcs /\ vmi.uid \in Nat
  BY DEF TypeOK, Vmi
<1>5. VmiUpdated \in Vmi
  BY <1>2, <1>4 DEF TypeOK, VmiUpdated
<1> QED
  BY <1>3, <1>5 DEF TypeOK, VmiWanted

\* An outside event or an API error leaves a well-typed budget.
LEMMA SpendType ==
    ASSUME TypeOK, NEW e \in Events, Spend(e)
    PROVE  left' \in [Events -> Nat]
  BY DEF TypeOK, Spend

\* An API request spends at most one fault.
LEMMA OutcomeType ==
    ASSUME TypeOK, NEW applied \in BOOLEAN, NEW failed \in BOOLEAN,
           Outcome(applied, failed)
    PROVE  left' \in [Events -> Nat]
  BY SpendType DEF TypeOK, Outcome, Events

\* The loop's steps keep the types.
LEMMA LoopType ==
    ASSUME TypeOK, Loop PROVE TypeOK'
<1>1. CASE Start
  BY <1>1 DEF TypeOK, Start, PCs, vmiVars, secretVars, configMapVars
<1>2. CASE CreateUpdateVmi
  <2> PICK applied \in BOOLEAN, failed \in BOOLEAN :
         /\ Outcome(applied, failed)
         /\ IF applied
              THEN /\ Vmis!Write(VmiWanted)
                   /\ revision' = IF VmiWanted = vmi THEN revision ELSE revision + 1
              ELSE UNCHANGED vmiVars
    BY <1>2 DEF CreateUpdateVmi
  <2>1. left' \in [Events -> Nat]
    BY OutcomeType
  <2>2. vmi' \in Vmi /\ vmiCache' \in Vmi /\ vmiWatch' \in Seq(Vmi) /\ revision' \in Nat
    BY VmiWantedType, VmiWriteType DEF TypeOK, vmiVars
  <2> QED
    BY <1>2, <2>1, <2>2 DEF TypeOK, CreateUpdateVmi, PCs, secretVars, configMapVars
<1>3. CASE CreateVmiSecret
  <2> PICK applied \in BOOLEAN, failed \in BOOLEAN, password \in Passwords :
         /\ Outcome(applied, failed)
         /\ IF applied /\ VmiSecretRequest # "none" /\ VmiSecretAccepted
              THEN Secrets!Write([secrets EXCEPT !.password = password])
              ELSE UNCHANGED secretVars
         /\ pc' = IF failed \/ ~VmiSecretAccepted THEN "configMap" ELSE "secretList"
    BY <1>3 DEF CreateVmiSecret
  <2>1. left' \in [Events -> Nat]
    BY OutcomeType
  <2>2. [secrets EXCEPT !.password = password] \in SecretStore
    BY DEF TypeOK, SecretStore
  <2>3. /\ secrets' \in SecretStore /\ secretCache' \in SecretStore
        /\ secretWatch' \in Seq(SecretStore)
    BY <2>2, SecretWriteType DEF TypeOK, secretVars
  <2>4. pc' \in PCs
    BY DEF PCs
  <2> QED
    BY <1>3, <2>1, <2>3, <2>4 DEF TypeOK, CreateVmiSecret, vmiVars, configMapVars
<1>4. CASE ListSecrets
  <2>1. todo' \subseteq OtherSecrets \cup {VmiSecretName}
    BY <1>4 DEF TypeOK, ListSecrets, LabelledSecrets, SecretStore
  <2> QED
    BY <1>4, <2>1 DEF TypeOK, ListSecrets, PCs, vmiVars, secretVars, configMapVars
<1>5. CASE DeleteListedSecret
  <2> PICK n \in todo, applied \in BOOLEAN, failed \in BOOLEAN :
         /\ Outcome(applied, failed)
         /\ IF applied THEN Secrets!Write(SecretsWithout(n)) ELSE UNCHANGED secretVars
         /\ IF failed \/ n \notin LabelledSecrets(secrets)
              THEN todo' = {} ELSE todo' = todo \ {n}
    BY <1>5 DEF DeleteListedSecret
  <2>1. left' \in [Events -> Nat]
    BY OutcomeType
  <2>2. SecretsWithout(n) \in SecretStore
    BY DEF TypeOK, SecretStore, SecretsWithout
  <2>3. /\ secrets' \in SecretStore /\ secretCache' \in SecretStore
        /\ secretWatch' \in Seq(SecretStore)
    BY <2>2, SecretWriteType DEF TypeOK, secretVars
  <2>4. todo' \subseteq todo
    OBVIOUS
  <2> QED
    BY <1>5, <2>1, <2>3, <2>4 DEF TypeOK, DeleteListedSecret, vmiVars, configMapVars
<1>6. CASE SecretsDone
  BY <1>6 DEF TypeOK, SecretsDone, PCs, vmiVars, secretVars, configMapVars
<1>7. CASE UpdateConfigMap
  <2>1. left' \in [Events -> Nat]
    BY <1>7, OutcomeType DEF UpdateConfigMap, TypeOK
  <2>2. [configMaps EXCEPT !.data = WantedDashboards, !.owner = configMapCache.owner]
          \in ConfigMapStore
    BY DEF TypeOK, ConfigMapStore, WantedDashboards, Dashboards
  <2>3. /\ configMaps' \in ConfigMapStore /\ configMapCache' \in ConfigMapStore
        /\ configMapWatch' \in Seq(ConfigMapStore)
    BY <1>7, <2>2, ConfigMapWriteType DEF UpdateConfigMap, TypeOK, configMapVars
  <2>4. pc' \in PCs
    BY <1>7 DEF UpdateConfigMap, PCs
  <2> QED
    BY <1>7, <2>1, <2>3, <2>4 DEF TypeOK, UpdateConfigMap, vmiVars, secretVars
<1>8. CASE ListConfigMaps
  <2>1. todo' \subseteq OtherConfigMaps
    BY <1>8 DEF TypeOK, ListConfigMaps, ConfigMapStore
  <2> QED
    BY <1>8, <2>1 DEF TypeOK, ListConfigMaps, PCs, vmiVars, secretVars, configMapVars
<1>9. CASE DeleteListedConfigMap
  <2> PICK n \in todo, applied \in BOOLEAN, failed \in BOOLEAN :
         /\ Outcome(applied, failed)
         /\ IF applied
              THEN ConfigMaps!Write([configMaps EXCEPT !.others = @ \ {n}])
              ELSE UNCHANGED configMapVars
         /\ IF failed \/ n \notin configMaps.others
              THEN todo' = {} ELSE todo' = todo \ {n}
    BY <1>9 DEF DeleteListedConfigMap
  <2>1. left' \in [Events -> Nat]
    BY OutcomeType
  <2>2. [configMaps EXCEPT !.others = @ \ {n}] \in ConfigMapStore
    BY DEF TypeOK, ConfigMapStore
  <2>3. /\ configMaps' \in ConfigMapStore /\ configMapCache' \in ConfigMapStore
        /\ configMapWatch' \in Seq(ConfigMapStore)
    BY <2>2, ConfigMapWriteType DEF TypeOK, configMapVars
  <2>4. todo' \subseteq todo
    OBVIOUS
  <2> QED
    BY <1>9, <2>1, <2>3, <2>4 DEF TypeOK, DeleteListedConfigMap, vmiVars, secretVars
<1>10. CASE ConfigMapsDone
  BY <1>10 DEF TypeOK, ConfigMapsDone, PCs, vmiVars, secretVars, configMapVars
<1>11. CASE Sleep
  BY <1>11 DEF TypeOK, Sleep, PCs, vmiVars, secretVars, configMapVars
<1> QED
  BY <1>1, <1>2, <1>3, <1>4, <1>5, <1>6, <1>7, <1>8, <1>9, <1>10, <1>11 DEF Loop

\* Watch deliveries, other writers and restarts keep the types.
LEMMA OthersType ==
    ASSUME TypeOK,
           DeliverVmi \/ DeliverSecrets \/ DeliverConfigMaps \/ Environment
    PROVE  TypeOK'
<1>1. CASE DeliverVmi
  BY <1>1, HeadTailType
  DEF TypeOK, DeliverVmi, Vmis!Deliver, secretVars, configMapVars
<1>2. CASE DeliverSecrets
  BY <1>2, HeadTailType
  DEF TypeOK, DeliverSecrets, Secrets!Deliver, vmiVars, configMapVars
<1>3. CASE DeliverConfigMaps
  BY <1>3, HeadTailType
  DEF TypeOK, DeliverConfigMaps, ConfigMaps!Deliver, vmiVars, secretVars
<1>4. CASE VmoAddsPvc
  <2>1. PICK p \in Pvcs :
          Vmis!Write([vmi EXCEPT !.rv = revision + 1, !.pvcs = @ \cup {p}])
    BY <1>4 DEF VmoAddsPvc
  <2>2. [vmi EXCEPT !.rv = revision + 1, !.pvcs = @ \cup {p}] \in Vmi
    BY EditedVmiType DEF TypeOK
  <2>3. vmi' \in Vmi /\ vmiCache' \in Vmi /\ vmiWatch' \in Seq(Vmi)
    BY <2>1, <2>2, VmiWriteType
  <2>4. left' \in [Events -> Nat]
    BY <1>4, SpendType DEF VmoAddsPvc, Events
  <2> QED
    BY <1>4, <2>3, <2>4 DEF TypeOK, VmoAddsPvc, secretVars, configMapVars
<1>5. CASE AdminChangesVmi
  <2>1. PICK new \in Vmi : Vmis!Write(new)
    <3>1. \A s \in Specs : [vmi EXCEPT !.rv = revision + 1, !.spec = s] \in Vmi
      BY EditedVmiType DEF TypeOK
    <3>2. NoVmi \in Vmi
      BY DEF NoVmi, Vmi
    <3> QED
      BY <1>5, <3>1, <3>2 DEF AdminChangesVmi
  <2>2. vmi' \in Vmi /\ vmiCache' \in Vmi /\ vmiWatch' \in Seq(Vmi)
    BY <2>1, VmiWriteType
  <2>3. left' \in [Events -> Nat]
    BY <1>5, SpendType DEF AdminChangesVmi, Events
  <2>4. /\ revision' = revision + 1
        /\ UNCHANGED <<secretVars, configMapVars, synced, config, pc, todo>>
    BY <1>5 DEF AdminChangesVmi
  <2> QED
    BY <2>2, <2>3, <2>4 DEF TypeOK, secretVars, configMapVars
<1>6. CASE DashboardsChange
  <2>1. PICK new \in ConfigMapStore : ConfigMaps!Write(new)
    <3>1. \A d \in Dashboards \cup {Absent} :
            [configMaps EXCEPT !.data = d, !.owner = IF d = Absent THEN FALSE ELSE @]
              \in ConfigMapStore
      BY DEF TypeOK, ConfigMapStore
    <3>2. [configMaps EXCEPT !.owner = TRUE] \in ConfigMapStore
      BY DEF TypeOK, ConfigMapStore
    <3> QED
      BY <1>6, <3>1, <3>2 DEF DashboardsChange
  <2>2. /\ configMaps' \in ConfigMapStore /\ configMapCache' \in ConfigMapStore
        /\ configMapWatch' \in Seq(ConfigMapStore)
    BY <2>1, ConfigMapWriteType
  <2>3. left' \in [Events -> Nat]
    BY <1>6, SpendType DEF DashboardsChange, Events
  <2> QED
    BY <1>6, <2>2, <2>3 DEF TypeOK, DashboardsChange, vmiVars, secretVars
<1>7. CASE AdminChangesSecret
  <2>1. PICK new \in SecretStore : Secrets!Write(new)
    <3>1. \A p \in Passwords \cup {Absent, Incomplete} :
            [secrets EXCEPT !.password = p] \in SecretStore
      BY DEF TypeOK, SecretStore
    <3> QED
      BY <1>7, <3>1 DEF AdminChangesSecret
  <2>2. /\ secrets' \in SecretStore /\ secretCache' \in SecretStore
        /\ secretWatch' \in Seq(SecretStore)
    BY <2>1, SecretWriteType
  <2>3. left' \in [Events -> Nat]
    BY <1>7, SpendType DEF AdminChangesSecret, Events
  <2> QED
    BY <1>7, <2>2, <2>3 DEF TypeOK, AdminChangesSecret, vmiVars, configMapVars
<1>8. CASE StrayObject
  <2>1. left' \in [Events -> Nat]
    BY <1>8, SpendType DEF StrayObject, Events
  <2>2. CASE /\ \E n \in OtherSecrets : Secrets!Write([secrets EXCEPT !.others =
                    IF n \in @ THEN @ \ {n} ELSE @ \cup {n}])
             /\ UNCHANGED configMapVars
    <3>1. \A n \in OtherSecrets :
            [secrets EXCEPT !.others = IF n \in @ THEN @ \ {n} ELSE @ \cup {n}]
              \in SecretStore
      BY DEF TypeOK, SecretStore
    <3>2. PICK new \in SecretStore : Secrets!Write(new)
      BY <2>2, <3>1
    <3>3. /\ secrets' \in SecretStore /\ secretCache' \in SecretStore
          /\ secretWatch' \in Seq(SecretStore)
      BY <3>2, SecretWriteType
    <3> QED
      BY <1>8, <2>1, <2>2, <3>3 DEF TypeOK, StrayObject, vmiVars, configMapVars
  <2>3. CASE /\ \E n \in OtherConfigMaps : ConfigMaps!Write([configMaps EXCEPT !.others =
                    IF n \in @ THEN @ \ {n} ELSE @ \cup {n}])
             /\ UNCHANGED secretVars
    <3>1. \A n \in OtherConfigMaps :
            [configMaps EXCEPT !.others = IF n \in @ THEN @ \ {n} ELSE @ \cup {n}]
              \in ConfigMapStore
      BY DEF TypeOK, ConfigMapStore
    <3>2. PICK new \in ConfigMapStore : ConfigMaps!Write(new)
      BY <2>3, <3>1
    <3>3. /\ configMaps' \in ConfigMapStore /\ configMapCache' \in ConfigMapStore
          /\ configMapWatch' \in Seq(ConfigMapStore)
      BY <3>2, ConfigMapWriteType
    <3> QED
      BY <1>8, <2>1, <2>3, <3>3 DEF TypeOK, StrayObject, vmiVars, secretVars
  <2> QED
    BY <1>8, <2>2, <2>3 DEF StrayObject
<1>9. CASE Restart
  <2>1. left' \in [Events -> Nat]
    BY <1>9, SpendType DEF Restart, Events
  <2>2. NoVmi \in Vmi /\ NoSecrets \in SecretStore /\ NoConfigMaps \in ConfigMapStore
    BY DEF NoVmi, Vmi, NoSecrets, SecretStore, NoConfigMaps, ConfigMapStore
  <2>3. /\ vmi' \in Vmi /\ vmiCache' \in Vmi /\ vmiWatch' \in Seq(Vmi)
        /\ revision' \in Nat
    BY <1>9, <2>2 DEF TypeOK, Restart, Vmis!Relist
  <2>4. /\ secrets' \in SecretStore /\ secretCache' \in SecretStore
        /\ secretWatch' \in Seq(SecretStore)
    BY <1>9, <2>2 DEF TypeOK, Restart, Secrets!Relist
  <2>5. /\ configMaps' \in ConfigMapStore /\ configMapCache' \in ConfigMapStore
        /\ configMapWatch' \in Seq(ConfigMapStore)
    BY <1>9, <2>2 DEF TypeOK, Restart, ConfigMaps!Relist
  <2> QED
    BY <1>9, <2>1, <2>3, <2>4, <2>5 DEF TypeOK, Restart, PCs
<1> QED
  BY <1>1, <1>2, <1>3, <1>4, <1>5, <1>6, <1>7, <1>8, <1>9 DEF Environment

\* Every variable of the loop, its caches and its surroundings keeps its type.
THEOREM TypeCorrect == Spec => []TypeOK
<1>1. Init => TypeOK
  BY ConstantsAssumption
  DEF Init, TypeOK, Vmi, NoVmi, SecretStore, NoSecrets, ConfigMapStore,
      NoConfigMaps, PCs
<1>2. TypeOK /\ [Next]_vars => TypeOK'
  <2> SUFFICES ASSUME TypeOK, [Next]_vars PROVE TypeOK'
    OBVIOUS
  <2>1. CASE UNCHANGED vars
    BY <2>1 DEF TypeOK, vars, vmiVars, secretVars, configMapVars
  <2> QED
    BY <2>1, LoopType, OthersType DEF Next
<1> QED
  BY <1>1, <1>2, PTL DEF Spec

-----------------------------------------------------------------------------
(* The PVC names.  The update is safe because a cached copy with the        *)
(* current resourceVersion is the current object (VersionsAgree).           *)

\* A copy of the VMI, in the cache or on its way there, never is ahead of the
\* store, and a copy with the store's resourceVersion is the stored object: what
\* makes the resourceVersion CreateUpdateVmi sends worth checking.
Agrees(s) ==
    /\ s.rv <= revision
    /\ s.rv = 0 => s = NoVmi
    /\ s.rv = vmi.rv => s = vmi

VersionsAgree ==
    /\ Agrees(vmi) /\ Agrees(vmiCache)
    /\ \A i \in 1..Len(vmiWatch) : Agrees(vmiWatch[i])
    /\ vmi # NoVmi => vmi.uid > 0

\* A write that takes a fresh resourceVersion, or deletes the object, keeps the
\* copies and the store in agreement.
LEMMA WriteAgrees ==
    ASSUME TypeOK, VersionsAgree, NEW new \in Vmi, Vmis!Write(new),
           \/ new = vmi /\ revision' = revision
           \/ /\ revision' = revision + 1
              /\ new = NoVmi \/ (new.rv = revision + 1 /\ new.uid > 0)
    PROVE  VersionsAgree'
<1>1. CASE new = vmi /\ revision' = revision
  BY <1>1 DEF Vmis!Write, VersionsAgree, Agrees
<1>2. CASE new # vmi /\ revision' = revision + 1
              /\ (new = NoVmi \/ (new.rv = revision + 1 /\ new.uid > 0))
  <2>1. vmi' = new /\ vmiCache' = vmiCache /\ vmiWatch' = Append(vmiWatch, new)
    BY <1>2 DEF Vmis!Write
  <2>2. new.rv \in Nat /\ revision \in Nat /\ NoVmi.rv = 0
    BY DEF TypeOK, Vmi, NoVmi
  <2>3. \A s \in Vmi : Agrees(s) => Agrees(s)'
    <3> SUFFICES ASSUME NEW s \in Vmi, Agrees(s) PROVE Agrees(s)'
      OBVIOUS
    <3>1. s.rv \in Nat
      BY DEF Vmi
    <3> QED
      BY <1>2, <2>1, <2>2, <3>1 DEF Agrees
  <2>4. Agrees(vmi)'
    BY <1>2, <2>1, <2>2 DEF Agrees
  <2>5. Agrees(vmiCache)'
    BY <2>1, <2>3 DEF TypeOK, VersionsAgree, Agrees
  <2>6. \A i \in 1..Len(vmiWatch') : Agrees(vmiWatch[i])'
    <3> TAKE i \in 1..Len(vmiWatch')
    <3>1. CASE i \in 1..Len(vmiWatch)
      <4>1. vmiWatch'[i] = vmiWatch[i] /\ vmiWatch[i] \in Vmi /\ Agrees(vmiWatch[i])
        BY <2>1, <3>1 DEF TypeOK, VersionsAgree
      <4> QED
        BY <4>1, <2>3 DEF Agrees
    <3>2. CASE i = Len(vmiWatch) + 1
      BY <2>1, <2>4, <3>2 DEF TypeOK, Agrees
    <3> QED
      BY <2>1, <3>1, <3>2 DEF TypeOK
  <2>7. (vmi # NoVmi => vmi.uid > 0)'
    BY <1>2, <2>1
  <2> QED
    BY <2>4, <2>5, <2>6, <2>7 DEF VersionsAgree
<1>3. CASE new = vmi /\ revision' = revision + 1
  <2>1. vmi' = vmi /\ vmiCache' = vmiCache /\ vmiWatch' = vmiWatch
    BY <1>3 DEF Vmis!Write
  <2>2. \A s \in Vmi : Agrees(s) => Agrees(s)'
    BY <1>3, <2>1 DEF Agrees, Vmi, TypeOK
  <2> QED
    BY <2>1, <2>2 DEF VersionsAgree, TypeOK, Agrees
<1> QED
  BY <1>1, <1>2, <1>3

\* What CreateUpdateVmi writes is either nothing new or a fresh version.
LEMMA VmiWantedFresh ==
    ASSUME TypeOK, VersionsAgree
    PROVE  VmiWanted = vmi \/ (VmiWanted.rv = revision + 1 /\ VmiWanted.uid > 0)
<1>1. \A claims : /\ Instance(claims).rv = revision + 1
                  /\ Instance(claims).uid = revision + 1
                  /\ \A u : /\ [Instance(claims) EXCEPT !.uid = u].uid = u
                            /\ [Instance(claims) EXCEPT !.uid = u].rv = revision + 1
  BY DEF Instance
<1>2. revision + 1 > 0
  BY DEF TypeOK
<1> QED
  BY <1>1, <1>2 DEF VmiWanted, VmiCreated, VmiUpdated, VersionsAgree

\* Every step keeps the copies and the store in agreement.
LEMMA VersionsAgreeStep ==
    ASSUME TypeOK, VersionsAgree, [Next]_vars
    PROVE  VersionsAgree'
<1>1. CASE CreateUpdateVmi
  <2>1. \/ /\ Vmis!Write(VmiWanted)
           /\ revision' = IF VmiWanted = vmi THEN revision ELSE revision + 1
        \/ UNCHANGED vmiVars
    BY <1>1 DEF CreateUpdateVmi
  <2>2. CASE UNCHANGED vmiVars
    BY <2>2 DEF VersionsAgree, Agrees, vmiVars
  <2> QED
    BY <2>1, <2>2, WriteAgrees, VmiWantedType, VmiWantedFresh
<1>2. CASE DeliverVmi
  <2>1. /\ vmiWatch # <<>> /\ vmiCache' = Head(vmiWatch) /\ vmiWatch' = Tail(vmiWatch)
        /\ vmi' = vmi /\ revision' = revision
    BY <1>2 DEF DeliverVmi, Vmis!Deliver
  <2>2. 1 \in 1..Len(vmiWatch) /\ vmiCache' = vmiWatch[1]
    BY <2>1 DEF TypeOK
  <2>3. \A i \in 1..Len(vmiWatch') :
          i + 1 \in 1..Len(vmiWatch) /\ vmiWatch'[i] = vmiWatch[i + 1]
    BY <2>1 DEF TypeOK
  <2> QED
    BY <2>1, <2>2, <2>3 DEF VersionsAgree, Agrees
<1>3. CASE VmoAddsPvc
  <2>1. PICK p \in Pvcs :
          Vmis!Write([vmi EXCEPT !.rv = revision + 1, !.pvcs = @ \cup {p}])
    BY <1>3 DEF VmoAddsPvc
  <2> DEFINE new == [vmi EXCEPT !.rv = revision + 1, !.pvcs = @ \cup {p}]
  <2>2. new \in Vmi
    BY EditedVmiType DEF TypeOK
  <2>3. new.rv = revision + 1 /\ new.uid = vmi.uid
    BY DEF TypeOK, Vmi
  <2>4. vmi.uid > 0 /\ revision' = revision + 1
    BY <1>3 DEF VmoAddsPvc, VersionsAgree
  <2> QED
    BY <2>1, <2>2, <2>3, <2>4, WriteAgrees
<1>4. CASE AdminChangesVmi
  <2>1. NoVmi \in Vmi
    BY DEF NoVmi, Vmi
  <2>2. \A s \in Specs : LET new == [vmi EXCEPT !.rv = revision + 1, !.spec = s]
                         IN  /\ new \in Vmi
                             /\ new.rv = revision + 1 /\ new.uid = vmi.uid
    <3> TAKE s \in Specs
    <3>1. [vmi EXCEPT !.rv = revision + 1, !.spec = s] \in Vmi
      BY EditedVmiType DEF TypeOK
    <3> QED
      BY <3>1 DEF TypeOK, Vmi
  <2>3. vmi.uid > 0 /\ revision' = revision + 1
    BY <1>4 DEF AdminChangesVmi, VersionsAgree
  <2>4. PICK new \in Vmi : /\ Vmis!Write(new)
                           /\ new = NoVmi \/ (new.rv = revision + 1 /\ new.uid = vmi.uid)
    BY <1>4, <2>1, <2>2 DEF AdminChangesVmi
  <2> QED
    BY <2>3, <2>4, WriteAgrees
<1>5. CASE Restart
  <2>1. /\ vmiCache' = NoVmi /\ vmiWatch' = <<vmi>> /\ vmi' = vmi
        /\ revision' = revision
    BY <1>5 DEF Restart, Vmis!Relist
  <2>2. NoVmi.rv = 0 /\ revision >= 0
    BY DEF NoVmi, TypeOK
  <2> QED
    BY <2>1, <2>2 DEF VersionsAgree, Agrees
<1>6. CASE UNCHANGED vmiVars
  BY <1>6 DEF VersionsAgree, Agrees, vmiVars
<1> QED
  BY <1>1, <1>2, <1>3, <1>4, <1>5, <1>6
  DEF Next, Loop, Environment, vars, Start, CreateVmiSecret, ListSecrets,
      DeleteListedSecret, SecretsDone, UpdateConfigMap, ListConfigMaps,
      DeleteListedConfigMap, ConfigMapsDone, Sleep, DeliverSecrets,
      DeliverConfigMaps, DashboardsChange, AdminChangesSecret, StrayObject

\* A copy with the stored resourceVersion is the stored VMI, in every state.
LEMMA CopiesAgree == Spec => []VersionsAgree
<1>1. Init => VersionsAgree
  BY DEF Init, VersionsAgree, Agrees, NoVmi
<1> QED
  BY <1>1, VersionsAgreeStep, TypeCorrect, PTL DEF Spec

\* PVC names are never lost: an accepted update carries the names of the very
\* version it replaces.
THEOREM PvcsSafe == Spec => PvcNamesKept
<1>1. ASSUME TypeOK, VersionsAgree, [Next]_vars, vmi'.uid = vmi.uid
      PROVE  vmi.pvcs \subseteq vmi'.pvcs
  <2>1. CASE CreateUpdateVmi
    <3>1. vmi' = VmiWanted \/ vmi' = vmi
      BY <2>1 DEF CreateUpdateVmi, Vmis!Write, vmiVars
    <3>2. CASE vmi = NoVmi
      BY <3>2 DEF NoVmi
    <3>3. vmi.rv = vmiCache.rv => vmiCache = vmi
      BY <1>1 DEF VersionsAgree, Agrees
    <3>4. \A claims, u : [Instance(claims) EXCEPT !.uid = u].pvcs = claims
      BY DEF Instance
    <3>5. CASE vmi # NoVmi
      <4>1. VmiWanted = vmi \/ (vmiCache = vmi /\ VmiWanted.pvcs = vmiCache.pvcs)
        BY <3>3, <3>4, <3>5 DEF VmiWanted, VmiCreated, VmiUpdated
      <4> QED
        BY <3>1, <4>1
    <3> QED
      BY <3>2, <3>5
  <2>2. CASE VmoAddsPvc
    BY <1>1, <2>2 DEF VmoAddsPvc, Vmis!Write, TypeOK, Vmi
  <2>3. CASE AdminChangesVmi
    <3>1. vmi.uid > 0 /\ NoVmi.uid = 0
      BY <1>1, <2>3 DEF AdminChangesVmi, VersionsAgree, NoVmi
    <3>2. vmi' # NoVmi
      BY <1>1, <3>1 DEF TypeOK, Vmi
    <3>3. PICK s \in Specs : vmi' = [vmi EXCEPT !.rv = revision + 1, !.spec = s]
      BY <2>3, <3>2 DEF AdminChangesVmi, Vmis!Write
    <3> QED
      BY <1>1, <3>3 DEF TypeOK, Vmi
  <2>4. CASE vmi' = vmi
    BY <2>4
  <2> QED
    BY <1>1, <2>1, <2>2, <2>3, <2>4
    DEF Next, Loop, Environment, vars, vmiVars, Start, CreateVmiSecret, ListSecrets,
        DeleteListedSecret, SecretsDone, UpdateConfigMap, ListConfigMaps,
        DeleteListedConfigMap, ConfigMapsDone, Sleep, DeliverVmi, Vmis!Deliver,
        DeliverSecrets, DeliverConfigMaps, DashboardsChange, AdminChangesSecret,
        StrayObject, Restart, Vmis!Relist
<1>2. TypeOK /\ VersionsAgree /\ [Next]_vars
        => [vmi'.uid = vmi.uid => vmi.pvcs \subseteq vmi'.pvcs]_vars
  BY <1>1
<1> QED
  BY <1>2, TypeCorrect, CopiesAgree, PTL DEF Spec, PvcNamesKept

-----------------------------------------------------------------------------
(* The password.  Without an administrator who leaves the secret without a  *)
(* key, the loop has no reason to rewrite it, whatever the age of its cache.*)

\* As long as nobody leaves the VMI secret without a key, no copy of it lacks
\* one, and the cleanup never has the VMI secret on its list.
SecretsComplete ==
    /\ left["secretBreak"] = 0
    /\ secrets.password # Incomplete /\ secretCache.password # Incomplete
    /\ \A i \in 1..Len(secretWatch) : secretWatch[i].password # Incomplete
    /\ pc = "secretCleanup" => VmiSecretName \notin todo

\* A budget only shrinks, and an event without budget does not happen.
LEMMA BreakBudget ==
    ASSUME TypeOK, left["secretBreak"] = 0, [Next]_vars
    PROVE  left'["secretBreak"] = 0
<1>1. \A e \in Events : Spend(e) => left'["secretBreak"] = 0
  BY DEF TypeOK, Spend, Events
<1>2. \A applied, failed \in BOOLEAN :
        Outcome(applied, failed) => left'["secretBreak"] = 0
  BY <1>1 DEF Outcome, Events
<1>3. CASE Loop
  BY <1>2, <1>3
  DEF Loop, Start, CreateUpdateVmi, CreateVmiSecret, ListSecrets,
      DeleteListedSecret, SecretsDone, UpdateConfigMap, ListConfigMaps,
      DeleteListedConfigMap, ConfigMapsDone, Sleep
<1>4. CASE Environment
  BY <1>1, <1>4
  DEF Environment, VmoAddsPvc, AdminChangesVmi, DashboardsChange,
      AdminChangesSecret, StrayObject, Restart, Events
<1> QED
  BY <1>3, <1>4 DEF Next, vars, DeliverVmi, DeliverSecrets, DeliverConfigMaps

\* Writing a complete (or no) VMI secret keeps every copy complete.
LEMMA WriteComplete ==
    ASSUME TypeOK, SecretsComplete, NEW new \in SecretStore,
           new.password # Incomplete, Secrets!Write(new)
    PROVE  /\ secrets'.password # Incomplete /\ secretCache'.password # Incomplete
           /\ \A i \in 1..Len(secretWatch') : secretWatch'[i].password # Incomplete
<1>1. CASE new = secrets
  BY <1>1 DEF Secrets!Write, SecretsComplete
<1>2. CASE new # secrets
  <2>1. /\ secrets' = new /\ secretCache' = secretCache
        /\ secretWatch' = Append(secretWatch, new)
    BY <1>2 DEF Secrets!Write
  <2>2. \A i \in 1..Len(secretWatch') :
          \/ i \in 1..Len(secretWatch) /\ secretWatch'[i] = secretWatch[i]
          \/ secretWatch'[i] = new
    BY <2>1 DEF TypeOK
  <2> QED
    BY <2>1, <2>2 DEF SecretsComplete
<1> QED
  BY <1>1, <1>2

\* Whoever writes the secrets writes complete ones, or none.
LEMMA SecretStoreStep ==
    ASSUME TypeOK, SecretsComplete, [Next]_vars
    PROVE  \/ UNCHANGED secretVars
           \/ \E new \in SecretStore : new.password # Incomplete /\ Secrets!Write(new)
           \/ DeliverSecrets \/ Restart
<1>1. \A p \in Passwords \cup {Absent} :
        /\ [secrets EXCEPT !.password = p] \in SecretStore
        /\ [secrets EXCEPT !.password = p].password # Incomplete
  BY ConstantsAssumption DEF TypeOK, SecretStore, Absent, Incomplete
<1>2. \A n \in OtherSecrets :
        LET new == [secrets EXCEPT !.others = IF n \in @ THEN @ \ {n} ELSE @ \cup {n}]
        IN  new \in SecretStore /\ new.password # Incomplete
  BY DEF TypeOK, SecretStore, SecretsComplete
<1>3. \A n : SecretsWithout(n) \in SecretStore /\ SecretsWithout(n).password # Incomplete
  BY <1>1 DEF SecretsWithout, TypeOK, SecretStore, SecretsComplete
<1>4. CASE CreateVmiSecret
  BY <1>1, <1>4 DEF CreateVmiSecret
<1>5. CASE DeleteListedSecret
  BY <1>3, <1>5 DEF DeleteListedSecret
<1>6. CASE AdminChangesSecret
  <2>1. ~Spend("secretBreak")
    BY DEF Spend, SecretsComplete
  <2> QED
    BY <1>1, <1>6, <2>1 DEF AdminChangesSecret
<1>7. CASE StrayObject
  BY <1>2, <1>7 DEF StrayObject
<1> QED
  BY <1>4, <1>5, <1>6, <1>7
  DEF Next, Loop, Environment, vars, Start, CreateUpdateVmi, ListSecrets,
      SecretsDone, UpdateConfigMap, ListConfigMaps, DeleteListedConfigMap,
      ConfigMapsDone, Sleep, DeliverVmi, DeliverConfigMaps, VmoAddsPvc,
      AdminChangesVmi, DashboardsChange

\* Every step keeps every copy of the secret complete and the cleanup's list
\* free of the VMI secret.
LEMMA SecretsCompleteStep ==
    ASSUME TypeOK, SecretsComplete, [Next]_vars
    PROVE  SecretsComplete'
<1>1. left'["secretBreak"] = 0
  BY BreakBudget DEF SecretsComplete
<1>2. /\ secrets'.password # Incomplete /\ secretCache'.password # Incomplete
      /\ \A i \in 1..Len(secretWatch') : secretWatch'[i].password # Incomplete
  <2>1. CASE UNCHANGED secretVars
    BY <2>1 DEF SecretsComplete, secretVars
  <2>2. CASE \E new \in SecretStore : new.password # Incomplete /\ Secrets!Write(new)
    BY <2>2, WriteComplete
  <2>3. CASE DeliverSecrets
    <3>1. /\ secretWatch # <<>> /\ secretCache' = Head(secretWatch)
          /\ secretWatch' = Tail(secretWatch) /\ secrets' = secrets
      BY <2>3 DEF DeliverSecrets, Secrets!Deliver
    <3>2. 1 \in 1..Len(secretWatch) /\ secretCache' = secretWatch[1]
      BY <3>1 DEF TypeOK
    <3>3. \A i \in 1..Len(secretWatch') :
            i + 1 \in 1..Len(secretWatch) /\ secretWatch'[i] = secretWatch[i + 1]
      BY <3>1 DEF TypeOK
    <3> QED
      BY <3>1, <3>2, <3>3 DEF SecretsComplete
  <2>4. CASE Restart
    <3>1. /\ secretCache' = NoSecrets /\ secretWatch' = <<secrets>>
          /\ secrets' = secrets
      BY <2>4 DEF Restart, Secrets!Relist
    <3>2. NoSecrets.password # Incomplete
      BY DEF NoSecrets, Absent, Incomplete
    <3> QED
      BY <3>1, <3>2 DEF SecretsComplete
  <2> QED
    BY <2>1, <2>2, <2>3, <2>4, SecretStoreStep
<1>3. (pc = "secretCleanup" => VmiSecretName \notin todo)'
  <2>1. CASE ListSecrets
    BY <2>1 DEF ListSecrets, SecretNames, VmiSecretName, VmiUsername
  <2>2. CASE DeleteListedSecret
    BY <2>2 DEF DeleteListedSecret, SecretsComplete
  <2>3. CASE Start \/ CreateUpdateVmi \/ CreateVmiSecret \/ SecretsDone \/ UpdateConfigMap
               \/ ListConfigMaps \/ DeleteListedConfigMap \/ ConfigMapsDone \/ Sleep
    BY <2>3 DEF Start, CreateUpdateVmi, CreateVmiSecret, SecretsDone, UpdateConfigMap,
                ListConfigMaps, DeleteListedConfigMap, ConfigMapsDone, Sleep
  <2>4. CASE Restart
    BY <2>4 DEF Restart
  <2>5. CASE UNCHANGED <<pc, todo>>
    BY <2>5 DEF SecretsComplete
  <2> QED
    BY <2>1, <2>2, <2>3, <2>4, <2>5
    DEF Next, Loop, Environment, vars, DeliverVmi, DeliverSecrets, DeliverConfigMaps,
        VmoAddsPvc, AdminChangesVmi, DashboardsChange, AdminChangesSecret, StrayObject
<1> QED
  BY <1>1, <1>2, <1>3 DEF SecretsComplete

\* If nobody leaves the VMI secret incomplete, no pass of the loop changes a
\* password that is there, on whatever cache it decides.
THEOREM PasswordSafe ==
    ASSUME EnvBudget["secretBreak"] = 0
    PROVE  Spec => PasswordKept
<1>1. Init => SecretsComplete
  BY DEF Init, SecretsComplete, NoSecrets, Absent, Incomplete
<1>2. ASSUME TypeOK, SecretsComplete, Loop
      PROVE  secrets.password \in {Absent, Incomplete, secrets'.password}
  <2>1. CASE CreateVmiSecret
    <3>1. VmiSecretRequest # "update"
      BY <1>2 DEF VmiSecretRequest, SecretsComplete
    <3>2. VmiSecretRequest \in {"create", "none"}
      BY <3>1 DEF VmiSecretRequest
    <3>3. VmiSecretRequest = "create" /\ VmiSecretAccepted => secrets.password = Absent
      BY DEF VmiSecretAccepted
    <3>4. \/ secrets' = secrets
          \/ VmiSecretRequest # "none" /\ VmiSecretAccepted
      BY <2>1 DEF CreateVmiSecret, secretVars
    <3> QED
      BY <3>2, <3>3, <3>4
  <2>2. CASE DeleteListedSecret
    <3>1. PICK n \in todo : secrets' = SecretsWithout(n) \/ secrets' = secrets
      BY <2>2 DEF DeleteListedSecret, Secrets!Write, secretVars
    <3>2. n # VmiSecretName
      BY <1>2, <2>2 DEF DeleteListedSecret, SecretsComplete
    <3>3. SecretsWithout(n).password = secrets.password
      BY <1>2, <3>2 DEF SecretsWithout, TypeOK, SecretStore
    <3> QED
      BY <3>1, <3>3
  <2>3. CASE UNCHANGED secretVars
    BY <2>3 DEF secretVars
  <2> QED
    BY <1>2, <2>1, <2>2, <2>3
    DEF Loop, Start, CreateUpdateVmi, ListSecrets, SecretsDone, UpdateConfigMap,
        ListConfigMaps, DeleteListedConfigMap, ConfigMapsDone, Sleep
<1>3. TypeOK /\ SecretsComplete
        => [Loop => secrets.password \in {Absent, Incomplete, secrets'.password}]_vars
  BY <1>2
<1> QED
  BY <1>1, <1>3, SecretsCompleteStep, TypeCorrect, PTL DEF Spec, PasswordKept

-----------------------------------------------------------------------------
(* The loop is a Reconciler of the VMI *)

Outside == left["pvc"] + left["vmiEdit"] + left["restart"]

\* Only what touches the VMI or the configuration counts as an outside event.
LEMMA SpendOutside ==
    ASSUME TypeOK, NEW e \in Events, Spend(e)
    PROVE  /\ Outside \in Nat /\ Outside' \in Nat
           /\ e \in {"pvc", "vmiEdit", "restart"} => Outside' < Outside
           /\ e \notin {"pvc", "vmiEdit", "restart"} => Outside' = Outside
<1>1. /\ left \in [Events -> Nat] /\ left[e] > 0 /\ left' = [left EXCEPT ![e] = left[e] - 1]
      /\ {"pvc", "vmiEdit", "restart"} \subseteq Events
  BY DEF TypeOK, Spend, Events
<1> QED
  BY <1>1 DEF Outside

\* A stored VMI has a spec.
SpecGiven == vmi # NoVmi => vmi.spec \in Specs

\* What CreateUpdateVmi writes is what is stored, or the wanted content with the
\* stored PVC names in place of another.
LEMMA OnlyRepairs ==
    ASSUME TypeOK, VersionsAgree, SpecGiven, VmiWanted # vmi
    PROVE  /\ config.uri /\ VmiWanted.spec = config.spec /\ config.spec \in Specs
           /\ vmi.spec # config.spec /\ VmiWanted.pvcs = vmi.pvcs
<1>1. config.uri /\ config.spec \in Specs
  BY ConstantsAssumption DEF VmiWanted, TypeOK, Config
<1>2. CASE vmi = NoVmi
  <2>1. VmiWanted = Instance({})
    BY <1>2 DEF VmiWanted, VmiCreated, VmiUpdated
  <2>2. vmi.spec = NoSpec /\ vmi.pvcs = {}
    BY <1>2 DEF NoVmi
  <2>3. Instance({}).spec = config.spec /\ Instance({}).pvcs = {}
    BY DEF Instance
  <2> QED
    BY <1>1, <2>1, <2>2, <2>3, ConstantsAssumption
<1>3. CASE vmi # NoVmi
  <2>1. /\ vmi.rv = vmiCache.rv /\ vmiCache.spec # config.spec
        /\ VmiWanted = [Instance(vmiCache.pvcs) EXCEPT !.uid = vmi.uid]
    BY <1>3 DEF VmiWanted, VmiCreated, VmiUpdated
  <2>2. vmiCache = vmi
    BY <2>1 DEF VersionsAgree, Agrees
  <2>3. VmiWanted.spec = config.spec /\ VmiWanted.pvcs = vmiCache.pvcs
    BY <2>1 DEF Instance
  <2> QED
    BY <1>1, <2>1, <2>2, <2>3
<1> QED
  BY <1>2, <1>3

\* Every step is a Repair, an outside event, or leaves the VMI, what is wanted
\* and the outside events alone.
LEMMA ReconcilerStep ==
    ASSUME TypeOK, TypeOK', VersionsAgree, SpecGiven, [Next]_vars
    PROVE  SpecGiven' /\ [Reconciled!Next]_(Reconciled!vars)
<1> DEFINE Wanted == IF config.uri THEN config.spec ELSE NoSpec
           Same == vmi' = vmi /\ config' = config /\ Outside' = Outside
<1>1. ASSUME Same PROVE SpecGiven' /\ UNCHANGED Reconciled!vars
  BY <1>1 DEF SpecGiven, Reconciled!vars, Outside
<1>2. \A applied, failed \in BOOLEAN : Outcome(applied, failed) => Outside' = Outside
  <2>1. UNCHANGED left => Outside' = Outside
    BY DEF Outside
  <2> QED
    BY <2>1, SpendOutside DEF Outcome, Events
<1>3. CASE CreateUpdateVmi
  <2>1. /\ vmi' = VmiWanted \/ vmi' = vmi
        /\ config' = config /\ Outside' = Outside
    BY <1>2, <1>3 DEF CreateUpdateVmi, Vmis!Write, vmiVars
  <2>2. CASE vmi' = vmi
    BY <1>1, <2>1, <2>2
  <2>3. CASE vmi' # vmi
    <3>1. /\ config.uri /\ vmi'.spec = config.spec /\ config.spec \in Specs
          /\ vmi.spec # config.spec /\ vmi'.pvcs = vmi.pvcs
      BY <2>1, <2>3, OnlyRepairs
    <3>2. config.spec # NoSpec
      BY <3>1, ConstantsAssumption
    <3> QED
      BY <2>1, <3>1, <3>2 DEF SpecGiven, Reconciled!Next, Reconciled!Repair, Outside
  <2> QED
    BY <2>2, <2>3
<1>4. CASE VmoAddsPvc
  <2>1. /\ vmi # NoVmi /\ config' = config /\ Spend("pvc") /\ "pvc" \in Events
    BY <1>4 DEF VmoAddsPvc, Events
  <2>2. Outside' < Outside
    BY <2>1, SpendOutside
  <2>3. PICK p \in Pvcs : vmi' = [vmi EXCEPT !.rv = revision + 1, !.pvcs = @ \cup {p}]
    BY <1>4 DEF VmoAddsPvc, Vmis!Write
  <2>4. vmi'.spec = vmi.spec /\ vmi'.pvcs = vmi.pvcs \cup {p} /\ vmi.pvcs \subseteq Pvcs
    BY <2>3 DEF TypeOK, Vmi
  <2>5. vmi.spec \in Specs /\ vmi.spec # NoSpec
    BY <2>1, ConstantsAssumption DEF SpecGiven
  <2> QED
    BY <2>1, <2>2, <2>4, <2>5 DEF SpecGiven, Reconciled!Next, Reconciled!Disturb, Outside
<1>5. CASE AdminChangesVmi
  <2>1. /\ vmi # NoVmi /\ config' = config /\ Spend("vmiEdit") /\ "vmiEdit" \in Events
    BY <1>5 DEF AdminChangesVmi, Events
  <2>2. Outside' < Outside
    BY <2>1, SpendOutside
  <2>3. vmi.spec \in Specs /\ vmi.spec # NoSpec
    BY <2>1, ConstantsAssumption DEF SpecGiven
  <2>4. CASE vmi' = NoVmi
    <3>1. vmi'.spec = NoSpec /\ vmi'.pvcs = {}
      BY <2>4 DEF NoVmi
    <3> QED
      BY <2>1, <2>2, <2>3, <2>4, <3>1
      DEF SpecGiven, Reconciled!Next, Reconciled!Disturb, Outside, NoVmi
  <2>5. CASE vmi' # NoVmi
    <3>1. PICK s \in Specs : vmi' = [vmi EXCEPT !.rv = revision + 1, !.spec = s]
      BY <1>5, <2>5 DEF AdminChangesVmi, Vmis!Write
    <3>2. vmi'.spec = s /\ vmi'.pvcs = vmi.pvcs
      BY <3>1 DEF TypeOK, Vmi
    <3> QED
      BY <2>1, <2>2, <2>3, <3>1, <3>2 DEF SpecGiven, Reconciled!Next, Reconciled!Disturb, Outside
  <2> QED
    BY <2>4, <2>5
<1>6. CASE Restart
  <2>1. vmi' = vmi /\ config' \in Configs /\ Spend("restart") /\ "restart" \in Events
    BY <1>6 DEF Restart, Vmis!Relist, Events
  <2>2. Outside' < Outside
    BY <2>1, SpendOutside
  <2>3. Wanted' \in Specs \cup {NoSpec}
    BY <2>1, ConstantsAssumption DEF Config
  <2> QED
    BY <2>1, <2>2, <2>3 DEF SpecGiven, Reconciled!Next, Reconciled!Reconfigure, Outside
<1>7. CASE DashboardsChange \/ AdminChangesSecret \/ StrayObject
  <2>1. vmi' = vmi /\ config' = config
    BY <1>7 DEF DashboardsChange, AdminChangesSecret, StrayObject, vmiVars
  <2>2. PICK e \in {"dashboards", "owner", "secretEdit", "secretBreak", "stray"} : Spend(e)
    BY <1>7 DEF DashboardsChange, AdminChangesSecret, StrayObject
  <2>3. Outside' = Outside
    BY <2>2, SpendOutside DEF Events
  <2> QED
    BY <1>1, <2>1, <2>3
<1>8. CASE \/ CreateVmiSecret \/ DeleteListedSecret \/ UpdateConfigMap \/ DeleteListedConfigMap
  <2>1. vmi' = vmi /\ config' = config
    BY <1>8 DEF CreateVmiSecret, DeleteListedSecret, UpdateConfigMap,
                DeleteListedConfigMap, vmiVars
  <2>2. Outside' = Outside
    <3>1. left' = left => Outside' = Outside
      BY DEF Outside
    <3> QED
      BY <1>2, <1>8, <3>1 DEF CreateVmiSecret, DeleteListedSecret, UpdateConfigMap,
                              DeleteListedConfigMap
  <2> QED
    BY <1>1, <2>1, <2>2
<1>9. CASE \/ Start \/ ListSecrets \/ SecretsDone \/ ListConfigMaps \/ ConfigMapsDone
           \/ Sleep \/ DeliverVmi \/ DeliverSecrets \/ DeliverConfigMaps \/ UNCHANGED vars
  <2>1. vmi' = vmi /\ config' = config /\ left' = left
    BY <1>9 DEF Start, ListSecrets, SecretsDone, ListConfigMaps, ConfigMapsDone, Sleep,
                DeliverVmi, Vmis!Deliver, DeliverSecrets, DeliverConfigMaps, vars, vmiVars
  <2> QED
    BY <1>1, <2>1 DEF Outside
<1> QED
  BY <1>3, <1>4, <1>5, <1>6, <1>7, <1>8, <1>9 DEF Next, Loop, Environment

\* The safety part of the refinement: the stored VMI is created and changed as
\* Reconciler allows, whatever the caches, errors and lost answers of the loop.
THEOREM RefinesReconciler == Spec => Reconciled!Safety
<1>1. Init => SpecGiven /\ Reconciled!Init
  <2> SUFFICES ASSUME Init PROVE SpecGiven /\ Reconciled!Init
    OBVIOUS
  <2>1. vmi = NoVmi /\ config \in Configs /\ left = EnvBudget
    BY DEF Init
  <2>2. vmi.spec = NoSpec /\ vmi.pvcs = {}
    BY <2>1 DEF NoVmi
  <2>3. left["pvc"] + left["vmiEdit"] + left["restart"] \in Nat
    BY <2>1, ConstantsAssumption DEF Events
  <2>4. config.spec \in Specs
    BY <2>1, ConstantsAssumption DEF Config
  <2> QED
    BY <2>1, <2>2, <2>3, <2>4 DEF SpecGiven, Reconciled!Init
<1>2. TypeOK /\ TypeOK' /\ VersionsAgree /\ SpecGiven /\ [Next]_vars
        => SpecGiven' /\ [Reconciled!Next]_(Reconciled!vars)
  BY ReconcilerStep
<1> QED
  BY <1>1, <1>2, TypeCorrect, CopiesAgree, PTL DEF Spec, Reconciled!Safety
=============================================================================
