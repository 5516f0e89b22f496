-------------------- MODULE GlobalEntitiesSettled_proofs --------------------
(***************************************************************************)
(* Proofs about where the loop of GlobalEntities comes to rest: with       *)
(* current caches it writes nothing exactly when everything is as wanted,  *)
(* and with any caches it neither spoils what is as wanted nor deletes an  *)
(* object of its own.                                                      *)
(***************************************************************************)
EXTENDS GlobalEntities_proofs

-----------------------------------------------------------------------------
(* Caches follow their stores *)

\* The last event under way to each cache is the stored object, and a cache no
\* event is under way to shows it: what the loop decides by gets current.
CachesFollow == Vmis!Follows /\ Secrets!Follows /\ ConfigMaps!Follows

\* Follows (see Informer), of any store, cache and watch.
Following(store, cache, watch) ==
    IF watch = <<>> THEN cache = store ELSE watch[Len(watch)] = store

\* The last element of what an informer's watch may become.
LEMMA LastEvent ==
    ASSUME NEW S, NEW w \in Seq(S), NEW s \in S
    PROVE  /\ Append(w, s) # <<>> /\ Append(w, s)[Len(Append(w, s))] = s
           /\ <<s>> # <<>> /\ <<s>>[Len(<<s>>)] = s
           /\ w # <<>> => IF Tail(w) = <<>> THEN Head(w) = w[Len(w)]
                          ELSE Tail(w)[Len(Tail(w))] = w[Len(w)]
<1>1. Append(w, s) # <<>> /\ Append(w, s)[Len(Append(w, s))] = s
  OBVIOUS
<1>2. <<s>> # <<>> /\ <<s>>[Len(<<s>>)] = s
  OBVIOUS
<1>3. ASSUME w # <<>>, Tail(w) = <<>> PROVE Head(w) = w[Len(w)]
  <2>1. Len(Tail(w)) = Len(w) - 1 /\ Len(w) \in Nat
    BY <1>3
  <2>2. Len(Tail(w)) = 0
    <3>1. Len(<<>>) = 0
      OBVIOUS
    <3> QED
      BY <1>3, <3>1, Zenon
  <2>3. Len(w) = 1
    BY <2>1, <2>2
  <2> QED
    BY <1>3, <2>3
<1>4. ASSUME w # <<>>, Tail(w) # <<>> PROVE Tail(w)[Len(Tail(w))] = w[Len(w)]
  <2>1. Tail(w) \in Seq(S) /\ Len(Tail(w)) = Len(w) - 1 /\ Len(Tail(w)) > 0
    BY <1>4
  <2> QED
    BY <1>4, <2>1
<1> QED
  BY <1>1, <1>2, <1>3, <1>4

\* A write, a delivery and a new list keep the cache following the store.
LEMMA FollowingStep ==
    ASSUME NEW S, NEW store \in S, NEW cache \in S, NEW watch \in Seq(S),
           NEW store1 \in S, NEW cache1 \in S, NEW watch1 \in Seq(S),
           Following(store, cache, watch),
           \/ store1 = store /\ cache1 = cache /\ watch1 = watch
           \/ /\ watch1 = IF store1 = store THEN watch ELSE Append(watch, store1)
              /\ cache1 = cache
           \/ watch # <<>> /\ cache1 = Head(watch) /\ watch1 = Tail(watch) /\ store1 = store
           \/ watch1 = <<store>> /\ store1 = store
    PROVE  Following(store1, cache1, watch1)
<1>1. CASE store1 = store /\ cache1 = cache /\ watch1 = watch
  BY <1>1 DEF Following
<1>2. CASE store1 # store /\ watch1 = Append(watch, store1)
  BY <1>2, LastEvent DEF Following
<1>3. CASE watch # <<>> /\ cache1 = Head(watch) /\ watch1 = Tail(watch) /\ store1 = store
  BY <1>3, LastEvent DEF Following
<1>4. CASE watch1 = <<store>> /\ store1 = store
  BY <1>4, LastEvent DEF Following
<1> QED
  BY <1>1, <1>2, <1>3, <1>4

\* What a step does to the VMI, its cache and its watch.
LEMMA VmiStep ==
    ASSUME [Next]_vars
    PROVE  \/ UNCHANGED <<vmi, vmiCache, vmiWatch>>
           \/ \E new : Vmis!Write(new)
           \/ Vmis!Deliver \/ Vmis!Relist(NoVmi)
BY DEF Next, Loop, Environment, vars, vmiVars, Start, CreateUpdateVmi, CreateVmiSecret,
       ListSecrets, DeleteListedSecret, SecretsDone, UpdateConfigMap, ListConfigMaps,
       DeleteListedConfigMap, ConfigMapsDone, Sleep, DeliverVmi, DeliverSecrets,
       DeliverConfigMaps, VmoAddsPvc, AdminChangesVmi, DashboardsChange,
       AdminChangesSecret, StrayObject, Restart

\* What a step does to the secrets, their cache and their watch.
LEMMA SecretsStep ==
    ASSUME [Next]_vars
    PROVE  \/ UNCHANGED secretVars
           \/ \E new : Secrets!Write(new)
           \/ Secrets!Deliver \/ Secrets!Relist(NoSecrets)
BY DEF Next, Loop, Environment, vars, Start, CreateUpdateVmi, CreateVmiSecret,
       ListSecrets, DeleteListedSecret, SecretsDone, UpdateConfigMap, ListConfigMaps,
       DeleteListedConfigMap, ConfigMapsDone, Sleep, DeliverVmi, DeliverSecrets,
       DeliverConfigMaps, VmoAddsPvc, AdminChangesVmi, DashboardsChange,
       AdminChangesSecret, StrayObject, Restart

\* What a step does to the ConfigMaps, their cache and their watch.
LEMMA ConfigMapsStep ==
    ASSUME [Next]_vars
    PROVE  \/ UNCHANGED configMapVars
           \/ \E new : ConfigMaps!Write(new)
           \/ ConfigMaps!Deliver \/ ConfigMaps!Relist(NoConfigMaps)
BY DEF Next, Loop, Environment, vars, Start, CreateUpdateVmi, CreateVmiSecret,
       ListSecrets, DeleteListedSecret, SecretsDone, UpdateConfigMap, ListConfigMaps,
       DeleteListedConfigMap, ConfigMapsDone, Sleep, DeliverVmi, DeliverSecrets,
       DeliverConfigMaps, VmoAddsPvc, AdminChangesVmi, DashboardsChange,
       AdminChangesSecret, StrayObject, Restart

\* Every cache of the loop follows its store: with nothing under way it is
\* current.
LEMMA CachesCurrent == Spec => []CachesFollow
<1>1. Init => CachesFollow
  <2>1. \A s : <<s>> # <<>> /\ <<s>>[Len(<<s>>)] = s
    OBVIOUS
  <2> QED
    BY <2>1 DEF Init, CachesFollow, Vmis!Follows, Secrets!Follows, ConfigMaps!Follows
<1>2. TypeOK /\ TypeOK' /\ CachesFollow /\ [Next]_vars => CachesFollow'
  <2> SUFFICES ASSUME TypeOK, TypeOK', CachesFollow, [Next]_vars PROVE CachesFollow'
    OBVIOUS
  <2>1. Vmis!Follows'
    <3>1. /\ vmi \in Vmi /\ vmiCache \in Vmi /\ vmiWatch \in Seq(Vmi)
          /\ vmi' \in Vmi /\ vmiCache' \in Vmi /\ vmiWatch' \in Seq(Vmi)
      BY DEF TypeOK
    <3>2. Following(vmi, vmiCache, vmiWatch)
      BY DEF CachesFollow, Vmis!Follows, Following
    <3>3. \/ vmi' = vmi /\ vmiCache' = vmiCache /\ vmiWatch' = vmiWatch
          \/ /\ vmiWatch' = IF vmi' = vmi THEN vmiWatch ELSE Append(vmiWatch, vmi')
             /\ vmiCache' = vmiCache
          \/ /\ vmiWatch # <<>> /\ vmiCache' = Head(vmiWatch)
             /\ vmiWatch' = Tail(vmiWatch) /\ vmi' = vmi
          \/ vmiWatch' = <<vmi>> /\ vmi' = vmi
      BY VmiStep DEF Vmis!Write, Vmis!Deliver, Vmis!Relist
    <3>4. Following(vmi', vmiCache', vmiWatch')
      BY <3>1, <3>2, <3>3, FollowingStep
    <3> QED
      BY <3>4 DEF Vmis!Follows, Following
  <2>2. Secrets!Follows'
    <3>1. /\ secrets \in SecretStore /\ secretCache \in SecretStore
          /\ secretWatch \in Seq(SecretStore)
          /\ secrets' \in SecretStore /\ secretCache' \in SecretStore
          /\ secretWatch' \in Seq(SecretStore)
      BY DEF TypeOK
    <3>2. Following(secrets, secretCache, secretWatch)
      BY DEF CachesFollow, Secrets!Follows, Following
    <3>3. \/ secrets' = secrets /\ secretCache' = secretCache /\ secretWatch' = secretWatch
          \/ /\ secretWatch' = IF secrets' = secrets THEN secretWatch
                               ELSE Append(secretWatch, secrets')
             /\ secretCache' = secretCache
          \/ /\ secretWatch # <<>> /\ secretCache' = Head(secretWatch)
             /\ secretWatch' = Tail(secretWatch) /\ secrets' = secrets
          \/ secretWatch' = <<secrets>> /\ secrets' = secrets
      BY SecretsStep DEF Secrets!Write, Secrets!Deliver, Secrets!Relist, secretVars
    <3>4. Following(secrets', secretCache', secretWatch')
      BY <3>1, <3>2, <3>3, FollowingStep
    <3> QED
      BY <3>4 DEF Secrets!Follows, Following
  <2>3. ConfigMaps!Follows'
    <3>1. /\ configMaps \in ConfigMapStore /\ configMapCache \in ConfigMapStore
          /\ configMapWatch \in Seq(ConfigMapStore)
          /\ configMaps' \in ConfigMapStore /\ configMapCache' \in ConfigMapStore
          /\ configMapWatch' \in Seq(ConfigMapStore)
      BY DEF TypeOK
    <3>2. Following(configMaps, configMapCache, configMapWatch)
      BY DEF CachesFollow, ConfigMaps!Follows, Following
    <3>3. \/ /\ configMaps' = configMaps /\ configMapCache' = configMapCache
             /\ configMapWatch' = configMapWatch
          \/ /\ configMapWatch' = IF configMaps' = configMaps THEN configMapWatch
                                  ELSE Append(configMapWatch, configMaps')
             /\ configMapCache' = configMapCache
          \/ /\ configMapWatch # <<>> /\ configMapCache' = Head(configMapWatch)
             /\ configMapWatch' = Tail(configMapWatch) /\ configMaps' = configMaps
          \/ configMapWatch' = <<configMaps>> /\ configMaps' = configMaps
      BY ConfigMapsStep
      DEF ConfigMaps!Write, ConfigMaps!Deliver, ConfigMaps!Relist, configMapVars
    <3>4. Following(configMaps', configMapCache', configMapWatch')
      BY <3>1, <3>2, <3>3, FollowingStep
    <3> QED
      BY <3>4 DEF ConfigMaps!Follows, Following
  <2> QED
    BY <2>1, <2>2, <2>3 DEF CachesFollow
<1> QED
  BY <1>1, <1>2, TypeCorrect, PTL DEF Spec

-----------------------------------------------------------------------------
(* No wrong resting point, and no needless write *)

\* On a current cache, CreateUpdateVmi writes nothing if and only if the VMI is
\* as wanted.
LEMMA VmiQuiet ==
    ASSUME TypeOK, vmiCache = vmi
    PROVE  VmiWanted = vmi <=> VmiSettled
<1>1. CASE ~config.uri
  BY <1>1 DEF VmiWanted, VmiSettled
<1>2. CASE config.uri /\ vmi = NoVmi
  <2>1. VmiWanted = Instance({})
    BY <1>2 DEF VmiWanted, VmiCreated
  <2>2. Instance({}).rv = revision + 1 /\ vmi.rv = 0
    BY <1>2 DEF Instance, NoVmi
  <2>3. revision + 1 # 0
    BY DEF TypeOK
  <2>4. VmiWanted # vmi
    BY <2>1, <2>2, <2>3
  <2> QED
    BY <1>2, <2>4 DEF VmiSettled
<1>3. CASE config.uri /\ vmi # NoVmi /\ vmi.spec = config.spec
  BY <1>3 DEF VmiWanted, VmiSettled
<1>4. CASE config.uri /\ vmi # NoVmi /\ vmi.spec # config.spec
  <2>1. VmiWanted = [Instance(vmiCache.pvcs) EXCEPT !.uid = vmi.uid]
    BY <1>4 DEF VmiWanted, VmiUpdated
  <2>2. VmiWanted.spec = config.spec
    BY <2>1 DEF Instance
  <2> QED
    BY <1>4, <2>2 DEF VmiSettled
<1> QED
  BY <1>1, <1>2, <1>3, <1>4

\* On a current cache, CreateVmiSecrets writes nothing and lists nothing if and
\* only if the secrets are as wanted.
LEMMA SecretsQuiet ==
    ASSUME TypeOK, secretCache = secrets
    PROVE  VmiSecretRequest = "none" /\ LabelledSecrets(secretCache) \subseteq SecretNames
             <=> SecretsSettled
<1>1. secrets.password \in Passwords \cup {Absent, Incomplete}
  BY DEF TypeOK, SecretStore
<1>2. secrets.password \in Passwords <=> secrets.password \notin {Absent, Incomplete}
  BY <1>1, ConstantsAssumption
<1>3. VmiSecretRequest = "none" <=> secrets.password \notin {Absent, Incomplete}
  BY DEF VmiSecretRequest
<1>4. LabelledSecrets(secretCache) \subseteq SecretNames <=> secrets.others \subseteq SecretNames
  BY DEF LabelledSecrets, SecretNames, VmiSecretName, VmiUsername
<1> QED
  BY <1>2, <1>3, <1>4 DEF SecretsSettled

\* On a current cache, UpdateConfigMaps writes nothing and lists nothing if and
\* only if the ConfigMaps are as wanted.
LEMMA ConfigMapsQuiet ==
    ASSUME configMapCache = configMaps
    PROVE  ~ConfigMapStale /\ configMapCache.others = {} <=> ConfigMapsSettled
BY DEF ConfigMapStale, ConfigMapsSettled

\* Once the caches have caught up, a pass of the loop writes nothing if and only
\* if the VMI, the secrets and the ConfigMaps are as the configuration wants.
THEOREM RestsOnlySettled == Spec => []QuietIsSettled
<1>1. TypeOK /\ CachesFollow => QuietIsSettled
  <2> SUFFICES ASSUME TypeOK, CachesFollow,
                      vmiWatch = <<>>, secretWatch = <<>>, configMapWatch = <<>>
               PROVE  Quiet <=> Settled
    BY DEF QuietIsSettled
  <2>1. vmiCache = vmi /\ secretCache = secrets /\ configMapCache = configMaps
    BY DEF CachesFollow, Vmis!Follows, Secrets!Follows, ConfigMaps!Follows
  <2> QED
    BY <2>1, VmiQuiet, SecretsQuiet, ConfigMapsQuiet DEF Quiet, Settled
<1> QED
  BY <1>1, TypeCorrect, CachesCurrent, PTL

-----------------------------------------------------------------------------
(* What the loop never undoes *)

\* The names the cleanup of secrets has yet to delete are not the loop's own.
CleanupList == pc = "secretCleanup" => todo \cap SecretNames = {}

\* Every step keeps the cleanup's list free of the loop's own secrets.
LEMMA CleanupListStep ==
    ASSUME CleanupList, [Next]_vars
    PROVE  CleanupList'
<1>1. CASE ListSecrets
  BY <1>1 DEF ListSecrets, CleanupList
<1>2. CASE DeleteListedSecret
  BY <1>2 DEF DeleteListedSecret, CleanupList
<1>3. CASE Start \/ CreateUpdateVmi \/ CreateVmiSecret \/ SecretsDone \/ UpdateConfigMap
             \/ ListConfigMaps \/ DeleteListedConfigMap \/ ConfigMapsDone \/ Sleep
  BY <1>3 DEF Start, CreateUpdateVmi, CreateVmiSecret, SecretsDone, UpdateConfigMap,
              ListConfigMaps, DeleteListedConfigMap, ConfigMapsDone, Sleep, CleanupList
<1>4. CASE Restart
  BY <1>4 DEF Restart, CleanupList
<1>5. CASE UNCHANGED <<pc, todo>>
  BY <1>5 DEF CleanupList
<1> QED
  BY <1>1, <1>2, <1>3, <1>4, <1>5
  DEF Next, Loop, Environment, vars, DeliverVmi, DeliverSecrets, DeliverConfigMaps,
      VmoAddsPvc, AdminChangesVmi, DashboardsChange, AdminChangesSecret, StrayObject

\* What the loop may do to the secrets: set the password of the VMI secret, or
\* delete a secret that is not its own.
LEMMA LoopSecrets ==
    ASSUME TypeOK, CleanupList, Loop
    PROVE  /\ secrets'.password = secrets.password \/ secrets'.password \in Passwords
           /\ secrets'.others \subseteq secrets.others
           /\ secrets.others \cap SecretNames \subseteq secrets'.others
<1>1. CASE CreateVmiSecret
  <2>1. PICK password \in Passwords :
          secrets' = secrets \/ secrets' = [secrets EXCEPT !.password = password]
    BY <1>1 DEF CreateVmiSecret, Secrets!Write, secretVars
  <2>2. /\ [secrets EXCEPT !.password = password].password = password
        /\ [secrets EXCEPT !.password = password].others = secrets.others
    BY DEF TypeOK, SecretStore
  <2> QED
    BY <2>1, <2>2
<1>2. CASE DeleteListedSecret
  <2>1. PICK n \in todo : secrets' = SecretsWithout(n) \/ secrets' = secrets
    BY <1>2 DEF DeleteListedSecret, Secrets!Write, secretVars
  <2>2. n \notin SecretNames
    BY <1>2 DEF DeleteListedSecret, CleanupList
  <2>3. SecretsWithout(n) = [secrets EXCEPT !.others = @ \ {n}]
    BY <2>2 DEF SecretsWithout, SecretNames, VmiSecretName, VmiUsername
  <2>4. /\ SecretsWithout(n).password = secrets.password
        /\ SecretsWithout(n).others = secrets.others \ {n}
    BY <2>3 DEF TypeOK, SecretStore
  <2> QED
    BY <2>1, <2>2, <2>4
<1>3. CASE UNCHANGED secrets
  BY <1>3
<1> QED
  BY <1>1, <1>2, <1>3
  DEF Loop, Start, CreateUpdateVmi, ListSecrets, SecretsDone, UpdateConfigMap,
      ListConfigMaps, DeleteListedConfigMap, ConfigMapsDone, Sleep, secretVars

\* What the loop may do to the ConfigMaps: give the dashboards the wanted
\* content, or delete another one.
LEMMA LoopConfigMaps ==
    ASSUME TypeOK, Loop
    PROVE  /\ \/ configMaps'.data = configMaps.data
              \/ configMaps.data # Absent /\ configMaps'.data = WantedDashboards
           /\ configMaps'.others \subseteq configMaps.others
<1>1. CASE UpdateConfigMap
  <2>1. \/ configMaps' = configMaps
        \/ /\ configMaps.data # Absent
           /\ configMaps' = [configMaps EXCEPT
                !.data = WantedDashboards, !.owner = configMapCache.owner]
    BY <1>1 DEF UpdateConfigMap, ConfigMaps!Write, configMapVars
  <2>2. LET new == [configMaps EXCEPT
                      !.data = WantedDashboards, !.owner = configMapCache.owner]
        IN  new.data = WantedDashboards /\ new.others = configMaps.others
    BY DEF TypeOK, ConfigMapStore
  <2> QED
    BY <2>1, <2>2
<1>2. CASE DeleteListedConfigMap
  <2>1. PICK n \in todo :
          configMaps' = configMaps \/ configMaps' = [configMaps EXCEPT !.others = @ \ {n}]
    BY <1>2 DEF DeleteListedConfigMap, ConfigMaps!Write, configMapVars
  <2>2. /\ [configMaps EXCEPT !.others = @ \ {n}].data = configMaps.data
        /\ [configMaps EXCEPT !.others = @ \ {n}].others = configMaps.others \ {n}
    BY DEF TypeOK, ConfigMapStore
  <2> QED
    BY <2>1, <2>2
<1>3. CASE UNCHANGED configMaps
  BY <1>3
<1> QED
  BY <1>1, <1>2, <1>3
  DEF Loop, Start, CreateUpdateVmi, CreateVmiSecret, ListSecrets, DeleteListedSecret,
      SecretsDone, ListConfigMaps, ConfigMapsDone, Sleep, configMapVars

\* What the loop may do to the VMI: give it the wanted spec.
LEMMA LoopVmi ==
    ASSUME TypeOK, VersionsAgree, SpecGiven, Loop
    PROVE  vmi' = vmi \/ (vmi' # NoVmi /\ config.uri /\ vmi'.spec = config.spec)
<1>1. CASE CreateUpdateVmi
  <2>1. vmi' = vmi \/ vmi' = VmiWanted
    BY <1>1 DEF CreateUpdateVmi, Vmis!Write, vmiVars
  <2>2. VmiWanted # vmi => config.uri /\ VmiWanted.spec = config.spec /\ config.spec \in Specs
    BY OnlyRepairs
  <2>3. NoVmi.spec \notin Specs
    BY ConstantsAssumption DEF NoVmi
  <2> QED
    BY <2>1, <2>2, <2>3
<1>2. CASE UNCHANGED vmi
  BY <1>2
<1> QED
  BY <1>1, <1>2
  DEF Loop, Start, CreateVmiSecret, ListSecrets, DeleteListedSecret, SecretsDone,
      UpdateConfigMap, ListConfigMaps, DeleteListedConfigMap, ConfigMapsDone, Sleep, vmiVars

\* A stored VMI always has a spec.
LEMMA SpecAlwaysGiven == Spec => []SpecGiven
<1>1. Init => SpecGiven
  BY DEF Init, SpecGiven
<1>2. TypeOK /\ TypeOK' /\ VersionsAgree /\ SpecGiven /\ [Next]_vars => SpecGiven'
  BY ReconcilerStep
<1> QED
  BY <1>1, <1>2, TypeCorrect, CopiesAgree, PTL DEF Spec

\* The cleanup's list is always free of the loop's own secrets.
LEMMA CleanupListHolds == Spec => []CleanupList
<1>1. Init => CleanupList
  BY DEF Init, CleanupList
<1> QED
  BY <1>1, CleanupListStep, PTL DEF Spec

\* Whatever the caches show, no step of the loop spoils a VMI, secrets or
\* ConfigMaps that are as the configuration wants.
THEOREM NothingSpoilt == Spec => SettledKept
<1> DEFINE Kept == /\ VmiSettled => VmiSettled'
                   /\ SecretsSettled => SecretsSettled'
                   /\ ConfigMapsSettled => ConfigMapsSettled'
<1>1. ASSUME TypeOK, VersionsAgree, SpecGiven, CleanupList, Loop PROVE Kept
  <2>1. config' = config
    BY <1>1
    DEF Loop, Start, CreateUpdateVmi, CreateVmiSecret, ListSecrets, DeleteListedSecret,
        SecretsDone, UpdateConfigMap, ListConfigMaps, DeleteListedConfigMap,
        ConfigMapsDone, Sleep
  <2>2. VmiSettled => VmiSettled'
    BY <1>1, <2>1, LoopVmi DEF VmiSettled
  <2>3. SecretsSettled => SecretsSettled'
    BY <1>1, LoopSecrets DEF SecretsSettled
  <2>4. WantedDashboards' = WantedDashboards
    BY <2>1 DEF WantedDashboards
  <2>5. ConfigMapsSettled => ConfigMapsSettled'
    BY <1>1, <2>4, LoopConfigMaps DEF ConfigMapsSettled
  <2> QED
    BY <2>2, <2>3, <2>5
<1>2. TypeOK /\ VersionsAgree /\ SpecGiven /\ CleanupList => [Loop => Kept]_vars
  BY <1>1
<1> QED
  BY <1>2, TypeCorrect, CopiesAgree, SpecAlwaysGiven, CleanupListHolds, PTL DEF SettledKept

\* No step of the loop deletes the VMI, a secret of its own or the dashboards.
THEOREM NothingOwnDeleted == Spec => OwnObjectsKept
<1> DEFINE Kept == /\ vmi # NoVmi => vmi' # NoVmi
                   /\ LabelledSecrets(secrets) \cap SecretNames
                        \subseteq LabelledSecrets(secrets')
                   /\ configMaps.data # Absent => configMaps'.data # Absent
<1>1. ASSUME TypeOK, VersionsAgree, SpecGiven, CleanupList, Loop PROVE Kept
  <2>1. vmi # NoVmi => vmi' # NoVmi
    BY <1>1, LoopVmi
  <2>2. secrets.password # Absent => secrets'.password # Absent
    BY <1>1, LoopSecrets, ConstantsAssumption
  <2>3. LabelledSecrets(secrets) \cap SecretNames \subseteq LabelledSecrets(secrets')
    BY <1>1, <2>2, LoopSecrets DEF LabelledSecrets
  <2>4. WantedDashboards # Absent
    BY DEF WantedDashboards, Absent
  <2>5. configMaps.data # Absent => configMaps'.data # Absent
    BY <1>1, <2>4, LoopConfigMaps
  <2> QED
    BY <2>1, <2>3, <2>5
<1>2. TypeOK /\ VersionsAgree /\ SpecGiven /\ CleanupList => [Loop => Kept]_vars
  BY <1>1
<1> QED
  BY <1>2, TypeCorrect, CopiesAgree, SpecAlwaysGiven, CleanupListHolds, PTL
  DEF OwnObjectsKept
=============================================================================
