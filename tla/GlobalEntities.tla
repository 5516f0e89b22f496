--------------------------- MODULE GlobalEntities ---------------------------
(***************************************************************************)
(* The operator's reconciliation loop, createUpdateGlobalEntities in       *)
(* pkg/controller/controller.go: every 60 seconds it brings the system     *)
(* VerrazzanoMonitoringInstance (VMI), the VMI secret and the Grafana      *)
(* dashboards ConfigMap of the management cluster to what the operator's   *)
(* configuration asks for.  It reads all three through informer caches     *)
(* that lag behind the API server, and writes straight to the API server,  *)
(* while the Verrazzano Monitoring Operator (VMO), an administrator, API   *)
(* errors and restarts of the operator interfere.                          *)
(*                                                                         *)
(* An API call and the cache read that decides it are one action: the      *)
(* cache may be arbitrarily old at the moment of the call, so a read that  *)
(* happens earlier adds nothing.                                           *)
(***************************************************************************)
EXTENDS Naturals, Sequences, FiniteSets

CONSTANTS
    Specs,             \* contents of a VMI's spec, PVC names left out
    Pvcs,              \* names of persistent volume claims
    Passwords,         \* what genPassword may return
    OtherSecrets,      \* further secrets labelled with the system binding
    OtherConfigMaps,   \* further ConfigMaps labelled with the system binding
    Configs,           \* configurations the operator may be started with
    EnvBudget,         \* bound: how often each kind of outside event happens
    MaxLag             \* bound: watch events under way at once (see Informer)

Absent == "absent"          \* the object does not exist
Incomplete == "incomplete"  \* the secret lacks its username or its password
NoSpec == "none"            \* the spec of a VMI that does not exist

\* pkg/constants/constants.go
VmiSecretName == "verrazzano"
VmiUsername == "verrazzano"
BindingName == "system"

Events == {"pvc", "vmiEdit", "dashboards", "owner", "secretEdit", "secretBreak",
           "stray", "restart", "fault"}

\* The dashboards newConfigMap puts together for the system binding, with and
\* without SHARED_VMI_DEFAULT, and the content VMO creates the object with.
Dashboards == {"system", "systemAndDefault", "placeholder"}

\* What the flags and the environment of a process decide: whether there is a
\* verrazzanoURI, what createInstance puts into the VMI's spec (sizes, memory,
\* replicas, what is enabled), and SHARED_VMI_DEFAULT.
Config == [uri : BOOLEAN, spec : Specs, shared : BOOLEAN]

ASSUME ConstantsAssumption ==
    /\ Configs \subseteq Config
    /\ EnvBudget \in [Events -> Nat]
    /\ MaxLag \in Nat \ {0}
    /\ Passwords \cap {Absent, Incomplete} = {}
    /\ NoSpec \notin Specs

VARIABLES
    vmi, vmiCache, vmiWatch,                 \* the system VMI
    revision,                                \* last resourceVersion handed out
    secrets, secretCache, secretWatch,       \* secrets of the system binding
    configMaps, configMapCache, configMapWatch,
    synced,      \* informers whose HasSynced is true
    config,      \* flags and environment this process was started with
    pc, todo,    \* control state of the loop; names listed and not yet deleted
    left         \* outside events still to come

vmiVars == <<vmi, vmiCache, vmiWatch, revision>>
secretVars == <<secrets, secretCache, secretWatch>>
configMapVars == <<configMaps, configMapCache, configMapWatch>>
vars == <<vmiVars, secretVars, configMapVars, synced, config, pc, todo, left>>

Vmis == INSTANCE Informer WITH store <- vmi, cache <- vmiCache, watch <- vmiWatch
Secrets == INSTANCE Informer
    WITH store <- secrets, cache <- secretCache, watch <- secretWatch
ConfigMaps == INSTANCE Informer
    WITH store <- configMaps, cache <- configMapCache, watch <- configMapWatch

-----------------------------------------------------------------------------
(* Objects *)

\* A VMI; uid tells an object from a later one of the same name.
Vmi == [rv : Nat, uid : Nat, spec : Specs \cup {NoSpec}, pvcs : SUBSET Pvcs]
NoVmi == [rv |-> 0, uid |-> 0, spec |-> NoSpec, pvcs |-> {}]

\* password is Absent when the VMI secret does not exist.
SecretStore == [password : Passwords \cup {Absent, Incomplete},
                others : SUBSET OtherSecrets]
NoSecrets == [password |-> Absent, others |-> {}]

\* data is Absent when the dashboards ConfigMap does not exist; owner: VMO is
\* its owner.
ConfigMapStore == [data : Dashboards \cup {Absent}, owner : BOOLEAN,
                   others : SUBSET OtherConfigMaps]
NoConfigMaps == [data |-> Absent, owner |-> FALSE, others |-> {}]

PCs == {"sync", "vmi", "secret", "secretList", "secretCleanup",
        "configMap", "configMapList", "configMapCleanup", "sleep"}

TypeOK ==
    /\ vmi \in Vmi /\ vmiCache \in Vmi /\ vmiWatch \in Seq(Vmi)
    /\ revision \in Nat
    /\ secrets \in SecretStore /\ secretCache \in SecretStore
    /\ secretWatch \in Seq(SecretStore)
    /\ configMaps \in ConfigMapStore /\ configMapCache \in ConfigMapStore
    /\ configMapWatch \in Seq(ConfigMapStore)
    /\ synced \subseteq {"vmi", "secret", "configMap"}
    /\ config \in Configs
    /\ pc \in PCs
    /\ todo \subseteq OtherSecrets \cup OtherConfigMaps \cup {VmiSecretName}
    /\ left \in [Events -> Nat]

Init ==
    /\ vmi = NoVmi /\ vmiCache = NoVmi /\ vmiWatch = <<NoVmi>>
    /\ revision = 0
    /\ secrets = NoSecrets /\ secretCache = NoSecrets
    /\ secretWatch = <<NoSecrets>>
    /\ configMaps = NoConfigMaps /\ configMapCache = NoConfigMaps
    /\ configMapWatch = <<NoConfigMaps>>
    /\ synced = {}
    /\ config \in Configs
    /\ pc = "sync" /\ todo = {}
    /\ left = EnvBudget

Spend(e) == left[e] > 0 /\ left' = [left EXCEPT ![e] = @ - 1]

\* What becomes of an API request: it takes effect and says so, or it fails on
\* the way, or it takes effect and only the answer is lost.
Outcome(applied, failed) ==
    /\ applied \/ failed
    /\ IF failed THEN Spend("fault") ELSE UNCHANGED left

-----------------------------------------------------------------------------
(* The loop *)

\* NewController waits for the secret and the VMI informer, not for the
\* ConfigMap informer, before it starts the loop.
Start ==
    /\ pc = "sync" /\ {"vmi", "secret"} \subseteq synced
    /\ pc' = "vmi"
    /\ UNCHANGED <<vmiVars, secretVars, configMapVars, synced, config, todo, left>>

\* createInstance, for a configuration with a non-empty verrazzanoURI.
Instance(pvcs) ==
    [rv |-> revision + 1, uid |-> revision + 1, spec |-> config.spec, pvcs |-> pvcs]

\* Create: AlreadyExists if the cache missed an existing object.
VmiCreated == IF vmi = NoVmi THEN Instance({}) ELSE vmi

\* Update with the cached object's PVC names and resourceVersion: Conflict or
\* NotFound unless the store still holds the version that was read.
VmiUpdated_IgnoresVersion ==
    IF vmi # NoVmi
      THEN [Instance(vmiCache.pvcs) EXCEPT !.uid = vmi.uid] ELSE vmi
VmiUpdated ==
    IF vmi # NoVmi /\ vmi.rv = vmiCache.rv
      THEN [Instance(vmiCache.pvcs) EXCEPT !.uid = vmi.uid] ELSE vmi

\* What CreateUpdateVmi asks the API server for.  diff.Diff (external) is
\* empty exactly when the wanted content is already there.
VmiWanted_CreateOnly ==
    IF config.uri /\ vmiCache = NoVmi THEN VmiCreated ELSE vmi
VmiWanted ==
    IF ~config.uri THEN vmi
    ELSE IF vmiCache = NoVmi THEN VmiCreated
    ELSE IF vmiCache.spec = config.spec THEN vmi
    ELSE VmiUpdated

\* CreateUpdateVmi; the loop goes on whatever it returns.
CreateUpdateVmi_ErrorEndsPass ==
    /\ pc = "vmi" /\ Vmis!Room
    /\ Vmis!Write(VmiWanted)
    /\ revision' = IF VmiWanted = vmi THEN revision ELSE revision + 1
    /\ pc' = IF config.uri THEN "secret" ELSE "sleep"
    /\ UNCHANGED <<secretVars, configMapVars, synced, config, todo, left>>
CreateUpdateVmi ==
    /\ pc = "vmi" /\ Vmis!Room
    /\ \E applied, failed \in BOOLEAN :
         /\ Outcome(applied, failed)
         /\ IF applied
              THEN /\ Vmis!Write(VmiWanted)
                   /\ revision' = IF VmiWanted = vmi THEN revision ELSE revision + 1
              ELSE UNCHANGED vmiVars
    /\ pc' = "secret"
    /\ UNCHANGED <<secretVars, configMapVars, synced, config, todo>>

\* The request CreateVmiSecrets makes: Create if the cache has no secret,
\* Update (without a resourceVersion) if the cached one is incomplete.
VmiSecretRequest_AlwaysUpdates ==
    IF secretCache.password = Absent THEN "create" ELSE "update"
VmiSecretRequest ==
    CASE secretCache.password = Absent -> "create"
      [] secretCache.password = Incomplete -> "update"
      [] OTHER -> "none"

\* The API server accepts a Create of what is absent, an Update of what is not.
VmiSecretAccepted ==
    CASE VmiSecretRequest = "create" -> secrets.password = Absent
      [] VmiSecretRequest = "update" -> secrets.password # Absent
      [] VmiSecretRequest = "none" -> TRUE

\* CreateVmiSecrets up to the cleanup.  Any error returns, so that the cleanup
\* is skipped in this pass.
CreateVmiSecret ==
    /\ pc = "secret" /\ Secrets!Room
    /\ \E applied, failed \in BOOLEAN, password \in Passwords :
         /\ Outcome(applied, failed)
         /\ VmiSecretRequest = "none" => ~failed
         /\ IF applied /\ VmiSecretRequest # "none" /\ VmiSecretAccepted
              THEN Secrets!Write([secrets EXCEPT !.password = password])
              ELSE UNCHANGED secretVars
         /\ pc' = IF failed \/ ~VmiSecretAccepted THEN "configMap" ELSE "secretList"
    /\ UNCHANGED <<vmiVars, configMapVars, synced, config, todo>>

\* Secrets the cleanup leaves alone.
SecretNames_BindingOnly == {BindingName}
SecretNames == {VmiUsername, BindingName}

\* Secrets labelled with the system binding, as the lister sees them; the VMI
\* secret carries that label too.
LabelledSecrets(s) ==
    s.others \cup (IF s.password = Absent THEN {} ELSE {VmiSecretName})

SecretsWithout(n) ==
    IF n = VmiSecretName THEN [secrets EXCEPT !.password = Absent]
    ELSE [secrets EXCEPT !.others = @ \ {n}]

\* "Delete Secrets that shouldn't exist": the list is read once from the cache.
ListSecrets_StopsAtKept ==
    /\ pc = "secretList"
    /\ todo' = IF LabelledSecrets(secretCache) \cap SecretNames # {} THEN {}
               ELSE LabelledSecrets(secretCache)
    /\ pc' = "secretCleanup"
    /\ UNCHANGED <<vmiVars, secretVars, configMapVars, synced, config, left>>
ListSecrets_KeepsNothing ==
    /\ pc = "secretList"
    /\ todo' = LabelledSecrets(secretCache)
    /\ pc' = "secretCleanup"
    /\ UNCHANGED <<vmiVars, secretVars, configMapVars, synced, config, left>>
ListSecrets ==
    /\ pc = "secretList"
    /\ todo' = LabelledSecrets(secretCache) \ SecretNames
    /\ pc' = "secretCleanup"
    /\ UNCHANGED <<vmiVars, secretVars, configMapVars, synced, config, left>>

\* One Delete per listed secret; the first error, NotFound included, returns.
DeleteListedSecret ==
    /\ pc = "secretCleanup" /\ Secrets!Room
    /\ \E n \in todo, applied, failed \in BOOLEAN :
         /\ Outcome(applied, failed)
         /\ IF applied THEN Secrets!Write(SecretsWithout(n)) ELSE UNCHANGED secretVars
         /\ IF failed \/ n \notin LabelledSecrets(secrets)
              THEN todo' = {} ELSE todo' = todo \ {n}
    /\ UNCHANGED <<vmiVars, configMapVars, synced, config, pc>>

SecretsDone ==
    /\ pc = "secretCleanup" /\ todo = {}
    /\ pc' = "configMap"
    /\ UNCHANGED <<vmiVars, secretVars, configMapVars, synced, config, todo, left>>

\* The dashboards newConfigMap builds for the system binding.
WantedDashboards == IF config.shared THEN "systemAndDefault" ELSE "system"

\* UpdateConfigMaps never creates: it updates a cached ConfigMap whose data
\* differs, with the cached owner and without a resourceVersion.
ConfigMapStale_OnlyPlaceholder == configMapCache.data = "placeholder"
ConfigMapStale ==
    configMapCache.data \notin {Absent, WantedDashboards}

UpdateConfigMap ==
    /\ pc = "configMap" /\ ConfigMaps!Room
    /\ \/ /\ ~ConfigMapStale
          /\ pc' = "configMapList"
          /\ UNCHANGED <<configMapVars, left>>
       \/ /\ ConfigMapStale
          /\ \E applied, failed \in BOOLEAN :
               /\ Outcome(applied, failed)
               /\ IF applied /\ configMaps.data # Absent
                    THEN ConfigMaps!Write([configMaps EXCEPT
                           !.data = WantedDashboards, !.owner = configMapCache.owner])
                    ELSE UNCHANGED configMapVars
               /\ pc' = IF failed \/ configMaps.data = Absent
                          THEN "sleep" ELSE "configMapList"
    /\ UNCHANGED <<vmiVars, secretVars, synced, config, todo>>

\* The second half of UpdateConfigMaps.  The dashboards ConfigMap is the one
\* name the cleanup leaves alone, so the list is the other labelled ones.
ListConfigMaps_StopsAtKept ==
    /\ pc = "configMapList"
    /\ todo' = IF configMapCache.data # Absent THEN {} ELSE configMapCache.others
    /\ pc' = "configMapCleanup"
    /\ UNCHANGED <<vmiVars, secretVars, configMapVars, synced, config, left>>
ListConfigMaps_KeepsNothing ==
    /\ pc = "configMapList"
    /\ todo' = configMapCache.others \cup
                 (IF configMapCache.data # Absent THEN {"dashboards"} ELSE {})
    /\ pc' = "configMapCleanup"
    /\ UNCHANGED <<vmiVars, secretVars, configMapVars, synced, config, left>>
ListConfigMaps ==
    /\ pc = "configMapList"
    /\ todo' = configMapCache.others
    /\ pc' = "configMapCleanup"
    /\ UNCHANGED <<vmiVars, secretVars, configMapVars, synced, config, left>>

DeleteListedConfigMap ==
    /\ pc = "configMapCleanup" /\ ConfigMaps!Room
    /\ \E n \in todo, applied, failed \in BOOLEAN :
         /\ Outcome(applied, failed)
         /\ IF applied
              THEN ConfigMaps!Write([configMaps EXCEPT !.others = @ \ {n}])
              ELSE UNCHANGED configMapVars
         /\ IF failed \/ n \notin configMaps.others
              THEN todo' = {} ELSE todo' = todo \ {n}
    /\ UNCHANGED <<vmiVars, secretVars, synced, config, pc>>

ConfigMapsDone ==
    /\ pc = "configMapCleanup" /\ todo = {}
    /\ pc' = "sleep"
    /\ UNCHANGED <<vmiVars, secretVars, configMapVars, synced, config, todo, left>>

\* <-time.After(60 * time.Second)
Sleep ==
    /\ pc = "sleep"
    /\ pc' = "vmi"
    /\ UNCHANGED <<vmiVars, secretVars, configMapVars, synced, config, todo, left>>

Loop ==
    \/ Start \/ CreateUpdateVmi
    \/ CreateVmiSecret \/ ListSecrets \/ DeleteListedSecret \/ SecretsDone
    \/ UpdateConfigMap \/ ListConfigMaps \/ DeleteListedConfigMap \/ ConfigMapsDone
    \/ Sleep

-----------------------------------------------------------------------------
(* The informers, started by NewController *)

DeliverVmi ==
    /\ Vmis!Deliver /\ synced' = synced \cup {"vmi"}
    /\ UNCHANGED <<revision, secretVars, configMapVars, config, pc, todo, left>>

DeliverSecrets ==
    /\ Secrets!Deliver /\ synced' = synced \cup {"secret"}
    /\ UNCHANGED <<vmiVars, configMapVars, config, pc, todo, left>>

DeliverConfigMaps ==
    /\ ConfigMaps!Deliver /\ synced' = synced \cup {"configMap"}
    /\ UNCHANGED <<vmiVars, secretVars, config, pc, todo, left>>

-----------------------------------------------------------------------------
(* Everybody else.  VMO and administrators are not part of the repository;  *)
(* they write with the resourceVersion they read, so each of their writes   *)
(* is a change of the object as it is.                                      *)

\* VMO records a volume claim it created for the instance.
VmoAddsPvc ==
    /\ vmi # NoVmi /\ Vmis!Room /\ Spend("pvc")
    /\ \E p \in Pvcs \ vmi.pvcs :
         Vmis!Write([vmi EXCEPT !.rv = revision + 1, !.pvcs = @ \cup {p}])
    /\ revision' = revision + 1
    /\ UNCHANGED <<secretVars, configMapVars, synced, config, pc, todo>>

\* An administrator edits or deletes the VMI.
AdminChangesVmi ==
    /\ vmi # NoVmi /\ Vmis!Room /\ Spend("vmiEdit")
    /\ \/ Vmis!Write(NoVmi)
       \/ \E s \in Specs \ {vmi.spec} :
            Vmis!Write([vmi EXCEPT !.rv = revision + 1, !.spec = s])
    /\ revision' = revision + 1
    /\ UNCHANGED <<secretVars, configMapVars, synced, config, pc, todo>>

\* VMO, or an administrator, creates, resets or deletes the dashboards
\* ConfigMap; VMO makes itself the owner of one it finds (configmaps.go:38).
DashboardsChange ==
    /\ ConfigMaps!Room
    /\ \/ /\ Spend("dashboards")
          /\ \E d \in (Dashboards \cup {Absent}) \ {configMaps.data} :
               ConfigMaps!Write([configMaps EXCEPT
                 !.data = d, !.owner = IF d = Absent THEN FALSE ELSE @])
       \/ /\ configMaps.data # Absent /\ ~configMaps.owner /\ Spend("owner")
          /\ ConfigMaps!Write([configMaps EXCEPT !.owner = TRUE])
    /\ UNCHANGED <<vmiVars, secretVars, synced, config, pc, todo>>

\* An administrator sets the password or deletes the VMI secret, or leaves it
\* without one of its keys.
AdminChangesSecret ==
    /\ Secrets!Room
    /\ \/ /\ Spend("secretEdit")
          /\ \E p \in (Passwords \cup {Absent}) \ {secrets.password} :
               Secrets!Write([secrets EXCEPT !.password = p])
       \/ /\ secrets.password \notin {Absent, Incomplete} /\ Spend("secretBreak")
          /\ Secrets!Write([secrets EXCEPT !.password = Incomplete])
    /\ UNCHANGED <<vmiVars, configMapVars, synced, config, pc, todo>>

\* Secrets and ConfigMaps with the system binding's label come and go.
StrayObject ==
    /\ Spend("stray")
    /\ \/ /\ Secrets!Room
          /\ \E n \in OtherSecrets : Secrets!Write([secrets EXCEPT !.others =
               IF n \in @ THEN @ \ {n} ELSE @ \cup {n}])
          /\ UNCHANGED configMapVars
       \/ /\ ConfigMaps!Room
          /\ \E n \in OtherConfigMaps : ConfigMaps!Write([configMaps EXCEPT !.others =
               IF n \in @ THEN @ \ {n} ELSE @ \cup {n}])
          /\ UNCHANGED secretVars
    /\ UNCHANGED <<vmiVars, synced, config, pc, todo>>

\* The process dies at any point and a new one starts, perhaps with another
\* configuration, with nothing but the API server's state.
Restart ==
    /\ Spend("restart")
    /\ Vmis!Relist(NoVmi) /\ Secrets!Relist(NoSecrets)
    /\ ConfigMaps!Relist(NoConfigMaps)
    /\ synced' = {} /\ pc' = "sync" /\ todo' = {}
    /\ config' \in Configs
    /\ UNCHANGED revision

Environment ==
    \/ VmoAddsPvc \/ AdminChangesVmi \/ DashboardsChange \/ AdminChangesSecret
    \/ StrayObject \/ Restart

Next ==
    \/ Loop \/ DeliverVmi \/ DeliverSecrets \/ DeliverConfigMaps \/ Environment

\* The goroutine never returns and its timer always fires; an informer sooner
\* or later delivers what it watches.  Nothing is assumed of the environment.
Fairness ==
    /\ WF_vars(Loop)
    /\ WF_vars(DeliverVmi) /\ WF_vars(DeliverSecrets) /\ WF_vars(DeliverConfigMaps)

Spec == Init /\ [][Next]_vars /\ Fairness

-----------------------------------------------------------------------------
(* Safety *)

\* The PVC names VMO recorded in a VMI are never lost while that object lives,
\* however stale the copy CreateUpdateVmi carries them over from.
PvcNamesKept ==
    [][vmi'.uid = vmi.uid => vmi.pvcs \subseteq vmi'.pvcs]_vars

\* A usable VMI password is replaced only by an administrator: no pass of the
\* loop, on whatever cache, gives the secret a different password.
PasswordKept ==
    [][Loop => secrets.password \in {Absent, Incomplete, secrets'.password}]_vars

\* UpdateConfigMaps does not touch the owner of the dashboards ConfigMap.
OwnerKept ==
    [][Loop => configMaps'.owner = configMaps.owner]_vars

\* Everything is as the configuration wants it.
VmiSettled == config.uri => vmi # NoVmi /\ vmi.spec = config.spec
SecretsSettled == secrets.password \in Passwords /\ secrets.others \subseteq SecretNames
ConfigMapsSettled ==
    configMaps.data \in {Absent, WantedDashboards} /\ configMaps.others = {}
Settled == VmiSettled /\ SecretsSettled /\ ConfigMapsSettled

\* A pass of the loop that reads these caches writes nothing.
Quiet ==
    /\ VmiWanted = vmi
    /\ VmiSecretRequest = "none" /\ LabelledSecrets(secretCache) \subseteq SecretNames
    /\ ~ConfigMapStale /\ configMapCache.others = {}

\* With nothing under way to the caches, a pass writes nothing exactly when
\* everything is as wanted: the loop neither rests in a wrong state nor keeps
\* writing in a right one.
QuietIsSettled ==
    vmiWatch = <<>> /\ secretWatch = <<>> /\ configMapWatch = <<>>
        => (Quiet <=> Settled)

\* However old its caches are, no step of the loop spoils what is as wanted.
SettledKept ==
    [][Loop => /\ VmiSettled => VmiSettled'
               /\ SecretsSettled => SecretsSettled'
               /\ ConfigMapsSettled => ConfigMapsSettled']_vars

\* No step of the loop deletes the VMI, the VMI secret, the secret named after
\* the binding or the dashboards ConfigMap, whatever its caches showed when the
\* cleanup listed what to delete.
OwnObjectsKept ==
    [][Loop => /\ vmi # NoVmi => vmi' # NoVmi
               /\ LabelledSecrets(secrets) \cap SecretNames
                    \subseteq LabelledSecrets(secrets')
               /\ configMaps.data # Absent => configMaps'.data # Absent]_vars

(* Liveness: what the loop promises once the outside events are over *)

\* The VMI ends up with the content of the configuration.
VmiConverges ==
    <>[](config.uri => vmi # NoVmi /\ vmi.spec = config.spec)

\* Caches, versions, requests, errors and passes left out, the loop is a
\* Reconciler of the VMI: with no outside event, the stored VMI changes only to
\* what the configuration of the running process wants, never to what a stale
\* copy or an earlier configuration says, keeps its PVC names, and does change.
Reconciled == INSTANCE Reconciler
    WITH None <- NoSpec, spec <- vmi.spec, pvcs <- vmi.pvcs,
         wanted <- IF config.uri THEN config.spec ELSE NoSpec,
         outside <- left["pvc"] + left["vmiEdit"] + left["restart"]
VmiRefines == Reconciled!Spec

\* The VMI secret ends up complete, whether or not the VMI step succeeds.
SecretConverges ==
    <>[](secrets.password \in Passwords)

\* An existing dashboards ConfigMap ends up with the dashboards of the
\* configuration.
DashboardsConverge ==
    <>[](configMaps.data \in {Absent, WantedDashboards})

\* Labelled objects that should not exist end up deleted, and only those: the
\* secret named after the binding stays if it was there.
StraysCollected ==
    <>[](secrets.others \subseteq SecretNames /\ configMaps.others = {})
=============================================================================
