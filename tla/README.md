# A verification model of the Verrazzano Operator

TLA+ modules, TLC configurations and TLAPS proofs for the operator in this
repository (`cmd/`, `pkg/`). Paths below are relative to the repository's root.
`PROJECT.json` maps every definition to the lines it models and lists the runs,
the mutants, the findings, the hazards and the theorems.

## The system

The operator runs in a Kubernetes management cluster. At this commit `main`
(`cmd/verrazzano-operator/main.go`) starts the first two parts below; the binding
handlers and what they call are complete but have no caller, apart from
`createManagedClusterResourcesForBinding`, which the one-shot pass uses. Tests
cover the functions of `pkg/managed` and `pkg/local`; none calls the handlers.

| Part | State it keeps | Operations | Talks to |
|---|---|---|---|
| Global entities loop (`controller.go:251-281`, `local/vmis.go`, `local/configmaps.go`, `monitoring/secrets.go`, `controller/secrets.go`) | none of its own; reads the informer caches of VMIs, secrets and ConfigMaps | every 60 s: `CreateUpdateVmi`, `CreateVmiSecrets`, `UpdateConfigMaps` | API server; the Verrazzano Monitoring Operator (VMO) and administrators write the same objects |
| Process life and the one-shot pass (`main.go`, `NewController`, `Run`, `processManagedCluster`, `signals/signal.go`) | where the main goroutine is, the connection to the local cluster and its informers | start informers, wait for some of them, start the loop, connect, create the node exporter's objects once, block | API server, signal handler |
| Binding registry (`controller.go:81-125`, `438-843`, `verrazzano_location.go`) | four maps: models, bindings, model/binding pairs, sync counters | `processApplicationModelAdded/Deleted`, `processApplicationBindingAdded/Deleted` | informer events; `pkg/local`, `pkg/managed` for what a binding needs |
| Managed resources (`pkg/managed`, `controller.go:375-435`, `623-678`, `693-821`) | where the running handler is; the connections and their listers | create-or-update, clean up orphans, delete, by label, per cluster | the API servers of managed clusters |
| ACME DNS secret (`local/secrets.go:96-163`) | none of its own; it writes into the informer's cache | `UpdateAcmeDNSSecret` with every sync | API server; the installer writes the same secret |
| Monitoring constructors, utilities, environment | none | pure functions | |

Nothing is persisted but what the API server stores. What is hard:

- every decision is made on an informer cache that may be arbitrarily old, and
  the write it leads to goes straight to the API server, in some places with a
  resourceVersion (`vmis.go:53`) and in others without;
- errors are logged and the next step made, or end a step halfway, and are
  repaired, if at all, by a later pass or resync;
- objects are found again by labels, some of which the objects of other bindings
  have too, and what is shared goes with the last pair in a map that a restart
  empties;
- not all informers are waited for before their listers are read;
- signals, restarts and other writers come at any time.

What makes the parts correct: the loop converges to the configuration whatever
happened before, without destroying what others own (volume claims, a password,
an owner reference, credentials); the pass leaves nothing out; the registry's
maps agree and every binding keeps being served; handlers leave alone what other
bindings want, and what a binding no longer wants goes in the end.

## Modules

- `Informer` – one kind of object: store, cache, watch events under way.
  External (client-go): writes append a snapshot, delivery applies the oldest,
  a restart relists. `MaxLag` bounds the number of events under way. `Follows`
  says what a lagging cache may be relied on for: the last event under way, or the
  cache itself when there is none, is what is stored.
- `GlobalEntities` – the loop, one action per API request (`CreateUpdateVmi`,
  `CreateVmiSecret`, `ListSecrets`, `DeleteListedSecret`, `UpdateConfigMap`,
  `ListConfigMaps`, `DeleteListedConfigMap`) and `Start`, `Sleep`. Three
  instances of `Informer`. VMO, administrators, stray objects, API errors (a
  request that fails, or takes effect and whose answer is lost) and restarts
  with another configuration are the environment, each bounded by `EnvBudget`.
  A read from a cache and the request it decides are one action: the cache may
  be arbitrarily old at that moment, so an earlier read adds nothing. The list
  of a cleanup is a separate action since it is used over several requests.
  Object contents are reduced to what decides something: a VMI's spec to one
  value per configuration, PVC names kept apart; a secret to its password;
  dashboards to which set they are.
- `BindingRegistry` – the four maps and the four handlers; each handler is one
  action (or one per early return), because handlers run one after another and
  nobody else writes the maps. What handlers create and delete is reduced to the
  VMI of the binding and to failing delete steps. The module assumes an
  implementation of `managedInterface` with all its methods, as the test double is;
  the one there is panics (see `ManagedResources`).
- `Startup` – main goroutine, signal handler, informers of both factories and
  the pass over the managed cluster, one action per `Create...` call. Contents
  of objects are the version of the operator that wrote them. Somebody may delete
  objects; a deleted namespace is terminating for a while, in which the pass finds
  it there and is refused what it creates in it (`Creatable`, `Terminate`). Steps of
  the pass that have nothing to create for the system binding are left out, and
  `SetUp` is one step: where `main` and `NewController` end the process (`Fatal`)
  before the informers are started, nothing has been done yet, and the process
  that is started next begins anew; a signal at that point has the same effect.
- `Reconciler` – the abstract specification: one object, what is wanted, one
  repair step, a finite number of outside events. `GlobalEntities` implements it
  for the VMI (`VmiRefines`): the stored spec and PVC names are the object, the
  running configuration is what is wanted, the sum of the outside budgets is what
  is left of outside events.
- `ManagedResources` – what the handlers do on the managed clusters. A handler is
  a sequence of calls (`CreateCalls`, `CleanupCalls`, `DeleteCalls`, `LastCalls`,
  one constant per function of `pkg/managed`), a call a set of visits to clusters
  (`Visits`, `Due`), a visit a set of objects taken from the pair or from the
  lister when the visit begins (`Handled`), and each object one request
  (`CreateListed`, `DeleteListed`) or a wait (`WaitForNSDeletion`). What differs
  between the functions is kept: which clusters they visit, their selectors
  (`Matches`), their skip lists (`Skipped`), what they do on an error (`Failed`).
  An object is its kind, name, namespace and labels; its content is as wanted or
  altered. Secrets are copied from the management cluster (`sources`): one that is
  not there, or cannot be read, is left out without an error (`Handled`,
  `VisitCluster`), and an existing one of WebLogic's runtime encryption type is
  never updated (`RequestNeeded`). The four methods that `managedPackage` does not
  define are calls like the others. `lacks` says which of them are missing; a call of
  a missing one is `Panic`, the end of the process. Where they are not missing they
  do nothing to the objects of the model, but `DeleteCustomResources` may fail and
  end the deletion. The objects of a pair are a parameter: at this commit
  `buildSyntheticModelBinding` itself only puts the system namespace into a pair,
  the other fields of `ManagedCluster` are there for its callers and the tests.
  `restarts` counts the restarts of the operator; no action looks at it, one
  property does (a panic counts).
- `AcmeDns` – `UpdateAcmeDNSSecret` in two actions, one up to the request (it
  changes the cache), one for the request, on an `Informer`.
- `MC...` – the instances TLC checks. `..._proofs` – theorems; those about where
  the loop and the syncs come to rest, and about what a deletion finds, are in
  `GlobalEntitiesSettled_proofs` and `ManagedResourcesClusters_proofs`, which build
  on `GlobalEntities_proofs` and `ManagedResources_proofs`.

Operators named `X_Something` next to an `X` are mutations of it, used to see
that the properties notice such a mistake; no specification uses them.

## Runs

| Run | Shows |
|---|---|
| `ge_vmi` | PVC names survive (`PvcNamesKept`); VMI and secret converge, the secret also when every VMI step fails for want of a URI; all that happens to the VMI is what `Reconciler` allows, and it is repaired as that promises (`VmiRefines`) |
| `ge_secrets` | as long as nobody leaves the VMI secret without a key, no pass replaces a password (`PasswordKept`); strays go (`StraysCollected`); no step of the loop, on whatever cache, takes the VMI, the secrets or the ConfigMaps out of the state that is wanted (`SettledKept`) or deletes an object the loop maintains (`OwnObjectsKept`) |
| `ge_configmaps` | `DashboardsConverge`; two stray ConfigMaps go although a failing Delete, or one of an object long gone, ends the cleanup of its pass; types; when no event is under way, a pass writes nothing exactly when everything is as configured (`QuietIsSettled`): no wrong state to rest in, no writing without end in a right one |
| `br_handlers` | `MapsAgree`; an unchanged deployable binding is synced again and again (`SyncRecurs`); pairs follow models; VMIs of bindings marked for deletion go away although a failing `DeleteVmi` is only logged |
| `startup` | a pass that nothing disturbs (no failing request, no deletion, no terminating namespace) is complete although it goes by listers that may be empty (`PassComplete`); a step leaves old contents in place exactly where the lister it read had not been filled (`UpdatesIfListed`); a process without signals starts its loop and reaches the end of `processManagedCluster` (`MainSettles`) |
| `managed` | no handler has in hand for deletion what another registered pair wants (`OthersKept`); no Create function meets a cluster that is not connected (`ConnectionsHeld`); until the operator restarts, a deletion has nothing in hand that any other binding which stays asks for, registered or not (`OwnUnlessRestarted`); a sync on current listers sends no request only if all that is wanted is in place and nothing is left to clean up (`RestIsDeployed`); what a binding wants is created and stays, provided that its syncs begin again and again on current listers, also with the interface there is, which panics in the middle of every sync (`CreatesSurvive`). With an interface that has all methods (`lacks = {}`): a binding that stays gets all it wants and loses what it no longer wants (`SyncConverges`); the objects of a deleted binding go (`TeardownCollects`) |
| `acme` | accepted Updates only add entries (`UpdateOnlyAdds`); without failed requests an up-to-date cache shows what is stored, although refused Updates have written into it (`CacheHonest`); entries get in unless a failed Update has left them in the cache alone (`EntriesAppear`) |
| `ge_password`, `ge_owner`, `startup_update`, `startup_shutdown`, `managed_restart` | each refutes one statement of a comment or a test, see below |

`br_*`, `managed*`, `acme` and `startup*` do not check for deadlock: without
bindings, or with a secret that has all entries, there is nothing to do, and a
process may have exited or wait in `Run` for ever. The loop must never stop, so
`ge_*` does check.

**Bounds.** Environment budgets are one or two events of each kind, enough for
two outside writes, a lost answer and a restart to meet in one pass. Caches may
lag two or three writes behind: a stale read needs one, a copy that is stale by
an edit and its undoing two. Two PVCs, two specs, three configurations (both
dashboards sets, with and without URI); two strays, secrets in `ge_secrets` and
ConfigMaps in `ge_configmaps`, so that one failing delete leaves another undone. Two bindings of one model (needed for the early `break`),
three user changes (create model, create binding, change or delete either), one
fault, one restart. Two operator versions, one fault, one deletion by somebody
else (of an object, or of the namespace with what is in it). `managed` has two bindings on two clusters: one that can move from a cluster
the other uses to one it does not use, leaving a namespace, a deployment and a
WebLogic secret behind, or be deleted; the secret is not in the management cluster
at first (`Originals`), so that its creation there is one of the user's changes;
one mishap (failing or unreadable request, disturbed object or restart) at any
point; the interface there is and the complete one (`Lacking`). `managed_restart`
starts with the secret there and has the complete interface only, since with the
other no deletion comes to the line it is about. Kinds without objects are skipped; the proofs cover all of them.
`acme` has two bindings, four contents of the secret (two credentials for the URI,
none, unusable), two installer writes and two mishaps, so that a failed Update for
one binding meets an Update for the other. Safety properties that are proved hold
beyond these bounds.

**Fairness.** The loop is weakly fair: its goroutine has no exit and its timer
always fires (requests are assumed to return). Informers deliver in the end.
Handlers are called again and again since informers resync every 15 s. `Start(b)`
of `ManagedResources` and `UpdateAcmeDNSSecret(b)` are strongly fair: resyncs of
all bindings pass through one queue, so each binding is handled again and again
although handlers for others may keep the controller busy in between; a handler
that runs goes on, and a terminating namespace goes in the end. The main goroutine
runs when it is not blocked. Nothing is assumed of users, VMO,
administrators, signals, clusters that connect, or restarts.

## Findings

1. `ge_password`: `secrets.Update` (`monitoring/secrets.go:89`) carries no
   resourceVersion; a cache that still shows a secret without a key makes a pass
   replace a password that has been set since. `secrets_test.go:56` expects an
   existing password to stay.
2. `ge_owner`: `UpdateConfigMaps` writes the cached owner without a
   resourceVersion and undoes VMO's adoption, against its comment
   (`configmaps.go:38`).
3. `startup_update`: the pass does not wait for the informers of the kinds it
   updates (`controller.go:344`), so a newer operator may leave old contents in
   place; the pass is not repeated. `OnlyUnlistedStaysOld` proves that in a pass
   without errors this is the only way.
4. `startup_shutdown`: `Run` waits on a nil channel (`controller.go:297`); the
   first shutdown signal stops the local informers and nothing else.
5. `managed_restart`: a deletion is taken for the last one if one pair is
   registered (`controller.go:785`). After a restart that may be the first binding
   to come by, and `DeleteNamespaces` without the binding label then selects the
   namespaces of bindings that are not registered yet. The run assumes a
   `managedInterface` with all its methods: as it stands the handler panics in
   `DeleteCustomResources` (`controller.go:741`) and does not come to line 802.
   `OthersKept` shows that
   registered pairs are safe; this run drops the word registered. The restart is
   needed: `DeletesOwnUntilRestart` proves the same statement without one.

Observations without a run of their own:

- `UpdateAcmeDNSSecret` changes the object in the informer's cache before an Update
  that may fail (`local/secrets.go:154`). After a failure other than a conflict
  the cache has the entries and the secret does not, and no later call notices
  until some event or a restart replaces the copy: the clause `CacheAhead` of
  `EntriesAppear` is that state.
- The loop that builds the missing pairs of a model breaks after the first binding
  (`controller.go:463`). Later resyncs build the others: `PairsFollowModels` holds.
- `managedPackage` embeds a nil interface and lacks four methods the handlers call
  (`controller.go:924`). As it stands every sync panics when it comes to
  `CleanupOrphanedCustomResources` (`:626`), so that nothing is ever cleaned up, and
  every deletion panics in `DeleteCustomResources` (`:741`), before anything is
  deleted on a managed cluster. What is created survives (`CreatesSurvive`), since
  the create calls come first and a failing one does not end them; `SyncConverges` and
  `TeardownCollects` say what the code does once the methods are there.
- A secret that is missing or unreadable in the management cluster is left out
  without an error or a log entry (`managed/secrets.go:98-101`), and an existing
  secret of type `wlsRuntimeEncryptionSecret` keeps whatever content it has
  (`:63`). `InPlace`, which says what being deployed means, allows for both.
- The shared namespace, cluster role and cluster role binding are on the skip lists
  of the very calls that are to delete them with the last binding, so they stay.
- A binding that is moved and deleted before the next sync leaves its objects on
  the old cluster; ConfigMaps and cluster roles it no longer wants stay on clusters
  it still uses.

## Proofs

All theorems hold for every value of the constants, under the named
`ConstantsAssumption` of each module (budgets are naturals, configurations well
formed, `MaxLag` positive, passwords distinct from the two markers) and, in
`ManagedResources`, `ObjectsAssumption`: what a binding asks for carries its own
label or none, comes with its namespace and shares no namespace with another
binding, and the namespace, cluster role and cluster role binding without a label
are the ones named `verrazzano-system` (`newNamespaces`, `newClusterRoles`,
`getManagedClusterRoleBinding` make no others).

- `GlobalEntities_proofs`: `TypeCorrect`; `PvcsSafe` – an accepted Update carries
  the PVC names of the object it replaces, because it carries the resourceVersion of
  the copy they were taken from. It rests on a lemma about the API server and the
  informers as modelled (`CopiesAgree`: every write takes a fresh revision, so a copy
  with the store's version is the stored object); `PasswordSafe` – if
  `EnvBudget["secretBreak"] = 0`, `SecretsComplete` is inductive (no copy is
  incomplete and the cleanup never lists the VMI secret), so a pass only ever
  creates the secret. Without that assumption the statement is false (finding 1).
  `RefinesReconciler`: every step maps to a step or a stutter of `Reconciler` –
  `OnlyRepairs` (an accepted Create or Update stores the wanted spec over the
  current object, by `CopiesAgree`) and `SpendOutside` (every outside step uses
  up one of the finitely many budgets). That the repair does happen, the fairness
  half of `VmiRefines`, is checked by TLC.
- `GlobalEntitiesSettled_proofs`: `RestsOnlySettled` compares, for each of the
  three kinds, what makes a step write with what is wanted. With no event under way
  the caches are the store: the lemma `CachesCurrent`, again about the informers as
  modelled, each write appending what it stores.
  `NothingSpoilt` and `NothingOwnDeleted` do not rest on the age of the caches: a
  write of the loop stores what the running configuration wants, whatever it read,
  and the names a cleanup spares are never on its list, which is the invariant
  `CleanupList` (the list is made in one step and worked off in later ones).
- `BindingRegistry_proofs`: `RegistryTypes` and `RegistryAgrees`; `MapsAgree`
  is inductive together with the types, the point being that every handler that
  adds a pair or a counter does so for a registered binding and that the one
  that unregisters it clears all three maps.
- `Startup_proofs`: `StartupTypes` and `PassIsComplete`. The invariant `PassInv`
  adds that listers are empty before the connection, that in an undisturbed pass
  they show only what exists, and that the objects of the steps made exist. The
  namespace comes first and is not being deleted (a terminating one counts as
  tampered with), so no later Create is refused for want of it.
  `OnlyUnlistedStaysOld` needs `ListerInv` besides: a lister that has not been
  filled shows nothing, and in an undisturbed pass one that has been filled shows
  what is stored until the step that goes by it is made.
- `ManagedResources_proofs`: `TypeCorrect`, `KeepsOthers`, `HoldsConnections`. The
  invariant is `TypeOK`, `PairsOK` (a registered pair is one its binding may ask
  for, so what it wants carries its own label or none), `JobOK` (a handler
  works on a registered pair, a sync with its clusters connected, and the shared
  objects are deleted for the only pair there is) and `WorkOK` (each visit that is
  left suits its call – a cleanup of shared objects is only made on clusters no
  pair uses – and each listed object matches the selector of its visit). The pairs
  change only between handlers, so what was true of them when a visit was planned
  still is.
- `ManagedResourcesClusters_proofs`: `DeletesOwnUntilRestart`. What a deletion for
  the last pair selects does not carry the binding's label, so its safety depends
  on whose objects there are. The invariant `OwnInv` says that until a restart all
  objects on the clusters and in the listers belong to all bindings, to a
  registered one or to one marked for deletion (`KnownOK`: a pair is only forgotten
  for a binding marked for deletion); that what is listed is wanted, or known and
  not on the call's skip list (`ListedOK`); and that deletions run for bindings
  marked for deletion only (`TeardownOK`). The system's own objects, which all
  bindings ask for, are on the skip lists of the calls made for the last pair.
  `SyncRestsOnlyDeployed`: a sync has a create call for every kind and a cleanup call for each kind that is cleaned
  up (`SyncProgram`), whose visits reach every cluster of the binding and every
  other connected one, and whose selectors and skip lists pass over no orphan; the create calls come before any
  that may panic, so their half does not depend on `lacks`, and the two exceptions of
  `InPlace` are the secrets for which `Handled` and `RequestNeeded` ask for nothing; that
  a namespace is never "altered" and that nothing else is ever "terminating"
  (`StatusOK`) is all it needs of the past.
- `AcmeDns_proofs`: `TypeCorrect`, `OnlyAddsEntries`, `HonestCache`. The invariant
  says that every copy with the store's version is the stored data plus entries
  bindings lack, with the stored credentials (`CopiesOK`), that the copies under
  way end with the store (`WatchOK`), and when the cache may be ahead (`HonestOK`).

Model-checked only: the liveness properties (`VmiConverges`, `SecretConverges`,
`DashboardsConverge`, `StraysCollected`, the fairness half of `VmiRefines`,
`SyncRecurs`, `PairsFollowModels`, `DeletedVmiCollected`, `MainSettles`,
`SyncConverges`, `TeardownCollects`, `CreatesSurvive`, `EntriesAppear`: the provers do not handle
fairness and ENABLED), and everything the violation runs refute. Every invariant
and every action property of the passing runs is a theorem. `RestsOnlySettled` and
`SyncRestsOnlyDeployed` are the part of convergence that is safety: should the loop
or the syncs come to rest, they rest in the right place.

## Not modelled

- Logging, flags, test fakes, the contents of the constant Kubernetes objects and
  of the dashboards, `startController=false` (main then waits for ever).
- Pure functions of the environment (`pkg/util/env.go`): the models take every
  configuration; unit tests reach the functions.
- What the four methods that `managedPackage` lacks would do to custom resources,
  service entries and ingresses: there is no code for it.
- Helpers that make one request and keep nothing (`CreateGenericSecret`,
  `GetSecret`, `UpdateSecret`, `DeleteDeployment` and the like).
- In `ManagedResources`, requests that take effect although their answer is lost
  (`GlobalEntities` has them; here they would enlarge the instance); DaemonSets (see
  `Startup`); the local part of a sync (see `GlobalEntities` and `AcmeDns`) and of a
  deletion, except that it may end it.
- `diff.Diff` (an external module) is taken to be empty exactly if the two objects
  agree in what the code compares.
- Two bindings that name the same application namespace: nothing in the code
  prevents it (`checkForDuplicateNamespaces` has no caller), and then they do
  delete each other's namespace. `ObjectsAssumption` excludes it.
- `Startup` and `GlobalEntities` in one specification: all `Startup` does to the
  loop is to freeze the local caches after a signal, and the safety properties of
  the loop hold for caches that lag by any amount.
