------------------------------ MODULE Startup ------------------------------
(***************************************************************************)
(* The life of an operator process: main (cmd/verrazzano-operator/main.go),*)
(* NewController, Run and processManagedCluster                            *)
(* (pkg/controller/controller.go) on the main goroutine, the signal        *)
(* handler (pkg/signals/signal.go), the informers of the local cluster and *)
(* of the managed-cluster connection, and the one pass in which            *)
(* createManagedClusterResourcesForBinding installs the node exporter for  *)
(* the system binding.  Processes are replaced when they exit, perhaps by  *)
(* a newer version of the operator that wants other contents.              *)
(***************************************************************************)
EXTENDS Naturals, Sequences, FiniteSets

CONSTANTS
    MaxFaults,      \* bound: failing API calls
    MaxTampering,   \* bound: objects deleted by somebody else
    MaxVersion      \* bound: versions of the operator that are started

ASSUME ConstantsAssumption ==
    MaxFaults \in Nat /\ MaxTampering \in Nat /\ MaxVersion \in Nat \ {0}

\* What the pass creates for the system binding, one object of each kind, in
\* its order.  Its other steps (Secrets, ConfigMaps, Deployments) have nothing
\* to create for this binding.
PassOrder_DaemonSetFirst ==
    <<"daemonSet", "namespace", "serviceAccount", "clusterRole", "clusterRoleBinding",
      "service">>
PassOrder ==
    <<"namespace", "serviceAccount", "clusterRole", "clusterRoleBinding",
      "service", "daemonSet">>

Kinds == {"namespace", "serviceAccount", "clusterRole", "clusterRoleBinding",
          "service", "daemonSet"}

\* Objects that live in the monitoring namespace.
Namespaced == {"serviceAccount", "service", "daemonSet"}

VARIABLES
    pc,             \* where the main goroutine is
    step,           \* next step of the pass
    signals,        \* shutdown signals handled by this process
    loop,           \* the global entities goroutine has been started
    localSynced,    \* informers of the local cluster with HasSynced
    managedSynced,  \* informers of the managed cluster connection with HasSynced
    store,          \* operator version that wrote each object, 0: absent
    terminating,    \* the namespace is being deleted, with what is in it
    cache,          \* the same, as the listers of the connection show it
    version,        \* version of the running operator
    clean,          \* nothing failed or was tampered with since the connection
    faults, tampering   \* what is left of the bounds

process == <<pc, step, signals, loop, localSynced, managedSynced, cache, version>>
cluster == <<store, terminating>>
vars == <<process, cluster, clean, faults, tampering>>

PCs == {"setup", "syncLocal", "serviceAccount", "connect", "syncManaged", "pass",
        "blocked", "exited"}

TypeOK ==
    /\ pc \in PCs
    /\ step \in 1..Len(PassOrder) + 1
    /\ signals \in 0..2
    /\ loop \in BOOLEAN /\ clean \in BOOLEAN /\ terminating \in BOOLEAN
    /\ localSynced \subseteq {"secret", "vmi"}
    /\ managedSynced \subseteq Kinds
    /\ store \in [Kinds -> 0..MaxVersion] /\ cache \in [Kinds -> 0..MaxVersion]
    /\ version \in 1..MaxVersion
    /\ faults \in 0..MaxFaults /\ tampering \in 0..MaxTampering

\* A process as it starts, before its signal handler is installed.
Fresh ==
    /\ pc = "setup" /\ step = 1 /\ signals = 0 /\ loop = FALSE
    /\ localSynced = {} /\ managedSynced = {}
    /\ cache = [k \in Kinds |-> 0]

Init ==
    /\ Fresh
    /\ store = [k \in Kinds |-> 0]
    /\ version = 1 /\ clean = TRUE /\ terminating = FALSE
    /\ faults = MaxFaults /\ tampering = MaxTampering

Goto(next) == pc' = next
Fault == faults > 0 /\ faults' = faults - 1

-----------------------------------------------------------------------------
(* The main goroutine *)

\* main and NewController up to setupSignalHandler and the start of the
\* informer factories.
SetUp ==
    /\ pc = "setup" /\ Goto("syncLocal")
    /\ UNCHANGED <<step, signals, loop, localSynced, managedSynced, cache, version,
                   cluster, clean, faults, tampering>>

\* NewController waits on controller.stopCh, which is nil, for the secret and
\* the VMI informer; then it starts the loop, and main calls Run.
SyncLocal_NeedsUnstarted ==
    /\ pc = "syncLocal" /\ localSynced = {"secret", "vmi", "pod"}
    /\ loop' = TRUE /\ Goto("serviceAccount")
    /\ UNCHANGED <<step, signals, localSynced, managedSynced, cache, version,
                   cluster, clean, faults, tampering>>
SyncLocal ==
    /\ pc = "syncLocal" /\ localSynced = {"secret", "vmi"}
    /\ loop' = TRUE /\ Goto("serviceAccount")
    /\ UNCHANGED <<step, signals, localSynced, managedSynced, cache, version,
                   cluster, clean, faults, tampering>>

\* processManagedCluster reads the operator's ServiceAccount and builds the
\* connection; if either fails it returns, and Run waits on the nil channel.
GetServiceAccount ==
    /\ pc = "serviceAccount"
    /\ \/ Goto("connect") /\ UNCHANGED <<clean, faults>>
       \/ Fault /\ clean' = FALSE /\ Goto("blocked")
    /\ UNCHANGED <<step, signals, loop, localSynced, managedSynced, cache, version,
                   cluster, tampering>>

\* BuildManagedClusterConnection starts the connection's informers.
BuildManagedClusterConnection ==
    /\ pc = "connect"
    /\ \/ clean' = ~terminating /\ Goto("syncManaged") /\ UNCHANGED faults
       \/ Fault /\ clean' = FALSE /\ Goto("blocked")
    /\ UNCHANGED <<step, signals, loop, localSynced, managedSynced, cache, version,
                   cluster, tampering>>

\* Of the informers whose listers the pass reads, processManagedCluster waits
\* for the namespace informer alone.
SyncManaged ==
    /\ pc = "syncManaged" /\ "namespace" \in managedSynced
    /\ Goto("pass")
    /\ UNCHANGED <<step, signals, loop, localSynced, managedSynced, cache, version,
                   cluster, clean, faults, tampering>>

\* The API server refuses to create an object that exists, or one in a namespace
\* that does not exist or is being deleted.
Creatable(k) ==
    store[k] = 0 /\ (k \in Namespaced => store["namespace"] # 0 /\ ~terminating)

\* What the store holds after the create-or-update of one object: Create when
\* the lister has nothing, Update when the lister shows other content (refused
\* if it is gone).  A namespace that exists is left alone, also one that is
\* being deleted.
Ensured_NoUpdate(k) ==
    IF cache[k] = 0 /\ Creatable(k) THEN version ELSE store[k]
Ensured(k) ==
    CASE cache[k] = 0 ->
           IF Creatable(k) THEN version ELSE store[k]
      [] cache[k] # 0 /\ k # "namespace" /\ cache[k] # version ->
           IF store[k] # 0 THEN version ELSE 0
      [] OTHER -> store[k]

\* One of the Create... calls of createManagedClusterResourcesForBinding.  An
\* error, the API server's or a refusal, is logged and the next call made.
Create(k) ==
    /\ pc = "pass" /\ step <= Len(PassOrder) /\ PassOrder[step] = k
    /\ \/ store' = [store EXCEPT ![k] = Ensured(k)] /\ UNCHANGED <<clean, faults>>
       \/ Fault /\ clean' = FALSE /\ UNCHANGED store
    /\ step' = step + 1
    /\ UNCHANGED <<pc, signals, loop, localSynced, managedSynced, cache, version,
                   terminating, tampering>>

CreateNamespaces == Create("namespace")
CreateServiceAccounts == Create("serviceAccount")
CreateClusterRoles == Create("clusterRole")
CreateClusterRoleBindings == Create("clusterRoleBinding")
CreateServices == Create("service")
CreateDaemonSets == Create("daemonSet")

PassStep ==
    \/ CreateNamespaces \/ CreateServiceAccounts \/ CreateClusterRoles
    \/ CreateClusterRoleBindings \/ CreateServices \/ CreateDaemonSets

\* Run then receives from c.stopCh, which nobody ever sets: it blocks forever.
PassDone ==
    /\ pc = "pass" /\ step > Len(PassOrder)
    /\ Goto("blocked")
    /\ UNCHANGED <<step, signals, loop, localSynced, managedSynced, cache, version,
                   cluster, clean, faults, tampering>>

Main == \/ SetUp \/ SyncLocal \/ GetServiceAccount \/ BuildManagedClusterConnection
        \/ SyncManaged \/ PassStep \/ PassDone

-----------------------------------------------------------------------------
(* Other goroutines *)

\* The local informers run until the stop channel of the signal handler closes.
DeliverLocal(i) ==
    /\ pc \notin {"setup", "exited"} /\ signals = 0
    /\ i \notin localSynced /\ localSynced' = localSynced \cup {i}
    /\ UNCHANGED <<pc, step, signals, loop, managedSynced, cache, version,
                   cluster, clean, faults, tampering>>

\* The connection's informers were given the nil channel and never stop.
DeliverManaged(k) ==
    /\ pc \in {"syncManaged", "pass", "blocked"}
    /\ k \notin managedSynced \/ cache[k] # store[k]
    /\ managedSynced' = managedSynced \cup {k}
    /\ cache' = [cache EXCEPT ![k] = store[k]]
    /\ UNCHANGED <<pc, step, signals, loop, localSynced, version,
                   cluster, clean, faults, tampering>>

\* SIGTERM or SIGINT: before the handler is installed the process dies; the
\* first signal closes the handler's stop channel; the second one exits.
Signal_NeverExits ==
    /\ pc # "exited"
    /\ UNCHANGED pc /\ signals' = signals + 1
    /\ UNCHANGED <<step, loop, localSynced, managedSynced, cache, version,
                   cluster, clean, faults, tampering>>
Signal ==
    /\ pc # "exited"
    /\ IF pc = "setup" \/ signals = 1
         THEN Goto("exited") /\ signals' = 2
         ELSE UNCHANGED pc /\ signals' = 1
    /\ UNCHANGED <<step, loop, localSynced, managedSynced, cache, version,
                   cluster, clean, faults, tampering>>

\* The cluster starts the next process, a newer operator.
Replace ==
    /\ pc = "exited" /\ version < MaxVersion
    /\ pc' = "setup" /\ step' = 1 /\ signals' = 0 /\ loop' = FALSE
    /\ localSynced' = {} /\ managedSynced' = {}
    /\ cache' = [k \in Kinds |-> 0]
    /\ version' = version + 1
    /\ UNCHANGED <<cluster, clean, faults, tampering>>

\* Somebody deletes an object.  A namespace stays, terminating, until what is in
\* it has been deleted.
Tamper ==
    /\ tampering > 0 /\ tampering' = tampering - 1
    /\ \/ /\ \E k \in Kinds \ {"namespace"} :
               store[k] # 0 /\ store' = [store EXCEPT ![k] = 0]
          /\ UNCHANGED terminating
       \/ /\ store["namespace"] # 0 /\ ~terminating /\ terminating' = TRUE
          /\ UNCHANGED store
    /\ clean' = FALSE
    /\ UNCHANGED <<process, faults>>

\* The cluster deletes what is in a terminating namespace, then the namespace.
Terminate(k) ==
    /\ terminating /\ store[k] # 0
    /\ k \in Namespaced \/ (k = "namespace" /\ \A j \in Namespaced : store[j] = 0)
    /\ store' = [store EXCEPT ![k] = 0]
    /\ terminating' = (k # "namespace")
    /\ UNCHANGED <<process, clean, faults, tampering>>

Informers ==
    \/ \E i \in {"secret", "vmi"} : DeliverLocal(i)
    \/ \E k \in Kinds : DeliverManaged(k)

Next ==
    \/ Main \/ Informers \/ Signal \/ Replace \/ Tamper
    \/ \E k \in Kinds : Terminate(k)

\* The main goroutine runs when it can, informers get their initial lists.
Fairness ==
    /\ WF_vars(Main)
    /\ \A i \in {"secret", "vmi"} : WF_vars(DeliverLocal(i))
    /\ \A k \in Kinds : WF_vars(DeliverManaged(k))

Spec == Init /\ [][Next]_vars /\ Fairness

-----------------------------------------------------------------------------
(* Properties *)

\* If nothing failed, the pass leaves every object of the node exporter in
\* place, although each step goes by a lister that may not have been filled.
PassComplete ==
    pc = "blocked" /\ clean => \A k \in Kinds : store[k] # 0

\* In a pass without errors or interference, a step leaves the object with the
\* content of the running operator exactly if its lister had been filled when it
\* was read, or there was no object, or it was up to date already: the one way
\* an old object survives is that its informer was slower than the pass.
UpdatesIfListed ==
    [][\A k \in Kinds \ {"namespace"} : Create(k) /\ clean' =>
         (store'[k] = version <=> k \in managedSynced \/ store[k] \in {0, version})]_vars

\* A process that gets no signal starts its loop and comes to the end of
\* processManagedCluster, with or without API errors.
MainSettles ==
    [](pc = "setup" => <>(loop /\ pc = "blocked") \/ <>(signals > 0))

\* "creates/updates": if nothing failed, every object the pass may update has
\* the content of the running operator.
PassUpdates ==
    pc = "blocked" /\ clean => \A k \in Kinds \ {"namespace"} : store[k] = version

\* "It will block until stopCh is closed": after a shutdown signal Run returns
\* (or the process exits).
GracefulShutdown ==
    signals = 1 ~> pc = "exited"
=============================================================================
