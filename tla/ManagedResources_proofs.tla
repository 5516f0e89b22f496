----------------------- MODULE ManagedResources_proofs -----------------------
(***************************************************************************)
(* Proofs about ManagedResources, for any bindings, clusters and objects:  *)
(* its type invariant, and that handlers neither delete what another       *)
(* registered pair wants nor use a connection that is not there.           *)
(***************************************************************************)
EXTENDS ManagedResources, FiniteSetTheorems, SequenceTheorems, TLAPS

\* The handlers' calls: a sync creates and then cleans up, a deletion deletes
\* the binding's own objects and, for the last binding, the shared ones.
OpsOf(phase) ==
    IF phase = "sync" THEN {"create", "cleanup"}
    ELSE IF phase = "teardown" THEN {"delete"} ELSE {"deleteShared"}

\* What holds of the elements of two sequences holds of their concatenation's.
LEMMA ConcatElement ==
    ASSUME NEW S, NEW s \in Seq(S), NEW t \in Seq(S), NEW k \in 1..Len(s \o t)
    PROVE  (s \o t)[k] \in S
<1>1. s \o t \in Seq(S)
  OBVIOUS
<1> QED
  BY <1>1, ElementOfSeq

\* Every call of a handler's program is one of its operations.
LEMMA ProgramCalls ==
    ASSUME NEW phase \in Phases, NEW k \in 1..Len(Program[phase])
    PROVE  Program[phase][k] \in Calls /\ Program[phase][k].op \in OpsOf(phase)
<1> DEFINE SyncCalls == {call \in Calls : call.op \in OpsOf("sync")}
<1>1. CASE phase = "sync"
  <2>1. Program[phase] = CreateCalls \o CleanupCalls
    BY <1>1 DEF Program
  <2>2. CreateCalls \in Seq(SyncCalls)
    BY DEF CreateCalls, Call, Calls, Kinds, OpsOf, CreateNamespaces, CreateSecrets,
           CreateServiceAccounts, CreateConfigMaps, CreateClusterRoles,
           CreateClusterRoleBindings, CreateDeployments, CreateServices
  <2>3. CleanupCalls \in Seq(SyncCalls)
    BY DEF CleanupCalls, Call, Calls, Kinds, OpsOf, CleanupOrphanedCustomResources,
           CleanupOrphanedServices, CleanupOrphanedDeployments,
           CleanupOrphanedServiceEntries, CleanupOrphanedIngresses,
           CleanupOrphanedClusterRoleBindings, CleanupOrphanedClusterRoles,
           CleanupOrphanedConfigMaps, CleanupOrphanedNamespaces
  <2>4. k \in 1..Len(CreateCalls \o CleanupCalls)
    BY <2>1
  <2> HIDE DEF SyncCalls
  <2>5. (CreateCalls \o CleanupCalls)[k] \in SyncCalls
    BY <2>2, <2>3, <2>4, ConcatElement
  <2> QED
    BY <1>1, <2>1, <2>5 DEF SyncCalls
<1> USE DEF DeleteCustomResources, DeleteServices, DeleteDeployments,
            DeleteClusterRoleBindings, DeleteClusterRoles, DeleteNamespaces
<1>2. CASE phase = "teardown"
  BY <1>2 DEF Program, DeleteCalls, Call, Calls, Kinds, OpsOf
<1>3. CASE phase = "last"
  BY <1>3 DEF Program, LastCalls, Call, Calls, Kinds, OpsOf
<1> QED
  BY <1>1, <1>2, <1>3 DEF Phases

\* What a visit may be aimed at, for a handler j that makes the call, given the
\* registered pairs mbs.
Sound(v, call, j, mbs) ==
    /\ call.op = "create" => v.scope = "wanted" /\ v.cluster \in ManagedClusters(mbs[j.binding])
    /\ call.op = "cleanup" =>
         \/ v.scope = "unexpected"
         \/ v.scope = "labelled" /\ v.cluster \notin ManagedClusters(mbs[j.binding])
         \/ v.scope = "shared" /\ ~IsClusterInBinding(v.cluster, mbs)
    /\ call.op = "delete" => v.scope = "labelled"
    /\ call.op = "deleteShared" => v.scope = "shared"

\* The visits a call plans are of the right kind.
LEMMA VisitsSound ==
    ASSUME NEW call \in Calls, NEW mbs \in [Bindings -> Pair], NEW j \in Jobs,
           connections \subseteq Clusters
    PROVE  /\ Visits(call, mbs, j.binding) \subseteq Visit
           /\ \A v \in Visits(call, mbs, j.binding) : Sound(v, call, j, mbs)
BY DEF Visits, Sound

-----------------------------------------------------------------------------
(* The inductive invariant *)

\* Pairs come from the bindings' contents, and a binding that is marked for
\* deletion exists.
PairsOK ==
    /\ \A b \in Bindings : api[b] \in Specs[b] \cup {NoPair}
    /\ \A b \in Bindings : pairs[b] \in Specs[b] \cup {NoPair}
    /\ \A b \in deleting : api[b] # NoPair

\* A handler works on a registered pair, a sync with its clusters connected, and
\* the shared objects are deleted for the only pair there is.
JobOK ==
    /\ job # Idle => pairs[job.binding] # NoPair
    /\ job.phase = "sync" => Available(pairs[job.binding])
    /\ job.phase = "last" => Registered \subseteq {job.binding}

\* The visits are those of the call at hand, and what is listed for deletion
\* matches the selector of the visit.
WorkOK ==
    /\ step # 0 => job \in Jobs /\ step \in 1..Len(Program[job.phase])
    /\ \A v \in left : step # 0 /\ Sound(v, ThisCall, job, pairs)
    /\ visit # NoVisit => step # 0 /\ Sound(visit, ThisCall, job, pairs)
    /\ listed # {} \/ waiting # {} => visit # NoVisit
    /\ ~Creating => \A o \in listed : Matches(o, visit.scope, visit.cluster, job.binding)

IInv == TypeOK /\ PairsOK /\ JobOK /\ WorkOK

HandlerType ==
    /\ job \in Jobs \cup {Idle} /\ step \in Nat
    /\ left \subseteq Visit /\ visit \in Visit \cup {NoVisit}
    /\ listed \subseteq Objects /\ waiting \subseteq Namespaces

LEMMA JobNotIdle == Idle \notin Jobs
BY DEF Idle, Jobs, Phases

LEMMA PhaseOfJob ==
    ASSUME job \in Jobs \cup {Idle}, job.phase \in Phases
    PROVE  job \in Jobs
BY DEF Idle, Jobs, Phases

LEMMA VisitIsNotNone == NoVisit \notin Visit
BY DEF NoVisit, Visit, Scopes

LEMMA ProgramLength ==
    ASSUME NEW phase \in Phases PROVE Len(Program[phase]) \in Nat
BY DEF Program, CreateCalls, CleanupCalls, DeleteCalls, LastCalls, Call, Phases

\* Entering a call sets up visits that fit it.
LEMMA Entering ==
    ASSUME connections \subseteq Clusters, NEW i \in Nat, NEW j \in Jobs,
           pairs' \in [Bindings -> Pair], EnterAfter(i, j, pairs')
    PROVE  HandlerType' /\ WorkOK' /\ job' = j
<1>1. job' = j /\ visit' = NoVisit /\ listed' = {} /\ waiting' = {}
  BY DEF EnterAfter
<1>2. CASE step' = 0 /\ left' = {}
  BY <1>1, <1>2 DEF HandlerType, WorkOK
<1>3. CASE ~(step' = 0 /\ left' = {})
  <2>1. PICK k \in Remaining(j.phase, i) :
           step' = k /\ left' = Visits(Program[j.phase][k], pairs', j.binding)
    BY <1>3 DEF EnterAfter
  <2>2. j.phase \in Phases
    BY DEF Jobs
  <2>3. k \in Nat /\ k # 0 /\ k \in 1..Len(Program[j.phase])
    BY <2>1, <2>2, ProgramLength DEF Remaining
  <2>4. Program[j.phase][k] \in Calls
    BY <2>2, <2>3, ProgramCalls
  <2>5. left' \subseteq Visit /\ \A v \in left' : Sound(v, Program[j.phase][k], j, pairs')
    BY <2>1, <2>4, VisitsSound
  <2>6. ThisCall' = Program[j.phase][k]
    BY <1>1, <2>1 DEF ThisCall
  <2>7. HandlerType'
    BY <1>1, <2>1, <2>3, <2>5 DEF HandlerType
  <2>8. \A v \in left' : Sound(v, ThisCall, job, pairs)'
    BY <1>1, <2>5, <2>6
  <2> QED
    BY <1>1, <2>1, <2>3, <2>7, <2>8 DEF WorkOK
<1> QED
  BY <1>1, <1>2, <1>3

\* A handler that returns leaves nothing behind.
LEMMA Returning ==
    ASSUME Return
    PROVE  HandlerType' /\ WorkOK' /\ JobOK'
BY DEF Return, HandlerType, WorkOK, JobOK, Idle

\* A call that goes on keeps to its visits.
LEMMA GoingOn ==
    ASSUME IInv, pairs' = pairs, connections' = connections, step # 0,
           NEW v \in left \cup {visit}, NEW objects \in SUBSET Objects,
           NEW awaited \in SUBSET Namespaces, NEW others \in SUBSET left,
           v # NoVisit,
           ~Creating => \A o \in objects : Matches(o, v.scope, v.cluster, job.binding),
           GoOn(v, objects, awaited, others)
    PROVE  HandlerType' /\ WorkOK' /\ job' = job
<1>1. job \in Jobs /\ step \in Nat /\ connections \subseteq Clusters
      /\ pairs \in [Bindings -> Pair] /\ left \subseteq Visit
  BY DEF IInv, TypeOK, WorkOK
<1>2. CASE EnterAfter(step, job, pairs)
  BY <1>1, <1>2, Entering
<1>3. CASE ~EnterAfter(step, job, pairs)
  <2>1. /\ visit' = v /\ listed' = objects /\ waiting' = awaited /\ left' = others
        /\ job' = job /\ step' = step
    BY <1>3 DEF GoOn
  <2>2. v \in Visit
    BY <1>1 DEF IInv, TypeOK
  <2>3. HandlerType'
    BY <1>1, <2>1, <2>2 DEF HandlerType
  <2>4. ThisCall' = ThisCall /\ (Creating' <=> Creating)
    BY <2>1 DEF ThisCall, Creating
  <2>5. \A w \in left \cup {v} : Sound(w, ThisCall, job, pairs)
    BY DEF IInv, WorkOK
  <2>6. \A w \in left' \cup {visit'} : Sound(w, ThisCall, job, pairs)'
    BY <2>1, <2>4, <2>5
  <2>7. ~Creating' => \A o \in listed' : Matches(o, visit.scope, visit.cluster, job.binding)'
    BY <2>1, <2>4 DEF Matches, Expected
  <2>8. step' # 0 => job' \in Jobs /\ step' \in 1..Len(Program[job'.phase])
    BY <2>1 DEF IInv, WorkOK
  <2> QED
    BY <2>1, <2>3, <2>6, <2>7, <2>8 DEF WorkOK
<1> QED
  BY <1>2, <1>3

LEMMA NoPairIsPair == NoPair \in Pair
BY DEF NoPair, Pair

\* What a visit handles are objects, and those to delete match its selector.
LEMMA HandledOK ==
    ASSUME IInv, NEW v \in left, step # 0
    PROVE  /\ Handled(ThisCall, v, job.binding) \subseteq Objects
           /\ ~Creating => \A o \in Handled(ThisCall, v, job.binding) :
                              Matches(o, v.scope, v.cluster, job.binding)
<1>1. pairs \in [Bindings -> Pair] /\ job \in Jobs /\ v \in Visit
  BY DEF IInv, TypeOK, WorkOK
<1>2. pairs[job.binding][v.cluster] \subseteq Objects
  BY <1>1 DEF Jobs, Visit, Pair
<1> QED
  BY <1>2 DEF Handled, Creating

\* A job that goes on with the same pairs and connections stays sound.
LEMMA JobKept ==
    ASSUME JobOK, job' = job, pairs' = pairs, connections' = connections
    PROVE  JobOK'
BY DEF JobOK, Available, Registered

\* The rest of the invariant, for a step of a running handler that leaves the
\* pairs alone.
LEMMA RunningKeeps ==
    ASSUME IInv, Surroundings, pairs' = pairs, HandlerType', WorkOK',
           job' = job \/ JobOK',
           store' \in [Clusters -> [Objects -> Status]], mishaps' \in Nat
    PROVE  IInv'
<1>1. JobOK'
  BY JobKept DEF IInv, Surroundings
<1>2. TypeOK'
  BY DEF IInv, TypeOK, Surroundings, HandlerType
<1>3. PairsOK'
  BY DEF IInv, PairsOK, Surroundings
<1> QED
  BY <1>1, <1>2, <1>3 DEF IInv

\* A failed call.
LEMMA Failing ==
    ASSUME IInv, Surroundings, pairs' = pairs, step # 0, Failed
    PROVE  HandlerType' /\ WorkOK' /\ (job' = job \/ JobOK')
<1>1. CASE job.phase = "sync"
  <2>1. /\ job \in Jobs /\ step \in Nat /\ connections \subseteq Clusters
        /\ pairs \in [Bindings -> Pair] /\ EnterAfter(step, job, pairs)
    BY <1>1 DEF IInv, TypeOK, WorkOK, Failed
  <2> QED
    BY <2>1, Entering
<1>2. CASE job.phase # "sync"
  BY <1>2, Returning DEF Failed
<1> QED
  BY <1>1, <1>2

LEMMA Rejecting ==
    ASSUME IInv, Surroundings, pairs' = pairs, step # 0, NEW refused \in BOOLEAN,
           Rejected(refused)
    PROVE  IInv'
<1>1. store' = store /\ Failed /\ mishaps' \in Nat
  BY DEF Rejected, Mishap, IInv, TypeOK
<1>2. store' \in [Clusters -> [Objects -> Status]]
  BY <1>1 DEF IInv, TypeOK
<1> QED
  BY <1>1, <1>2, Failing, RunningKeeps

\* A request that succeeds.
LEMMA Accepting ==
    ASSUME IInv, Surroundings, pairs' = pairs, NEW o \in listed, NEW status \in Status,
           NEW awaited \in SUBSET Namespaces, Accepted(o, status, awaited)
    PROVE  IInv'
<1>1. visit # NoVisit /\ step # 0 /\ visit \in Visit /\ listed \subseteq Objects
  BY DEF IInv, TypeOK, WorkOK
<1>2. GoOn(visit, listed \ {o}, awaited, left) /\ mishaps' = mishaps
      /\ store' = [store EXCEPT ![visit.cluster][o] = status]
  BY DEF Accepted
<1>3. ~Creating => \A p \in listed \ {o} : Matches(p, visit.scope, visit.cluster, job.binding)
  BY DEF IInv, WorkOK
<1>4. HandlerType' /\ WorkOK' /\ job' = job
  BY <1>1, <1>2, <1>3, GoingOn DEF Surroundings
<1>5. store' \in [Clusters -> [Objects -> Status]] /\ mishaps' \in Nat
  BY <1>1, <1>2 DEF IInv, TypeOK, Visit
<1> QED
  BY <1>4, <1>5, RunningKeeps

\* Only one pair registered: it is the given one.
LEMMA TheOnlyPair ==
    ASSUME Cardinality(Registered) = 1, NEW b \in Registered
    PROVE  Registered \subseteq {b}
<1>1. IsFiniteSet(Registered)
  BY ConstantsAssumption, FS_Subset DEF Registered
<1>2. PICK x : Registered = {x}
  BY <1>1, FS_Singleton
<1> QED
  BY <1>2

-----------------------------------------------------------------------------
(* Each action preserves the invariant *)

LEMMA InitOK == Init => IInv
<1> SUFFICES ASSUME Init PROVE IInv
  OBVIOUS
<1>1. TypeOK
  BY ConstantsAssumption, NoPairIsPair DEF Init, TypeOK, Empty, Status
<1>2. PairsOK
  BY DEF Init, PairsOK
<1>3. JobOK /\ WorkOK
  BY DEF Init, JobOK, WorkOK, Idle
<1> QED
  BY <1>1, <1>2, <1>3 DEF IInv

LEMMA StartSyncOK ==
    ASSUME IInv, NEW b \in Bindings, StartSync(b) PROVE IInv'
<1>1. /\ job = Idle /\ api[b] # NoPair /\ Surroundings
      /\ pairs' = [pairs EXCEPT ![b] = api[b]] /\ store' = store /\ mishaps' = mishaps
  BY DEF StartSync
<1>2. /\ pairs' \in [Bindings -> Pair] /\ api \in [Bindings -> Pair]
      /\ pairs \in [Bindings -> Pair] /\ connections \subseteq Clusters
  BY <1>1 DEF IInv, TypeOK
<1>3. PairsOK'
  BY <1>1, <1>2 DEF IInv, PairsOK, Surroundings
<1>4. HandlerType' /\ WorkOK' /\ JobOK'
  <2>1. CASE Available(api[b])
    <3> DEFINE j == [binding |-> b, phase |-> "sync"]
    <3>1. j \in Jobs /\ EnterAfter(0, j, pairs')
      BY <2>1 DEF StartSync, Jobs, Phases
    <3>2. HandlerType' /\ WorkOK' /\ job' = j
      BY <1>2, <3>1, Entering
    <3>3. pairs'[b] = api[b] /\ connections' = connections
      BY <1>1, <1>2 DEF Surroundings
    <3>4. job'.binding = b /\ job'.phase = "sync"
      BY <3>2
    <3>5. JobOK'
      BY <1>1, <2>1, <3>3, <3>4 DEF JobOK, Available
    <3> QED
      BY <3>2, <3>5
  <2>2. CASE ~Available(api[b])
    <3>1. UNCHANGED handler
      BY <2>2 DEF StartSync
    <3>2. step = 0 /\ left = {} /\ visit = NoVisit /\ listed = {} /\ waiting = {}
      BY <1>1, JobNotIdle DEF IInv, WorkOK
    <3> QED
      BY <1>1, <3>1, <3>2 DEF handler, HandlerType, WorkOK, JobOK, Idle
  <2> QED
    BY <2>1, <2>2
<1>5. TypeOK'
  BY <1>1, <1>2, <1>4 DEF IInv, TypeOK, HandlerType, Surroundings
<1> QED
  BY <1>3, <1>4, <1>5 DEF IInv

LEMMA StartTeardownOK ==
    ASSUME IInv, NEW b \in Bindings, StartTeardown(b) PROVE IInv'
<1>1. /\ job = Idle /\ b \in deleting /\ Surroundings
      /\ pairs' = [pairs EXCEPT ![b] = DeletedPair(b)] /\ store' = store
  BY DEF StartTeardown
<1>2. /\ api \in [Bindings -> Pair] /\ pairs \in [Bindings -> Pair]
      /\ connections \subseteq Clusters /\ api[b] # NoPair
  BY <1>1 DEF IInv, TypeOK, PairsOK
<1>3. /\ DeletedPair(b) \in Pair /\ DeletedPair(b) # NoPair
      /\ DeletedPair(b) \in Specs[b] \cup {NoPair}
  BY <1>2 DEF DeletedPair, IInv, PairsOK
<1>4. pairs' \in [Bindings -> Pair] /\ pairs'[b] = DeletedPair(b)
  BY <1>1, <1>2, <1>3
<1>5. PairsOK'
  BY <1>1, <1>2, <1>3 DEF IInv, PairsOK, Surroundings
<1>6. HandlerType' /\ WorkOK' /\ JobOK' /\ mishaps' \in Nat
  <2> DEFINE j == [binding |-> b, phase |-> "teardown"]
  <2>1. CASE EnterAfter(0, j, pairs') /\ UNCHANGED mishaps
    <3>1. j \in Jobs
      BY DEF Jobs, Phases
    <3>2. HandlerType' /\ WorkOK' /\ job' = j
      BY <1>2, <1>4, <2>1, <3>1, Entering
    <3>3. job'.binding = b /\ job'.phase = "teardown"
      BY <3>2
    <3>4. JobOK'
      BY <1>3, <1>4, <3>3 DEF JobOK
    <3> QED
      BY <2>1, <3>2, <3>4 DEF IInv, TypeOK
  <2>2. CASE Mishap /\ UNCHANGED handler
    <3>1. step = 0 /\ left = {} /\ visit = NoVisit /\ listed = {} /\ waiting = {}
      BY <1>1, JobNotIdle DEF IInv, WorkOK
    <3>2. mishaps' \in Nat
      BY <2>2 DEF Mishap, IInv, TypeOK
    <3> QED
      BY <1>1, <2>2, <3>1, <3>2 DEF handler, HandlerType, WorkOK, JobOK, Idle
  <2> QED
    BY <2>1, <2>2 DEF StartTeardown
<1>7. TypeOK'
  BY <1>1, <1>4, <1>6 DEF IInv, TypeOK, HandlerType, Surroundings
<1> QED
  BY <1>5, <1>6, <1>7 DEF IInv

LEMMA VisitClusterOK ==
    ASSUME IInv, NEW v \in left, VisitCluster(v) PROVE IInv'
<1> DEFINE handled == Handled(ThisCall, v, job.binding)
<1>1. PICK unread \in SUBSET Secrets :
         /\ IF unread = {} THEN UNCHANGED mishaps ELSE Mishap /\ Creating
         /\ GoOn(v, handled \ unread, {}, left \ {v})
  BY DEF VisitCluster
<1>2. /\ step # 0 /\ Surroundings /\ pairs' = pairs /\ store' = store
      /\ mishaps' \in Nat
  BY <1>1 DEF VisitCluster, Mishap, IInv, TypeOK
<1>3. v # NoVisit
  BY VisitIsNotNone DEF IInv, TypeOK
<1>4. /\ handled \subseteq Objects
      /\ ~Creating => \A o \in handled : Matches(o, v.scope, v.cluster, job.binding)
  BY <1>2, HandledOK
<1> HIDE DEF handled
<1>5. HandlerType' /\ WorkOK' /\ job' = job
  BY <1>1, <1>2, <1>3, <1>4, GoingOn DEF Surroundings
<1> QED
  BY <1>2, <1>5, RunningKeeps DEF IInv, TypeOK

LEMMA SkipCallOK ==
    ASSUME IInv, SkipCall PROVE IInv'
<1>1. /\ step # 0 /\ Surroundings /\ pairs' = pairs /\ store' = store /\ mishaps' = mishaps
      /\ EnterAfter(step, job, pairs)
  BY DEF SkipCall
<1>2. /\ job \in Jobs /\ step \in Nat /\ connections \subseteq Clusters
      /\ pairs \in [Bindings -> Pair]
  BY <1>1 DEF IInv, TypeOK, WorkOK
<1>3. HandlerType' /\ WorkOK' /\ job' = job
  BY <1>1, <1>2, Entering
<1> QED
  BY <1>1, <1>3, RunningKeeps DEF IInv, TypeOK

LEMMA CreateListedOK ==
    ASSUME IInv, NEW o \in listed, CreateListed(o) PROVE IInv'
<1>1. Surroundings /\ pairs' = pairs /\ step # 0
  BY DEF CreateListed, Creating
<1>2. visit \in Visit /\ listed \subseteq Objects
  BY DEF IInv, TypeOK, WorkOK
<1>3. store[visit.cluster][o] \in Status /\ "wanted" \in Status
  BY <1>2 DEF IInv, TypeOK, Visit, Status
<1>4. CASE Accepted(o, store[visit.cluster][o], {})
  BY <1>1, <1>3, <1>4, Accepting
<1>5. CASE Accepted(o, "wanted", {})
  BY <1>1, <1>3, <1>5, Accepting
<1>6. ASSUME NEW refused \in BOOLEAN, Rejected(refused) PROVE IInv'
  BY <1>1, <1>6, Rejecting
<1> QED
  BY <1>4, <1>5, <1>6 DEF CreateListed, HomeReady

LEMMA DeleteListedOK ==
    ASSUME IInv, NEW o \in listed, DeleteListed(o) PROVE IInv'
<1>1. Surroundings /\ pairs' = pairs
  BY DEF DeleteListed
<1>2. step # 0
  BY DEF IInv, WorkOK
<1>3. Awaited(o) \subseteq Namespaces
  BY DEF Awaited
<1>4. CASE Accepted(o, IF o \in Namespaces THEN "terminating" ELSE "absent", Awaited(o))
  <2> DEFINE status == IF o \in Namespaces THEN "terminating" ELSE "absent"
  <2>1. status \in Status
    BY DEF Status
  <2>2. Accepted(o, status, Awaited(o))
    BY <1>4
  <2> HIDE DEF status
  <2> QED
    BY <1>1, <1>3, <2>1, <2>2, Accepting
<1>5. CASE Rejected(store[visit.cluster][o] = "absent")
  BY <1>1, <1>2, <1>5, Rejecting
<1> QED
  BY <1>4, <1>5 DEF DeleteListed

LEMMA WaitForNSDeletionOK ==
    ASSUME IInv, WaitForNSDeletion PROVE IInv'
<1>1. Surroundings /\ pairs' = pairs
  BY DEF WaitForNSDeletion
<1>2. visit # NoVisit /\ step # 0 /\ listed \subseteq Objects
  BY DEF WaitForNSDeletion, IInv, WorkOK, TypeOK
<1>3. CASE GoOn(visit, listed, {}, left) /\ UNCHANGED <<store, mishaps>>
  <2>1. ~Creating => \A p \in listed : Matches(p, visit.scope, visit.cluster, job.binding)
    BY DEF IInv, WorkOK
  <2>2. HandlerType' /\ WorkOK' /\ job' = job
    BY <1>1, <1>2, <1>3, <2>1, GoingOn DEF Surroundings
  <2> QED
    BY <1>1, <1>3, <2>2, RunningKeeps DEF IInv, TypeOK
<1>4. CASE Rejected(TRUE)
  BY <1>1, <1>2, <1>4, Rejecting
<1>5. CASE Rejected(FALSE)
  BY <1>1, <1>2, <1>5, Rejecting
<1> QED
  BY <1>3, <1>4, <1>5 DEF WaitForNSDeletion

LEMMA EndSyncOK ==
    ASSUME IInv, EndSync PROVE IInv'
<1>1. Surroundings /\ pairs' = pairs /\ store' = store /\ mishaps' = mishaps /\ Return
  BY DEF EndSync
<1> QED
  BY <1>1, Returning, RunningKeeps DEF IInv, TypeOK

LEMMA EndTeardownOK ==
    ASSUME IInv, EndTeardown PROVE IInv'
<1>1. /\ job.phase \in {"teardown", "last"} /\ Surroundings
      /\ store' = store /\ mishaps' = mishaps
  BY DEF EndTeardown
<1>2. job \in Jobs /\ connections \subseteq Clusters /\ pairs \in [Bindings -> Pair]
  BY <1>1, PhaseOfJob DEF IInv, TypeOK, Phases
<1>3. job.binding \in Bindings /\ job # Idle
  BY <1>2, JobNotIdle DEF Jobs
<1>4. CASE job.phase = "teardown" /\ Cardinality(Registered) = 1
  <2> DEFINE j == [job EXCEPT !.phase = "last"]
  <2>1. EnterAfter(0, j, pairs) /\ pairs' = pairs
    BY <1>4 DEF EndTeardown
  <2>2. j \in Jobs /\ j.binding = job.binding /\ j.phase = "last"
    BY <1>2 DEF Jobs, Phases
  <2> HIDE DEF j
  <2>3. HandlerType' /\ WorkOK' /\ job' = j
    BY <1>2, <2>1, <2>2, Entering
  <2>4. job.binding \in Registered
    BY <1>3 DEF IInv, JobOK, Registered
  <2>5. Registered \subseteq {job.binding}
    BY <1>4, <2>4, TheOnlyPair
  <2>6. job'.phase = "last" /\ job'.binding = job.binding /\ Registered' = Registered
    BY <2>1, <2>2, <2>3 DEF Registered
  <2>7. pairs'[job.binding] # NoPair
    BY <2>1, <2>4 DEF Registered
  <2>8. JobOK'
    BY <2>5, <2>6, <2>7 DEF JobOK
  <2> QED
    BY <1>1, <2>1, <2>3, <2>8, RunningKeeps DEF IInv, TypeOK
<1>5. CASE ~(job.phase = "teardown" /\ Cardinality(Registered) = 1)
  <2>1. Return /\ pairs' = [pairs EXCEPT ![job.binding] = NoPair]
    BY <1>5 DEF EndTeardown
  <2>2. HandlerType' /\ WorkOK' /\ JobOK'
    BY <2>1, Returning
  <2>3. pairs' \in [Bindings -> Pair]
    BY <1>2, <2>1, NoPairIsPair
  <2>4. PairsOK'
    BY <1>1, <1>2, <1>3, <2>1 DEF IInv, PairsOK, Surroundings
  <2>5. TypeOK'
    BY <1>1, <2>2, <2>3 DEF IInv, TypeOK, HandlerType, Surroundings
  <2> QED
    BY <2>2, <2>4, <2>5 DEF IInv
<1> QED
  BY <1>4, <1>5

\* The handler's part, for a step of the surroundings; connections only grow.
LEMMA HandlerKept ==
    ASSUME IInv, UNCHANGED <<pairs, handler>>, connections \subseteq connections'
    PROVE  HandlerType' /\ WorkOK' /\ JobOK'
<1>1. /\ job' = job /\ step' = step /\ left' = left /\ visit' = visit
      /\ listed' = listed /\ waiting' = waiting /\ pairs' = pairs
  BY DEF handler
<1>2. HandlerType'
  BY <1>1 DEF IInv, TypeOK, HandlerType
<1>3. JobOK'
  BY <1>1 DEF IInv, JobOK, Available, Registered
<1>4. WorkOK'
  BY <1>1 DEF IInv, WorkOK, ThisCall, Creating, Sound, Matches, Expected
<1> QED
  BY <1>2, <1>3, <1>4

LEMMA ConnectOK ==
    ASSUME IInv, NEW c \in Clusters, Connect(c) PROVE IInv'
<1>1. /\ UNCHANGED <<pairs, handler, sources, lacks>> /\ restarts' = restarts
      /\ mishaps' = mishaps /\ changes' = changes
      /\ api' = api /\ deleting' = deleting /\ store' = store
      /\ connections' = connections \cup {c}
  BY DEF Connect, NotHandlers
<1>2. HandlerType' /\ WorkOK' /\ JobOK'
  BY <1>1, HandlerKept
<1>3. cache' \in [Clusters -> [Objects -> Status]]
  BY DEF Connect, IInv, TypeOK, Status
<1>4. TypeOK'
  BY <1>1, <1>2, <1>3 DEF IInv, TypeOK, HandlerType
<1>5. PairsOK'
  BY <1>1 DEF IInv, PairsOK
<1> QED
  BY <1>2, <1>4, <1>5 DEF IInv

LEMMA DeliverOK ==
    ASSUME IInv, NEW c \in Clusters, NEW kind, Deliver(c, kind) PROVE IInv'
<1>1. /\ UNCHANGED <<pairs, handler, sources, lacks>> /\ restarts' = restarts
      /\ mishaps' = mishaps /\ changes' = changes
      /\ api' = api /\ deleting' = deleting /\ store' = store /\ connections' = connections
  BY DEF Deliver, NotHandlers
<1>2. HandlerType' /\ WorkOK' /\ JobOK'
  BY <1>1, HandlerKept
<1>3. cache' \in [Clusters -> [Objects -> Status]]
  BY DEF Deliver, Delivered, IInv, TypeOK
<1>4. TypeOK'
  BY <1>1, <1>2, <1>3 DEF IInv, TypeOK, HandlerType
<1>5. PairsOK'
  BY <1>1 DEF IInv, PairsOK
<1> QED
  BY <1>2, <1>4, <1>5 DEF IInv

LEMMA NamespaceGoneOK ==
    ASSUME IInv, NEW c \in Clusters, NEW n \in Namespaces, NamespaceGone(c, n) PROVE IInv'
<1>1. /\ UNCHANGED <<pairs, handler, sources, lacks>> /\ restarts' = restarts
      /\ mishaps' = mishaps /\ changes' = changes
      /\ api' = api /\ deleting' = deleting /\ cache' = cache /\ connections' = connections
  BY DEF NamespaceGone, NotHandlers
<1>2. HandlerType' /\ WorkOK' /\ JobOK'
  BY <1>1, HandlerKept
<1>3. store' \in [Clusters -> [Objects -> Status]]
  BY DEF NamespaceGone, IInv, TypeOK, Status
<1>4. TypeOK'
  BY <1>1, <1>2, <1>3 DEF IInv, TypeOK, HandlerType
<1>5. PairsOK'
  BY <1>1 DEF IInv, PairsOK
<1> QED
  BY <1>2, <1>4, <1>5 DEF IInv

LEMMA UserPutsBindingOK ==
    ASSUME IInv, NEW b \in Bindings, UserPutsBinding(b) PROVE IInv'
<1>1. /\ UNCHANGED <<pairs, handler, sources, lacks>> /\ restarts' = restarts
      /\ mishaps' = mishaps /\ store' = store
      /\ deleting' = deleting /\ cache' = cache /\ connections' = connections
      /\ b \notin deleting
  BY DEF UserPutsBinding, NotHandlers
<1>2. HandlerType' /\ WorkOK' /\ JobOK'
  BY <1>1, HandlerKept
<1>3. PICK s \in Specs[b] : api' = [api EXCEPT ![b] = s]
  BY DEF UserPutsBinding
<1>4. s \in Pair /\ s # NoPair
  BY <1>3, ConstantsAssumption
<1>5. changes' \in Nat
  BY DEF UserPutsBinding, Change, IInv, TypeOK
<1>6. TypeOK'
  BY <1>1, <1>2, <1>3, <1>4, <1>5 DEF IInv, TypeOK, HandlerType
<1>7. PairsOK'
  BY <1>1, <1>3, <1>4 DEF IInv, PairsOK, TypeOK
<1> QED
  BY <1>2, <1>6, <1>7 DEF IInv

LEMMA UserDeletesBindingOK ==
    ASSUME IInv, NEW b \in Bindings, UserDeletesBinding(b) PROVE IInv'
<1>1. /\ UNCHANGED <<pairs, handler, sources, lacks>> /\ restarts' = restarts
      /\ mishaps' = mishaps /\ store' = store
      /\ api' = api /\ cache' = cache /\ connections' = connections
      /\ deleting' = deleting \cup {b} /\ api[b] # NoPair
  BY DEF UserDeletesBinding, NotHandlers
<1>2. HandlerType' /\ WorkOK' /\ JobOK'
  BY <1>1, HandlerKept
<1>3. changes' \in Nat
  BY DEF UserDeletesBinding, Change, IInv, TypeOK
<1>4. TypeOK'
  BY <1>1, <1>2, <1>3 DEF IInv, TypeOK, HandlerType
<1>5. PairsOK'
  BY <1>1 DEF IInv, PairsOK
<1> QED
  BY <1>2, <1>4, <1>5 DEF IInv

LEMMA UserChangesSecretsOK ==
    ASSUME IInv, NEW name \in SecretNames, UserChangesSecrets(name) PROVE IInv'
<1>1. /\ UNCHANGED <<pairs, handler, lacks>> /\ restarts' = restarts
      /\ mishaps' = mishaps /\ store' = store /\ api' = api
      /\ deleting' = deleting /\ cache' = cache /\ connections' = connections
      /\ sources' \in {sources \ {name}, sources \cup {name}}
  BY DEF UserChangesSecrets, NotHandlers
<1>2. HandlerType' /\ WorkOK' /\ JobOK'
  BY <1>1, HandlerKept
<1>3. changes' \in Nat /\ sources' \subseteq SecretNames
  BY <1>1 DEF UserChangesSecrets, Change, IInv, TypeOK
<1>4. TypeOK'
  BY <1>1, <1>2, <1>3 DEF IInv, TypeOK, HandlerType
<1>5. PairsOK'
  BY <1>1 DEF IInv, PairsOK
<1> QED
  BY <1>2, <1>4, <1>5 DEF IInv

LEMMA AdminDisturbsOK ==
    ASSUME IInv, NEW c \in Clusters, NEW o \in Objects, AdminDisturbs(c, o) PROVE IInv'
<1>1. /\ UNCHANGED <<pairs, handler, sources, lacks>> /\ restarts' = restarts
      /\ changes' = changes /\ api' = api
      /\ deleting' = deleting /\ cache' = cache /\ connections' = connections
  BY DEF AdminDisturbs
<1>2. HandlerType' /\ WorkOK' /\ JobOK'
  BY <1>1, HandlerKept
<1>3. store' \in [Clusters -> [Objects -> Status]] /\ mishaps' \in Nat
  BY DEF AdminDisturbs, Mishap, IInv, TypeOK, Status
<1>4. TypeOK'
  BY <1>1, <1>2, <1>3 DEF IInv, TypeOK, HandlerType
<1>5. PairsOK'
  BY <1>1 DEF IInv, PairsOK
<1> QED
  BY <1>2, <1>4, <1>5 DEF IInv

\* The process ends, by a panic or otherwise.
LEMMA DieOK ==
    ASSUME IInv, Die, mishaps' \in Nat PROVE IInv'
<1>1. /\ api' = api /\ deleting' = deleting /\ store' = store /\ changes' = changes
      /\ sources' = sources /\ lacks' = lacks /\ restarts' = 1
      /\ pairs' = [b \in Bindings |-> NoPair] /\ connections' = {} /\ cache' = Empty /\ Return
  BY DEF Die
<1>2. HandlerType' /\ WorkOK' /\ JobOK'
  BY <1>1, Returning
<1>3. TypeOK'
  BY <1>1, <1>2, NoPairIsPair DEF IInv, TypeOK, HandlerType, Empty, Status
<1>4. PairsOK'
  BY <1>1 DEF IInv, PairsOK
<1> QED
  BY <1>2, <1>3, <1>4 DEF IInv

LEMMA RestartOK ==
    ASSUME IInv, Restart PROVE IInv'
BY DieOK DEF Restart, Mishap, IInv, TypeOK

LEMMA PanicOK ==
    ASSUME IInv, Panic PROVE IInv'
BY DieOK DEF Panic, IInv, TypeOK

LEMMA DeleteCustomResourcesFailsOK ==
    ASSUME IInv, DeleteCustomResourcesFails PROVE IInv'
BY Rejecting DEF DeleteCustomResourcesFails

LEMMA StutterOK ==
    ASSUME IInv, UNCHANGED vars PROVE IInv'
<1>1. /\ UNCHANGED <<pairs, handler, sources, lacks>> /\ restarts' = restarts
      /\ changes' = changes /\ mishaps' = mishaps
      /\ api' = api /\ deleting' = deleting /\ store' = store /\ cache' = cache
      /\ connections' = connections
  BY DEF vars
<1>2. HandlerType' /\ WorkOK' /\ JobOK'
  BY <1>1, HandlerKept
<1>3. TypeOK'
  BY <1>1, <1>2 DEF IInv, TypeOK, HandlerType
<1>4. PairsOK'
  BY <1>1 DEF IInv, PairsOK
<1> QED
  BY <1>2, <1>3, <1>4 DEF IInv

LEMMA NextOK == IInv /\ [Next]_vars => IInv'
<1> SUFFICES ASSUME IInv, [Next]_vars PROVE IInv'
  OBVIOUS
<1>1. ASSUME NEW b \in Bindings, Start(b) PROVE IInv'
  BY <1>1, StartSyncOK, StartTeardownOK DEF Start
<1>2. ASSUME NEW b \in Bindings, UserPutsBinding(b) \/ UserDeletesBinding(b) PROVE IInv'
  BY <1>2, UserPutsBindingOK, UserDeletesBindingOK
<1>3. CASE Running
  BY <1>3, SkipCallOK, DeleteCustomResourcesFailsOK, PanicOK, WaitForNSDeletionOK,
     EndSyncOK, EndTeardownOK, VisitClusterOK, CreateListedOK, DeleteListedOK DEF Running
<1>4. CASE Restart
  BY <1>4, RestartOK
<1>5. ASSUME NEW c \in Clusters, Connect(c) PROVE IInv'
  BY <1>5, ConnectOK
<1>6. ASSUME NEW c \in Clusters, NEW kind \in KindsInUse, Deliver(c, kind) PROVE IInv'
  BY <1>6, DeliverOK
<1>7. ASSUME NEW c \in Clusters, NEW n \in Namespaces, NamespaceGone(c, n) PROVE IInv'
  BY <1>7, NamespaceGoneOK
<1>8. ASSUME NEW c \in Clusters, NEW o \in Objects, AdminDisturbs(c, o) PROVE IInv'
  BY <1>8, AdminDisturbsOK
<1>9. ASSUME NEW name \in SecretNames, UserChangesSecrets(name) PROVE IInv'
  BY <1>9, UserChangesSecretsOK
<1>10. CASE UNCHANGED vars
  BY <1>10, StutterOK
<1> QED
  BY <1>1, <1>2, <1>3, <1>4, <1>5, <1>6, <1>7, <1>8, <1>9, <1>10 DEF Next

LEMMA Inductive == Spec => []IInv
BY InitOK, NextOK, PTL DEF Spec

-----------------------------------------------------------------------------
(* Theorems *)

\* The state of the handlers and of the clusters keeps its type; in particular
\* only namespaces are waited for.
THEOREM TypeCorrect == Spec => []TypeOK
<1>1. IInv => TypeOK
  BY DEF IInv
<1> QED
  BY <1>1, Inductive, PTL

\* A namespace is known by its name.
LEMMA NamesUnique ==
    ASSUME NEW o \in Namespaces, NEW n \in Namespaces, n.name = o.name PROVE n = o
BY ObjectsAssumption

\* No handler, sync or deletion, deletes what another registered pair wants, nor
\* a sync what its own pair wants.
THEOREM KeepsOthers == Spec => []OthersKept
<1>1. ASSUME IInv PROVE OthersKept
  <2> SUFFICES ASSUME ~Creating, NEW o \in listed, NEW p \in Doomed(o), NEW b \in Bindings,
                      p \in pairs[b][visit.cluster]
               PROVE  b = job.binding /\ job.phase # "sync"
    BY DEF OthersKept
  <2> DEFINE c == visit.cluster
  <2>1. /\ visit # NoVisit /\ step # 0 /\ job \in Jobs /\ visit \in Visit /\ o \in Objects
        /\ Sound(visit, ThisCall, job, pairs) /\ Matches(o, visit.scope, c, job.binding)
        /\ step \in 1..Len(Program[job.phase])
    BY <1>1 DEF IInv, WorkOK, TypeOK
  <2>2. c \in Clusters /\ job.binding \in Bindings /\ job.phase \in Phases
        /\ job.binding # None
    BY <2>1, ConstantsAssumption DEF Jobs, Visit
  <2>3. pairs[b] \in Specs[b]
    BY <1>1, <2>2 DEF IInv, PairsOK, NoPair
  <2>4. o \in pairs[b][c]
    <3>1. CASE p = o
      BY <3>1
    <3>2. CASE o \in Namespaces /\ p.ns = o.name
      <4>1. p.ns # ""
        BY <3>2, ObjectsAssumption
      <4>2. PICK n \in pairs[b][c] : n \in Namespaces /\ n.name = p.ns
        <5>1. Homed(p, pairs[b][c])
          BY <2>2, <2>3, ObjectsAssumption
        <5> QED
          BY <4>1, <5>1 DEF Homed
      <4>3. n = o
        BY <3>2, <4>2, NamesUnique
      <4> QED
        BY <4>2, <4>3
    <3> QED
      BY <3>1, <3>2 DEF Doomed
  <2>5. o.binding \in {b, None}
    BY <2>2, <2>3, <2>4, ObjectsAssumption
  <2>6. c \in ManagedClusters(pairs[b])
    BY <2>2, <2>4 DEF ManagedClusters
  <2>7. ThisCall.op \in OpsOf(job.phase) /\ ThisCall.op # "create"
    BY <2>1, <2>2, ProgramCalls DEF ThisCall, Creating
  <2>8. CASE visit.scope = "unexpected"
    <3>1. o.binding = job.binding /\ ~Expected(o, c, job.binding)
      BY <2>1, <2>8 DEF Matches
    <3>2. b = job.binding
      BY <2>2, <2>5, <3>1
    <3> QED
      BY <2>4, <3>1, <3>2 DEF Expected
  <2>9. CASE visit.scope = "labelled"
    <3>1. b = job.binding
      BY <2>1, <2>2, <2>5, <2>9 DEF Matches
    <3>2. CASE job.phase = "sync"
      BY <2>1, <2>6, <2>7, <2>9, <3>1, <3>2 DEF OpsOf, Sound
    <3> QED
      BY <3>1, <3>2
  <2>10. CASE visit.scope = "shared"
    <3>1. ThisCall.op # "cleanup"
      BY <2>1, <2>6, <2>10 DEF Sound, IsClusterInBinding
    <3>2. job.phase = "last"
      BY <2>1, <2>2, <2>7, <2>10, <3>1 DEF Sound, OpsOf, Phases
    <3>3. b \in Registered
      BY <2>2, <2>4 DEF Registered, NoPair
    <3> QED
      BY <1>1, <3>2, <3>3 DEF IInv, JobOK
  <2>11. visit.scope # "wanted"
    BY <2>1 DEF Matches
  <2> QED
    BY <2>1, <2>8, <2>9, <2>10, <2>11 DEF Visit, Scopes
<1> QED
  BY <1>1, Inductive, PTL

\* The Create... functions find a connection for every cluster they visit.
THEOREM HoldsConnections == Spec => []ConnectionsHeld
<1>1. ASSUME IInv PROVE ConnectionsHeld
  <2> SUFFICES ASSUME Creating, NEW v \in left \cup ({visit} \ {NoVisit})
               PROVE  v.cluster \in connections
    BY DEF ConnectionsHeld
  <2>1. step # 0 /\ ThisCall.op = "create"
    BY DEF Creating
  <2>2. /\ job \in Jobs /\ step \in 1..Len(Program[job.phase])
        /\ Sound(v, ThisCall, job, pairs)
    BY <1>1, <2>1 DEF IInv, WorkOK
  <2>3. job.phase \in Phases
    BY <2>2 DEF Jobs
  <2>4. job.phase = "sync"
    BY <2>1, <2>2, <2>3, ProgramCalls DEF ThisCall, OpsOf
  <2>5. v.cluster \in ManagedClusters(pairs[job.binding])
    BY <2>1, <2>2 DEF Sound
  <2> QED
    BY <1>1, <2>4, <2>5 DEF IInv, JobOK, Available
<1> QED
  BY <1>1, Inductive, PTL
=============================================================================
