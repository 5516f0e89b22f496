------------------ MODULE ManagedResourcesClusters_proofs ------------------
(***************************************************************************)
(* Proofs about what ManagedResources leaves on the clusters.  As long as  *)
(* the operator has not been restarted, what is deleted for a binding is   *)
(* wanted by no other binding that stays: the objects there are on the     *)
(* clusters, and in the listers, are those of registered pairs and of      *)
(* bindings marked for deletion.  And a sync that finds nothing to do has  *)
(* nothing to do.                                                          *)
(***************************************************************************)
EXTENDS ManagedResources_proofs

\* Whose objects a handler may come across.
Known(o) == o.binding = None \/ o.binding \in Registered \cup deleting

\* Every object belongs to all bindings, to a registered one, or to one that is
\* marked for deletion.
KnownOK ==
    restarts = 0 => \A c \in Clusters, o \in Objects :
        store[c][o] # "absent" \/ cache[c][o] # "absent" => Known(o)

\* What is listed to be created is wanted; what is listed to be deleted is of
\* the call's kind, not on its skip list, and known.
ListedOK ==
    /\ Creating => \A o \in listed : o \in pairs[job.binding][visit.cluster]
    /\ ~Creating => \A o \in listed :
         /\ o.kind = ThisCall.kind /\ o.name \notin Skipped(ThisCall, visit.scope)
         /\ restarts = 0 => Known(o)

\* A binding's objects are deleted only when it is marked for deletion.
TeardownOK == job.phase \in {"teardown", "last"} => job.binding \in deleting

OwnInv == KnownOK /\ ListedOK /\ TeardownOK

\* Nothing is listed while no handler runs.
LEMMA IdleListsNothing ==
    ASSUME IInv, job = Idle PROVE listed = {}
BY JobNotIdle DEF IInv, WorkOK

\* A failed or refused request empties the list.
LEMMA RejectedListsNothing ==
    ASSUME NEW refused, Rejected(refused)
    PROVE  listed' = {} /\ store' = store
BY DEF Rejected, Failed, EnterAfter, Return

\* A granted request leaves the other objects of the visit, or ends the call.
LEMMA AcceptedLists ==
    ASSUME NEW o \in listed, NEW status, NEW awaited, Accepted(o, status, awaited)
    PROVE  \/ listed' = {}
           \/ listed' \subseteq listed /\ UNCHANGED <<job, step, visit>>
BY DEF Accepted, GoOn, EnterAfter

\* What becomes of the list: it is emptied, worked off, or filled by a visit.
ListStep ==
    \/ listed' = {}
    \/ listed' \subseteq listed /\ UNCHANGED <<job, step, visit, pairs, restarts>>
    \/ \E v \in left :
         /\ step # 0 /\ listed' \subseteq Handled(ThisCall, v, job.binding) /\ visit' = v
         /\ UNCHANGED <<job, step, pairs, restarts>>

\* The handlers' steps work on the list that way.
LEMMA RunningLists ==
    ASSUME Running PROVE ListStep
<1>1. CASE SkipCall \/ EndSync \/ EndTeardown \/ Panic
  BY <1>1 DEF SkipCall, EndSync, EndTeardown, Panic, Die, EnterAfter, Return, ListStep
<1>2. CASE WaitForNSDeletion
  <2>1. CASE GoOn(visit, listed, {}, left)
    BY <1>2, <2>1 DEF WaitForNSDeletion, GoOn, EnterAfter, Surroundings, ListStep
  <2>2. CASE Rejected(TRUE) \/ Rejected(FALSE)
    BY <2>2, RejectedListsNothing DEF ListStep
  <2> QED
    BY <1>2, <2>1, <2>2 DEF WaitForNSDeletion
<1>3. ASSUME NEW v \in left, VisitCluster(v) PROVE ListStep
  BY <1>3 DEF VisitCluster, GoOn, EnterAfter, Surroundings, ListStep
<1>4. ASSUME NEW o \in listed, CreateListed(o) PROVE ListStep
  <2>1. UNCHANGED <<pairs, restarts>>
    BY <1>4 DEF CreateListed, Surroundings
  <2>2. \/ \E status : Accepted(o, status, {})
        \/ \E refused : Rejected(refused)
    BY <1>4 DEF CreateListed
  <2> QED
    BY <2>1, <2>2, AcceptedLists, RejectedListsNothing DEF ListStep
<1>5. ASSUME NEW o \in listed, DeleteListed(o) PROVE ListStep
  <2>1. UNCHANGED <<pairs, restarts>>
    BY <1>5 DEF DeleteListed, Surroundings
  <2>2. \/ \E status, awaited : Accepted(o, status, awaited)
        \/ \E refused : Rejected(refused)
    BY <1>5 DEF DeleteListed
  <2> QED
    BY <2>1, <2>2, AcceptedLists, RejectedListsNothing DEF ListStep
<1>6. CASE DeleteCustomResourcesFails
  BY <1>6, RejectedListsNothing DEF DeleteCustomResourcesFails, ListStep
<1> QED
  BY <1>1, <1>2, <1>3, <1>4, <1>5, <1>6 DEF Running

\* So does every step.
LEMMA EveryListStep ==
    ASSUME IInv, [Next]_vars PROVE ListStep
<1>1. ASSUME NEW b \in Bindings, Start(b) PROVE ListStep
  <2>1. job = Idle /\ (listed' = {} \/ listed' = listed)
    BY <1>1 DEF Start, StartSync, StartTeardown, EnterAfter, handler
  <2> QED
    BY <2>1, IdleListsNothing DEF ListStep
<1>2. CASE Running
  BY <1>2, RunningLists
<1>3. CASE Restart
  BY <1>3 DEF Restart, Die, Return, ListStep
<1>4. CASE UNCHANGED <<pairs, handler, restarts>>
  BY <1>4 DEF handler, ListStep
<1> QED
  BY <1>1, <1>2, <1>3, <1>4
  DEF Next, UserPutsBinding, UserDeletesBinding, UserChangesSecrets, Connect, Deliver,
      NamespaceGone, AdminDisturbs, NotHandlers, vars

-----------------------------------------------------------------------------
(* Bindings stay known *)

\* As long as the process lives, a binding that is registered or marked for
\* deletion stays one of the two.
LEMMA StayKnown ==
    ASSUME IInv, TeardownOK, [Next]_vars, ~Die
    PROVE  /\ Registered \cup deleting \subseteq Registered' \cup deleting'
           /\ restarts' = restarts
<1>1. pairs \in [Bindings -> Pair] /\ api \in [Bindings -> Pair]
  BY DEF IInv, TypeOK
<1>2. ASSUME NEW b \in Bindings, StartSync(b)
      PROVE  Registered \subseteq Registered' /\ deleting' = deleting /\ restarts' = restarts
  <2>1. /\ pairs' = [pairs EXCEPT ![b] = api[b]] /\ api[b] # NoPair
        /\ deleting' = deleting /\ restarts' = restarts
    BY <1>2 DEF StartSync, Surroundings
  <2> QED
    BY <1>1, <2>1 DEF Registered
<1>3. ASSUME NEW b \in Bindings, StartTeardown(b)
      PROVE  Registered \subseteq Registered' /\ deleting' = deleting /\ restarts' = restarts
  <2>1. /\ pairs' = [pairs EXCEPT ![b] = DeletedPair(b)] /\ b \in deleting
        /\ deleting' = deleting /\ restarts' = restarts
    BY <1>3 DEF StartTeardown, Surroundings
  <2>2. DeletedPair(b) # NoPair
    BY <2>1 DEF DeletedPair, IInv, PairsOK
  <2> QED
    BY <1>1, <2>1, <2>2 DEF Registered
<1>4. CASE EndTeardown
  <2>1. /\ deleting' = deleting /\ restarts' = restarts /\ job.binding \in deleting
        /\ pairs' = pairs \/ pairs' = [pairs EXCEPT ![job.binding] = NoPair]
    BY <1>4 DEF EndTeardown, Surroundings, TeardownOK
  <2>2. Registered \subseteq Registered' \cup {job.binding}
    BY <1>1, <2>1 DEF Registered
  <2> QED
    BY <2>1, <2>2
<1>5. CASE pairs' = pairs /\ deleting \subseteq deleting' /\ restarts' = restarts
  BY <1>5 DEF Registered
<1>6. CASE SkipCall \/ DeleteCustomResourcesFails \/ WaitForNSDeletion \/ EndSync
  BY <1>5, <1>6 DEF SkipCall, DeleteCustomResourcesFails, WaitForNSDeletion, EndSync,
                    Surroundings
<1>7. ASSUME NEW v \in left, VisitCluster(v)
      PROVE  pairs' = pairs /\ deleting' = deleting /\ restarts' = restarts
  BY <1>7 DEF VisitCluster, Surroundings
<1>8. ASSUME NEW o \in listed, CreateListed(o) \/ DeleteListed(o)
      PROVE  pairs' = pairs /\ deleting' = deleting /\ restarts' = restarts
  BY <1>8 DEF CreateListed, DeleteListed, Surroundings
<1>9. CASE Running
  BY <1>4, <1>5, <1>6, <1>7, <1>8, <1>9 DEF Running, Panic
<1>10. CASE ~Running /\ ~(\E b \in Bindings : Start(b))
  <2>1. pairs' = pairs /\ deleting \subseteq deleting' /\ restarts' = restarts
    BY <1>10
    DEF Next, UserPutsBinding, UserDeletesBinding, UserChangesSecrets, Connect, Deliver,
        NamespaceGone, AdminDisturbs, NotHandlers, Restart, vars
  <2> QED
    BY <1>5, <2>1
<1> QED
  BY <1>2, <1>3, <1>9, <1>10 DEF Start

\* Deletions are started for bindings marked for deletion only.
LEMMA TeardownStep ==
    ASSUME IInv, TeardownOK, [Next]_vars PROVE TeardownOK'
<1>1. CASE Die
  BY <1>1 DEF Die, Return, Idle, TeardownOK
<1>2. ASSUME NEW b \in Bindings, StartSync(b) PROVE TeardownOK'
  <2>1. job = Idle /\ (job' = job \/ job' = [binding |-> b, phase |-> "sync"])
    BY <1>2 DEF StartSync, EnterAfter, handler
  <2> QED
    BY <2>1 DEF TeardownOK, Idle
<1>3. ASSUME NEW b \in Bindings, StartTeardown(b) PROVE TeardownOK'
  <2>1. /\ job = Idle /\ b \in deleting /\ deleting' = deleting
        /\ job' = job \/ job' = [binding |-> b, phase |-> "teardown"]
    BY <1>3 DEF StartTeardown, EnterAfter, handler, Surroundings
  <2> QED
    BY <2>1 DEF TeardownOK, Idle
<1>4. CASE Running /\ ~Die
  <2>1. \/ job' = job \/ job' = Idle
        \/ job' = [job EXCEPT !.phase = "last"] /\ job.phase = "teardown"
    <3>1. CASE SkipCall \/ EndSync \/ EndTeardown
      BY <3>1 DEF SkipCall, EndSync, EndTeardown, EnterAfter, Return
    <3>2. CASE WaitForNSDeletion \/ DeleteCustomResourcesFails
      BY <3>2 DEF WaitForNSDeletion, DeleteCustomResourcesFails, GoOn, Rejected, Failed,
                  EnterAfter, Return
    <3>3. ASSUME NEW v \in left, VisitCluster(v) PROVE job' = job
      BY <3>3 DEF VisitCluster, GoOn, EnterAfter
    <3>4. ASSUME NEW o \in listed, CreateListed(o) \/ DeleteListed(o)
          PROVE  job' = job \/ job' = Idle
      BY <3>4 DEF CreateListed, DeleteListed, Accepted, GoOn, Rejected, Failed,
                  EnterAfter, Return
    <3> QED
      BY <1>4, <3>1, <3>2, <3>3, <3>4 DEF Running, Panic
  <2>2. deleting' = deleting
    BY <1>4 DEF Running, SkipCall, DeleteCustomResourcesFails, Panic, WaitForNSDeletion,
                EndSync, EndTeardown, VisitCluster, CreateListed, DeleteListed, Surroundings
  <2>3. job.phase = "teardown" => job \in Jobs
    BY PhaseOfJob DEF IInv, TypeOK, Phases
  <2> QED
    BY <2>1, <2>2, <2>3 DEF TeardownOK, Idle, Jobs
<1>5. CASE job' = job /\ deleting \subseteq deleting'
  BY <1>5 DEF TeardownOK
<1> QED
  BY <1>1, <1>2, <1>3, <1>4, <1>5
  DEF Next, Start, UserPutsBinding, UserDeletesBinding, UserChangesSecrets, Connect,
      Deliver, NamespaceGone, AdminDisturbs, NotHandlers, Restart, vars, handler

-----------------------------------------------------------------------------
(* Objects come from registered pairs *)

\* The objects a step adds to a cluster or a lister were in the cluster or the
\* lister before, or are created for the pair of the handler.
LEMMA NewObjects ==
    ASSUME IInv, [Next]_vars, NEW c \in Clusters, NEW o \in Objects,
           store'[c][o] # "absent" \/ cache'[c][o] # "absent"
    PROVE  \/ store[c][o] # "absent" \/ cache[c][o] # "absent"
           \/ o \in listed /\ Creating
<1> DEFINE Old == store[c][o] # "absent" \/ cache[c][o] # "absent"
<1>1. /\ store \in [Clusters -> [Objects -> Status]]
      /\ cache \in [Clusters -> [Objects -> Status]]
      /\ visit \in Visit \cup {NoVisit}
  BY DEF IInv, TypeOK
<1>2. CASE UNCHANGED <<store, cache>>
  BY <1>2
<1>3. ASSUME NEW p \in listed, NEW status, NEW awaited, Accepted(p, status, awaited),
             cache' = cache, status # "absent" => store[visit.cluster][p] # "absent"
      PROVE  Old
  BY <1>1, <1>3 DEF Accepted
<1>4. ASSUME NEW p \in listed, CreateListed(p)
      PROVE  Old \/ (o \in listed /\ Creating)
  <2>1. cache' = cache /\ Creating
    BY <1>4 DEF CreateListed, Surroundings
  <2>2. CASE Accepted(p, store[visit.cluster][p], {})
    BY <1>3, <2>1, <2>2
  <2>3. CASE Accepted(p, "wanted", {})
    <3>1. store' = [store EXCEPT ![visit.cluster][p] = "wanted"]
      BY <2>3 DEF Accepted
    <3> QED
      BY <1>1, <1>4, <2>1, <3>1
  <2>4. CASE \E refused : Rejected(refused)
    BY <1>2, <2>1, <2>4, RejectedListsNothing
  <2> QED
    BY <1>4, <2>2, <2>3, <2>4 DEF CreateListed
<1>5. ASSUME NEW p \in listed, DeleteListed(p) PROVE Old
  <2>1. cache' = cache
    BY <1>5 DEF DeleteListed, Surroundings
  <2>2. CASE /\ store[visit.cluster][p] # "absent"
             /\ Accepted(p, IF p \in Namespaces THEN "terminating" ELSE "absent", Awaited(p))
    BY <1>3, <2>1, <2>2
  <2>3. CASE \E refused : Rejected(refused)
    BY <1>2, <2>1, <2>3, RejectedListsNothing
  <2> QED
    BY <1>5, <2>2, <2>3 DEF DeleteListed
<1>6. CASE WaitForNSDeletion \/ DeleteCustomResourcesFails
  <2>1. store' = store /\ cache' = cache
    BY <1>6, RejectedListsNothing
    DEF WaitForNSDeletion, DeleteCustomResourcesFails, Surroundings
  <2> QED
    BY <1>2, <2>1
<1>7. CASE SkipCall \/ EndSync \/ EndTeardown
  BY <1>2, <1>7 DEF SkipCall, EndSync, EndTeardown, Surroundings
<1>8. ASSUME NEW v \in left, VisitCluster(v) PROVE Old
  BY <1>2, <1>8 DEF VisitCluster, Surroundings
<1>9. CASE Running /\ ~Die
  BY <1>4, <1>5, <1>6, <1>7, <1>8, <1>9 DEF Running, Panic
<1>10. ASSUME NEW b \in Bindings, Start(b) \/ UserPutsBinding(b) \/ UserDeletesBinding(b)
       PROVE  Old
  BY <1>2, <1>10 DEF Start, StartSync, StartTeardown, UserPutsBinding, UserDeletesBinding,
                     Surroundings
<1>11. CASE Die
  BY <1>11 DEF Die, Empty
<1>12. ASSUME NEW d \in Clusters, Connect(d) PROVE Old
  BY <1>1, <1>12 DEF Connect
<1>13. ASSUME NEW d \in Clusters, NEW kind, Deliver(d, kind) PROVE Old
  BY <1>1, <1>13 DEF Deliver, Delivered
<1>14. ASSUME NEW d \in Clusters, NEW n \in Namespaces, NamespaceGone(d, n) PROVE Old
  BY <1>1, <1>14 DEF NamespaceGone
<1>15. ASSUME NEW d \in Clusters, NEW p \in Objects, AdminDisturbs(d, p) PROVE Old
  BY <1>1, <1>15 DEF AdminDisturbs
<1>16. ASSUME NEW name \in SecretNames, UserChangesSecrets(name) PROVE Old
  BY <1>2, <1>16 DEF UserChangesSecrets
<1> QED
  BY <1>2, <1>9, <1>10, <1>11, <1>12, <1>13, <1>14, <1>15, <1>16 DEF Next, Restart, vars

\* An object of a registered pair is known.
LEMMA WantedIsKnown ==
    ASSUME IInv, ListedOK, Creating, NEW o \in listed PROVE Known(o)
<1>1. job \in Jobs /\ visit \in Visit /\ o \in pairs[job.binding][visit.cluster]
  BY DEF IInv, TypeOK, WorkOK, ListedOK
<1>2. job.binding \in Bindings /\ visit.cluster \in Clusters
  BY <1>1 DEF Jobs, Visit
<1>3. pairs[job.binding] # NoPair
  BY <1>2, <1>1 DEF NoPair
<1>4. pairs[job.binding] \in Specs[job.binding]
  BY <1>2, <1>3 DEF IInv, PairsOK
<1>5. o.binding \in {job.binding, None}
  BY <1>1, <1>2, <1>4, ObjectsAssumption
<1> QED
  BY <1>2, <1>3, <1>5 DEF Known, Registered

\* Every step keeps the objects' bindings known.
LEMMA KnownStep ==
    ASSUME IInv, OwnInv, [Next]_vars PROVE KnownOK'
<1>1. CASE Die
  BY <1>1 DEF Die, KnownOK
<1>2. CASE ~Die
  <2> SUFFICES ASSUME restarts' = 0, NEW c \in Clusters, NEW o \in Objects,
                      store'[c][o] # "absent" \/ cache'[c][o] # "absent"
               PROVE  Known(o)'
    BY DEF KnownOK
  <2>1. restarts = 0 /\ Registered \cup deleting \subseteq Registered' \cup deleting'
    BY <1>2, StayKnown DEF OwnInv
  <2>2. Known(o)
    BY <2>1, NewObjects, WantedIsKnown DEF OwnInv, KnownOK
  <2> QED
    BY <2>1, <2>2 DEF Known
<1> QED
  BY <1>1, <1>2

\* Every step keeps the list sound.
LEMMA ListedStep ==
    ASSUME IInv, OwnInv, [Next]_vars PROVE ListedOK'
<1>1. CASE listed' = {}
  BY <1>1 DEF ListedOK
<1>2. CASE listed' \subseteq listed /\ UNCHANGED <<job, step, visit, pairs, restarts>>
  <2>1. ThisCall' = ThisCall /\ (Creating' <=> Creating)
    BY <1>2 DEF ThisCall, Creating
  <2>2. ASSUME NEW o, Known(o), listed' # {} PROVE Known(o)'
    <3>1. CASE Die
      BY <2>2, <3>1 DEF Die, Return
    <3>2. CASE ~Die
      BY <2>2, <3>2, StayKnown DEF Known, OwnInv
    <3> QED
      BY <3>1, <3>2
  <2>3. Creating' => \A o \in listed' : o \in pairs'[job'.binding][visit'.cluster]
    BY <1>2, <2>1 DEF OwnInv, ListedOK
  <2>4. ~Creating' => \A o \in listed' :
          /\ o.kind = ThisCall'.kind /\ o.name \notin Skipped(ThisCall', visit'.scope)
          /\ restarts' = 0 => Known(o)'
    BY <1>2, <2>1, <2>2 DEF OwnInv, ListedOK
  <2>5. \A call, scope : Skipped(call, scope)' = Skipped(call, scope)
    BY DEF Skipped
  <2> QED
    BY <2>3, <2>4 DEF ListedOK, Skipped
<1>3. ASSUME NEW v \in left, step # 0, listed' \subseteq Handled(ThisCall, v, job.binding),
             visit' = v, UNCHANGED <<job, step, pairs, restarts>>
      PROVE  ListedOK'
  <2>1. ThisCall' = ThisCall /\ (Creating' <=> Creating)
    BY <1>3 DEF ThisCall, Creating
  <2>2. Creating => \A o \in listed' : o \in pairs[job.binding][v.cluster]
    BY <1>3 DEF Creating, Handled
  <2>3. ASSUME ~Creating, NEW o \in listed'
        PROVE  /\ o \in Objects /\ cache[v.cluster][o] # "absent"
               /\ o.kind = ThisCall.kind /\ o.name \notin Skipped(ThisCall, v.scope)
    BY <1>3, <2>3 DEF Creating, Handled
  <2>4. ASSUME ~Creating, NEW o \in listed', restarts = 0 PROVE Known(o)'
    <3>1. v.cluster \in Clusters
      BY DEF IInv, TypeOK, Visit
    <3>2. Known(o)
      BY <2>3, <2>4, <3>1 DEF OwnInv, KnownOK
    <3>3. ~Die
      BY <2>4 DEF Die, Return
    <3> QED
      BY <3>2, <3>3, StayKnown DEF Known, OwnInv
  <2> QED
    BY <1>3, <2>1, <2>2, <2>3, <2>4 DEF ListedOK
<1> QED
  BY <1>1, <1>2, <1>3, EveryListStep DEF ListStep

\* The invariant holds throughout.
LEMMA OwnInductive == Spec => []OwnInv
<1>1. Init => OwnInv
  BY DEF Init, OwnInv, KnownOK, ListedOK, TeardownOK, Empty, Idle
<1>2. IInv /\ OwnInv /\ [Next]_vars => OwnInv'
  BY KnownStep, ListedStep, TeardownStep DEF OwnInv
<1> QED
  BY <1>1, <1>2, Inductive, PTL DEF Spec

\* What a binding asks for is its own or the system's.
LEMMA WantedObjects ==
    ASSUME NEW b \in Bindings, NEW s \in Specs[b], NEW c \in Clusters, NEW o \in s[c]
    PROVE  /\ o.binding \in {b, None}
           /\ o.binding = None /\ o.kind \in {"namespace", "clusterRole", "clusterRoleBinding"}
                => o.name = VerrazzanoSystem
<1>1. o.binding \in {b, None}
  BY ObjectsAssumption
<1>2. ASSUME o.binding = None,
             o.kind \in {"namespace", "clusterRole", "clusterRoleBinding"}
      PROVE  o.name = VerrazzanoSystem
  BY <1>2, ObjectsAssumption
<1> QED
  BY <1>1, <1>2

\* The calls for the last binding, and the name they all skip.
LEMMA LastProgram ==
    ASSUME NEW k \in 1..Len(Program["last"])
    PROVE  /\ Program["last"][k].op = "deleteShared"
           /\ Program["last"][k].kind \in {"namespace", "clusterRole", "clusterRoleBinding"}
           /\ VerrazzanoSystem \in Skipped(Program["last"][k], "shared")
<1>1. Program["last"] = LastCalls
  BY DEF Program
<1>2. /\ LastCalls[k].op = "deleteShared"
      /\ LastCalls[k].kind \in {"namespace", "clusterRole", "clusterRoleBinding"}
  BY <1>1 DEF LastCalls, DeleteClusterRoleBindings, DeleteClusterRoles, DeleteNamespaces, Call
<1> QED
  BY <1>1, <1>2 DEF Skipped, VerrazzanoSystem, MonitoringNamespace

\* As long as the operator has not been restarted, processApplicationBindingDeleted
\* deletes nothing that another binding, one that stays, asks for; the system's
\* own objects are on the skip lists of every call.
THEOREM DeletesOwnUntilRestart == Spec => []OwnUnlessRestarted
<1>1. ASSUME IInv, OwnInv PROVE OwnUnlessRestarted
  <2> SUFFICES ASSUME restarts = 0, job.phase \in {"teardown", "last"}, NEW o \in listed,
                      NEW b \in Bindings \ (deleting \cup {job.binding}),
                      o \in api[b][visit.cluster]
               PROVE  FALSE
    BY DEF OwnUnlessRestarted, OwnNamespacesOnly
  <2> DEFINE c == visit.cluster
  <2>1. /\ step # 0 /\ job \in Jobs /\ visit \in Visit
        /\ step \in 1..Len(Program[job.phase])
        /\ Sound(visit, ThisCall, job, pairs)
    BY <1>1 DEF IInv, WorkOK, TypeOK
  <2>2. c \in Clusters /\ job.binding \in Bindings /\ job.phase \in Phases
    BY <2>1 DEF Jobs, Visit
  <2>3. ThisCall.op \in OpsOf(job.phase)
    BY <2>1, <2>2, ProgramCalls DEF ThisCall
  <2>4. ~Creating
    BY <2>3 DEF Creating, OpsOf
  <2>5. /\ Matches(o, visit.scope, c, job.binding) /\ o.kind = ThisCall.kind
        /\ o.name \notin Skipped(ThisCall, visit.scope) /\ Known(o)
    BY <1>1, <2>4 DEF IInv, WorkOK, OwnInv, ListedOK
  <2>6. api[b] \in Specs[b]
    BY <1>1, <2>2 DEF IInv, PairsOK, NoPair
  <2>7. /\ o.binding \in {b, None}
        /\ o.binding = None /\ o.kind \in {"namespace", "clusterRole", "clusterRoleBinding"}
             => o.name = VerrazzanoSystem
    BY <2>2, <2>6, WantedObjects
  <2>8. CASE job.phase = "teardown"
    <3>1. visit.scope = "labelled"
      BY <2>1, <2>3, <2>8 DEF OpsOf, Sound
    <3>2. o.binding = job.binding
      BY <2>5, <3>1 DEF Matches
    <3> QED
      BY <2>2, <2>7, <3>2, ConstantsAssumption
  <2>9. CASE job.phase = "last"
    <3>1. o.binding # b
      BY <1>1, <2>5, <2>9, ConstantsAssumption DEF Known, IInv, JobOK
    <3>2. /\ ThisCall.op = "deleteShared"
          /\ ThisCall.kind \in {"namespace", "clusterRole", "clusterRoleBinding"}
          /\ VerrazzanoSystem \in Skipped(ThisCall, "shared")
      BY <2>1, <2>9, LastProgram DEF ThisCall
    <3>3. visit.scope = "shared"
      BY <2>1, <3>2 DEF Sound
    <3> QED
      BY <2>5, <2>7, <3>1, <3>2, <3>3
  <2> QED
    BY <2>8, <2>9
<1> QED
  BY <1>1, Inductive, OwnInductive, PTL

-----------------------------------------------------------------------------
(* A sync that sends no request *)

\* Only namespaces go by and by, and nobody changes what is in one.
StatusOK ==
    \A c \in Clusters, o \in Objects :
        /\ store[c][o] = "terminating" => o \in Namespaces
        /\ store[c][o] = "altered" => o \notin Namespaces

\* A granted request that leaves its object in such a status.
LEMMA AcceptedStatus ==
    ASSUME IInv, StatusOK, NEW p \in listed, NEW status, NEW awaited,
           Accepted(p, status, awaited),
           status = "terminating" => p \in Namespaces, status = "altered" => p \notin Namespaces
    PROVE  StatusOK'
<1>1. /\ store \in [Clusters -> [Objects -> Status]]
      /\ store' = [store EXCEPT ![visit.cluster][p] = status]
  BY DEF IInv, TypeOK, Accepted
<1> QED
  BY <1>1 DEF StatusOK, Namespaces

\* Every step keeps the statuses so.
LEMMA StatusStep ==
    ASSUME IInv, StatusOK, [Next]_vars PROVE StatusOK'
<1>1. /\ store \in [Clusters -> [Objects -> Status]]
      /\ listed \subseteq Objects /\ visit \in Visit \cup {NoVisit}
      /\ listed # {} => visit \in Visit
  BY DEF IInv, TypeOK, WorkOK
<1>2. CASE store' = store
  BY <1>2 DEF StatusOK
<1>3. ASSUME NEW p \in listed, CreateListed(p) PROVE StatusOK'
  <2>1. CASE Accepted(p, store[visit.cluster][p], {})
    <3>1. visit.cluster \in Clusters /\ p \in Objects
      BY <1>1 DEF Visit
    <3> QED
      BY <2>1, <3>1, AcceptedStatus DEF StatusOK
  <2>2. CASE Accepted(p, "wanted", {})
    BY <2>2, AcceptedStatus
  <2>3. CASE \E refused : Rejected(refused)
    BY <1>2, <2>3, RejectedListsNothing
  <2> QED
    BY <1>3, <2>1, <2>2, <2>3 DEF CreateListed
<1>4. ASSUME NEW p \in listed, DeleteListed(p) PROVE StatusOK'
  <2>1. CASE Accepted(p, IF p \in Namespaces THEN "terminating" ELSE "absent", Awaited(p))
    BY <2>1, AcceptedStatus
  <2>2. CASE \E refused : Rejected(refused)
    BY <1>2, <2>2, RejectedListsNothing
  <2> QED
    BY <1>4, <2>1, <2>2 DEF DeleteListed
<1>5. CASE WaitForNSDeletion \/ DeleteCustomResourcesFails
  <2>1. store' = store
    BY <1>5, RejectedListsNothing DEF WaitForNSDeletion, DeleteCustomResourcesFails
  <2> QED
    BY <1>2, <2>1
<1>6. CASE Running
  BY <1>2, <1>3, <1>4, <1>5, <1>6
  DEF Running, SkipCall, Panic, Die, EndSync, EndTeardown, VisitCluster
<1>7. ASSUME NEW d \in Clusters, NEW n \in Namespaces, NamespaceGone(d, n) PROVE StatusOK'
  BY <1>1, <1>7 DEF NamespaceGone, StatusOK
<1>8. ASSUME NEW d \in Clusters, NEW p \in Objects, AdminDisturbs(d, p) PROVE StatusOK'
  BY <1>1, <1>8 DEF AdminDisturbs, StatusOK
<1> QED
  BY <1>2, <1>6, <1>7, <1>8
  DEF Next, vars, Start, StartSync, StartTeardown, UserPutsBinding, UserDeletesBinding,
      UserChangesSecrets, Connect, Deliver, Restart, Die

\* A sync has a create call for every kind, with only such calls before it, and a
\* cleanup call for every kind that is cleaned up.
LEMMA SyncProgram ==
    /\ \A kind \in Kinds : \E i \in 1..Len(Program["sync"]) :
         /\ Program["sync"][i] = Call("create", kind)
         /\ \A k \in 1..i : Program["sync"][k].op = "create"
    /\ \A kind \in CleanedUp : \E i \in 1..Len(Program["sync"]) :
         Program["sync"][i] = Call("cleanup", kind)
<1> DEFINE Any == Kinds \cup {"customResource", "serviceEntry", "ingress"}
           Some == {Call(op, kind) : op \in {"create", "cleanup"}, kind \in Any}
<1>1. Program["sync"] = CreateCalls \o CleanupCalls
  BY DEF Program
<1>2. CreateCalls \in Seq(Some) /\ Len(CreateCalls) = 8
  BY DEF CreateCalls, Kinds, CreateNamespaces, CreateSecrets, CreateServiceAccounts,
         CreateConfigMaps, CreateClusterRoles, CreateClusterRoleBindings,
         CreateDeployments, CreateServices
<1>3. /\ CleanupCalls \in Seq({Call("cleanup", kind) : kind \in Any})
      /\ Len(CleanupCalls) = 9
  BY DEF CleanupCalls, Kinds, CleanupOrphanedCustomResources, CleanupOrphanedServices,
         CleanupOrphanedDeployments, CleanupOrphanedServiceEntries,
         CleanupOrphanedIngresses, CleanupOrphanedClusterRoleBindings,
         CleanupOrphanedClusterRoles, CleanupOrphanedConfigMaps, CleanupOrphanedNamespaces
<1>4. CleanupCalls \in Seq(Some)
  <2>1. {Call("cleanup", kind) : kind \in Any} \subseteq Some
    OBVIOUS
  <2> QED
    BY <1>3, <2>1
<1> HIDE DEF Some, Any
<1>5. /\ Len(Program["sync"]) = 17
      /\ \A i \in 1..8 : Program["sync"][i] = CreateCalls[i]
      /\ \A i \in 1..9 : Program["sync"][i + 8] = CleanupCalls[i]
  <2>1. /\ Len(CreateCalls \o CleanupCalls) = Len(CreateCalls) + Len(CleanupCalls)
        /\ \A i \in 1..Len(CreateCalls) + Len(CleanupCalls) :
             (CreateCalls \o CleanupCalls)[i] =
                IF i <= Len(CreateCalls) THEN CreateCalls[i]
                                         ELSE CleanupCalls[i - Len(CreateCalls)]
    BY <1>2, <1>4, ConcatProperties
  <2>2. \A i \in 1..17 :
          Program["sync"][i] = IF i <= 8 THEN CreateCalls[i] ELSE CleanupCalls[i - 8]
    <3>1. Len(CreateCalls) + Len(CleanupCalls) = 17
      BY <1>2, <1>3
    <3>2. \A i \in 1..17 : (CreateCalls \o CleanupCalls)[i] =
             IF i <= 8 THEN CreateCalls[i] ELSE CleanupCalls[i - 8]
      BY <1>2, <2>1, <3>1, Zenon
    <3> TAKE i \in 1..17
    <3>3. Program["sync"][i] = (CreateCalls \o CleanupCalls)[i]
      BY <1>1, Zenon
    <3> QED
      BY <3>2, <3>3, Zenon
  <2>3. Len(Program["sync"]) = 17
    BY <1>1, <1>2, <1>3, <2>1
  <2>4. ASSUME NEW i \in 1..9 PROVE Program["sync"][i + 8] = CleanupCalls[i]
    <3>1. i + 8 \in 1..17 /\ ~(i + 8 <= 8) /\ (i + 8) - 8 = i
      OBVIOUS
    <3> QED
      BY <2>2, <3>1
  <2> QED
    BY <2>2, <2>3, <2>4
<1>6. ASSUME NEW kind \in Kinds
      PROVE  \E i \in 1..8 : /\ CreateCalls[i] = Call("create", kind)
                             /\ \A k \in 1..8 : CreateCalls[k].op = "create"
  <2>1. /\ CreateCalls[1] = Call("create", "namespace")
        /\ CreateCalls[2] = Call("create", "secret")
        /\ CreateCalls[3] = Call("create", "serviceAccount")
        /\ CreateCalls[4] = Call("create", "configMap")
        /\ CreateCalls[5] = Call("create", "clusterRole")
        /\ CreateCalls[6] = Call("create", "clusterRoleBinding")
        /\ CreateCalls[7] = Call("create", "deployment")
        /\ CreateCalls[8] = Call("create", "service")
    BY DEF CreateCalls, CreateNamespaces, CreateSecrets, CreateServiceAccounts,
           CreateConfigMaps, CreateClusterRoles, CreateClusterRoleBindings,
           CreateDeployments, CreateServices
  <2>2. \A i \in 1..8 : CreateCalls[i].op = "create"
    <3>1. ASSUME NEW i \in 1..8 PROVE CreateCalls[i].op = "create"
      <4>1. i \in {1, 2, 3, 4, 5, 6, 7, 8}
        OBVIOUS
      <4> QED
        BY <2>1, <4>1 DEF Call
    <3> QED
      BY <3>1
  <2> QED
    BY <2>1, <2>2 DEF Kinds
<1>7. ASSUME NEW kind \in CleanedUp
      PROVE  \E i \in 1..9 : CleanupCalls[i] = Call("cleanup", kind)
  <2>1. PICK i \in 1..9 : kind = CleanupCalls[i].kind
    BY <1>3 DEF CleanedUp
  <2>2. CleanupCalls[i] \in {Call("cleanup", k) : k \in Any}
    BY <1>3, ElementOfSeq
  <2> QED
    BY <2>1, <2>2 DEF Call
<1>8. ASSUME NEW kind \in Kinds
      PROVE  \E i \in 1..Len(Program["sync"]) :
               /\ Program["sync"][i] = Call("create", kind)
               /\ \A k \in 1..i : Program["sync"][k].op = "create"
  <2>1. PICK i \in 1..8 : /\ CreateCalls[i] = Call("create", kind)
                          /\ \A k \in 1..8 : CreateCalls[k].op = "create"
    BY <1>6
  <2>2. i \in 1..Len(Program["sync"]) /\ Program["sync"][i] = Call("create", kind)
    BY <1>5, <2>1
  <2>3. \A k \in 1..i : k \in 1..8
    OBVIOUS
  <2>4. \A k \in 1..i : Program["sync"][k].op = "create"
    BY <1>5, <2>1, <2>3
  <2> QED
    BY <2>2, <2>4
<1>9. ASSUME NEW kind \in CleanedUp
      PROVE  \E i \in 1..Len(Program["sync"]) : Program["sync"][i] = Call("cleanup", kind)
  BY <1>5, <1>7
<1> QED
  BY <1>8, <1>9

\* The cleanup functions skip no name on the binding's own clusters, and at most
\* the monitoring namespace's on the others.
LEMMA CleanupSkips ==
    ASSUME NEW kind
    PROVE  /\ Skipped(Call("cleanup", kind), "unexpected") = {}
           /\ Skipped(Call("cleanup", kind), "labelled") \subseteq {MonitoringNamespace}
BY DEF Skipped, Call

\* What a cleanup call finds that it is after is something to do.
LEMMA QuietCleanup ==
    ASSUME NEW b \in Bindings, SyncQuiet(b), lacks = {}, NEW kind \in CleanedUp,
           NEW v \in Visits(Call("cleanup", kind), pairs, b)
    PROVE  Handled(Call("cleanup", kind), v, b) = {}
<1>1. PICK i \in 1..Len(Program["sync"]) : Program["sync"][i] = Call("cleanup", kind)
  BY SyncProgram
<1>2. \A o \in Handled(Call("cleanup", kind), v, b) : Call("cleanup", kind).op = "create"
  BY <1>1 DEF SyncQuiet
<1> QED
  BY <1>2 DEF Call

\* What a create call finds is as it should be.
LEMMA QuietCreate ==
    ASSUME NEW b \in Bindings, SyncQuiet(b), lacks \in Lacking, NEW kind \in Kinds,
           NEW v \in Visits(Call("create", kind), pairs, b),
           NEW o \in Handled(Call("create", kind), v, b)
    PROVE  ~RequestNeeded(o, cache[v.cluster][o])
<1>1. PICK i \in 1..Len(Program["sync"]) :
         /\ Program["sync"][i] = Call("create", kind)
         /\ \A k \in 1..i : Program["sync"][k].op = "create"
  BY SyncProgram
<1>2. \A call \in lacks : call.op # "create"
  BY ConstantsAssumption
  DEF NotDelegated, CleanupOrphanedCustomResources, CleanupOrphanedServiceEntries,
      CleanupOrphanedIngresses, DeleteCustomResources, Call
<1>3. \A k \in 1..i : Program["sync"][k] \notin lacks
  BY <1>1, <1>2
<1> QED
  BY <1>1, <1>3 DEF SyncQuiet

\* The syncs of a binding come to rest only with everything the binding wants in
\* place, which for secrets means what createSecrets and newSecrets provide for;
\* and, if the managedInterface lacks no method, with nothing left on the
\* connected clusters that the Cleanup... functions are there for: there is no
\* object that all of them overlook.
THEOREM SyncRestsOnlyDeployed == Spec => []RestIsDeployed
<1>1. ASSUME IInv, StatusOK PROVE RestIsDeployed
  <2> SUFFICES ASSUME NEW b \in Bindings,
                      Stays(b), pairs[b] = api[b], SyncQuiet(b),
                      \A c \in connections : cache[c] = store[c],
                      \A c \in Clusters, n \in Namespaces : store[c][n] # "terminating"
               PROVE  /\ Deployed(b)
                      /\ lacks = {} => \A c \in Clusters, o \in Objects :
                           Orphan(o, c, b) /\ o.kind \in CleanedUp => store[c][o] = "absent"
    BY DEF RestIsDeployed
  <2>1. /\ pairs \in [Bindings -> Pair] /\ store \in [Clusters -> [Objects -> Status]]
        /\ connections \subseteq Clusters /\ lacks \in Lacking
    BY <1>1 DEF IInv, TypeOK
  <2>2. ASSUME NEW c \in Clusters, NEW o \in api[b][c], o \in Secrets => o.name \in sources
        PROVE  InPlace(c, o)
    <3> DEFINE v == [cluster |-> c, scope |-> "wanted"]
               call == Call("create", o.kind)
    <3>1. o \in Objects /\ c \in ManagedClusters(pairs[b]) /\ c \in connections
      BY <2>1, <2>2 DEF Pair, ManagedClusters, Stays, Available
    <3>2. o.kind \in Kinds
      BY <3>1, ConstantsAssumption DEF Object
    <3>3. v \in Visits(call, pairs, b)
      BY <3>1, <3>2 DEF Visits, Visit, Scopes, Call
    <3>4. o \in Handled(call, v, b)
      BY <2>2 DEF Handled, Call
    <3>5. ~RequestNeeded(o, store[c][o])
      BY <2>1, <3>1, <3>2, <3>3, <3>4, QuietCreate
    <3>6. store[c][o] \in Status
      BY <2>1, <3>1
    <3> QED
      BY <1>1, <3>1, <3>5, <3>6 DEF RequestNeeded, InPlace, Status, StatusOK
  <2>3. ASSUME lacks = {}, NEW c \in Clusters, NEW o \in Objects, Orphan(o, c, b),
               o.kind \in CleanedUp, store[c][o] # "absent"
        PROVE  FALSE
    <3> DEFINE own == c \in ManagedClusters(pairs[b])
               v == [cluster |-> c, scope |-> IF own THEN "unexpected" ELSE "labelled"]
               call == Call("cleanup", o.kind)
    <3>1. /\ o.binding = b /\ c \in connections /\ Available(pairs[b])
          /\ own => /\ o.kind \in {"service", "deployment", "namespace"}
                    /\ ~Expected(o, c, b)
          /\ ~own => o.name # MonitoringNamespace
      BY <2>3 DEF Orphan, Stays, Available, Expected
    <3>2. o.kind \in Kinds
      BY ConstantsAssumption DEF Object
    <3>3. v \in Visits(call, pairs, b)
      BY <3>1, <3>2 DEF Visits, Visit, Scopes, Call
    <3>4. Matches(o, v.scope, c, b) /\ cache[c][o] # "absent"
      BY <2>3, <3>1 DEF Matches
    <3>5. o.name \notin Skipped(call, v.scope)
      BY <3>1, CleanupSkips
    <3>6. call \notin {DeleteServices, DeleteDeployments}
      BY DEF Call, DeleteServices, DeleteDeployments
    <3>7. o \in Handled(call, v, b)
      BY <3>4, <3>5, <3>6 DEF Handled, Call
    <3> QED
      BY <2>3, <3>3, <3>7, QuietCleanup
  <2> QED
    BY <2>2, <2>3 DEF Deployed, InPlace
<1>2. Init => StatusOK
  BY DEF Init, Empty, StatusOK
<1>3. IInv /\ StatusOK /\ [Next]_vars => StatusOK'
  BY StatusStep
<1> QED
  BY <1>1, <1>2, <1>3, Inductive, PTL DEF Spec
=============================================================================
