----------------------------- MODULE SlbConsist -----------------------------
(***************************************************************************)
(* The Alibaba Cloud SLB adapter (pkg/adapters/alibabacloudslb) under      *)
(* Reconcile, for one Service.  The adapter never writes to the provider:  *)
(* the cloud controller manager (CCM) registers and removes back ends.     *)
(* Reconcile compares, reports whatever differs as failed, comes back      *)
(* after 100 ms, and lets each pod's lifecycle finalizer follow what the   *)
(* CCM has done.  An employee's identity is the pod's IP.                  *)
(*                                                                         *)
(* The pods are listed twice and the back ends asked for after that, and   *)
(* everything may change in between: these are steps of their own.  The    *)
(* expected finalizers, which Consist and SharedPods model, succeed or     *)
(* fail.                                                                   *)
(***************************************************************************)
EXTENDS Naturals, FiniteSets

CONSTANTS
    Pods, Ips,   \* names of pods, addresses of pods; both are used again
    None,        \* no address
    MaxChanges,  \* bound: changes made by users and by other controllers
    MaxFaults    \* bound: failed calls and restarts of the controller

ASSUME SlbAssumption ==
    /\ MaxChanges \in Nat /\ MaxFaults \in Nat /\ None \notin Ips
    /\ IsFiniteSet(Pods)

VARIABLES
    svc, pods, dirtySvc, dirtyPods,  \* at the API server, and what has changed since it was cached
    cSvc, cPods,                     \* in the caches
    backends,                        \* the addresses behind the load balancer
    queued, pc, obj,                 \* the work queue, where Reconcile stands, the Service it holds
    seen,                            \* the entries of GetExpectedEmployee, less those that differ
    toAdd, toDel, toDrop, done,      \* the running batches, as in Consist
    res,                             \* what Reconcile has noted so far
    off,                             \* history: addresses without traffic at some moment since the pods were listed
    changes, faults                  \* the budgets spent

svcVars == <<svc, dirtySvc>>
podVars == <<pods, dirtyPods>>
cacheVars == <<cSvc, cPods>>
batchVars == <<toAdd, toDel, toDrop, done>>
recVars == <<queued, pc, obj, seen, batchVars, res>>
vars == <<svcVars, podVars, cacheVars, backends, recVars, off, changes, faults>>

\* lb: the label with the load balancer's ID is there; rec: the record of lifecycle finalizers.
Services == [phase : {"live", "deleting", "gone"}, clean : BOOLEAN, lb : BOOLEAN, rec : SUBSET Pods]
NoService == [phase |-> "gone", clean |-> FALSE, lb |-> FALSE, rec |-> {}]

\* kready: the PodReady condition; ready: isPodLifecycleReady, PodReady and the service-ready gate.
\* A pod without an address is neither.
PodStates ==
    {v \in [phase : {"none", "live", "deleting"}, sel : BOOLEAN, ip : Ips \cup {None},
             kready : BOOLEAN, ready : BOOLEAN, flz : BOOLEAN] : v.ready \/ v.kready => v.ip # None}
NoPod == [phase |-> "none", sel |-> FALSE, ip |-> None, kready |-> FALSE, ready |-> FALSE, flz |-> FALSE]

WriteSvc(v) ==
    /\ svc' = IF v.phase = "deleting" /\ ~v.clean THEN NoService ELSE v
    /\ dirtySvc' = TRUE
WritePod(p, v) == pods' = [pods EXCEPT ![p] = v] /\ dirtyPods' = dirtyPods \cup {p}

\* A call is done; done, but the answer is lost; not done.
Outcomes == {"ok", "lost", "failed"}
Charge(outcome) ==
    IF outcome = "ok" THEN UNCHANGED faults ELSE faults < MaxFaults /\ faults' = faults + 1

\* p's employee ID, its address, is nobody else's.  A pod that is being deleted keeps showing its
\* own, and the pods that have none yet share the empty one.
NoTwin(p) == \A q \in Pods \ {p} : pods[q].phase # "none" => pods[p].ip # pods[q].ip

Return(again) ==
    /\ pc' = "idle" /\ obj' = NoService /\ res' = {} /\ queued' = (queued \/ again)
    /\ toAdd' = {} /\ toDel' = {} /\ toDrop' = {} /\ done' = {} /\ off' = {}
    /\ seen' = [p \in Pods |-> NoPod]

-----------------------------------------------------------------------------
(* Reconcile up to the employees. *)

ReconcileNotFound ==
    /\ pc = "idle" /\ queued /\ cSvc.phase = "gone"
    /\ queued' = FALSE
    /\ UNCHANGED <<svcVars, podVars, cacheVars, backends, pc, obj, seen, batchVars, res, off, changes, faults>>

EnsureEmployerCleanFlz ==
    /\ pc = "idle" /\ queued /\ cSvc.phase = "live" /\ ~cSvc.clean
    /\ \/ dirtySvc /\ UNCHANGED <<svcVars, queued, faults>>
       \/ /\ ~dirtySvc
          /\ \E outcome \in Outcomes :
               /\ Charge(outcome)
               /\ IF outcome = "failed" THEN UNCHANGED svcVars ELSE WriteSvc([cSvc EXCEPT !.clean = TRUE])
               /\ queued' = (outcome # "ok")
    /\ UNCHANGED <<podVars, cacheVars, backends, pc, obj, seen, batchVars, res, off, changes>>

\* The Service that is read from the cache is the one that is held; ensureExpectedFinalizer may
\* fail, and says of a Service that is being deleted only that nothing is expected of its pods any
\* more; GetExpectedEmployer and GetCurrentEmployer return nothing, so syncEmployer does nothing.
BeginReconcile ==
    /\ pc = "idle" /\ queued
    /\ cSvc.phase = "deleting" \/ (cSvc.phase = "live" /\ cSvc.clean)
    /\ \/ /\ pc' = "listExpected" /\ obj' = cSvc /\ queued' = FALSE
          /\ res' = IF cSvc.phase = "deleting" THEN {"expClean"} ELSE {}
          /\ UNCHANGED faults
       \/ Charge("failed") /\ UNCHANGED <<pc, obj, queued, res>>
    /\ UNCHANGED <<svcVars, podVars, cacheVars, backends, seen, batchVars, off, changes>>

-----------------------------------------------------------------------------
(* The adapter's lists, and syncEmployees. *)

\* The pods that the selector matches, those being deleted included, the Service's deletion or not.
Selected == {p \in Pods : cPods[p].phase # "none" /\ cPods[p].sel}

\* diffEmployees puts a list into a map by address: one pod of each address is left, whichever
\* comes last.
OneOfEachIp ==
    {W \in SUBSET Selected :
        \A p \in Selected : Cardinality({w \in W : cPods[w].ip = cPods[p].ip}) = 1}

\* Mutant: the address is left out.
EntryOf_NoAddress(v) == [NoPod EXCEPT !.phase = "live", !.ready = v.ready]

\* The entry of a pod, as far as EmployeeEqual looks: its name, IP and readiness.
EntryOf(v) == [NoPod EXCEPT !.phase = "live", !.ip = v.ip, !.ready = v.ready]
Entries(W) == [p \in Pods |-> IF p \in W THEN EntryOf(cPods[p]) ELSE NoPod]
IsEntry(p) == seen[p].phase = "live"

ListExpected ==
    /\ pc = "listExpected" /\ pc' = "listCurrent"
    /\ \E W \in OneOfEachIp : seen' = Entries(W)
    /\ off' = Ips \ backends
    /\ UNCHANGED <<svcVars, podVars, cacheVars, backends, queued, obj, batchVars, res, changes, faults>>

\* GetCurrentEmployee lists again: whatever is not the same has to be created, updated or deleted,
\* and the adapter leaves that to the CCM and says that it failed.  The employees are clean if
\* there are none at all.
ListCurrent ==
    /\ pc = "listCurrent" /\ pc' = "query"
    /\ \E W \in OneOfEachIp :
         /\ seen' = [p \in Pods |-> IF seen[p] = Entries(W)[p] THEN seen[p] ELSE NoPod]
         /\ res' = res \cup (IF seen = Entries(W) THEN {} ELSE {"failed"})
                     \cup (IF W = {} /\ \A p \in Pods : ~IsEntry(p) THEN {"clean"} ELSE {})
    /\ UNCHANGED <<svcVars, podVars, cacheVars, backends, queued, obj, batchVars, off, changes, faults>>

\* GetBackendServers is asked only if the Service that is held has the label.
View == IF obj.lb THEN backends ELSE {}

\* Mutant: readiness alone decides, whether the back end is there or not.
InStep_Always(p) == IsEntry(p)

\* The entries that are as they should be: traffic is on if and only if the pod is ready.
InStep(p) == IsEntry(p) /\ (seen[p].ready <=> seen[p].ip \in View)

\* Mutant: what differs is not reported.
Behind_Never == FALSE
Behind == \E p \in Pods : IsEntry(p) /\ ~InStep(p)

\* The rest of syncEmployees up to line 211: only what is in step gains or loses protection.
Query ==
    /\ pc = "query" /\ pc' = "collectUnselected"
    /\ toAdd' = {p \in Pods : InStep(p) /\ seen[p].ready}
    /\ toDel' = {p \in Pods : InStep(p) /\ ~seen[p].ready}
    /\ res' = res \cup IF Behind THEN {"failed"} ELSE {}
    /\ UNCHANGED <<svcVars, podVars, cacheVars, backends, queued, obj, seen, toDrop, done, off, changes, faults>>

\* The call fails; of a Service that is being deleted the load balancer may be gone, and it always
\* fails.
QueryError ==
    /\ pc = "query" /\ obj.lb
    /\ Charge("failed") \/ (svc.phase # "live" /\ UNCHANGED faults)
    /\ Return(TRUE)
    /\ UNCHANGED <<svcVars, podVars, cacheVars, backends, changes>>

-----------------------------------------------------------------------------
(* Lifecycle finalizers and their record, as in Consist. *)

CollectUnselected ==
    /\ pc = "collectUnselected" /\ pc' = "addFlz"
    /\ toDrop' = obj.rec \ Selected
    /\ UNCHANGED <<svcVars, podVars, cacheVars, backends, queued, obj, seen, toAdd, toDel, done, res,
                   off, changes, faults>>

UpdatePodFlz(p, value) ==
    \/ /\ p \in dirtyPods \/ (value /\ pods[p].phase # "live")
       /\ res' = res \cup {"err"}
       /\ UNCHANGED <<podVars, faults>>
    \/ /\ p \notin dirtyPods /\ (value => pods[p].phase = "live")
       /\ \E outcome \in Outcomes :
            /\ Charge(outcome)
            /\ IF outcome = "failed" THEN UNCHANGED podVars
               ELSE WritePod(p, [pods[p] EXCEPT !.flz = value])
            /\ res' = res \cup IF outcome = "ok" THEN {} ELSE {"err"}

AddLifecycleFlz(p) ==
    /\ pc = "addFlz" /\ p \in toAdd \ done
    /\ done' = done \cup {p}
    /\ IF cPods[p].phase = "none" \/ cPods[p].flz
       THEN UNCHANGED <<podVars, res, faults>>
       ELSE UpdatePodFlz(p, TRUE)
    /\ UNCHANGED <<svcVars, cacheVars, backends, queued, pc, obj, seen, toAdd, toDel, toDrop, off, changes>>

EndAddLifecycleFlz ==
    /\ pc = "addFlz" /\ toAdd \subseteq done
    /\ IF "err" \in res THEN Return(TRUE)
       ELSE /\ pc' = "delFlz" /\ done' = {}
            /\ res' = res \cup IF Cardinality(toDel) + Cardinality(toDrop) >= 3 THEN {"racy"} ELSE {}
            /\ UNCHANGED <<queued, obj, seen, toAdd, toDel, toDrop, off>>
    /\ UNCHANGED <<svcVars, podVars, cacheVars, backends, changes, faults>>

\* Three deletions or more share their err variable (see Consist).
DeleteLifecycleFlz(p) ==
    \/ IF ~cPods[p].flz
       THEN UNCHANGED <<podVars, res, faults>>
       ELSE UpdatePodFlz(p, FALSE)
    \/ /\ "racy" \in res
       /\ \/ /\ "err" \in res \/ \E q \in toDel \cup toDrop : cPods[q].phase = "none" \/ q \in dirtyPods
             /\ UNCHANGED faults
          \/ Charge("failed")
       /\ UNCHANGED <<podVars, res>>

DeleteFlzOfEmployee(p) ==
    /\ pc = "delFlz" /\ p \in toDel
    /\ toDel' = toDel \ {p}
    /\ DeleteLifecycleFlz(p)
    /\ UNCHANGED <<svcVars, cacheVars, backends, queued, pc, obj, seen, toAdd, toDrop, done, off, changes>>

DeleteFlzOfRecorded(p) ==
    /\ pc = "delFlz" /\ p \in toDrop
    /\ toDrop' = toDrop \ {p}
    /\ DeleteLifecycleFlz(p)
    /\ UNCHANGED <<svcVars, cacheVars, backends, queued, pc, obj, seen, toAdd, toDel, done, off, changes>>

\* Mutant: a Service without a record never gets one.
Outdated_OnceRecorded == obj.rec # {} /\ obj.rec # toAdd
Outdated == obj.rec # toAdd

RecordLifecycle ==
    /\ pc = "delFlz" /\ toDel = {} /\ toDrop = {}
    /\ \/ "err" \in res /\ Return(TRUE) /\ UNCHANGED <<svcVars, faults>>
       \/ /\ "err" \notin res /\ ~Outdated
          /\ pc' = "clean"
          /\ UNCHANGED <<svcVars, queued, obj, seen, batchVars, res, off, faults>>
       \/ "err" \notin res /\ Outdated /\ svc.phase = "gone" /\ Return(TRUE) /\ UNCHANGED <<svcVars, faults>>
       \/ /\ "err" \notin res /\ Outdated /\ svc.phase # "gone"
          /\ \E outcome \in Outcomes :
               /\ Charge(outcome)
               /\ IF outcome = "failed" THEN UNCHANGED svcVars ELSE WriteSvc([svc EXCEPT !.rec = toAdd])
               /\ IF outcome # "ok" THEN Return(TRUE)
                  ELSE pc' = "clean" /\ obj' = svc' /\ UNCHANGED <<queued, seen, batchVars, res, off>>
    /\ UNCHANGED <<podVars, cacheVars, backends, changes>>

-----------------------------------------------------------------------------
(* The end of Reconcile. *)

\* The Service that is held may have been deleted after ensureExpectedFinalizer saw it live.
AllClean == obj.phase = "deleting" /\ {"expClean", "clean"} \subseteq res

\* EmployeeSyncRequeueInterval: what was reported as failed is looked at again.
FinishReconcile ==
    /\ pc = "clean" /\ (~AllClean \/ cSvc.phase = "gone")
    /\ Return("failed" \in res)
    /\ UNCHANGED <<svcVars, podVars, cacheVars, backends, changes, faults>>

CleanEmployerCleanFinalizer ==
    /\ pc = "clean" /\ AllClean /\ cSvc.phase # "gone"
    /\ \/ dirtySvc /\ Return(TRUE) /\ UNCHANGED <<svcVars, faults>>
       \/ /\ ~dirtySvc
          /\ \E outcome \in Outcomes :
               /\ Charge(outcome)
               /\ IF outcome = "failed" THEN UNCHANGED svcVars ELSE WriteSvc([cSvc EXCEPT !.clean = FALSE])
               /\ Return(outcome # "ok" \/ "failed" \in res)
    /\ UNCHANGED <<podVars, cacheVars, backends, changes>>

Reconcile ==
    \/ ReconcileNotFound \/ EnsureEmployerCleanFlz \/ BeginReconcile
    \/ ListExpected \/ ListCurrent \/ Query \/ QueryError \/ CollectUnselected
    \/ \E p \in Pods : AddLifecycleFlz(p) \/ DeleteFlzOfEmployee(p) \/ DeleteFlzOfRecorded(p)
    \/ EndAddLifecycleFlz \/ RecordLifecycle \/ FinishReconcile \/ CleanEmployerCleanFinalizer

-----------------------------------------------------------------------------
(* The manager's watches, and restarts. *)

SyncSvcCache ==
    /\ dirtySvc
    /\ cSvc' = svc /\ dirtySvc' = FALSE /\ queued' = TRUE
    /\ UNCHANGED <<svc, podVars, cPods, backends, pc, obj, seen, batchVars, res, off, changes, faults>>

\* Mutant: only the new object is looked at.
Concerned_NewOnly(p) == pods[p].sel

\* EnqueueServiceByPod looks for the Services of the old and of the new object.
Concerned(p) == cPods[p].sel \/ pods[p].sel

SyncPodCache ==
    /\ dirtyPods # {}
    /\ cPods' = pods /\ dirtyPods' = {}
    /\ queued' = (queued \/ (cSvc.phase # "gone" /\ \E p \in dirtyPods : Concerned(p)))
    /\ UNCHANGED <<svcVars, pods, cSvc, backends, pc, obj, seen, batchVars, res, off, changes, faults>>

Crash ==
    /\ Charge("failed")
    /\ pc' = "idle" /\ obj' = NoService /\ res' = {} /\ seen' = [p \in Pods |-> NoPod]
    /\ toAdd' = {} /\ toDel' = {} /\ toDrop' = {} /\ done' = {} /\ off' = {}
    /\ cSvc' = svc /\ cPods' = pods /\ dirtySvc' = FALSE /\ dirtyPods' = {}
    /\ queued' = (svc.phase # "gone")
    /\ UNCHANGED <<svc, pods, backends, changes>>

-----------------------------------------------------------------------------
(* The cloud controller manager. *)

\* It registers the pods whose PodReady condition is true, and that are not being deleted.
Wanted ==
    {pods[p].ip : p \in {q \in Pods : svc.phase = "live" /\ pods[q].phase = "live"
                                       /\ pods[q].sel /\ pods[q].kready}}

CcmSync ==
    /\ \/ \E i \in Wanted \ backends : backends' = backends \cup {i}
       \/ \E i \in backends \ Wanted : backends' = backends \ {i}
    /\ off' = IF pc \in {"idle", "listExpected"} THEN off ELSE off \cup (Ips \ backends')
    /\ UNCHANGED <<svcVars, podVars, cacheVars, recVars, changes, faults>>

\* It puts the load balancer's ID on the Service.
CcmLabel ==
    /\ svc.phase = "live" /\ ~svc.lb
    /\ WriteSvc([svc EXCEPT !.lb = TRUE])
    /\ UNCHANGED <<podVars, cacheVars, backends, recVars, off, changes, faults>>

-----------------------------------------------------------------------------
(* The environment. *)

Change == changes < MaxChanges /\ changes' = changes + 1

\* Somebody else changes pod p.
Rewrite(p, v) ==
    /\ WritePod(p, v)
    /\ UNCHANGED <<svcVars, cacheVars, backends, recVars, off, faults>>

DeleteService ==
    /\ Change /\ svc.phase = "live"
    /\ WriteSvc([svc EXCEPT !.phase = "deleting"])
    /\ UNCHANGED <<podVars, cacheVars, backends, recVars, off, faults>>

CreatePod(p) ==
    /\ Change /\ pods[p].phase = "none"
    /\ \E sel \in BOOLEAN : Rewrite(p, [NoPod EXCEPT !.phase = "live", !.sel = sel])

DeletePod(p) ==
    /\ Change /\ pods[p].phase = "live"
    /\ Rewrite(p, [pods[p] EXCEPT !.phase = "deleting", !.ready = FALSE, !.kready = FALSE])

RelabelPod(p) ==
    /\ Change /\ pods[p].phase # "none"
    /\ Rewrite(p, [pods[p] EXCEPT !.sel = ~@])

\* The probes pass or fail; the gate of a PodOpsLifecycle closes or opens while PodReady is true.
ChangeReadiness(p) ==
    /\ Change /\ pods[p].phase = "live" /\ pods[p].ip # None
    /\ \E ready, kready \in BOOLEAN :
         /\ ready => kready
         /\ pods[p].ready # ready
         /\ Rewrite(p, [pods[p] EXCEPT !.ready = ready, !.kready = kready])

\* The kubelet: PodReady follows a closed gate; a pod gets an address that no live pod has; a pod
\* that is being deleted goes with its finalizer.
FollowGate(p) ==
    /\ pods[p].kready /\ ~pods[p].ready
    /\ Rewrite(p, [pods[p] EXCEPT !.kready = FALSE])
    /\ UNCHANGED changes

StartPod(p) ==
    /\ pods[p].phase = "live" /\ pods[p].ip = None
    /\ \E i \in Ips :
         /\ \A q \in Pods : pods[q].phase = "live" => pods[q].ip # i
         /\ Rewrite(p, [pods[p] EXCEPT !.ip = i])
    /\ UNCHANGED changes

PodGone(p) ==
    /\ pods[p].phase = "deleting" /\ ~pods[p].flz
    /\ Rewrite(p, NoPod)
    /\ UNCHANGED changes

Kubelet(p) == FollowGate(p) \/ StartPod(p) \/ PodGone(p)

-----------------------------------------------------------------------------
\* The controller starts, with a Service that is new or one that was deleted while it was down.
Init ==
    /\ svc \in {v \in Services : v.phase # "gone" /\ (v.clean <=> v.phase = "deleting") /\ v.rec = {}}
    /\ pods \in [Pods -> {v \in PodStates : v = NoPod \/ (v.phase = "live" /\ ~v.flz /\ v.kready = v.ready)}]
    /\ \A p, q \in Pods : p # q /\ pods[p].ip # None => pods[p].ip # pods[q].ip
    /\ backends = {}
    /\ cSvc = svc /\ cPods = pods /\ dirtySvc = FALSE /\ dirtyPods = {}
    /\ queued = TRUE /\ pc = "idle" /\ obj = NoService /\ res = {} /\ seen = [p \in Pods |-> NoPod]
    /\ toAdd = {} /\ toDel = {} /\ toDrop = {} /\ done = {} /\ off = {}
    /\ changes = 0 /\ faults = 0

Environment ==
    \/ DeleteService
    \/ \E p \in Pods : CreatePod(p) \/ DeletePod(p) \/ RelabelPod(p) \/ ChangeReadiness(p) \/ Kubelet(p)

Next ==
    Reconcile \/ SyncSvcCache \/ SyncPodCache \/ Crash \/ CcmSync \/ CcmLabel \/ Environment

Spec == Init /\ [][Next]_vars

\* The worker, the watches, the kubelet and the CCM keep going.
Fairness ==
    /\ WF_vars(Reconcile) /\ WF_vars(SyncSvcCache) /\ WF_vars(SyncPodCache)
    /\ WF_vars(CcmSync) /\ WF_vars(CcmLabel)
    /\ \A p \in Pods : WF_vars(Kubelet(p))

FairSpec == Spec /\ Fairness

-----------------------------------------------------------------------------
(* Properties. *)

TypeAPI ==
    /\ svc \in Services /\ cSvc \in Services /\ dirtySvc \in BOOLEAN
    /\ pods \in [Pods -> PodStates] /\ cPods \in [Pods -> PodStates] /\ dirtyPods \subseteq Pods
    /\ backends \subseteq Ips

TypeReconcile ==
    /\ queued \in BOOLEAN /\ obj \in Services /\ seen \in [Pods -> PodStates]
    /\ pc \in {"idle", "listExpected", "listCurrent", "query", "collectUnselected", "addFlz", "delFlz", "clean"}
    /\ toAdd \subseteq Pods /\ toDel \subseteq Pods /\ toDrop \subseteq Pods /\ done \subseteq Pods
    /\ res \subseteq {"expClean", "failed", "clean", "err", "racy"}
    /\ off \subseteq Ips

\* Every variable keeps its type; nothing that is ready, or was listed as ready, is without address.
TypeOK == TypeAPI /\ TypeReconcile /\ changes \in 0..MaxChanges /\ faults \in 0..MaxFaults

\* A pod that the Service selects loses its protection only if there was a moment, since the pods
\* were listed, at which the address it was listed with was not behind the load balancer.
UnprotectsIdle ==
    [][\A p \in toDel :
          pods[p].flz /\ ~pods'[p].flz /\ pods'[p].phase # "none" /\ seen[p].ip # None
              => seen[p].ip \in off]_vars

Quiescent == pc = "idle" /\ ~queued /\ ~dirtySvc /\ dirtyPods = {}

\* When the controller rests, every ready pod of a live Service is protected, unless two pods show
\* one address.
QuiescentProtected ==
    Quiescent /\ svc.phase = "live" =>
        \A p \in Pods : pods[p].sel /\ pods[p].ready /\ NoTwin(p) => pods[p].flz

\* When the controller rests, the record names every such pod, so that it can be told to give its
\* protection up when the selector stops matching.
QuiescentRecord ==
    Quiescent /\ svc.phase = "live" =>
        \A p \in Pods : pods[p].sel /\ pods[p].ready /\ NoTwin(p) => p \in svc.rec

\* When the controller rests, a Service that is being deleted waits for its pods to go.
QuiescentDeleted ==
    Quiescent /\ svc.phase = "deleting" => \E p \in Pods : pods[p].phase # "none" /\ pods[p].sel

\* Three deletions side by side may lose an error, and with it a pod that is not ready: what becomes
\* of such pods is promised where there are no three.
NoRaces == Cardinality(Pods) < 3

\* Protection follows traffic: no pod stays ready and unprotected, or not ready and protected,
\* for ever.
Follows(p) ==
    /\ ~<>[](svc.phase = "live" /\ pods[p].sel /\ NoTwin(p) /\ pods[p].ready /\ ~pods[p].flz)
    /\ NoRaces => ~<>[](svc.phase = "live" /\ pods[p].sel /\ NoTwin(p) /\ ~pods[p].ready /\ pods[p].flz)
ProtectionFollows == \A p \in Pods : Follows(p)
=============================================================================
