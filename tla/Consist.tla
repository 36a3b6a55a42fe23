------------------------------ MODULE Consist ------------------------------
(***************************************************************************)
(* One employer (a Service) and its employees (Pods) under the             *)
(* ResourceConsist controller: pkg/frame/controller/consister.go and       *)
(* resourceconsist_controller.go.  The module holds the whole Reconcile of *)
(* the employer, the informer caches and the work queue it lives on, the   *)
(* API server's rules it relies on, a provider that the adapter manages    *)
(* itself (the demo adapter of the test suite), and the environment.       *)
(*                                                                         *)
(* A step of the controller is one call that leaves the process together   *)
(* with the computation up to it; everything else may happen in between.   *)
(***************************************************************************)
EXTENDS Naturals, FiniteSets, ConsistDiff

CONSTANTS
    Pods,                \* names of the pods of the employer's namespace
    FollowPodOps,        \* ReconcileLifecycleOptions.FollowPodOpsLifeCycle
    NeedRecordExpected,  \* ExpectedFinalizerRecordOptions.NeedRecordExpectedFinalizerCondition
    NeedRecordLifecycle, \* ReconcileLifecycleOptions.NeedRecordLifecycleFinalizerCondition
    Webhook,             \* is the mutating pod webhook installed?
    Recreate,            \* may the employer's name be used again after its deletion?
    ForeignFlz,          \* finalizers an employer may be created with
    MaxChanges,          \* bound: changes made by users and by other controllers
    MaxFaults,           \* bound: failed calls and crashes of the controller
    MaxDrift             \* bound: how many of them are made to the provider behind its back

ASSUME ConstantsAssumption ==
    /\ {FollowPodOps, NeedRecordExpected, NeedRecordLifecycle, Webhook, Recreate} \subseteq BOOLEAN
    /\ ForeignFlz \subseteq {"old", "other"}
    /\ MaxChanges \in Nat /\ MaxFaults \in Nat /\ MaxDrift \in Nat
    /\ IsFiniteSet(Pods)

VARIABLES
    employer,      \* the employer at the API server: deletion, finalizers, the two record annotations
    pods,          \* the pods at the API server, as far as the controller reads them
    vip, rs,       \* the provider: the employer's entry and one real server per pod
    cEmployer, cPods,          \* the informer caches, which every Get and List of the controller reads
    dirtyEmployer, dirtyPods,  \* whose resourceVersion has moved since the cache last saw it
    queued,        \* is the employer's key in the work queue?
    pc, obj,       \* where Reconcile stands, and the employer object it holds
    toAdd, toDel, toDrop,      \* the pods of the running batch; toDrop: recorded, no longer selected
    done, succ,    \* the pods of the batch that were tried, and those that succeeded
    res,           \* what the reconcile has noted so far
    born,          \* has the employer's name been used?
    changes, faults, drifts    \* the budgets spent

apiVars   == <<employer, pods, dirtyEmployer, dirtyPods>>
cacheVars == <<cEmployer, cPods>>
provVars  == <<vip, rs>>
recVars   == <<pc, obj, toAdd, toDel, toDrop, done, succ, res>>
envVars   == <<born, changes, drifts>>
vars == <<apiVars, cacheVars, provVars, queued, recVars, envVars, faults>>

-----------------------------------------------------------------------------
(* The objects. *)

\* "clean" is cleanFinalizer, "old" the one generateOldCleanFlz names, "other" somebody else's.
Flz == {"clean", "old", "other"}
NoEmployer == [phase |-> "none", flz |-> {}, expRec |-> {}, lcRec |-> {}]
Employers == [phase : {"none", "live", "deleting"}, flz : SUBSET Flz,
              expRec : SUBSET Pods, lcRec : SUBSET Pods]

\* sel: the employer's selector matches its labels; ready: isPodLifecycleReady; flz: it has the
\* employer's lifecycle finalizer; exp: its available-conditions annotation has the employer's key.
NoPod == [phase |-> "none", sel |-> FALSE, ready |-> FALSE, flz |-> FALSE, exp |-> FALSE]
PodStates == [phase : {"none", "live", "deleting"}, sel : BOOLEAN, ready : BOOLEAN,
              flz : BOOLEAN, exp : BOOLEAN]

\* The API server removes an object that is being deleted when its last finalizer goes.
Settle(e) == IF e.phase = "deleting" /\ e.flz = {} THEN NoEmployer ELSE e

WriteEmployer(e) == employer' = Settle(e) /\ dirtyEmployer' = TRUE
WritePod(p, v) == pods' = [pods EXCEPT ![p] = v] /\ dirtyPods' = dirtyPods \cup {p}

\* What becomes of a call to the API server: done; done, but the answer is lost; not done.
Outcomes == {"ok", "lost", "failed"}
Charge(outcome) ==
    IF outcome = "ok" THEN UNCHANGED faults
    ELSE faults < MaxFaults /\ faults' = faults + 1

\* What a reconcile notes as it goes: the three clean flags, entries that failed at the provider,
\* an error of the running batch, a batch whose calls run side by side.
Results == {"expClean", "erClean", "eeClean", "failed", "err", "racy"}
Noting(flag, condition) == res \cup IF condition THEN {flag} ELSE {}

\* Reconcile returns; again: it returned an error or a RequeueAfter.
Return(again) ==
    /\ pc' = "idle" /\ obj' = NoEmployer /\ res' = {}
    /\ toAdd' = {} /\ toDel' = {} /\ toDrop' = {} /\ done' = {} /\ succ' = {}
    /\ queued' = (queued \/ again)

\* GetSelectedEmployeeNames: the pods the selector matches, deleted ones included.
SelectedNames == {p \in Pods : cPods[p].phase # "none" /\ cPods[p].sel}

-----------------------------------------------------------------------------
(* Reconcile: the employer and its clean finalizer. *)

\* The worker takes the key and finds no such employer.
ReconcileNotFound ==
    /\ pc = "idle" /\ queued /\ cEmployer.phase = "none"
    /\ queued' = FALSE
    /\ UNCHANGED <<apiVars, cacheVars, provVars, recVars, envVars, faults>>

\* The loop of ensureEmployerCleanFlz has not found the finalizer.
MissesCleanFlz == "clean" \notin cEmployer.flz

\* ensureEmployerCleanFlz: the finalizer goes on first, and Reconcile ends there; the update's
\* own event brings it back.  An object that has moved on is a conflict.
EnsureEmployerCleanFlz ==
    /\ pc = "idle" /\ queued
    /\ cEmployer.phase = "live" /\ MissesCleanFlz
    /\ \/ /\ dirtyEmployer
          /\ queued' = TRUE
          /\ UNCHANGED <<employer, dirtyEmployer, faults>>
       \/ /\ ~dirtyEmployer
          /\ \E outcome \in Outcomes :
                /\ Charge(outcome)
                /\ queued' = (outcome # "ok")
                /\ IF outcome = "failed" THEN UNCHANGED <<employer, dirtyEmployer>>
                   ELSE WriteEmployer([cEmployer EXCEPT !.flz = (@ \ {"old"}) \cup {"clean"}])
    /\ UNCHANGED <<pods, dirtyPods, cacheVars, provVars, recVars, envVars>>

-----------------------------------------------------------------------------
(* ensureExpectedFinalizer. *)

\* An employer with the finalizer, or one being deleted: Reconcile goes on, and the pods whose
\* expected finalizer is to be added or withdrawn are listed.
BeginReconcile ==
    /\ pc = "idle" /\ queued
    /\ cEmployer.phase = "deleting" \/ (cEmployer.phase = "live" /\ ~MissesCleanFlz)
    /\ queued' = FALSE
    /\ obj' = cEmployer
    /\ IF ~FollowPodOps
       THEN /\ pc' = "syncEmployer"
            /\ res' = {"expClean"}
            /\ UNCHANGED <<toAdd, toDel>>
       ELSE LET recorded == IF NeedRecordExpected THEN cEmployer.expRec ELSE {}
            IN  /\ pc' = "patchExpected"
                /\ toAdd' = IF cEmployer.phase = "live" THEN SelectedNames \ recorded ELSE {}
                /\ toDel' = IF cEmployer.phase = "live" THEN recorded \ SelectedNames
                            ELSE recorded \cup SelectedNames
                /\ UNCHANGED res
    /\ UNCHANGED <<apiVars, cacheVars, provVars, toDrop, done, succ, envVars, faults>>

\* A merge patch of a pod's annotation carries no resourceVersion: it fails only if the pod is gone.
PatchPod(p, value) ==
    \/ /\ pods[p].phase = "none"
       /\ res' = res \cup {"err"}
       /\ UNCHANGED <<pods, dirtyPods, succ, faults>>
    \/ /\ pods[p].phase # "none"
       /\ \E outcome \in Outcomes :
            /\ Charge(outcome)
            /\ IF outcome = "failed" THEN UNCHANGED <<pods, dirtyPods>>
               ELSE WritePod(p, [pods[p] EXCEPT !.exp = value])
            /\ succ' = IF outcome = "ok" THEN succ \cup {p} ELSE succ
            /\ res' = Noting("err", outcome # "ok")

\* patchAddPodExpectedFinalizer for one pod of toAdd: a pod that is gone or going is passed over
\* without an error and without success.
PatchAdd(p) ==
    /\ pc = "patchExpected" /\ p \in toAdd \ done
    /\ done' = done \cup {p}
    /\ \/ /\ cPods[p].phase # "live"
          /\ UNCHANGED <<pods, dirtyPods, succ, res, faults>>
       \/ /\ cPods[p].phase = "live" /\ cPods[p].exp
          /\ succ' = succ \cup {p}
          /\ UNCHANGED <<pods, dirtyPods, res, faults>>
       \/ /\ cPods[p].phase = "live" /\ ~cPods[p].exp
          /\ PatchPod(p, TRUE)
    /\ UNCHANGED <<employer, dirtyEmployer, cacheVars, provVars, queued, pc, obj,
                   toAdd, toDel, toDrop, envVars>>

\* patchDeletePodExpectedFinalizer for one pod of toDel: a pod that is gone, or has no such key,
\* counts as done.
PatchDelete(p) ==
    /\ pc = "patchExpected" /\ toAdd \subseteq done /\ p \in toDel \ done
    /\ done' = done \cup {p}
    /\ \/ /\ ~cPods[p].exp
          /\ succ' = succ \cup {p}
          /\ UNCHANGED <<pods, dirtyPods, res, faults>>
       \/ /\ cPods[p].exp
          /\ PatchPod(p, FALSE)
    /\ UNCHANGED <<employer, dirtyEmployer, cacheVars, provVars, queued, pc, obj,
                   toAdd, toDel, toDrop, envVars>>

\* Reconcile reaches syncEmployer, holding object o.
ToSyncEmployer(o, expClean) ==
    /\ pc' = "syncEmployer" /\ obj' = o
    /\ res' = IF expClean THEN {"expClean"} ELSE {}
    /\ toAdd' = {} /\ toDel' = {} /\ done' = {} /\ succ' = {}
    /\ UNCHANGED <<toDrop, queued>>

\* Mutant: the errors of a batch are dropped.
BatchFailed_Ignored == FALSE

\* Has SlowStartBatch collected an error?
BatchFailed == "err" \in res

\* ensureExpectedFinalizerNotNeedRecord: any failure ends Reconcile.
EndExpectedNotNeedRecord ==
    /\ pc = "patchExpected" /\ toAdd \cup toDel \subseteq done /\ ~NeedRecordExpected
    /\ IF BatchFailed THEN Return(TRUE) ELSE ToSyncEmployer(obj, obj.phase = "deleting")
    /\ UNCHANGED <<apiVars, cacheVars, provVars, envVars, faults>>

\* Mutant: the annotation of a live employer names the pods of this round alone.
StillRecorded_ThisRound == IF obj.phase = "live" THEN succ ELSE toDel \ succ

\* ensureExpectedFinalizerNeedRecord: the annotation is to name the pods that still have the
\* expected finalizer.  If it already does, the errors of the batch are forgotten.
StillRecorded ==
    IF obj.phase = "live" THEN (obj.expRec \ succ) \cup (succ \ obj.expRec) ELSE toDel \ succ

EndExpectedUnchanged ==
    /\ pc = "patchExpected" /\ toAdd \cup toDel \subseteq done /\ NeedRecordExpected
    /\ StillRecorded = obj.expRec
    /\ ToSyncEmployer(obj, StillRecorded = {})
    /\ UNCHANGED <<apiVars, cacheVars, provVars, envVars, faults>>

\* Otherwise it is patched (no resourceVersion, so whatever the employer is by now), and the held
\* object becomes the API server's answer.  Errors of the batch count for a live employer only.
EndExpectedPatch ==
    /\ pc = "patchExpected" /\ toAdd \cup toDel \subseteq done /\ NeedRecordExpected
    /\ StillRecorded # obj.expRec
    /\ \/ /\ employer.phase = "none"
          /\ Return(TRUE)
          /\ UNCHANGED <<employer, dirtyEmployer, faults>>
       \/ /\ employer.phase # "none"
          /\ \E outcome \in Outcomes :
                /\ Charge(outcome)
                /\ IF outcome = "failed" THEN UNCHANGED <<employer, dirtyEmployer>>
                   ELSE WriteEmployer([employer EXCEPT !.expRec = StillRecorded])
                /\ IF outcome # "ok" \/ (obj.phase = "live" /\ BatchFailed) THEN Return(TRUE)
                   ELSE ToSyncEmployer(employer', StillRecorded = {})
    /\ UNCHANGED <<pods, dirtyPods, cacheVars, provVars, envVars>>

-----------------------------------------------------------------------------
(* syncEmployer and syncEmployees: the provider. *)

\* GetExpectedEmployer of the demo adapter: one entry, unless the employer is being deleted.
ExpectedVip == [k \in {"vip"} |-> IF obj.phase = "deleting" THEN "none" ELSE "ok"]
CurrentVip == [k \in {"vip"} |-> vip]

\* syncEmployer, every call returning.
SyncEmployer ==
    /\ pc = "syncEmployer"
    /\ \E failed \in ReturnedOutcomes(ExpectedVip, CurrentVip) :
         /\ Charge(IF failed = {} THEN "ok" ELSE "failed")
         /\ vip' = IF failed = {} THEN ExpectedVip["vip"] ELSE vip
         /\ res' = res \cup (IF failed # {} THEN {"failed"}
                             ELSE IF obj.phase = "deleting" THEN {"erClean"} ELSE {})
    /\ pc' = "syncEmployees"
    /\ UNCHANGED <<apiVars, cacheVars, rs, queued, obj, toAdd, toDel, toDrop, done, succ, envVars>>

\* GetExpectedEmployer, GetCurrentEmployer or one of the provider calls returns an error.
SyncEmployerError ==
    /\ pc = "syncEmployer"
    /\ Charge("failed")
    /\ \E applied \in {{}} \cup ErrorOutcomes(ExpectedVip, CurrentVip) :
         vip' = Apply(ExpectedVip, CurrentVip, applied)["vip"]
    /\ Return(TRUE)
    /\ UNCHANGED <<apiVars, cacheVars, rs, envVars>>

\* GetExpectedEmployee of the demo adapter: the selected pods that are not being deleted, with
\* traffic on when they are ready; nothing once the employer is being deleted.
ExpectedRs ==
    [p \in Pods |->
        IF obj.phase = "deleting" \/ cPods[p].phase # "live" \/ ~cPods[p].sel THEN "none"
        ELSE IF cPods[p].ready THEN "on" ELSE "off"]

\* getToAddDeleteLifecycleFlzEmployees, from the entries the provider calls succeeded on.
ReadyOf(S) == {p \in S : cPods[p].ready}
\* Mutant: only created employees are protected, not those found unchanged or updated.
LifecycleToAdd_CreatedOnly(failed) == IF ~FollowPodOps THEN {} ELSE ToCreate(ExpectedRs, rs) \ failed
LifecycleToAdd(failed) ==
    IF ~FollowPodOps THEN {}
    ELSE (ToCreate(ExpectedRs, rs) \ failed)
           \cup ReadyOf((ToUpdate(ExpectedRs, rs) \ failed) \cup Same(ExpectedRs, rs))
\* Mutant: an employee whose deletion or update failed at the provider loses its finalizer too.
LifecycleToDelete_FailedToo(failed) ==
    IF ~FollowPodOps THEN {}
    ELSE ToDelete(ExpectedRs, rs)
           \cup {p \in ToUpdate(ExpectedRs, rs) \cup Same(ExpectedRs, rs) : ~cPods[p].ready}
LifecycleToDelete(failed) ==
    IF ~FollowPodOps THEN {}
    ELSE LET kept == (ToUpdate(ExpectedRs, rs) \ failed) \cup Same(ExpectedRs, rs)
         IN  (ToDelete(ExpectedRs, rs) \ failed) \cup (kept \ ReadyOf(kept))

\* isClean: nothing was expected, and every deletion succeeded.
EmployeesClean(failed) ==
    /\ ToCreate(ExpectedRs, rs) \cup ToUpdate(ExpectedRs, rs) \cup Same(ExpectedRs, rs) = {}
    /\ ToDelete(ExpectedRs, rs) \cap failed = {}

\* syncEmployees up to line 211, every provider call returning.
SyncEmployees ==
    /\ pc = "syncEmployees"
    /\ \E failed \in ReturnedOutcomes(ExpectedRs, rs) :
         /\ Charge(IF failed = {} THEN "ok" ELSE "failed")
         /\ rs' = Apply(ExpectedRs, rs, Pods \ failed)
         /\ toAdd' = LifecycleToAdd(failed)
         /\ toDel' = LifecycleToDelete(failed)
         /\ res' = Noting("failed", failed # {})
                     \cup (IF EmployeesClean(failed) THEN {"eeClean"} ELSE {})
    /\ pc' = "collectUnselected"
    /\ UNCHANGED <<apiVars, cacheVars, vip, queued, obj, toDrop, done, succ, envVars>>

\* GetExpectedEmployee, GetCurrentEmployee or one of the provider calls returns an error.
SyncEmployeesError ==
    /\ pc = "syncEmployees"
    /\ Charge("failed")
    /\ \E applied \in {{}} \cup ErrorOutcomes(ExpectedRs, rs) :
         rs' = Apply(ExpectedRs, rs, applied)
    /\ Return(TRUE)
    /\ UNCHANGED <<apiVars, cacheVars, vip, envVars>>

-----------------------------------------------------------------------------
(* ensureLifecycleFinalizer and its record. *)

NeedRecordEmployees == FollowPodOps /\ NeedRecordLifecycle

\* Lines 213-229: the selection is read once more, and recorded pods outside it are to lose the
\* lifecycle finalizer.
CollectUnselected ==
    /\ pc = "collectUnselected"
    /\ toDrop' = IF NeedRecordEmployees THEN obj.lcRec \ SelectedNames ELSE {}
    /\ pc' = "addFlz"
    /\ UNCHANGED <<apiVars, cacheVars, provVars, queued, obj, toAdd, toDel, done, succ, res,
                   envVars, faults>>

\* Update of a pod, from the cached object: a conflict if the pod has moved on, and the API server
\* forbids new finalizers on a pod that is being deleted.
UpdatePodFlz(p, value) ==
    \/ /\ p \in dirtyPods \/ (value /\ pods[p].phase # "live")
       /\ res' = res \cup {"err"}
       /\ UNCHANGED <<pods, dirtyPods, faults>>
    \/ /\ p \notin dirtyPods /\ (value => pods[p].phase = "live")
       /\ \E outcome \in Outcomes :
            /\ Charge(outcome)
            /\ IF outcome = "failed" THEN UNCHANGED <<pods, dirtyPods>>
               ELSE WritePod(p, [pods[p] EXCEPT !.flz = value])
            /\ res' = Noting("err", outcome # "ok")

\* One pod of toAdd gets the lifecycle finalizer, unless it is gone or has it.
AddLifecycleFlz(p) ==
    /\ pc = "addFlz" /\ p \in toAdd \ done
    /\ done' = done \cup {p}
    /\ IF cPods[p].phase = "none" \/ cPods[p].flz
       THEN UNCHANGED <<pods, dirtyPods, res, faults>>
       ELSE UpdatePodFlz(p, TRUE)
    /\ UNCHANGED <<employer, dirtyEmployer, cacheVars, provVars, queued, pc, obj,
                   toAdd, toDel, toDrop, succ, envVars>>

\* The additions are over: an error ends Reconcile before any deletion.  The batches of
\* SlowStartBatch are of 1, 2, 4... calls, so three deletions or more run side by side.
EndAddLifecycleFlz ==
    /\ pc = "addFlz" /\ toAdd \subseteq done
    /\ IF BatchFailed THEN Return(TRUE)
       ELSE /\ pc' = "delFlz" /\ done' = {}
            /\ res' = Noting("racy", Cardinality(toDel) + Cardinality(toDrop) >= 3)
            /\ UNCHANGED <<queued, obj, toAdd, toDel, toDrop, succ>>
    /\ UNCHANGED <<apiVars, cacheVars, provVars, envVars, faults>>

\* One pod of the deletions loses the lifecycle finalizer, unless it is gone or has none.  The
\* calls of a batch share one err variable (declared at 720, used at 798-841): side by side, one
\* may return another's "not found" as its own, or lose its own error, and return nil.
DeleteLifecycleFlz(p) ==
    \/ IF ~cPods[p].flz
       THEN UNCHANGED <<pods, dirtyPods, res, faults>>
       ELSE UpdatePodFlz(p, FALSE)
    \/ /\ "racy" \in res
       /\ \/ /\ BatchFailed \/ \E q \in toDel \cup toDrop : cPods[q].phase = "none" \/ q \in dirtyPods
             /\ UNCHANGED faults
          \/ Charge("failed")
       /\ UNCHANGED <<pods, dirtyPods, res>>

\* A pod of toDelete that the provider calls put there.
DeleteFlzOfEmployee(p) ==
    /\ pc = "delFlz" /\ p \in toDel
    /\ toDel' = toDel \ {p}
    /\ DeleteLifecycleFlz(p)
    /\ UNCHANGED <<employer, dirtyEmployer, cacheVars, provVars, queued, pc, obj,
                   toAdd, toDrop, done, succ, envVars>>

\* A pod of toDelete that the record put there; a pod may be listed for both reasons.
DeleteFlzOfRecorded(p) ==
    /\ pc = "delFlz" /\ p \in toDrop
    /\ toDrop' = toDrop \ {p}
    /\ DeleteLifecycleFlz(p)
    /\ UNCHANGED <<employer, dirtyEmployer, cacheVars, provVars, queued, pc, obj,
                   toAdd, toDel, done, succ, envVars>>

\* Mutant: Reconcile does not wait for the deletions.
DeletionsOver_Begun == TRUE

\* The calls of the deletions have all ended.
DeletionsOver == toDel = {} /\ toDrop = {}

\* Lines 233-273: an error ends Reconcile; the record becomes exactly the pods of toAdd.
RecordLifecycle ==
    /\ pc = "delFlz" /\ DeletionsOver
    /\ \/ /\ BatchFailed
          /\ Return(TRUE)
          /\ UNCHANGED <<employer, dirtyEmployer, faults>>
       \/ /\ ~BatchFailed /\ (~NeedRecordEmployees \/ obj.lcRec = toAdd)
          /\ pc' = "clean" /\ toAdd' = {}
          /\ UNCHANGED <<employer, dirtyEmployer, queued, obj, toDel, toDrop, done, succ, res, faults>>
       \/ /\ ~BatchFailed /\ NeedRecordEmployees /\ obj.lcRec # toAdd /\ employer.phase = "none"
          /\ Return(TRUE)
          /\ UNCHANGED <<employer, dirtyEmployer, faults>>
       \/ /\ ~BatchFailed /\ NeedRecordEmployees /\ obj.lcRec # toAdd /\ employer.phase # "none"
          /\ \E outcome \in Outcomes :
                /\ Charge(outcome)
                /\ IF outcome = "failed" THEN UNCHANGED <<employer, dirtyEmployer>>
                   ELSE WriteEmployer([employer EXCEPT !.lcRec = toAdd])
                /\ IF outcome # "ok" THEN Return(TRUE)
                   ELSE /\ pc' = "clean" /\ obj' = employer' /\ toAdd' = {}
                        /\ UNCHANGED <<queued, toDel, toDrop, done, succ, res>>
    /\ UNCHANGED <<pods, dirtyPods, cacheVars, provVars, envVars>>

-----------------------------------------------------------------------------
(* cleanEmployerCleanFinalizer and the end of Reconcile. *)

\* Mutants: the employees, or the employer's own entry, are not waited for.
AllClean_NotEmployees == {"expClean", "erClean"} \subseteq res /\ obj.phase = "deleting"
AllClean_NotEmployer == {"expClean", "eeClean"} \subseteq res /\ obj.phase = "deleting"
AllClean == {"expClean", "erClean", "eeClean"} \subseteq res /\ obj.phase = "deleting"

\* Mutant: Reconcile forgets that an entry failed at the provider.
AsksToComeBack_Never == FALSE

\* syncEmployerFailedExist || syncEmployeeFailedExist (lines 267-273).
AsksToComeBack == "failed" \in res

\* Nothing to clean: Reconcile asks to come back if an entry failed, or if RecordStatuses fails.
FinishReconcile ==
    /\ pc = "clean"
    /\ ~AllClean \/ cEmployer.phase = "none" \/ obj.flz \cap {"clean", "old"} = {}
    /\ \E again \in BOOLEAN :
         /\ Charge(IF again THEN "failed" ELSE "ok")
         /\ Return(again \/ AsksToComeBack)
    /\ UNCHANGED <<apiVars, cacheVars, provVars, envVars>>

\* The finalizers of the held object, less the two, are written over those of the cached one: a
\* conflict if it has moved on, and no finalizer may be added while it is being deleted.
CleanEmployerCleanFinalizer ==
    /\ pc = "clean"
    /\ AllClean /\ cEmployer.phase # "none" /\ obj.flz \cap {"clean", "old"} # {}
    /\ LET finalizers == obj.flz \ {"clean", "old"}
           allowed == ~dirtyEmployer /\ (cEmployer.phase = "deleting" => finalizers \subseteq cEmployer.flz)
       IN \/ /\ ~allowed
             /\ Return(TRUE)
             /\ UNCHANGED <<employer, dirtyEmployer, faults>>
          \/ /\ allowed
             /\ \E outcome \in Outcomes :
                  /\ Charge(outcome)
                  /\ IF outcome = "failed" THEN UNCHANGED <<employer, dirtyEmployer>>
                     ELSE WriteEmployer([cEmployer EXCEPT !.flz = finalizers])
                  /\ Return(outcome # "ok" \/ AsksToComeBack)
    /\ UNCHANGED <<pods, dirtyPods, cacheVars, provVars, envVars>>

-----------------------------------------------------------------------------
(* The manager: informers, event handlers, restarts. *)

\* The employer's watch delivers: any event of the employer enqueues its key
\* (EnqueueServiceWithRateLimit).
SyncEmployerCache ==
    /\ dirtyEmployer
    /\ cEmployer' = employer /\ dirtyEmployer' = FALSE /\ queued' = TRUE
    /\ UNCHANGED <<employer, pods, dirtyPods, cPods, provVars, recVars, envVars, faults>>

\* Mutant: only the new labels count.
EventMatches_NewOnly(p) == pods[p].sel

\* GetEmployerByEmployee: an event of p names the employer by p's old labels or by its new ones.
EventMatches(p) == cPods[p].sel \/ pods[p].sel

\* The pods' watch delivers: the key is enqueued when the cached employer selects one of the
\* changed pods (EnqueueServiceByPod).
SyncPodCache ==
    /\ dirtyPods # {}
    /\ cPods' = pods /\ dirtyPods' = {}
    /\ queued' = (queued \/ (cEmployer.phase # "none" /\ \E p \in dirtyPods : EventMatches(p)))
    /\ UNCHANGED <<employer, pods, dirtyEmployer, cEmployer, provVars, recVars, envVars, faults>>

\* The controller dies and starts again: what it had in memory is gone, the caches are listed
\* afresh and every employer is enqueued.
Crash ==
    /\ Charge("failed")
    /\ pc' = "idle" /\ obj' = NoEmployer /\ res' = {}
    /\ toAdd' = {} /\ toDel' = {} /\ toDrop' = {} /\ done' = {} /\ succ' = {}
    /\ cEmployer' = employer /\ cPods' = pods /\ dirtyEmployer' = FALSE /\ dirtyPods' = {}
    /\ queued' = (employer.phase # "none")
    /\ UNCHANGED <<employer, pods, provVars, envVars>>

-----------------------------------------------------------------------------
(* The environment: users, other controllers, the kubelet, the provider. *)

Change == changes < MaxChanges /\ changes' = changes + 1

CreateEmployer ==
    /\ Change /\ employer.phase = "none" /\ (Recreate \/ ~born)
    /\ born' = TRUE
    /\ \E flz \in SUBSET ForeignFlz : WriteEmployer([NoEmployer EXCEPT !.phase = "live", !.flz = flz])
    /\ UNCHANGED <<pods, dirtyPods, cacheVars, provVars, queued, recVars, drifts, faults>>

DeleteEmployer ==
    /\ Change /\ employer.phase = "live"
    /\ WriteEmployer([employer EXCEPT !.phase = "deleting"])
    /\ UNCHANGED <<pods, dirtyPods, cacheVars, provVars, queued, recVars, born, drifts, faults>>

\* The owner of another finalizer takes it off.
ReleaseOther ==
    /\ Change /\ employer.phase = "deleting" /\ "other" \in employer.flz
    /\ WriteEmployer([employer EXCEPT !.flz = @ \ {"other"}])
    /\ UNCHANGED <<pods, dirtyPods, cacheVars, provVars, queued, recVars, born, drifts, faults>>

\* A pod is created; the webhook (Mutating) gives it the expected finalizer of each cached
\* employer that selects it.
CreatePod(p) ==
    /\ Change /\ pods[p].phase = "none"
    /\ \E sel \in BOOLEAN :
         WritePod(p, [NoPod EXCEPT !.phase = "live", !.sel = sel,
                                   !.exp = Webhook /\ sel /\ cEmployer.phase # "none"])
    /\ UNCHANGED <<employer, dirtyEmployer, cacheVars, provVars, queued, recVars, born, drifts, faults>>

\* A pod that is being deleted is never ready (isPodLifecycleReady).
DeletePod(p) ==
    /\ Change /\ pods[p].phase = "live"
    /\ WritePod(p, [pods[p] EXCEPT !.phase = "deleting", !.ready = FALSE])
    /\ UNCHANGED <<employer, dirtyEmployer, cacheVars, provVars, queued, recVars, born, drifts, faults>>

\* The pod's labels change, so that the selector matches or stops matching.
RelabelPod(p) ==
    /\ Change /\ pods[p].phase # "none"
    /\ WritePod(p, [pods[p] EXCEPT !.sel = ~@])
    /\ UNCHANGED <<employer, dirtyEmployer, cacheVars, provVars, queued, recVars, born, drifts, faults>>

\* The pod's readiness changes: its probes, or its service-ready gate during a PodOpsLifecycle.
ChangeReadiness(p) ==
    /\ Change /\ pods[p].phase = "live"
    /\ WritePod(p, [pods[p] EXCEPT !.ready = ~@])
    /\ UNCHANGED <<employer, dirtyEmployer, cacheVars, provVars, queued, recVars, born, drifts, faults>>

\* A pod that is being deleted goes once it has no lifecycle finalizer.
PodGone(p) ==
    /\ pods[p].phase = "deleting" /\ ~pods[p].flz
    /\ WritePod(p, NoPod)
    /\ UNCHANGED <<employer, dirtyEmployer, cacheVars, provVars, queued, recVars, envVars, faults>>

\* The provider loses what it was given.
Drift ==
    /\ Change /\ drifts < MaxDrift /\ drifts' = drifts + 1
    /\ \/ /\ vip' \in {"none", "drift"} /\ vip # "none" /\ vip' # vip
          /\ UNCHANGED rs
       \/ /\ \E p \in Pods : rs[p] # "none" /\ rs' = [rs EXCEPT ![p] = "none"]
          /\ UNCHANGED vip
    /\ UNCHANGED <<apiVars, cacheVars, queued, recVars, born, faults>>

-----------------------------------------------------------------------------
\* The manager starts on a namespace that may already hold an employer and pods it has never seen.
Init ==
    /\ employer \in {NoEmployer}
         \cup {[NoEmployer EXCEPT !.phase = "live", !.flz = flz] : flz \in SUBSET ForeignFlz}
    /\ pods \in [Pods -> {v \in PodStates : v = NoPod \/ (v.phase = "live" /\ ~v.flz /\ ~v.exp)}]
    /\ vip = "none" /\ rs = [p \in Pods |-> "none"]
    /\ cEmployer = employer /\ cPods = pods /\ dirtyEmployer = FALSE /\ dirtyPods = {}
    /\ queued = (employer.phase # "none") /\ born = (employer.phase # "none")
    /\ pc = "idle" /\ obj = NoEmployer /\ res = {}
    /\ toAdd = {} /\ toDel = {} /\ toDrop = {} /\ done = {} /\ succ = {}
    /\ changes = 0 /\ faults = 0 /\ drifts = 0

\* The steps of Reconcile, in the order of the code.
Controller ==
    \/ ReconcileNotFound \/ EnsureEmployerCleanFlz \/ BeginReconcile
    \/ \E p \in Pods : PatchAdd(p) \/ PatchDelete(p)
    \/ EndExpectedNotNeedRecord \/ EndExpectedUnchanged \/ EndExpectedPatch
    \/ SyncEmployer \/ SyncEmployerError \/ SyncEmployees \/ SyncEmployeesError
    \/ CollectUnselected
    \/ \E p \in Pods : AddLifecycleFlz(p) \/ DeleteFlzOfEmployee(p) \/ DeleteFlzOfRecorded(p)
    \/ EndAddLifecycleFlz \/ RecordLifecycle
    \/ FinishReconcile \/ CleanEmployerCleanFinalizer

Environment ==
    \/ CreateEmployer \/ DeleteEmployer \/ ReleaseOther \/ Drift
    \/ \E p \in Pods : CreatePod(p) \/ DeletePod(p) \/ RelabelPod(p) \/ ChangeReadiness(p) \/ PodGone(p)

Next == Controller \/ SyncEmployerCache \/ SyncPodCache \/ Crash \/ Environment

Spec == Init /\ [][Next]_vars

\* The worker, the watches and the kubelet keep going; nobody else has to do anything.
Fairness ==
    /\ WF_vars(Controller) /\ WF_vars(SyncEmployerCache) /\ WF_vars(SyncPodCache)
    /\ \A p \in Pods : WF_vars(PodGone(p))

FairSpec == Spec /\ Fairness

-----------------------------------------------------------------------------
(* Properties. *)

\* What the API server keeps of an employer: nothing once it is gone, and it goes with its last
\* finalizer.
Consistent(e) == (e.phase = "none" => e = NoEmployer) /\ (e.phase = "deleting" => e.flz # {})
TypeEmployer ==
    /\ employer \in Employers /\ cEmployer \in Employers /\ obj \in Employers
    /\ Consistent(employer) /\ Consistent(cEmployer) /\ Consistent(obj)
TypePods ==
    /\ pods \in [Pods -> PodStates] /\ cPods \in [Pods -> PodStates] /\ dirtyPods \subseteq Pods
TypeProvider == vip \in {"none", "drift", "ok"} /\ rs \in [Pods -> {"none", "off", "on"}]
TypeReconcile ==
    /\ pc \in {"idle", "patchExpected", "syncEmployer", "syncEmployees", "collectUnselected",
               "addFlz", "delFlz", "clean"}
    /\ toAdd \subseteq Pods /\ toDel \subseteq Pods /\ toDrop \subseteq Pods
    /\ done \subseteq Pods /\ succ \subseteq Pods /\ res \subseteq Results
    /\ pc \in {"idle", "syncEmployer", "syncEmployees", "clean"} => toDel = {}
TypeManager ==
    /\ dirtyEmployer \in BOOLEAN /\ queued \in BOOLEAN /\ born \in BOOLEAN
    /\ changes \in 0..MaxChanges /\ faults \in 0..MaxFaults /\ drifts \in 0..MaxDrift
\* Every variable keeps its type; what the caches and the controller hold has been an object of
\* the API server; and Reconcile leaves a batch with no call of it still to come.
TypeOK == TypeEmployer /\ TypePods /\ TypeProvider /\ TypeReconcile /\ TypeManager

\* Nothing is left at the provider for an employer that could go away unnoticed: as long as the
\* provider holds anything, the employer exists and has the clean finalizer.
BackendGuarded ==
    (vip # "none" \/ \E p \in Pods : rs[p] # "none") => "clean" \in employer.flz

\* A pod loses its lifecycle finalizer only after its traffic has been turned off.
UnprotectOnlyWhenOff ==
    [][\A p \in Pods : pods[p].flz /\ ~pods'[p].flz => rs[p] # "on"]_vars

\* With the lifecycle record or without, a pod loses its lifecycle finalizer while it has traffic only
\* as one that the record of the employer in hand names and that has been listed to be dropped for it.
UnprotectOffOrRecorded ==
    [][\A p \in Pods : pods[p].flz /\ ~pods'[p].flz /\ rs[p] = "on" =>
           NeedRecordEmployees /\ p \in toDrop /\ p \in obj.lcRec]_vars

\* The controller keeps the contract: each of its steps is one of the contract's or none of them.
Contract == INSTANCE BackendContract WITH
    Named <- NeedRecordEmployees,
    guarded <- "clean" \in employer.flz, entry <- vip, traffic <- rs,
    protected <- [p \in Pods |-> pods[p].flz]
KeepsContract == Contract!Spec

\* The controller has nothing left to do and nothing left to hear.
Quiescent == pc = "idle" /\ ~queued /\ ~dirtyEmployer /\ dirtyPods = {}

\* When the controller rests, the provider holds what the employer and the pods ask for: no
\* event, error or conflict was lost on the way.
QuiescentBackend ==
    Quiescent /\ drifts = 0 =>
        /\ vip = (IF employer.phase = "live" THEN "ok" ELSE "none")
        /\ \A p \in Pods :
             rs[p] = IF employer.phase # "live" \/ pods[p].phase # "live" \/ ~pods[p].sel THEN "none"
                     ELSE IF pods[p].ready THEN "on" ELSE "off"

\* When the controller rests, every pod of the employer that serves traffic is protected.
QuiescentProtected ==
    Quiescent /\ FollowPodOps /\ employer.phase = "live" =>
        \A p \in Pods : pods[p].phase = "live" /\ pods[p].sel /\ pods[p].ready => pods[p].flz

\* When the controller rests, an employer that is still being deleted waits for somebody else.
QuiescentDeleted ==
    Quiescent /\ employer.phase = "deleting" => employer.flz = {"other"}

\* When the controller rests, every pod of the employer says which finalizer it is to wait for.
QuiescentExpected ==
    Quiescent /\ FollowPodOps /\ employer.phase = "live" =>
        \A p \in Pods : pods[p].phase = "live" /\ pods[p].sel => pods[p].exp

\* The controller comes to rest: its own writes do not keep it going for ever.
Settles == <>[]Quiescent

\* A pod that is being deleted goes in the end: the controller takes its finalizer off.
PodDeletionCompletes == \A p \in Pods : pods[p].phase = "deleting" ~> pods[p].phase # "deleting"

\* The clean finalizer goes last: no pod has a lifecycle finalizer of the employer any more.
CleanRemovedLast ==
    [][("clean" \in employer.flz /\ "clean" \notin employer'.flz) => \A p \in Pods : ~pods[p].flz]_vars
=============================================================================
