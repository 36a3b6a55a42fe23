----------------------------- MODULE SharedPods -----------------------------
(***************************************************************************)
(* Several employers (Services) that select the same pods.  The expected   *)
(* finalizers of all of them share one annotation of the pod, which every  *)
(* reconcile reads from the cache and writes whole, by a merge patch that  *)
(* names no resourceVersion; the mutating webhook fills it at admission.   *)
(* Reconciles of different employers run side by side (five workers).      *)
(*                                                                         *)
(* This is ensureExpectedFinalizerNotNeedRecord, the path of an adapter    *)
(* without ExpectedFinalizerRecordOptions, with the Get and the Patch of a *)
(* pod apart; the clean finalizer; the predicates on the control label;    *)
(* the events.  What the rest of Reconcile does is module Consist's; here  *)
(* it succeeds or fails.                                                   *)
(***************************************************************************)
EXTENDS Naturals, FiniteSets

CONSTANTS
    Services, Pods,  \* names; a Service's is used once, a pod's may be used again
    MaxChanges,      \* bound: changes made by users and by other controllers
    MaxFaults        \* bound: failed calls and restarts of the manager

ASSUME SharedAssumption == MaxChanges \in Nat /\ MaxFaults \in Nat

VARIABLES
    svc, pods,           \* at the API server
    cSvc, cPods,         \* in the manager's caches
    dirtySvc, dirtyPods, \* what has changed since the cache last saw it
    queue,               \* the work queue
    pc,                  \* where each employer's Reconcile stands
    deleting,            \* does the employer object it holds have a deletion timestamp?
    todo,                \* the pods of its batch that are still to be read
    read,                \* the pods read and not yet patched: the annotation as it was read
    err,                 \* has a call of its batch failed?
    admitted,            \* history: the keys a pod of a new name was created with
    changes, faults      \* the budgets spent

svcVars == <<svc, dirtySvc>>
podVars == <<pods, dirtyPods>>
cacheVars == <<cSvc, cPods>>
recVars == <<pc, deleting, todo, read, err>>
vars == <<svcVars, podVars, cacheVars, queue, recVars, admitted, changes, faults>>

\* clean: it has cleanFinalizer; ctl: its control label is "true".
Employers == [phase : {"new", "live", "deleting", "gone"}, clean : BOOLEAN, ctl : BOOLEAN]
\* sel: the employers whose selector matches its labels; keys: those in its available-conditions
\* annotation.
PodStates == [phase : {"new", "live", "deleting", "gone"}, sel : SUBSET Services, keys : SUBSET Services]

Exists(o) == o.phase \in {"live", "deleting"}
NoService == [phase |-> "new", clean |-> FALSE, ctl |-> FALSE]
NoPod == [phase |-> "new", sel |-> {}, keys |-> {}]

WriteSvc(s, v) ==
    /\ svc' = [svc EXCEPT ![s] = IF v.phase = "deleting" /\ ~v.clean THEN [NoService EXCEPT !.phase = "gone"]
                               ELSE v]
    /\ dirtySvc' = dirtySvc \cup {s}
\* A patch that changes nothing raises no event.
WritePod(p, v) ==
    /\ pods' = [pods EXCEPT ![p] = v]
    /\ dirtyPods' = IF pods[p] = v THEN dirtyPods ELSE dirtyPods \cup {p}

\* A call is done; done, but the answer is lost; not done.
Outcomes == {"ok", "lost", "failed"}
Charge(outcome) ==
    IF outcome = "ok" THEN UNCHANGED faults ELSE faults < MaxFaults /\ faults' = faults + 1

NotRead == [on |-> FALSE, keys |-> {}]
NoneRead == [p \in Pods |-> NotRead]
Reads == {NotRead} \cup [on : {TRUE}, keys : SUBSET Services]

-----------------------------------------------------------------------------
(* Reconcile of employer s. *)

\* Reconcile returns: an error puts the key back.
Return(s, failed) ==
    /\ pc' = [pc EXCEPT ![s] = "idle"]
    /\ deleting' = [deleting EXCEPT ![s] = FALSE] /\ err' = [err EXCEPT ![s] = FALSE]
    /\ UNCHANGED <<todo, read>>
    /\ queue' = IF failed THEN queue \cup {s} ELSE queue

ReconcileNotFound(s) ==
    /\ pc[s] = "idle" /\ s \in queue /\ ~Exists(cSvc[s])
    /\ queue' = queue \ {s}
    /\ UNCHANGED <<svcVars, podVars, cacheVars, recVars, admitted, changes, faults>>

\* The finalizer goes on before anything else; Reconcile ends there.
EnsureEmployerCleanFlz(s) ==
    /\ pc[s] = "idle" /\ s \in queue /\ cSvc[s].phase = "live" /\ ~cSvc[s].clean
    /\ \/ s \in dirtySvc /\ UNCHANGED <<svcVars, queue, faults>>
       \/ /\ s \notin dirtySvc
          /\ \E outcome \in Outcomes :
               /\ Charge(outcome)
               /\ IF outcome = "failed" THEN UNCHANGED svcVars
                  ELSE WriteSvc(s, [cSvc[s] EXCEPT !.clean = TRUE])
               /\ queue' = IF outcome = "ok" THEN queue \ {s} ELSE queue
    /\ UNCHANGED <<podVars, cacheVars, recVars, admitted, changes>>

\* Mutant: an employer that is not controlled any more is cleaned up like one being deleted.
GoingAway_Uncontrolled(s) == cSvc[s].phase = "deleting" \/ ~cSvc[s].ctl

\* The employer that was read has a deletion timestamp.
GoingAway(s) == cSvc[s].phase = "deleting"

\* The pods of the cache that match the employer's selector.
Selected(s) == {p \in Pods : Exists(cPods[p]) /\ s \in cPods[p].sel}

\* GetSelectedEmployeeNames gives the pods of the batch, whose key is to be added, or taken off if
\* the employer is being deleted.
BeginReconcile(s) ==
    /\ pc[s] = "idle" /\ s \in queue
    /\ Exists(cSvc[s]) /\ (cSvc[s].phase = "live" => cSvc[s].clean)
    /\ queue' = queue \ {s}
    /\ pc' = [pc EXCEPT ![s] = "patch"]
    /\ deleting' = [deleting EXCEPT ![s] = GoingAway(s)]
    /\ todo' = [todo EXCEPT ![s] = Selected(s)]
    /\ UNCHANGED <<svcVars, podVars, cacheVars, read, err, admitted, changes, faults>>

\* Has the pod that was read to be patched?  Not if it is gone, or as it should be, or going and
\* the key was to be added.
ToPatch(s, p) ==
    IF deleting[s] THEN Exists(cPods[p]) /\ s \in cPods[p].keys
    ELSE cPods[p].phase = "live" /\ s \notin cPods[p].keys

\* The Get of a goroutine of the batch.
ReadPod(s, p) ==
    /\ pc[s] = "patch" /\ p \in todo[s]
    /\ todo' = [todo EXCEPT ![s] = @ \ {p}]
    /\ IF ToPatch(s, p)
       THEN read' = [read EXCEPT ![s][p] = [on |-> TRUE, keys |-> cPods[p].keys]]
       ELSE UNCHANGED read
    /\ UNCHANGED <<svcVars, podVars, cacheVars, queue, pc, deleting, err, admitted, changes, faults>>

\* Mutant: the annotation is written from this employer's key alone.
NewKeys_OwnOnly(s, p) == IF deleting[s] THEN {} ELSE {s}

\* The value of the whole annotation, from the one that was read.
NewKeys(s, p) == IF deleting[s] THEN read[s][p].keys \ {s} ELSE read[s][p].keys \cup {s}

\* Its Patch: of whatever pod has the name by now, as it is by now; an error if there is none.
PatchPod(s, p) ==
    /\ pc[s] = "patch" /\ read[s][p].on
    /\ read' = [read EXCEPT ![s][p] = NotRead]
    /\ \/ /\ ~Exists(pods[p])
          /\ err' = [err EXCEPT ![s] = TRUE]
          /\ UNCHANGED <<podVars, faults>>
       \/ /\ Exists(pods[p])
          /\ \E outcome \in Outcomes :
               /\ Charge(outcome)
               /\ IF outcome = "failed" THEN UNCHANGED podVars
                  ELSE WritePod(p, [pods[p] EXCEPT !.keys = NewKeys(s, p)])
               /\ err' = [err EXCEPT ![s] = @ \/ outcome # "ok"]
    /\ UNCHANGED <<svcVars, cacheVars, queue, pc, deleting, todo, admitted, changes>>

\* Mutant: the batch is over when its last call has begun.
BatchOver_Begun(s) == todo[s] = {}

\* SlowStartBatch waits for all of its calls.
BatchOver(s) == todo[s] = {} /\ \A p \in Pods : ~read[s][p].on

\* Any failure of the batch ends Reconcile.
EndPatch(s) ==
    /\ pc[s] = "patch" /\ BatchOver(s)
    /\ IF err[s] THEN Return(s, TRUE)
       ELSE pc' = [pc EXCEPT ![s] = "sync"] /\ UNCHANGED <<queue, deleting, todo, read, err>>
    /\ UNCHANGED <<svcVars, podVars, cacheVars, admitted, changes, faults>>

\* syncEmployer and syncEmployees fail; or all is well and there is nothing more to do; or all is
\* clean, which it is for an employer that is being deleted only.  Of such a one an adapter may go
\* on expecting employees, as the SLB adapter does, as long as pods are selected: then nothing has
\* failed, all is not clean, and Reconcile ends without asking to come back.
Sync(s) ==
    /\ pc[s] = "sync"
    /\ \/ Charge("failed") /\ Return(s, TRUE)
       \/ (~deleting[s] \/ Selected(s) # {}) /\ Return(s, FALSE) /\ UNCHANGED faults
       \/ /\ deleting[s] /\ pc' = [pc EXCEPT ![s] = "clean"]
          /\ UNCHANGED <<queue, deleting, todo, read, err, faults>>
    /\ UNCHANGED <<svcVars, podVars, cacheVars, admitted, changes>>

\* cleanEmployerCleanFinalizer: nothing to do if the cache knows no such employer any more, a
\* conflict if it is not up to date.
CleanEmployerCleanFinalizer(s) ==
    /\ pc[s] = "clean"
    /\ \/ ~Exists(cSvc[s]) /\ Return(s, FALSE) /\ UNCHANGED <<svcVars, faults>>
       \/ Exists(cSvc[s]) /\ s \in dirtySvc /\ Return(s, TRUE) /\ UNCHANGED <<svcVars, faults>>
       \/ /\ Exists(cSvc[s]) /\ s \notin dirtySvc
          /\ \E outcome \in Outcomes :
               /\ Charge(outcome)
               /\ IF outcome = "failed" THEN UNCHANGED svcVars
                  ELSE WriteSvc(s, [cSvc[s] EXCEPT !.clean = FALSE])
               /\ Return(s, outcome # "ok")
    /\ UNCHANGED <<podVars, cacheVars, admitted, changes>>

Reconcile(s) ==
    \/ ReconcileNotFound(s) \/ EnsureEmployerCleanFlz(s) \/ BeginReconcile(s)
    \/ \E p \in Pods : ReadPod(s, p) \/ PatchPod(s, p)
    \/ EndPatch(s) \/ Sync(s) \/ CleanEmployerCleanFinalizer(s)

-----------------------------------------------------------------------------
(* The manager's watches. *)

\* employerPredicates: only the new object's label counts; a version that the cache never showed,
\* or the last one it did, may have been delivered on the way.
SyncSvcCache(s) ==
    /\ s \in dirtySvc
    /\ cSvc' = [cSvc EXCEPT ![s] = svc[s]] /\ dirtySvc' = dirtySvc \ {s}
    /\ \/ queue' = queue \cup {s}
       \/ ~svc[s].ctl /\ UNCHANGED queue
    /\ UNCHANGED <<svc, podVars, cPods, recVars, admitted, changes, faults>>

\* Mutants: an event names the employers of the old labels, or of the new ones, only.
EventNames_OldOnly(p) == {s \in cPods[p].sel : Exists(cSvc[s]) /\ cSvc[s].ctl}
EventNames_NewOnly(p) == {s \in pods[p].sel : Exists(cSvc[s]) /\ cSvc[s].ctl}

\* EnqueueServiceByPod: the labelled employers in the cache that select the pod by its old labels
\* or by its new ones.
EventNames(p) == {s \in cPods[p].sel \cup pods[p].sel : Exists(cSvc[s]) /\ cSvc[s].ctl}

SyncPodCache ==
    /\ dirtyPods # {}
    /\ cPods' = pods /\ dirtyPods' = {}
    /\ queue' = queue \cup UNION {EventNames(p) : p \in dirtyPods}
    /\ UNCHANGED <<svcVars, pods, cSvc, recVars, admitted, changes, faults>>

\* The manager starts again: caches are listed afresh, labelled employers are enqueued.
Crash ==
    /\ Charge("failed")
    /\ pc' = [s \in Services |-> "idle"] /\ deleting' = [s \in Services |-> FALSE]
    /\ todo' = [s \in Services |-> {}] /\ read' = [s \in Services |-> NoneRead]
    /\ err' = [s \in Services |-> FALSE]
    /\ cSvc' = svc /\ cPods' = pods /\ dirtySvc' = {} /\ dirtyPods' = {}
    /\ queue' = {s \in Services : Exists(svc[s]) /\ svc[s].ctl}
    /\ UNCHANGED <<svc, pods, admitted, changes>>

-----------------------------------------------------------------------------
(* The environment. *)

Change == changes < MaxChanges /\ changes' = changes + 1

CreateService(s) ==
    /\ Change /\ svc[s].phase = "new"
    /\ \E ctl \in BOOLEAN : WriteSvc(s, [phase |-> "live", clean |-> FALSE, ctl |-> ctl])
    /\ UNCHANGED <<podVars, cacheVars, queue, recVars, admitted, faults>>

DeleteService(s) ==
    /\ Change /\ svc[s].phase = "live"
    /\ WriteSvc(s, [svc[s] EXCEPT !.phase = "deleting"])
    /\ UNCHANGED <<podVars, cacheVars, queue, recVars, admitted, faults>>

LabelService(s) ==
    /\ Change /\ Exists(svc[s])
    /\ WriteSvc(s, [svc[s] EXCEPT !.ctl = ~@])
    /\ UNCHANGED <<podVars, cacheVars, queue, recVars, admitted, faults>>

\* Mutating, of a webhook that sees some of the Services: those with the label that select the pod.
Admission(seen, sel) == {s \in sel : Exists(seen[s]) /\ seen[s].ctl}

\* Any replica of the manager answers the webhook, from its own cache: as old as the leader's, or
\* up to date.
CreatePod(p) ==
    /\ Change /\ ~Exists(pods[p])
    /\ \E sel \in SUBSET Services, seen \in {cSvc, svc} :
         LET keys == Admission(seen, sel)
         IN  /\ WritePod(p, [phase |-> "live", sel |-> sel, keys |-> keys])
             /\ admitted' = [admitted EXCEPT ![p] = IF pods[p].phase = "new" THEN keys ELSE {}]
    /\ UNCHANGED <<svcVars, cacheVars, queue, recVars, faults>>

RelabelPod(p) ==
    /\ Change /\ Exists(pods[p])
    /\ \E sel \in SUBSET Services : WritePod(p, [pods[p] EXCEPT !.sel = sel])
    /\ UNCHANGED <<svcVars, cacheVars, queue, recVars, admitted, faults>>

DeletePod(p) ==
    /\ Change /\ pods[p].phase = "live"
    /\ WritePod(p, [pods[p] EXCEPT !.phase = "deleting"])
    /\ UNCHANGED <<svcVars, cacheVars, queue, recVars, admitted, faults>>

\* Lifecycle finalizers are not this module's: a pod that is being deleted goes at some time.
PodGone(p) ==
    /\ pods[p].phase = "deleting"
    /\ WritePod(p, [NoPod EXCEPT !.phase = "gone"])
    /\ UNCHANGED <<svcVars, cacheVars, queue, recVars, admitted, changes, faults>>

-----------------------------------------------------------------------------
\* The manager starts on Services and pods it has not seen; their annotations are empty.
Init ==
    /\ svc \in [Services -> {v \in Employers : v = NoService \/ (v.phase = "live" /\ ~v.clean)}]
    /\ pods \in [Pods -> {v \in PodStates : v = NoPod \/ (v.phase = "live" /\ v.keys = {})}]
    /\ cSvc = svc /\ cPods = pods /\ dirtySvc = {} /\ dirtyPods = {}
    /\ queue = {s \in Services : Exists(svc[s]) /\ svc[s].ctl}
    /\ pc = [s \in Services |-> "idle"] /\ deleting = [s \in Services |-> FALSE]
    /\ todo = [s \in Services |-> {}] /\ read = [s \in Services |-> NoneRead]
    /\ err = [s \in Services |-> FALSE]
    /\ admitted = [p \in Pods |-> {}]
    /\ changes = 0 /\ faults = 0

Environment ==
    \/ \E s \in Services : CreateService(s) \/ DeleteService(s) \/ LabelService(s)
    \/ \E p \in Pods : CreatePod(p) \/ RelabelPod(p) \/ DeletePod(p) \/ PodGone(p)

Next ==
    \/ \E s \in Services : Reconcile(s) \/ SyncSvcCache(s)
    \/ SyncPodCache \/ Crash \/ Environment

Spec == Init /\ [][Next]_vars

\* There is a worker for every employer, the watches deliver, and deleted pods go.
Fairness ==
    /\ \A s \in Services : WF_vars(Reconcile(s)) /\ WF_vars(SyncSvcCache(s))
    /\ WF_vars(SyncPodCache)
    /\ \A p \in Pods : WF_vars(PodGone(p))

FairSpec == Spec /\ Fairness

-----------------------------------------------------------------------------
(* Properties. *)

TypeAPI ==
    /\ svc \in [Services -> Employers] /\ cSvc \in [Services -> Employers]
    /\ pods \in [Pods -> PodStates] /\ cPods \in [Pods -> PodStates]
    /\ dirtySvc \subseteq Services /\ dirtyPods \subseteq Pods
TypeReconcile ==
    /\ queue \subseteq Services /\ pc \in [Services -> {"idle", "patch", "sync", "clean"}]
    /\ deleting \in [Services -> BOOLEAN] /\ err \in [Services -> BOOLEAN]
    /\ todo \in [Services -> SUBSET Pods] /\ read \in [Services -> [Pods -> Reads]]
\* Every variable keeps its type, and a worker that does not patch holds no pod.
TypeOK ==
    /\ TypeAPI /\ TypeReconcile
    /\ \A s \in Services : pc[s] # "patch" => todo[s] = {} /\ read[s] = NoneRead
    /\ admitted \in [Pods -> SUBSET Services]
    /\ changes \in 0..MaxChanges /\ faults \in 0..MaxFaults

\* What the webhook gave a pod of a new name stays: whatever reconciles write over each other, no
\* employer's key that was there from the start goes, as long as the employer lives.
AdmittedKept ==
    \A p \in Pods : Exists(pods[p]) =>
        \A s \in admitted[p] : svc[s].phase = "live" => s \in pods[p].keys

Over(s) == svc[s].phase \in {"deleting", "gone"}
\* What is not marked has been seen; a deletion that was seen, or is being acted on, has happened.
SeenTruly ==
    \A s \in Services :
        /\ s \notin dirtySvc => cSvc[s] = svc[s]
        /\ cSvc[s].phase # "new" => svc[s].phase # "new"
        /\ cSvc[s].phase \in {"deleting", "gone"} \/ deleting[s] => Over(s)
\* A pod that has never been has not been seen or read, and has been admitted no key; keys are
\* admitted for employers that have been created.
Unborn ==
    \A p \in Pods :
        /\ pods[p].phase = "new" =>
             cPods[p].phase = "new" /\ admitted[p] = {} /\ \A t \in Services : ~read[t][p].on
        /\ \A s \in admitted[p] : svc[s].phase # "new"
\* A key that a pod was created with is in every copy of its annotation: at the API server, in
\* the cache and in what any employer's reconcile is about to write back.
InEveryCopy ==
    \A p \in Pods : \A s \in admitted[p] : ~Over(s) =>
        /\ Exists(pods[p]) => s \in pods[p].keys
        /\ Exists(cPods[p]) => s \in cPods[p].keys
        /\ \A t \in Services : read[t][p].on => s \in read[t][p].keys
\* Why no reconcile, however old what it read, takes away a key it does not own.
KeyInv == SeenTruly /\ Unborn /\ InEveryCopy

Quiescent ==
    queue = {} /\ dirtySvc = {} /\ dirtyPods = {} /\ \A s \in Services : pc[s] = "idle"

\* When the manager rests, every pod has the key of every labelled employer that selects it: a key
\* that another employer's patch took with it has been put back.
QuiescentExpected ==
    Quiescent =>
        \A s \in Services, p \in Pods :
            svc[s].phase = "live" /\ svc[s].ctl /\ pods[p].phase = "live" /\ s \in pods[p].sel =>
                s \in pods[p].keys

\* When the manager rests, a labelled employer that is being deleted waits for a pod that it
\* selects: of none is it forgotten that its last pod has gone or has been relabelled.
QuiescentGone ==
    Quiescent =>
        \A s \in Services : svc[s].ctl /\ svc[s].phase = "deleting" =>
            \E p \in Pods : Exists(pods[p]) /\ s \in pods[p].sel

\* The manager comes to rest: employers do not keep each other going by taking each other's keys.
Settles == <>[]Quiescent
=============================================================================
