------------------------- MODULE SlbConsist_proofs -------------------------
(***************************************************************************)
(* Safety of SlbConsist, for any number of pods, addresses, changes and    *)
(* faults: types, and that protection is taken only from pods without      *)
(* traffic.  The second needs that no pod is protected before the Service  *)
(* has the load balancer's ID, and that whoever holds a Service holds one  *)
(* with the ID from then on: without the ID nobody seems to have traffic.  *)
(* At the end, that nothing is forgotten: a deleted Service is not left    *)
(* waiting for nothing, and no ready pod is left unprotected or unrecorded.*)
(***************************************************************************)
EXTENDS SlbConsist, FiniteSetTheorems, TLAPS

\* What is known of the Service: the cache is behind, the ID stays, and finalizers have been taken
\* into account.
SvcInv ==
    /\ ~dirtySvc => cSvc = svc
    /\ svc.phase = "deleting" => svc.clean
    /\ svc.phase = "gone" \/ (cSvc.phase # "gone" /\ (cSvc.lb => svc.lb))

\* Whoever protects has seen the ID, and so has everybody after that.
LabelInv ==
    /\ cSvc.phase = "gone" \/ cSvc.lb \/ \A p \in Pods : ~pods[p].flz
    /\ pc # "idle" => obj.lb \/ \A p \in Pods : ~pods[p].flz
    /\ pc \notin {"idle", "clean"} /\ obj.lb => cSvc.phase = "gone" \/ cSvc.lb
    /\ toAdd # {} => obj.lb

\* What is to lose its protection had no traffic.
OffInv ==
    /\ pc \in {"idle", "listExpected", "listCurrent"} => toAdd = {} /\ toDel = {}
    /\ pc \notin {"idle", "listExpected"} => Ips \ backends \subseteq off
    /\ \A p \in toDel : obj.lb /\ seen[p].ip # None => seen[p].ip \in off

Inv == TypeOK /\ SvcInv /\ LabelInv /\ OffInv

-----------------------------------------------------------------------------
LEMMA NoOnes == NoService \in Services /\ NoService.phase = "gone" /\ ~NoService.lb
                /\ NoPod \in PodStates /\ ~NoPod.flz /\ [p \in Pods |-> NoPod] \in [Pods -> PodStates]
  BY DEF NoService, NoPod, Services, PodStates

LEMMA InitInv == Init => Inv
  <1> SUFFICES ASSUME Init PROVE Inv
    OBVIOUS
  <1>1. pods \in [Pods -> PodStates] /\ \A p \in Pods : ~pods[p].flz
    BY NoOnes DEF Init
  <1>2. TypeOK
    <2>1. svc \in Services /\ cSvc = svc /\ cPods = pods /\ dirtySvc = FALSE /\ dirtyPods = {} /\ backends = {}
      BY DEF Init
    <2>2. TypeAPI
      BY <1>1, <2>1 DEF TypeAPI
    <2>3. TypeReconcile
      BY NoOnes DEF Init, TypeReconcile
    <2>4. changes \in 0..MaxChanges /\ faults \in 0..MaxFaults
      BY SlbAssumption DEF Init
    <2>. QED BY <2>2, <2>3, <2>4 DEF TypeOK
  <1>3. SvcInv /\ LabelInv /\ OffInv
    BY <1>1 DEF Init, SvcInv, LabelInv, OffInv
  <1>. QED BY <1>2, <1>3 DEF Inv

LEMMA ChargeType == ASSUME TypeOK, NEW outcome, Charge(outcome) PROVE faults' \in 0..MaxFaults
  BY SlbAssumption DEF TypeOK, Charge

\* Returning: nothing is held any more.
LEMMA ReturnInv ==
  ASSUME Inv, NEW b \in BOOLEAN, Return(b)
  PROVE  TypeReconcile' /\ OffInv' /\ pc' = "idle" /\ toAdd' = {}
  BY NoOnes DEF Inv, TypeOK, TypeReconcile, Return, OffInv

\* A write of a Service that keeps the ID it has.
LEMMA WriteSvcInv ==
  ASSUME Inv, NEW v \in Services, WriteSvc(v), v.phase # "gone", svc.phase # "gone", svc.lb => v.lb,
         cSvc' = cSvc
  PROVE  svc' \in Services /\ dirtySvc' \in BOOLEAN /\ SvcInv'
  <1>1. svc' = NoService \/ (svc' = v /\ (v.phase = "deleting" => v.clean))
    BY DEF WriteSvc
  <1>2. dirtySvc' = TRUE
    BY DEF WriteSvc
  <1>3. svc' \in Services
    BY <1>1, NoOnes
  <1>4. SvcInv'
    BY <1>1, <1>2, NoOnes DEF Inv, SvcInv
  <1>. QED BY <1>2, <1>3, <1>4

\* A call that writes the cached Service: it is what the API server has.
LEMMA SameSvc ==
  ASSUME Inv, ~dirtySvc, cSvc.phase # "gone", NEW c \in BOOLEAN
  PROVE  /\ [cSvc EXCEPT !.clean = c] \in Services /\ [cSvc EXCEPT !.clean = c].phase = svc.phase
         /\ svc.phase # "gone" /\ [cSvc EXCEPT !.clean = c].lb = svc.lb
  BY DEF Inv, TypeOK, TypeAPI, SvcInv, Services

-----------------------------------------------------------------------------
LEMMA NotFoundInv == ASSUME Inv, ReconcileNotFound PROVE Inv'
  BY DEF ReconcileNotFound, Inv, TypeOK, TypeAPI, TypeReconcile, SvcInv, LabelInv, OffInv,
         svcVars, podVars, cacheVars, batchVars

LEMMA EnsureInv == ASSUME Inv, EnsureEmployerCleanFlz PROVE Inv'
  <1> USE DEF Inv
  <1>1. /\ queued' \in BOOLEAN /\ faults' \in 0..MaxFaults
    BY ChargeType DEF EnsureEmployerCleanFlz, TypeOK, TypeReconcile
  <1>2. UNCHANGED <<podVars, cacheVars, backends, pc, obj, seen, batchVars, res, off, changes>>
    BY DEF EnsureEmployerCleanFlz
  <1>3. svc' \in Services /\ dirtySvc' \in BOOLEAN /\ SvcInv'
    <2>1. CASE UNCHANGED svcVars
      BY <1>2, <2>1 DEF svcVars, cacheVars, TypeOK, TypeAPI, SvcInv
    <2>2. CASE ~dirtySvc /\ WriteSvc([cSvc EXCEPT !.clean = TRUE])
      BY <1>2, <2>2, SameSvc, WriteSvcInv DEF cacheVars, EnsureEmployerCleanFlz
    <2>. QED BY <2>1, <2>2 DEF EnsureEmployerCleanFlz
  <1>4. TypeOK'
    BY <1>1, <1>2, <1>3 DEF TypeOK, TypeAPI, TypeReconcile, podVars, cacheVars, batchVars
  <1>5. LabelInv' /\ OffInv'
    BY <1>2 DEF LabelInv, OffInv, podVars, cacheVars, batchVars
  <1>. QED BY <1>3, <1>4, <1>5

LEMMA BeginInv == ASSUME Inv, BeginReconcile PROVE Inv'
  <1> USE DEF Inv
  <1>1. TypeOK'
    BY ChargeType DEF BeginReconcile, TypeOK, TypeAPI, TypeReconcile, svcVars, podVars, cacheVars, batchVars
  <1>2. SvcInv' /\ LabelInv' /\ OffInv'
    BY DEF BeginReconcile, SvcInv, LabelInv, OffInv, svcVars, podVars, cacheVars, batchVars
  <1>. QED BY <1>1, <1>2

\* The entries of a list are pods' states.
LEMMA EntriesType == ASSUME TypeOK, NEW W PROVE Entries(W) \in [Pods -> PodStates]
  <1>1. ASSUME NEW p \in Pods PROVE EntryOf(cPods[p]) \in PodStates
    <2>1. cPods[p] \in PodStates
      BY DEF TypeOK, TypeAPI
    <2>. QED BY <2>1 DEF EntryOf, NoPod, PodStates
  <1>. QED BY <1>1, NoOnes DEF Entries

LEMMA ListInv == ASSUME Inv, ListExpected \/ ListCurrent PROVE Inv'
  <1> USE DEF Inv
  <1>1. /\ UNCHANGED <<svcVars, podVars, cacheVars, backends, queued, obj, batchVars, changes, faults>>
        /\ pc \in {"listExpected", "listCurrent"} /\ pc' \in {"listCurrent", "query"}
        /\ toAdd = {} /\ toDel = {}
    BY DEF ListExpected, ListCurrent, OffInv
  <1>2. seen' \in [Pods -> PodStates]
    BY EntriesType, NoOnes DEF ListExpected, ListCurrent, TypeOK, TypeReconcile
  <1>3. res' \subseteq {"expClean", "failed", "clean", "err", "racy"}
    BY DEF ListExpected, ListCurrent, TypeOK, TypeReconcile
  <1>4. off' \subseteq Ips /\ Ips \ backends \subseteq off'
    BY DEF ListExpected, ListCurrent, TypeOK, TypeReconcile, OffInv
  <1>5. TypeOK'
    BY <1>1, <1>2, <1>3, <1>4 DEF TypeOK, TypeAPI, TypeReconcile, svcVars, podVars, cacheVars, batchVars
  <1>6. SvcInv' /\ LabelInv' /\ OffInv'
    BY <1>1, <1>4 DEF SvcInv, LabelInv, OffInv, svcVars, podVars, cacheVars, batchVars
  <1>. QED BY <1>5, <1>6

\* What is in step and not ready has no traffic, if the Service has the ID; if it has not, nothing
\* seems to have any, and nothing is to be protected.
LEMMA QueryInv == ASSUME Inv, Query PROVE Inv'
  <1> USE DEF Inv
  <1>1. /\ UNCHANGED <<svcVars, podVars, cacheVars, backends, queued, obj, seen, toDrop, done, off, changes, faults>>
        /\ pc = "query" /\ pc' = "collectUnselected"
        /\ toAdd' = {p \in Pods : InStep(p) /\ seen[p].ready}
        /\ toDel' = {p \in Pods : InStep(p) /\ ~seen[p].ready}
        /\ res' \subseteq {"expClean", "failed", "clean", "err", "racy"}
    BY DEF Query, TypeOK, TypeReconcile
  <1>2. TypeOK'
    BY <1>1 DEF TypeOK, TypeAPI, TypeReconcile, svcVars, podVars, cacheVars
  <1>3. toAdd' # {} => obj.lb
    BY <1>1 DEF InStep, View
  <1>4. ASSUME NEW p \in toDel', obj.lb, seen[p].ip # None PROVE seen[p].ip \in off
    <2>1. seen[p].ip \in Ips
      BY <1>1, <1>4 DEF TypeOK, TypeReconcile, PodStates
    <2>2. seen[p].ip \notin backends
      BY <1>1, <1>4 DEF InStep, View
    <2>. QED BY <1>1, <2>1, <2>2 DEF OffInv
  <1>5. SvcInv' /\ LabelInv'
    BY <1>1, <1>3 DEF SvcInv, LabelInv, svcVars, podVars, cacheVars
  <1>6. OffInv'
    BY <1>1, <1>4 DEF OffInv
  <1>. QED BY <1>2, <1>5, <1>6

LEMMA QueryErrorInv == ASSUME Inv, QueryError PROVE Inv'
  <1> USE DEF Inv
  <1>1. TypeReconcile' /\ OffInv' /\ pc' = "idle" /\ toAdd' = {}
    BY ReturnInv DEF QueryError
  <1>2. UNCHANGED <<svcVars, podVars, cacheVars, backends, changes>> /\ faults' \in 0..MaxFaults
    BY ChargeType DEF QueryError, TypeOK
  <1>3. TypeOK' /\ SvcInv' /\ LabelInv'
    BY <1>1, <1>2 DEF TypeOK, TypeAPI, SvcInv, LabelInv, svcVars, podVars, cacheVars
  <1>. QED BY <1>1, <1>3

LEMMA CollectInv == ASSUME Inv, CollectUnselected PROVE Inv'
  <1> USE DEF Inv
  <1>1. TypeOK'
    BY DEF CollectUnselected, TypeOK, TypeAPI, TypeReconcile, Services, svcVars, podVars, cacheVars
  <1>2. SvcInv' /\ LabelInv' /\ OffInv'
    BY DEF CollectUnselected, SvcInv, LabelInv, OffInv, svcVars, podVars, cacheVars
  <1>. QED BY <1>1, <1>2

-----------------------------------------------------------------------------
LEMMA UpdatePodType ==
  ASSUME Inv, NEW p \in Pods, NEW value \in BOOLEAN, UpdatePodFlz(p, value)
  PROVE  /\ pods' \in [Pods -> PodStates] /\ dirtyPods' \subseteq Pods
         /\ res' \subseteq {"expClean", "failed", "clean", "err", "racy"} /\ faults' \in 0..MaxFaults
         /\ value \/ \A q \in Pods : pods'[q].flz => pods[q].flz
  <1> USE DEF Inv
  <1>1. res' \subseteq {"expClean", "failed", "clean", "err", "racy"}
    BY DEF UpdatePodFlz, TypeOK, TypeReconcile
  <1>2. faults' \in 0..MaxFaults
    BY ChargeType DEF UpdatePodFlz, TypeOK
  <1>3. CASE UNCHANGED podVars
    BY <1>1, <1>2, <1>3 DEF podVars, TypeOK, TypeAPI
  <1>4. CASE WritePod(p, [pods[p] EXCEPT !.flz = value])
    <2>1. pods[p] \in PodStates /\ [pods[p] EXCEPT !.flz = value] \in PodStates
      BY DEF TypeOK, TypeAPI, PodStates
    <2>2. [pods[p] EXCEPT !.flz = value].flz = value
      BY <2>1 DEF PodStates
    <2>. QED BY <1>1, <1>2, <1>4, <2>1, <2>2 DEF WritePod, TypeOK, TypeAPI
  <1>. QED BY <1>3, <1>4 DEF UpdatePodFlz

\* A step of the batches that protects only if there is something to protect.
LEMMA BatchInv ==
  ASSUME Inv, UNCHANGED <<svcVars, cacheVars, backends, queued, pc, obj, seen, toAdd, off, changes>>,
         pods' \in [Pods -> PodStates], dirtyPods' \subseteq Pods,
         toDel' \subseteq toDel, toDrop' \subseteq toDrop, done' \subseteq Pods,
         res' \subseteq {"expClean", "failed", "clean", "err", "racy"}, faults' \in 0..MaxFaults,
         pc \in {"addFlz", "delFlz"},
         obj.lb \/ \A q \in Pods : pods'[q].flz => pods[q].flz
  PROVE  Inv'
  <1> USE DEF Inv
  <1>1. TypeOK'
    BY DEF TypeOK, TypeAPI, TypeReconcile, svcVars, cacheVars
  <1>2. SvcInv' /\ OffInv'
    BY DEF SvcInv, OffInv, svcVars, cacheVars
  <1>3. LabelInv'
    BY DEF LabelInv, svcVars, cacheVars
  <1>. QED BY <1>1, <1>2, <1>3

LEMMA AddInv == ASSUME Inv, NEW p \in Pods, AddLifecycleFlz(p) PROVE Inv'
  <1> USE DEF Inv
  <1>1. /\ UNCHANGED <<svcVars, cacheVars, backends, queued, pc, obj, seen, toAdd, toDel, toDrop, off, changes>>
        /\ done' \subseteq Pods /\ pc = "addFlz" /\ obj.lb
    BY DEF AddLifecycleFlz, TypeOK, TypeReconcile, LabelInv
  <1>2. CASE UNCHANGED <<podVars, res, faults>>
    BY <1>1, <1>2, BatchInv DEF podVars, TypeOK, TypeAPI, TypeReconcile
  <1>3. CASE UpdatePodFlz(p, TRUE)
    BY <1>1, <1>3, UpdatePodType, BatchInv
  <1>. QED BY <1>2, <1>3 DEF AddLifecycleFlz

LEMMA DeleteInv == ASSUME Inv, NEW p \in Pods, DeleteFlzOfEmployee(p) \/ DeleteFlzOfRecorded(p) PROVE Inv'
  <1> USE DEF Inv
  <1>1. /\ UNCHANGED <<svcVars, cacheVars, backends, queued, pc, obj, seen, toAdd, done, off, changes>>
        /\ toDel' \subseteq toDel /\ toDrop' \subseteq toDrop /\ done' \subseteq Pods /\ pc = "delFlz"
        /\ DeleteLifecycleFlz(p)
    BY DEF DeleteFlzOfEmployee, DeleteFlzOfRecorded, TypeOK, TypeReconcile
  <1>2. CASE UNCHANGED <<podVars, res>> /\ faults' \in 0..MaxFaults
    BY <1>1, <1>2, BatchInv DEF podVars, TypeOK, TypeAPI, TypeReconcile
  <1>3. CASE UpdatePodFlz(p, FALSE)
    BY <1>1, <1>3, UpdatePodType, BatchInv
  <1>4. UpdatePodFlz(p, FALSE) \/ (UNCHANGED <<podVars, res>> /\ faults' \in 0..MaxFaults)
    BY <1>1, ChargeType DEF DeleteLifecycleFlz, TypeOK
  <1>. QED BY <1>2, <1>3, <1>4

LEMMA EndAddInv == ASSUME Inv, EndAddLifecycleFlz PROVE Inv'
  <1> USE DEF Inv
  <1>1. UNCHANGED <<svcVars, podVars, cacheVars, backends, changes, faults>>
    BY DEF EndAddLifecycleFlz
  <1>2. TypeReconcile' /\ OffInv' /\ LabelInv'
    <2>1. CASE Return(TRUE)
      <3>1. TypeReconcile' /\ OffInv' /\ pc' = "idle" /\ toAdd' = {}
        BY <2>1, ReturnInv
      <3>. QED BY <1>1, <3>1 DEF LabelInv, podVars, cacheVars
    <2>2. CASE ~Return(TRUE)
      <3>1. /\ pc = "addFlz" /\ pc' = "delFlz" /\ done' = {}
            /\ res' \subseteq {"expClean", "failed", "clean", "err", "racy"}
            /\ UNCHANGED <<queued, obj, seen, toAdd, toDel, toDrop, off>>
        BY <2>2 DEF EndAddLifecycleFlz, TypeOK, TypeReconcile
      <3>. QED BY <1>1, <3>1 DEF TypeOK, TypeReconcile, OffInv, LabelInv, podVars, cacheVars
    <2>. QED BY <2>1, <2>2
  <1>3. TypeOK' /\ SvcInv'
    BY <1>1, <1>2 DEF TypeOK, TypeAPI, SvcInv, svcVars, podVars, cacheVars
  <1>. QED BY <1>2, <1>3

\* The Service that is held after the record was patched still has the ID.
LEMMA RecordInv == ASSUME Inv, RecordLifecycle PROVE Inv'
  <1> USE DEF Inv
  <1> DEFINE v == [svc EXCEPT !.rec = toAdd]
  <1>1. UNCHANGED <<podVars, cacheVars, backends, changes>> /\ faults' \in 0..MaxFaults
        /\ pc = "delFlz" /\ toDel = {}
    BY ChargeType DEF RecordLifecycle, TypeOK
  <1>2. v \in Services /\ v.phase = svc.phase /\ v.lb = svc.lb /\ v.clean = svc.clean
    BY DEF TypeOK, TypeAPI, TypeReconcile, Services
  <1>3. svc' \in Services /\ dirtySvc' \in BOOLEAN /\ SvcInv'
    <2>1. CASE UNCHANGED svcVars
      BY <1>1, <2>1 DEF svcVars, cacheVars, TypeOK, TypeAPI, SvcInv
    <2>2. CASE svc.phase # "gone" /\ WriteSvc(v)
      BY <1>1, <1>2, <2>2, WriteSvcInv DEF cacheVars
    <2>. QED BY <2>1, <2>2 DEF RecordLifecycle
  <1>4. TypeReconcile' /\ OffInv' /\ LabelInv'
    <2>1. CASE Return(TRUE)
      <3>1. TypeReconcile' /\ OffInv' /\ pc' = "idle" /\ toAdd' = {}
        BY <2>1, ReturnInv
      <3>. QED BY <1>1, <3>1 DEF LabelInv, podVars, cacheVars
    <2>2. CASE pc' = "clean" /\ UNCHANGED <<queued, obj, seen, batchVars, res, off>>
      BY <1>1, <2>2 DEF TypeOK, TypeReconcile, OffInv, LabelInv, podVars, cacheVars, batchVars
    <2>3. CASE /\ svc.phase # "gone" /\ svc' \in {v, svc} /\ pc' = "clean" /\ obj' = svc'
               /\ UNCHANGED <<queued, seen, batchVars, res, off>>
      <3>1. obj.lb => svc'.lb
        BY <1>1, <1>2, <2>3 DEF SvcInv, LabelInv
      <3>. QED BY <1>1, <1>3, <2>3, <3>1
           DEF TypeOK, TypeReconcile, OffInv, LabelInv, podVars, cacheVars, batchVars
    <2>4. WriteSvc(v) /\ svc.phase # "gone" => svc' = v
      BY <1>2 DEF WriteSvc, SvcInv
    <2>. QED BY <2>1, <2>2, <2>3, <2>4 DEF RecordLifecycle, svcVars
  <1>5. TypeOK'
    BY <1>1, <1>3, <1>4 DEF TypeOK, TypeAPI, podVars, cacheVars
  <1>. QED BY <1>3, <1>4, <1>5

-----------------------------------------------------------------------------
LEMMA FinishInv == ASSUME Inv, FinishReconcile PROVE Inv'
  <1> USE DEF Inv
  <1>1. TypeReconcile' /\ OffInv' /\ pc' = "idle" /\ toAdd' = {}
    <2>1. ("failed" \in res) \in BOOLEAN
      OBVIOUS
    <2>2. Return("failed" \in res)
      BY DEF FinishReconcile
    <2>. QED BY <2>1, <2>2, ReturnInv
  <1>2. UNCHANGED <<svcVars, podVars, cacheVars, backends, changes, faults>>
    BY DEF FinishReconcile
  <1>3. TypeOK' /\ SvcInv' /\ LabelInv'
    BY <1>1, <1>2 DEF TypeOK, TypeAPI, SvcInv, LabelInv, svcVars, podVars, cacheVars
  <1>. QED BY <1>1, <1>3

LEMMA CleanInv == ASSUME Inv, CleanEmployerCleanFinalizer PROVE Inv'
  <1> USE DEF Inv
  <1>1. /\ UNCHANGED <<podVars, cacheVars, backends, changes>> /\ faults' \in 0..MaxFaults
        /\ TypeReconcile' /\ OffInv' /\ pc' = "idle" /\ toAdd' = {}
    BY ReturnInv, ChargeType DEF CleanEmployerCleanFinalizer, TypeOK
  <1>2. svc' \in Services /\ dirtySvc' \in BOOLEAN /\ SvcInv'
    <2>1. CASE UNCHANGED svcVars
      BY <1>1, <2>1 DEF svcVars, cacheVars, TypeOK, TypeAPI, SvcInv
    <2>2. CASE cSvc.phase # "gone" /\ ~dirtySvc /\ WriteSvc([cSvc EXCEPT !.clean = FALSE])
      BY <1>1, <2>2, SameSvc, WriteSvcInv DEF cacheVars
    <2>. QED BY <2>1, <2>2 DEF CleanEmployerCleanFinalizer
  <1>3. TypeOK' /\ LabelInv'
    BY <1>1, <1>2 DEF TypeOK, TypeAPI, LabelInv, podVars, cacheVars
  <1>. QED BY <1>1, <1>2, <1>3

LEMMA WatchInv == ASSUME Inv, SyncSvcCache \/ SyncPodCache PROVE Inv'
  <1> USE DEF Inv
  <1>1. TypeOK'
    BY DEF SyncSvcCache, SyncPodCache, TypeOK, TypeAPI, TypeReconcile, svcVars, podVars, batchVars
  <1>2. SvcInv' /\ LabelInv' /\ OffInv'
    BY DEF SyncSvcCache, SyncPodCache, SvcInv, LabelInv, OffInv, svcVars, podVars, batchVars
  <1>. QED BY <1>1, <1>2

LEMMA CrashInv == ASSUME Inv, Crash PROVE Inv'
  <1> USE DEF Inv
  <1>1. faults' \in 0..MaxFaults
    BY ChargeType DEF Crash, TypeOK
  <1>2. TypeOK'
    BY <1>1, NoOnes DEF Crash, TypeOK, TypeAPI, TypeReconcile
  <1>3. SvcInv' /\ LabelInv' /\ OffInv'
    BY DEF Crash, SvcInv, LabelInv, OffInv
  <1>. QED BY <1>2, <1>3

LEMMA CcmInv == ASSUME Inv, CcmSync \/ CcmLabel PROVE Inv'
  <1> USE DEF Inv
  <1>1. CASE CcmSync
    <2>1. Wanted \subseteq Ips
      BY DEF Wanted, TypeOK, TypeAPI, PodStates
    <2>2. backends' \subseteq Ips
      BY <1>1, <2>1 DEF CcmSync, TypeOK, TypeAPI
    <2>3. off' \subseteq Ips /\ off \subseteq off'
      BY <1>1 DEF CcmSync, TypeOK, TypeReconcile
    <2>4. pc \notin {"idle", "listExpected"} => Ips \ backends' \subseteq off'
      BY <1>1 DEF CcmSync
    <2>5. UNCHANGED <<svcVars, podVars, cacheVars, recVars, changes, faults>>
      BY <1>1 DEF CcmSync
    <2>6. TypeOK'
      BY <2>2, <2>3, <2>5 DEF TypeOK, TypeAPI, TypeReconcile, svcVars, podVars, cacheVars, recVars, batchVars
    <2>7. SvcInv' /\ LabelInv' /\ OffInv'
      BY <2>3, <2>4, <2>5 DEF SvcInv, LabelInv, OffInv, svcVars, podVars, cacheVars, recVars, batchVars
    <2>. QED BY <2>6, <2>7
  <1>2. CASE CcmLabel
    <2> DEFINE v == [svc EXCEPT !.lb = TRUE]
    <2>1. v \in Services /\ v.phase = "live" /\ v.lb
      BY <1>2 DEF CcmLabel, TypeOK, TypeAPI, Services
    <2>2. svc' \in Services /\ dirtySvc' \in BOOLEAN /\ SvcInv'
      BY <1>2, <2>1, WriteSvcInv DEF CcmLabel, cacheVars
    <2>3. TypeOK' /\ LabelInv' /\ OffInv'
      BY <1>2, <2>2 DEF CcmLabel, TypeOK, TypeAPI, TypeReconcile, LabelInv, OffInv,
                         podVars, cacheVars, recVars, batchVars
    <2>. QED BY <2>2, <2>3
  <1>. QED BY <1>1, <1>2

LEMMA DeleteServiceInv == ASSUME Inv, DeleteService PROVE Inv'
  <1> USE DEF Inv
  <1> DEFINE v == [svc EXCEPT !.phase = "deleting"]
  <1>1. v \in Services /\ v.phase = "deleting" /\ v.lb = svc.lb
    BY DEF DeleteService, TypeOK, TypeAPI, Services
  <1>2. svc' \in Services /\ dirtySvc' \in BOOLEAN /\ SvcInv'
    BY <1>1, WriteSvcInv DEF DeleteService, cacheVars
  <1>3. changes' \in 0..MaxChanges
    BY SlbAssumption DEF DeleteService, Change, TypeOK
  <1>4. TypeOK' /\ LabelInv' /\ OffInv'
    BY <1>2, <1>3 DEF DeleteService, TypeOK, TypeAPI, TypeReconcile, LabelInv, OffInv,
                       podVars, cacheVars, recVars, batchVars
  <1>. QED BY <1>2, <1>4

\* A change of a pod by anybody else does not protect it.
LEMMA RewriteInv ==
  ASSUME Inv, NEW p \in Pods, NEW v \in PodStates, Rewrite(p, v), v.flz => pods[p].flz,
         changes' \in 0..MaxChanges
  PROVE  Inv'
  <1> USE DEF Inv
  <1>1. pods' = [pods EXCEPT ![p] = v] /\ dirtyPods' = dirtyPods \cup {p}
        /\ UNCHANGED <<svcVars, cacheVars, backends, recVars, off, faults>>
    BY DEF Rewrite, WritePod
  <1>2. pods' \in [Pods -> PodStates] /\ dirtyPods' \subseteq Pods
        /\ \A q \in Pods : pods'[q].flz => pods[q].flz
    BY <1>1 DEF TypeOK, TypeAPI
  <1>3. TypeOK'
    BY <1>1, <1>2 DEF TypeOK, TypeAPI, TypeReconcile, svcVars, cacheVars, recVars, batchVars
  <1>4. SvcInv' /\ LabelInv' /\ OffInv'
    BY <1>1, <1>2 DEF SvcInv, LabelInv, OffInv, svcVars, cacheVars, recVars, batchVars
  <1>. QED BY <1>3, <1>4

LEMMA ChangeType == ASSUME TypeOK, Change \/ UNCHANGED changes PROVE changes' \in 0..MaxChanges
  BY SlbAssumption DEF Change, TypeOK

LEMMA PodInv ==
  ASSUME Inv, NEW p \in Pods,
         CreatePod(p) \/ DeletePod(p) \/ RelabelPod(p) \/ ChangeReadiness(p) \/ Kubelet(p)
  PROVE  Inv'
  <1> USE DEF Inv
  <1>1. changes' \in 0..MaxChanges
    BY ChangeType DEF CreatePod, DeletePod, RelabelPod, ChangeReadiness, Kubelet, FollowGate, StartPod, PodGone
  <1>2. pods[p] \in PodStates
    BY DEF TypeOK, TypeAPI
  <1>3. CASE CreatePod(p)
    <2>1. PICK sel \in BOOLEAN : Rewrite(p, [NoPod EXCEPT !.phase = "live", !.sel = sel])
      BY <1>3 DEF CreatePod
    <2> DEFINE v == [NoPod EXCEPT !.phase = "live", !.sel = sel]
    <2>2. v \in PodStates /\ ~v.flz
      BY DEF NoPod, PodStates
    <2>. QED BY <1>1, <2>1, <2>2, RewriteInv
  <1>4. CASE DeletePod(p)
    <2> DEFINE v == [pods[p] EXCEPT !.phase = "deleting", !.ready = FALSE, !.kready = FALSE]
    <2>1. v \in PodStates /\ v.flz = pods[p].flz
      BY <1>2 DEF PodStates
    <2>. QED BY <1>1, <1>4, <2>1, RewriteInv DEF DeletePod
  <1>5. CASE RelabelPod(p)
    <2> DEFINE v == [pods[p] EXCEPT !.sel = ~@]
    <2>1. v \in PodStates /\ v.flz = pods[p].flz
      BY <1>2 DEF PodStates
    <2>. QED BY <1>1, <1>5, <2>1, RewriteInv DEF RelabelPod
  <1>6. CASE ChangeReadiness(p)
    <2>1. PICK ready, kready \in BOOLEAN : Rewrite(p, [pods[p] EXCEPT !.ready = ready, !.kready = kready])
      BY <1>6 DEF ChangeReadiness
    <2> DEFINE v == [pods[p] EXCEPT !.ready = ready, !.kready = kready]
    <2>2. v \in PodStates /\ v.flz = pods[p].flz
      BY <1>2, <1>6 DEF ChangeReadiness, PodStates
    <2>. QED BY <1>1, <2>1, <2>2, RewriteInv
  <1>7. CASE FollowGate(p)
    <2> DEFINE v == [pods[p] EXCEPT !.kready = FALSE]
    <2>1. v \in PodStates /\ v.flz = pods[p].flz
      BY <1>2 DEF PodStates
    <2>. QED BY <1>1, <1>7, <2>1, RewriteInv DEF FollowGate
  <1>8. CASE StartPod(p)
    <2>1. PICK i \in Ips : Rewrite(p, [pods[p] EXCEPT !.ip = i])
      BY <1>8 DEF StartPod
    <2> DEFINE v == [pods[p] EXCEPT !.ip = i]
    <2>2. v \in PodStates /\ v.flz = pods[p].flz
      BY <1>2, SlbAssumption DEF PodStates
    <2>. QED BY <1>1, <2>1, <2>2, RewriteInv
  <1>9. CASE PodGone(p)
    BY <1>1, <1>9, NoOnes, RewriteInv DEF PodGone
  <1>. QED BY <1>3, <1>4, <1>5, <1>6, <1>7, <1>8, <1>9 DEF Kubelet

LEMMA NextInv == Inv /\ [Next]_vars => Inv'
  <1> SUFFICES ASSUME Inv, [Next]_vars PROVE Inv'
    OBVIOUS
  <1>1. CASE Reconcile
    BY <1>1, NotFoundInv, EnsureInv, BeginInv, ListInv, QueryInv, QueryErrorInv, CollectInv, AddInv,
       DeleteInv, EndAddInv, RecordInv, FinishInv, CleanInv DEF Reconcile
  <1>2. CASE Environment
    BY <1>2, DeleteServiceInv, PodInv DEF Environment
  <1>3. CASE UNCHANGED vars
    BY <1>3 DEF Inv, TypeOK, TypeAPI, TypeReconcile, SvcInv, LabelInv, OffInv,
                vars, svcVars, podVars, cacheVars, recVars, batchVars
  <1>. QED BY <1>1, <1>2, <1>3, WatchInv, CrashInv, CcmInv DEF Next

-----------------------------------------------------------------------------
LEMMA AlwaysInv == Spec => []Inv
  BY InitInv, NextInv, PTL DEF Spec

\* Every variable keeps its type, and no pod is ready without an address.
THEOREM SlbTypes == Spec => []TypeOK
  BY AlwaysInv, PTL DEF Inv

\* However lists, the provider's answer, the CCM and the pods' own changes interleave: protection
\* is taken from a selected pod only if its address was without traffic since the pods were listed.
THEOREM SlbUnprotectsIdle == Spec => UnprotectsIdle
  <1> DEFINE OnlyIdle ==
        \A p \in toDel :
           pods[p].flz /\ ~pods'[p].flz /\ pods'[p].phase # "none" /\ seen[p].ip # None
               => seen[p].ip \in off
  <1>1. Inv => OnlyIdle
    BY DEF Inv, LabelInv, OffInv, TypeOK, TypeReconcile
  <1>. HIDE DEF OnlyIdle
  <1>2. Inv => [OnlyIdle]_vars
    BY <1>1
  <1>3. Spec => [][OnlyIdle]_vars
    BY <1>2, AlwaysInv, PTL
  <1>. QED BY <1>3 DEF OnlyIdle, UnprotectsIdle

-----------------------------------------------------------------------------
(* At rest.  A Service that is being deleted, and has no pods as far as    *)
(* the cache goes, is queued, or is about to be seen, or is held by a      *)
(* reconcile that has seen it deleted from its first step, and finds it    *)
(* clean or finds something to come back for.                              *)

FreshPods == \A p \in Pods : p \notin dirtyPods => cPods[p] = pods[p]

DeletionAtWork ==
    /\ pc # "idle" /\ obj.phase = "deleting" /\ "expClean" \in res
    /\ pc \in {"listExpected", "listCurrent"} \/ "failed" \in res \/ "clean" \in res
DeletionComes ==
    svc.phase = "deleting" /\ Selected = {} => queued \/ dirtySvc \/ DeletionAtWork

Remembered == FreshPods /\ DeletionComes

\* A step that leaves the Service, the caches, the worker and the queue alone forgets nothing.
LEMMA Elsewhere ==
  ASSUME Remembered, UNCHANGED <<svcVars, cacheVars, queued, pc, obj, res>>,
         dirtyPods \subseteq dirtyPods', \A p \in Pods : pods'[p] = pods[p] \/ p \in dirtyPods'
  PROVE  Remembered'
  BY DEF Remembered, FreshPods, DeletionComes, DeletionAtWork, Selected, svcVars, cacheVars

\* The same for one that takes the Service further, or puts it into the queue.
LEMMA Marked ==
  ASSUME Remembered, queued' \/ dirtySvc', UNCHANGED <<podVars, cPods>>
  PROVE  Remembered'
  BY DEF Remembered, FreshPods, DeletionComes, podVars

\* A Service that has been deleted is seen as what it is, once it is not marked.
LEMMA DeletingSeen ==
  ASSUME Inv, svc.phase = "deleting", ~dirtySvc
  PROVE  cSvc = svc
  BY DEF Inv, SvcInv

LEMMA StartComes ==
  ASSUME Inv, Remembered, ReconcileNotFound \/ EnsureEmployerCleanFlz \/ BeginReconcile
  PROVE  Remembered'
  <1>1. CASE ReconcileNotFound
    <2>1. svc.phase = "deleting" => dirtySvc
      BY <1>1, DeletingSeen DEF ReconcileNotFound
    <2>. QED BY <1>1, <2>1
         DEF ReconcileNotFound, Remembered, FreshPods, DeletionComes, svcVars, podVars, cacheVars
  <1>2. CASE EnsureEmployerCleanFlz
    BY <1>2, Marked DEF EnsureEmployerCleanFlz, Outcomes, WriteSvc, svcVars, cacheVars
  <1>3. CASE BeginReconcile
    <2>1. CASE queued' = queued
      BY <1>3, <2>1, Marked DEF BeginReconcile, cacheVars
    <2>2. CASE pc' = "listExpected" /\ obj' = cSvc
      BY <1>3, <2>2, DeletingSeen
         DEF BeginReconcile, Remembered, FreshPods, DeletionComes, DeletionAtWork, Selected,
             svcVars, podVars, cacheVars
    <2>. QED BY <1>3, <2>1, <2>2 DEF BeginReconcile
  <1>. QED BY <1>1, <1>2, <1>3

\* Nothing in the second list: either there was nothing in the first, or the lists differ.
LEMMA ListComes ==
  ASSUME Inv, Remembered, ListExpected \/ ListCurrent PROVE Remembered'
  <1>1. UNCHANGED <<svcVars, podVars, cacheVars, queued, obj>>
    BY DEF ListExpected, ListCurrent
  <1>2. CASE ListExpected
    BY <1>1, <1>2 DEF ListExpected, Remembered, FreshPods, DeletionComes, DeletionAtWork, Selected,
                      svcVars, podVars, cacheVars
  <1>3. CASE ListCurrent
    <2>1. PICK W \in OneOfEachIp :
            /\ seen # Entries(W) => "failed" \in res'
            /\ W = {} /\ (\A p \in Pods : ~IsEntry(p)) => "clean" \in res'
      BY <1>3 DEF ListCurrent
    <2>2. Selected = {} => W = {}
      BY <2>1 DEF OneOfEachIp
    <2>3. W = {} /\ seen = Entries(W) => \A p \in Pods : ~IsEntry(p)
      BY NoOnes DEF Entries, IsEntry, NoPod
    <2>4. Selected = {} => "failed" \in res' \/ "clean" \in res'
      BY <2>1, <2>2, <2>3
    <2>5. pc = "listCurrent" /\ pc' = "query" /\ res \subseteq res'
      BY <1>3 DEF ListCurrent
    <2>. QED BY <1>1, <2>4, <2>5
         DEF Remembered, FreshPods, DeletionComes, DeletionAtWork, Selected, svcVars, podVars, cacheVars
  <1>. QED BY <1>2, <1>3

\* From the lists to the record, what has been noted stays noted.
LEMMA NotedComes ==
  ASSUME Remembered, UNCHANGED <<svcVars, cacheVars, queued, obj>>, res \subseteq res',
         pc \notin {"idle", "listExpected", "listCurrent"}, pc' # "idle",
         dirtyPods \subseteq dirtyPods', \A p \in Pods : pods'[p] = pods[p] \/ p \in dirtyPods'
  PROVE  Remembered'
  BY DEF Remembered, FreshPods, DeletionComes, DeletionAtWork, Selected, svcVars, cacheVars

LEMMA ReturnComes ==
  ASSUME Remembered, Return(TRUE), UNCHANGED <<podVars, cPods>> PROVE Remembered'
  BY Marked DEF Return

LEMMA SyncComes ==
  ASSUME Inv, Remembered, Query \/ QueryError \/ CollectUnselected \/ EndAddLifecycleFlz
  PROVE  Remembered'
  <1>1. CASE Query
    BY <1>1, NotedComes DEF Query, podVars
  <1>2. CASE QueryError
    BY <1>2, ReturnComes DEF QueryError, cacheVars
  <1>3. CASE CollectUnselected
    BY <1>3, NotedComes DEF CollectUnselected, podVars
  <1>4. CASE EndAddLifecycleFlz
    <2>1. CASE Return(TRUE)
      BY <1>4, <2>1, ReturnComes DEF EndAddLifecycleFlz, cacheVars
    <2>2. CASE ~Return(TRUE)
      BY <1>4, <2>2, NotedComes DEF EndAddLifecycleFlz, podVars
    <2>. QED BY <2>1, <2>2
  <1>. QED BY <1>1, <1>2, <1>3, <1>4

LEMMA BatchComes ==
  ASSUME Inv, Remembered, NEW p \in Pods,
         AddLifecycleFlz(p) \/ DeleteFlzOfEmployee(p) \/ DeleteFlzOfRecorded(p)
  PROVE  Remembered'
  <1>1. UNCHANGED <<svcVars, cacheVars, queued, pc, obj>> /\ pc \in {"addFlz", "delFlz"}
    BY DEF AddLifecycleFlz, DeleteFlzOfEmployee, DeleteFlzOfRecorded
  <1>2. \/ UNCHANGED <<podVars, res>>
        \/ \E value \in BOOLEAN : UpdatePodFlz(p, value)
    BY DEF AddLifecycleFlz, DeleteFlzOfEmployee, DeleteFlzOfRecorded, DeleteLifecycleFlz
  <1>3. res \subseteq res'
    BY <1>2 DEF UpdatePodFlz
  <1>4. dirtyPods \subseteq dirtyPods' /\ \A q \in Pods : pods'[q] = pods[q] \/ q \in dirtyPods'
    BY <1>2 DEF UpdatePodFlz, WritePod, podVars, Inv, TypeOK, TypeAPI
  <1>. QED BY <1>1, <1>3, <1>4, NotedComes

LEMMA RecordComes == ASSUME Inv, Remembered, RecordLifecycle PROVE Remembered'
  <1>1. UNCHANGED <<podVars, cacheVars>> /\ pc = "delFlz"
    BY DEF RecordLifecycle
  <1>2. CASE Return(TRUE)
    BY <1>1, <1>2, ReturnComes DEF cacheVars
  <1>3. CASE pc' = "clean" /\ UNCHANGED <<svcVars, queued, obj, res>>
    BY <1>1, <1>3, NotedComes DEF podVars
  <1>4. CASE dirtySvc'
    BY <1>1, <1>4, Marked DEF cacheVars
  <1>. QED BY <1>2, <1>3, <1>4 DEF RecordLifecycle, Outcomes, WriteSvc

\* A reconcile that held the Service as it is either removes the finalizer or comes back.
LEMMA EndComes ==
  ASSUME Inv, Remembered, FinishReconcile \/ CleanEmployerCleanFinalizer PROVE Remembered'
  <1>1. UNCHANGED <<podVars, cacheVars>> /\ pc = "clean"
    BY DEF FinishReconcile, CleanEmployerCleanFinalizer
  <1>2. CASE FinishReconcile
    <2>1. /\ UNCHANGED svcVars /\ (~AllClean \/ cSvc.phase = "gone")
          /\ queued' = (queued \/ "failed" \in res)
      BY <1>2 DEF FinishReconcile, Return
    <2>2. DeletionComes'
      BY <1>1, <2>1, DeletingSeen
         DEF Remembered, DeletionComes, DeletionAtWork, AllClean, Selected, svcVars, cacheVars
    <2>. QED BY <1>1, <2>2 DEF Remembered, FreshPods, podVars, cacheVars
  <1>3. CASE CleanEmployerCleanFinalizer
    <2>1. queued' \/ dirtySvc'
      BY <1>3 DEF CleanEmployerCleanFinalizer, Return, Outcomes, WriteSvc
    <2>. QED BY <1>1, <2>1, Marked DEF cacheVars
  <1>. QED BY <1>2, <1>3

\* Whoever loses its last pod is told so.
LEMMA WatchComes == ASSUME Inv, Remembered, SyncSvcCache \/ SyncPodCache PROVE Remembered'
  <1>1. CASE SyncSvcCache
    BY <1>1, Marked DEF SyncSvcCache
  <1>2. CASE SyncPodCache
    <2>1. /\ UNCHANGED <<svcVars, pods, cSvc, pc, obj, res>> /\ cPods' = pods /\ dirtyPods' = {}
          /\ queued' = (queued \/ (cSvc.phase # "gone" /\ \E p \in dirtyPods : Concerned(p)))
      BY <1>2 DEF SyncPodCache
    <2>2. svc.phase = "deleting" => cSvc.phase # "gone"
      BY DEF Inv, SvcInv
    <2>3. Selected' = {} /\ Selected # {} => \E p \in dirtyPods : Concerned(p)
      <3> SUFFICES ASSUME NEW p \in Selected, Selected' = {} PROVE \E q \in dirtyPods : Concerned(q)
        OBVIOUS
      <3>1. p \in Pods /\ cPods[p].phase # "none" /\ cPods[p].sel
        BY DEF Selected
      <3>2. p \in dirtyPods
        BY <2>1, <3>1 DEF Selected, Remembered, FreshPods
      <3>. QED BY <3>1, <3>2 DEF Concerned
    <2>4. DeletionComes'
      BY <2>1, <2>2, <2>3 DEF Remembered, DeletionComes, DeletionAtWork, svcVars
    <2>. QED BY <2>1, <2>4 DEF Remembered, FreshPods
  <1>. QED BY <1>1, <1>2

LEMMA CrashComes == ASSUME Crash PROVE Remembered'
  BY DEF Crash, Remembered, FreshPods, DeletionComes

LEMMA OutsideComes == ASSUME Inv, Remembered, CcmSync \/ CcmLabel \/ Environment PROVE Remembered'
  <1>1. CASE CcmSync
    BY <1>1, Elsewhere DEF CcmSync, recVars, podVars
  <1>2. CASE CcmLabel \/ DeleteService
    BY <1>2, Marked DEF CcmLabel, DeleteService, WriteSvc, cacheVars
  <1>3. ASSUME NEW p \in Pods, NEW v, Rewrite(p, v) PROVE Remembered'
    BY <1>3, Elsewhere DEF Rewrite, WritePod, recVars, Inv, TypeOK, TypeAPI
  <1>4. ASSUME NEW p \in Pods,
               CreatePod(p) \/ DeletePod(p) \/ RelabelPod(p) \/ ChangeReadiness(p) \/ Kubelet(p)
        PROVE  \E v : Rewrite(p, v)
    BY <1>4 DEF CreatePod, DeletePod, RelabelPod, ChangeReadiness, Kubelet, FollowGate, StartPod, PodGone
  <1>. QED BY <1>1, <1>2, <1>3, <1>4 DEF Environment

LEMMA NextComes == Inv /\ Remembered /\ [Next]_vars => Remembered'
  <1> SUFFICES ASSUME Inv, Remembered, [Next]_vars PROVE Remembered'
    OBVIOUS
  <1>1. CASE Reconcile
    BY <1>1, StartComes, ListComes, SyncComes, BatchComes, RecordComes, EndComes DEF Reconcile
  <1>2. CASE UNCHANGED vars
    BY <1>2, Elsewhere DEF vars, podVars, recVars
  <1>. QED BY <1>1, <1>2, WatchComes, CrashComes, OutsideComes DEF Next

LEMMA AlwaysRemembered == Spec => []Remembered
  <1>1. Init => Remembered
    BY DEF Init, Remembered, FreshPods, DeletionComes
  <1>. QED BY <1>1, NextComes, AlwaysInv, PTL DEF Spec

\* Whenever the controller rests, a Service that is being deleted waits for pods that it selects,
\* and for nothing else: no event that ends the wait is lost.
THEOREM DeletedAtRest == Spec => []QuiescentDeleted
  <1>1. Remembered => QuiescentDeleted
    BY DEF Remembered, FreshPods, DeletionComes, DeletionAtWork, Selected, QuiescentDeleted, Quiescent
  <1>. QED BY <1>1, AlwaysRemembered, PTL

-----------------------------------------------------------------------------
(* At rest, the pods.  A ready pod that no other is mistaken for is        *)
(* protected and recorded, unless something is still to be looked at.      *)

\* Nothing has been done yet in a batch that has not begun.
DoneAfresh == pc # "addFlz" => done = {}

\* A pod that is to be protected and recorded, as long as nobody changes it.
Due(p) ==
    /\ svc.phase = "live" /\ p \in Selected \ dirtyPods /\ cPods[p].ready
    /\ \A q \in Selected \ {p} : cPods[q].ip # cPods[p].ip

\* It is still to be listed, or has been listed as it is, or a failure has been noted.
ListingAtWork(p) ==
    \/ pc \in {"listExpected", "listCurrent"}
    \/ pc # "idle" /\ "failed" \in res
    \/ pc = "query" /\ seen[p] = EntryOf(cPods[p])
ProtectionAtWork(p) ==
    \/ ListingAtWork(p)
    \/ pc \in {"collectUnselected", "addFlz"} /\ p \in toAdd \ done
    \/ pc = "addFlz" /\ "err" \in res
RecordAtWork(p) ==
    \/ ListingAtWork(p)
    \/ pc \in {"collectUnselected", "addFlz", "delFlz"} /\ p \in toAdd

Cared(p) ==
    /\ cPods[p].flz \/ ProtectionAtWork(p)
    /\ p \in svc.rec \/ RecordAtWork(p)

\* Unless something is marked as to be looked at, the Service that is held is the present one, and
\* every pod that is due is protected and recorded, or is going to be.
PodsCome ==
    ~queued /\ ~dirtySvc =>
        /\ pc # "idle" => obj = svc
        /\ \A p \in Pods : Due(p) => Cared(p)

\* A name without a pod is not selected.
NoneSelected == \A p \in Pods : pods[p].phase = "none" => ~pods[p].sel

\* What every step keeps in mind of the pods.
Minded == DoneAfresh /\ NoneSelected /\ PodsCome

LEMMA DoneNext == ASSUME Inv, DoneAfresh, [Next]_vars PROVE DoneAfresh'
  <1>1. CASE Reconcile
    <2>1. ASSUME NEW p \in Pods, AddLifecycleFlz(p) \/ DeleteFlzOfEmployee(p) \/ DeleteFlzOfRecorded(p)
          PROVE  DoneAfresh'
      BY <2>1 DEF AddLifecycleFlz, DeleteFlzOfEmployee, DeleteFlzOfRecorded, DoneAfresh
    <2>2. CASE ReconcileNotFound \/ EnsureEmployerCleanFlz \/ BeginReconcile \/ ListExpected \/ ListCurrent
      BY <2>2 DEF ReconcileNotFound, EnsureEmployerCleanFlz, BeginReconcile, ListExpected, ListCurrent,
                  DoneAfresh, batchVars
    <2>3. CASE Query \/ QueryError \/ CollectUnselected \/ EndAddLifecycleFlz
      BY <2>3 DEF Query, QueryError, CollectUnselected, EndAddLifecycleFlz, DoneAfresh, Return
    <2>4. CASE RecordLifecycle \/ FinishReconcile \/ CleanEmployerCleanFinalizer
      BY <2>4 DEF RecordLifecycle, FinishReconcile, CleanEmployerCleanFinalizer, DoneAfresh, Return, batchVars
    <2>. QED BY <1>1, <2>1, <2>2, <2>3, <2>4 DEF Reconcile
  <1>2. CASE SyncSvcCache \/ SyncPodCache \/ Crash
    BY <1>2 DEF SyncSvcCache, SyncPodCache, Crash, DoneAfresh, batchVars
  <1>3. CASE CcmSync \/ CcmLabel \/ DeleteService
    BY <1>3 DEF CcmSync, CcmLabel, DeleteService, DoneAfresh, recVars, batchVars
  <1>4. ASSUME NEW p \in Pods,
               CreatePod(p) \/ DeletePod(p) \/ RelabelPod(p) \/ ChangeReadiness(p) \/ Kubelet(p)
        PROVE  DoneAfresh'
    BY <1>4 DEF CreatePod, DeletePod, RelabelPod, ChangeReadiness, Kubelet, FollowGate, StartPod, PodGone,
                Rewrite, DoneAfresh, recVars, batchVars
  <1>5. CASE UNCHANGED vars
    BY <1>5 DEF vars, recVars, batchVars, DoneAfresh
  <1>. QED BY <1>1, <1>2, <1>3, <1>4, <1>5 DEF Next, Environment

\* A write of a pod that is there, or of none at all.
LEMMA WriteNone ==
  ASSUME Inv, NoneSelected, NEW p \in Pods, NEW v, WritePod(p, v), v.phase = "none" => ~v.sel
  PROVE  NoneSelected'
  BY DEF Inv, TypeOK, TypeAPI, NoneSelected, WritePod

LEMMA UpdateNone ==
  ASSUME Inv, NoneSelected, NEW p \in Pods, NEW value \in BOOLEAN, UpdatePodFlz(p, value)
  PROVE  NoneSelected'
  <1>1. CASE UNCHANGED podVars
    BY <1>1 DEF NoneSelected, podVars
  <1>2. CASE WritePod(p, [pods[p] EXCEPT !.flz = value])
    <2> DEFINE v == [pods[p] EXCEPT !.flz = value]
    <2>1. v.phase = pods[p].phase /\ v.sel = pods[p].sel
      BY DEF Inv, TypeOK, TypeAPI, PodStates
    <2>2. v.phase = "none" => ~v.sel
      BY <2>1 DEF NoneSelected
    <2>. HIDE DEF v
    <2>. QED BY <1>2, <2>2, WriteNone DEF v
  <1>. QED BY <1>1, <1>2 DEF UpdatePodFlz

LEMMA OutsideNone ==
  ASSUME Inv, NoneSelected, NEW p \in Pods,
         CreatePod(p) \/ DeletePod(p) \/ RelabelPod(p) \/ ChangeReadiness(p) \/ Kubelet(p)
  PROVE  NoneSelected'
  <1>1. \E v : Rewrite(p, v) /\ (v.phase = "none" => ~v.sel)
    <2>1. pods[p] \in PodStates
      BY DEF Inv, TypeOK, TypeAPI
    <2>2. CASE CreatePod(p)
      <3>1. \A sel : [NoPod EXCEPT !.phase = "live", !.sel = sel].phase = "live"
        BY DEF NoPod
      <3>. QED BY <2>2, <3>1 DEF CreatePod
    <2>3. CASE DeletePod(p)
      <3>1. [pods[p] EXCEPT !.phase = "deleting", !.ready = FALSE, !.kready = FALSE].phase = "deleting"
        BY <2>1 DEF PodStates
      <3>. QED BY <2>3, <3>1 DEF DeletePod
    <2>4. CASE RelabelPod(p)
      <3>1. [pods[p] EXCEPT !.sel = ~@].phase = pods[p].phase
        BY <2>1 DEF PodStates
      <3>. QED BY <2>4, <3>1 DEF RelabelPod
    <2>5. CASE ChangeReadiness(p)
      <3>1. PICK ready, kready \in BOOLEAN : Rewrite(p, [pods[p] EXCEPT !.ready = ready, !.kready = kready])
        BY <2>5 DEF ChangeReadiness
      <3> DEFINE v == [pods[p] EXCEPT !.ready = ready, !.kready = kready]
      <3>2. v.phase = pods[p].phase /\ pods[p].phase = "live"
        BY <2>1, <2>5 DEF PodStates, ChangeReadiness
      <3>3. Rewrite(p, v) /\ (v.phase = "none" => ~v.sel)
        BY <3>1, <3>2
      <3>. QED BY <3>3
    <2>6. CASE FollowGate(p)
      <3>1. LET v == [pods[p] EXCEPT !.kready = FALSE] IN v.phase = pods[p].phase /\ v.sel = pods[p].sel
        BY <2>1 DEF PodStates
      <3>. QED BY <2>6, <3>1 DEF FollowGate, NoneSelected
    <2>7. CASE StartPod(p)
      <3>1. \A i : [pods[p] EXCEPT !.ip = i].phase = pods[p].phase
        BY <2>1 DEF PodStates
      <3>. QED BY <2>7, <3>1 DEF StartPod
    <2>8. CASE PodGone(p)
      BY <2>8 DEF PodGone, NoPod
    <2>. QED BY <2>2, <2>3, <2>4, <2>5, <2>6, <2>7, <2>8 DEF Kubelet
  <1>. QED BY <1>1, WriteNone DEF Rewrite

LEMMA NoneNext == ASSUME Inv, NoneSelected, [Next]_vars PROVE NoneSelected'
  <1>1. CASE UNCHANGED pods
    BY <1>1 DEF NoneSelected
  <1>2. ASSUME NEW p \in Pods, AddLifecycleFlz(p) \/ DeleteFlzOfEmployee(p) \/ DeleteFlzOfRecorded(p)
        PROVE  NoneSelected'
    <2>1. UNCHANGED podVars \/ \E value \in BOOLEAN : UpdatePodFlz(p, value)
      BY <1>2 DEF AddLifecycleFlz, DeleteFlzOfEmployee, DeleteFlzOfRecorded, DeleteLifecycleFlz
    <2>. QED BY <1>1, <2>1, UpdateNone DEF podVars
  <1>3. CASE Reconcile /\ ~\E p \in Pods : AddLifecycleFlz(p) \/ DeleteFlzOfEmployee(p) \/ DeleteFlzOfRecorded(p)
    <2>1. UNCHANGED pods
      BY <1>3 DEF Reconcile, ReconcileNotFound, EnsureEmployerCleanFlz, BeginReconcile, ListExpected,
                  ListCurrent, Query, QueryError, CollectUnselected, EndAddLifecycleFlz, RecordLifecycle,
                  FinishReconcile, CleanEmployerCleanFinalizer, podVars
    <2>. QED BY <1>1, <2>1
  <1>4. SyncSvcCache \/ SyncPodCache \/ Crash \/ CcmSync \/ CcmLabel \/ DeleteService \/ UNCHANGED vars
          => UNCHANGED pods
    BY DEF SyncSvcCache, SyncPodCache, Crash, CcmSync, CcmLabel, DeleteService, vars, podVars
  <1>. QED BY <1>1, <1>2, <1>3, <1>4, OutsideNone DEF Next, Environment

\* Whatever is marked as to be looked at is taken care of.
LEMMA MarkedPods == ASSUME queued' \/ dirtySvc' PROVE PodsCome'
  BY DEF PodsCome

\* A step that leaves the Service, the caches and the worker alone keeps its promises: fewer pods
\* are due after it.
LEMMA ElsewherePods ==
  ASSUME PodsCome, UNCHANGED <<svcVars, cPods, queued, pc, obj, seen, toAdd, done, res>>,
         dirtyPods \subseteq dirtyPods'
  PROVE  PodsCome'
  BY DEF PodsCome, Due, Cared, ListingAtWork, ProtectionAtWork, RecordAtWork, Selected, EntryOf, svcVars

\* A step of the worker that keeps its promises to every pod that is due.
LEMMA WorkerPods ==
  ASSUME PodsCome, UNCHANGED <<svcVars, cPods, queued, obj>>, pc # "idle", dirtyPods \subseteq dirtyPods',
         \A p \in Pods : ~queued /\ ~dirtySvc /\ obj = svc /\ Due(p) /\ Due(p)' /\ Cared(p) => Cared(p)'
  PROVE  PodsCome'
  <1>1. \A p \in Pods : Due(p)' => Due(p)
    BY DEF Due, Selected, svcVars
  <1>. QED BY <1>1 DEF PodsCome, svcVars

LEMMA ReturnPods == ASSUME Return(TRUE) PROVE PodsCome'
  BY MarkedPods DEF Return

LEMMA StartPods ==
  ASSUME Inv, PodsCome, ReconcileNotFound \/ EnsureEmployerCleanFlz \/ BeginReconcile
  PROVE  PodsCome'
  <1>1. CASE ReconcileNotFound
    <2>1. /\ svc.phase = "live" => dirtySvc /\ dirtySvc'
          /\ pc' = "idle"
      BY <1>1 DEF ReconcileNotFound, Inv, SvcInv, svcVars
    <2>2. svc' = svc
      BY <1>1 DEF ReconcileNotFound, svcVars
    <2>. QED BY <2>1, <2>2 DEF PodsCome, Due
  <1>2. CASE EnsureEmployerCleanFlz
    BY <1>2, MarkedPods DEF EnsureEmployerCleanFlz, Outcomes, WriteSvc, svcVars
  <1>3. CASE BeginReconcile
    <2>1. CASE queued' = queued
      BY <1>3, <2>1, MarkedPods DEF BeginReconcile
    <2>2. CASE pc' = "listExpected" /\ obj' = cSvc
      <3>1. ~dirtySvc' => obj' = svc'
        BY <1>3, <2>2 DEF BeginReconcile, Inv, SvcInv, svcVars
      <3>. QED BY <2>2, <3>1 DEF PodsCome, Cared, ListingAtWork, ProtectionAtWork, RecordAtWork
    <2>. QED BY <1>3, <2>1, <2>2 DEF BeginReconcile
  <1>. QED BY <1>1, <1>2, <1>3

\* A list by address has the pod whose address nobody else shows.
LEMMA SoleListed ==
  ASSUME TypeOK, NEW p \in Pods, Due(p), NEW W \in OneOfEachIp PROVE p \in W
  <1>1. p \in Selected /\ W \subseteq Selected /\ Selected \subseteq Pods
    BY DEF Due, OneOfEachIp, Selected
  <1>2. \A w \in W : cPods[w].ip = cPods[p].ip => w = p
    BY <1>1 DEF Due
  <1>3. SUFFICES ASSUME p \notin W PROVE FALSE
    OBVIOUS
  <1>4. {w \in W : cPods[w].ip = cPods[p].ip} = {}
    BY <1>2, <1>3
  <1>5. Cardinality({w \in W : cPods[w].ip = cPods[p].ip}) = 1
    BY <1>1 DEF OneOfEachIp
  <1>6. Cardinality({w \in W : cPods[w].ip = cPods[p].ip}) = 0
    BY <1>4, FS_EmptySet, Zenon
  <1>. QED BY <1>5, <1>6

\* Either both lists have the pod as it is, or they differ and that is noted.
LEMMA ListPods ==
  ASSUME Inv, PodsCome, ListExpected \/ ListCurrent PROVE PodsCome'
  <1>1. UNCHANGED <<svcVars, podVars, cacheVars, queued, obj, toAdd, done>>
    BY DEF ListExpected, ListCurrent, batchVars
  <1>2. CASE ListExpected
    <2>1. pc = "listExpected" /\ pc' = "listCurrent"
      BY <1>2 DEF ListExpected
    <2>2. \A p \in Pods : Cared(p)'
      BY <2>1 DEF Cared, ListingAtWork, ProtectionAtWork, RecordAtWork
    <2>. QED BY <1>1, <2>1, <2>2, WorkerPods DEF podVars, cacheVars
  <1>3. CASE ListCurrent
    <2>1. PICK W \in OneOfEachIp :
            /\ seen' = [p \in Pods |-> IF seen[p] = Entries(W)[p] THEN seen[p] ELSE NoPod]
            /\ seen # Entries(W) => "failed" \in res'
      BY <1>3 DEF ListCurrent
    <2>2. pc = "listCurrent" /\ pc' = "query"
      BY <1>3 DEF ListCurrent
    <2>3. ASSUME NEW p \in Pods, Due(p) PROVE Cared(p)'
      <3>1. Entries(W)[p] = EntryOf(cPods[p])
        BY <2>1, <2>3, SoleListed DEF Entries, Inv
      <3>2. "failed" \in res' \/ seen'[p] = EntryOf(cPods[p])
        BY <2>1, <3>1
      <3>3. ListingAtWork(p)'
        BY <1>1, <2>2, <3>2 DEF ListingAtWork, cacheVars, EntryOf
      <3>. QED BY <3>3 DEF Cared, ProtectionAtWork, RecordAtWork
    <2>. QED BY <1>1, <2>2, <2>3, WorkerPods DEF podVars, cacheVars
  <1>. QED BY <1>2, <1>3

\* What was listed as it is is ready, and so it is in step and will be protected, or is reported.
LEMMA QueryPods ==
  ASSUME Inv, DoneAfresh, PodsCome, Query PROVE PodsCome'
  <1>1. /\ UNCHANGED <<svcVars, podVars, cacheVars, queued, obj, seen, done>>
        /\ pc = "query" /\ pc' = "collectUnselected"
        /\ toAdd' = {p \in Pods : InStep(p) /\ seen[p].ready}
        /\ res' = res \cup IF Behind THEN {"failed"} ELSE {}
        /\ done = {}
    BY DEF Query, DoneAfresh
  <1>2. ASSUME NEW p \in Pods, Due(p), Cared(p) PROVE Cared(p)'
    <2>1. CASE "failed" \in res'
      BY <1>1, <2>1 DEF Cared, ListingAtWork, ProtectionAtWork, RecordAtWork
    <2>2. CASE seen[p] = EntryOf(cPods[p]) /\ "failed" \notin res'
      <3>1. EntryOf(cPods[p]).phase = "live" /\ EntryOf(cPods[p]).ready = cPods[p].ready
        BY DEF EntryOf, NoPod
      <3>2. IsEntry(p) /\ seen[p].ready
        BY <1>2, <2>2, <3>1 DEF IsEntry, Due
      <3>3. p \in toAdd'
        BY <1>1, <2>2, <3>2 DEF Behind
      <3>. QED BY <1>1, <3>3 DEF Cared, ProtectionAtWork, RecordAtWork
    <2>3. CASE cPods[p].flz /\ p \in svc.rec
      BY <1>1, <2>3 DEF Cared, svcVars, cacheVars
    <2>. QED BY <1>1, <1>2, <2>1, <2>2, <2>3 DEF Cared, ListingAtWork, ProtectionAtWork, RecordAtWork
  <1>. QED BY <1>1, <1>2, WorkerPods DEF podVars, cacheVars

\* The end of a batch without an error: whatever was to be protected is.
LEMMA BatchEndsPods ==
  ASSUME Inv, PodsCome, CollectUnselected \/ EndAddLifecycleFlz PROVE PodsCome'
  <1>1. CASE CollectUnselected
    <2>1. /\ UNCHANGED <<svcVars, podVars, cacheVars, queued, obj, seen, toAdd, done, res>>
          /\ pc = "collectUnselected" /\ pc' = "addFlz"
      BY <1>1 DEF CollectUnselected
    <2>2. \A p \in Pods : Cared(p) => Cared(p)'
      BY <2>1 DEF Cared, ListingAtWork, ProtectionAtWork, RecordAtWork, svcVars, cacheVars
    <2>. QED BY <2>1, <2>2, WorkerPods DEF podVars, cacheVars
  <1>2. CASE EndAddLifecycleFlz
    <2>1. CASE Return(TRUE)
      BY <2>1, ReturnPods
    <2>2. CASE ~Return(TRUE)
      <3>1. /\ UNCHANGED <<svcVars, podVars, cacheVars, queued, obj, seen, toAdd>>
            /\ pc = "addFlz" /\ pc' = "delFlz" /\ res \subseteq res' /\ "err" \notin res
            /\ toAdd \subseteq done
        BY <1>2, <2>2 DEF EndAddLifecycleFlz
      <3>2. \A p \in Pods : Cared(p) => Cared(p)'
        BY <3>1 DEF Cared, ListingAtWork, ProtectionAtWork, RecordAtWork, svcVars, cacheVars
      <3>. QED BY <3>1, <3>2, WorkerPods DEF podVars, cacheVars
    <2>. QED BY <2>1, <2>2
  <1>. QED BY <1>1, <1>2

\* A pod is protected, and is about to be seen with its protection, or the error is noted.
LEMMA AddPods ==
  ASSUME Inv, PodsCome, NEW q \in Pods, AddLifecycleFlz(q) PROVE PodsCome'
  <1>1. /\ UNCHANGED <<svcVars, cacheVars, queued, pc, obj, seen, toAdd>>
        /\ pc = "addFlz" /\ done' = done \cup {q}
    BY DEF AddLifecycleFlz
  <1>2. \/ UNCHANGED <<podVars, res>> /\ (cPods[q].phase = "none" \/ cPods[q].flz)
        \/ UpdatePodFlz(q, TRUE)
    BY DEF AddLifecycleFlz
  <1>3. res \subseteq res' /\ dirtyPods \subseteq dirtyPods'
    BY <1>2 DEF UpdatePodFlz, WritePod, podVars
  <1>4. cPods[q].phase = "none" \/ cPods[q].flz \/ q \in dirtyPods' \/ "err" \in res'
    BY <1>2 DEF UpdatePodFlz, WritePod, Outcomes
  <1>5. ASSUME NEW p \in Pods, Due(p)', Cared(p) PROVE Cared(p)'
    <2>1. cPods[p].phase # "none" /\ p \notin dirtyPods'
      BY <1>1, <1>5 DEF Due, Selected, cacheVars
    <2>2. p \in svc'.rec \/ RecordAtWork(p)'
      BY <1>1, <1>3, <1>5 DEF Cared, ListingAtWork, RecordAtWork, svcVars, cacheVars
    <2>3. cPods'[p].flz \/ ProtectionAtWork(p)'
      <3>1. CASE p = q
        BY <1>1, <1>4, <2>1, <3>1 DEF ProtectionAtWork, cacheVars
      <3>2. CASE p # q
        BY <1>1, <1>3, <1>5, <3>2 DEF Cared, ListingAtWork, ProtectionAtWork, cacheVars
      <3>. QED BY <3>1, <3>2
    <2>. QED BY <2>2, <2>3 DEF Cared
  <1>. QED BY <1>1, <1>3, <1>5, WorkerPods DEF cacheVars

LEMMA DeletePods ==
  ASSUME Inv, PodsCome, NEW q \in Pods, DeleteFlzOfEmployee(q) \/ DeleteFlzOfRecorded(q) PROVE PodsCome'
  <1>1. /\ UNCHANGED <<svcVars, cacheVars, queued, pc, obj, seen, toAdd, done>> /\ pc = "delFlz"
        /\ DeleteLifecycleFlz(q)
    BY DEF DeleteFlzOfEmployee, DeleteFlzOfRecorded
  <1>2. res \subseteq res' /\ dirtyPods \subseteq dirtyPods'
    BY <1>1 DEF DeleteLifecycleFlz, UpdatePodFlz, WritePod, podVars
  <1>3. \A p \in Pods : Cared(p) => Cared(p)'
    BY <1>1, <1>2 DEF Cared, ListingAtWork, ProtectionAtWork, RecordAtWork, svcVars, cacheVars
  <1>. QED BY <1>1, <1>2, <1>3, WorkerPods DEF cacheVars

\* The record becomes what was to be protected, or is that already.
LEMMA RecordPods == ASSUME Inv, PodsCome, RecordLifecycle PROVE PodsCome'
  <1>1. UNCHANGED <<podVars, cacheVars>> /\ pc = "delFlz"
    BY DEF RecordLifecycle
  <1>2. CASE Return(TRUE)
    BY <1>2, ReturnPods
  <1>3. CASE pc' = "clean" /\ obj.rec = toAdd /\ UNCHANGED <<svcVars, queued, obj, seen, batchVars, res>>
    <2>1. ASSUME NEW p \in Pods, obj = svc, Cared(p) PROVE Cared(p)'
      BY <1>1, <1>3, <2>1 DEF Cared, ListingAtWork, ProtectionAtWork, RecordAtWork, svcVars, cacheVars
    <2>. QED BY <1>1, <1>3, <2>1, WorkerPods DEF podVars, cacheVars
  <1>4. CASE dirtySvc'
    BY <1>4, MarkedPods
  <1>. QED BY <1>2, <1>3, <1>4 DEF RecordLifecycle, Outcomes, WriteSvc, Outdated

LEMMA EndPods == ASSUME Inv, PodsCome, FinishReconcile \/ CleanEmployerCleanFinalizer PROVE PodsCome'
  <1>1. CASE FinishReconcile
    <2>1. /\ UNCHANGED <<svcVars, podVars, cacheVars>> /\ pc = "clean" /\ pc' = "idle"
          /\ queued' = (queued \/ "failed" \in res)
      BY <1>1 DEF FinishReconcile, Return
    <2>2. ASSUME ~queued', ~dirtySvc', NEW p \in Pods, Due(p)' PROVE Cared(p)'
      <3>1. Due(p)
        BY <2>1, <2>2 DEF Due, Selected, svcVars, podVars, cacheVars
      <3>2. Cared(p)
        BY <2>1, <2>2, <3>1 DEF PodsCome, svcVars
      <3>. QED BY <2>1, <2>2, <3>2
           DEF Cared, ListingAtWork, ProtectionAtWork, RecordAtWork, svcVars, cacheVars
    <2>. QED BY <2>1, <2>2 DEF PodsCome
  <1>2. CASE CleanEmployerCleanFinalizer
    <2>1. CASE queued' \/ dirtySvc'
      BY <2>1, MarkedPods
    <2>. QED BY <1>2, <2>1 DEF CleanEmployerCleanFinalizer, Return, Outcomes, WriteSvc
  <1>. QED BY <1>1, <1>2

\* A pod that has changed, and is or was selected, puts the Service into the queue: those that
\* are due after a look at the pods were due before, and so was every other pod's address.
LEMMA WatchPods ==
  ASSUME Inv, FreshPods, PodsCome, SyncSvcCache \/ SyncPodCache PROVE PodsCome'
  <1>1. CASE SyncSvcCache
    BY <1>1, MarkedPods DEF SyncSvcCache
  <1>2. CASE SyncPodCache
    <2>1. /\ UNCHANGED <<svcVars, pods, cSvc, pc, obj, seen, toAdd, done, res>>
          /\ cPods' = pods /\ dirtyPods' = {}
          /\ queued' = (queued \/ (cSvc.phase # "gone" /\ \E p \in dirtyPods : Concerned(p)))
      BY <1>2 DEF SyncPodCache, batchVars
    <2>2. CASE queued' \/ dirtySvc'
      BY <2>2, MarkedPods
    <2>3. CASE ~queued' /\ ~dirtySvc'
      <3>1. ASSUME NEW p \in Pods, Due(p)' PROVE Cared(p)'
        <4>1. svc.phase = "live" /\ cSvc.phase # "gone"
          BY <2>1, <3>1 DEF Due, Inv, SvcInv, svcVars
        <4>2. \A q \in dirtyPods : ~Concerned(q)
          BY <2>1, <2>3, <4>1
        <4>3. Selected' = Selected
          BY <2>1, <4>2 DEF Selected, FreshPods, Concerned
        <4>4. \A q \in Selected : q \notin dirtyPods /\ cPods'[q] = cPods[q]
          BY <2>1, <4>2 DEF Selected, FreshPods, Concerned
        <4>5. p \in Selected /\ Due(p)
          BY <2>1, <3>1, <4>3, <4>4 DEF Due, svcVars
        <4>6. Cared(p)
          BY <2>1, <2>3, <4>5 DEF PodsCome, svcVars
        <4>. QED BY <2>1, <4>4, <4>5, <4>6
             DEF Cared, ListingAtWork, ProtectionAtWork, RecordAtWork, EntryOf, svcVars
      <3>2. pc' # "idle" => obj' = svc'
        BY <2>1, <2>3 DEF PodsCome, svcVars
      <3>. QED BY <3>1, <3>2 DEF PodsCome
    <2>. QED BY <2>2, <2>3
  <1>. QED BY <1>1, <1>2

LEMMA OutsidePods == ASSUME Inv, PodsCome, Crash \/ CcmSync \/ CcmLabel \/ Environment PROVE PodsCome'
  <1>1. CASE Crash
    <2>1. svc' = svc /\ pc' = "idle" /\ queued' = (svc.phase # "gone")
      BY <1>1 DEF Crash
    <2>. QED BY <2>1 DEF PodsCome, Due
  <1>2. CASE CcmSync
    BY <1>2, ElsewherePods DEF CcmSync, recVars, podVars, cacheVars, batchVars
  <1>3. CASE CcmLabel \/ DeleteService
    BY <1>3, MarkedPods DEF CcmLabel, DeleteService, WriteSvc
  <1>4. ASSUME NEW p \in Pods, NEW v, Rewrite(p, v) PROVE PodsCome'
    BY <1>4, ElsewherePods DEF Rewrite, WritePod, recVars, cacheVars, batchVars
  <1>5. ASSUME NEW p \in Pods,
               CreatePod(p) \/ DeletePod(p) \/ RelabelPod(p) \/ ChangeReadiness(p) \/ Kubelet(p)
        PROVE  \E v : Rewrite(p, v)
    BY <1>5 DEF CreatePod, DeletePod, RelabelPod, ChangeReadiness, Kubelet, FollowGate, StartPod, PodGone
  <1>. QED BY <1>1, <1>2, <1>3, <1>4, <1>5 DEF Environment

LEMMA NextMinded == Inv /\ Remembered /\ Minded /\ [Next]_vars => Minded'
  <1> SUFFICES ASSUME Inv, Remembered, Minded, [Next]_vars PROVE Minded'
    OBVIOUS
  <1> USE DEF Minded
  <1>1. DoneAfresh'
    BY DoneNext
  <1>2. NoneSelected'
    BY NoneNext
  <1>3. PodsCome'
    <2>1. CASE Reconcile
      <3>1. CASE QueryError
        BY <3>1, ReturnPods DEF QueryError
      <3>. QED BY <2>1, <3>1, StartPods, ListPods, QueryPods, BatchEndsPods, AddPods, DeletePods,
                  RecordPods, EndPods DEF Reconcile
    <2>2. CASE SyncSvcCache \/ SyncPodCache
      BY <2>2, WatchPods DEF Remembered
    <2>3. CASE UNCHANGED vars
      BY <2>3, ElsewherePods DEF vars, podVars, recVars, cacheVars, batchVars
    <2>. QED BY <2>1, <2>2, <2>3, OutsidePods DEF Next
  <1>. QED BY <1>1, <1>2, <1>3

LEMMA AlwaysMinded == Spec => []Minded
  <1>1. Init => Minded
    BY DEF Init, Minded, DoneAfresh, NoneSelected, NoPod, PodsCome
  <1>. QED BY <1>1, NextMinded, AlwaysInv, AlwaysRemembered, PTL DEF Spec

\* At rest, a ready pod that the Service selects and whose address nobody else shows is due.
LEMMA DueAtRest ==
  ASSUME Inv, Remembered, Minded, Quiescent, svc.phase = "live", NEW p \in Pods,
         pods[p].sel, pods[p].ready, NoTwin(p)
  PROVE  Cared(p) /\ cPods[p] = pods[p]
  <1>1. pc = "idle" /\ ~queued /\ ~dirtySvc /\ dirtyPods = {}
    BY DEF Quiescent
  <1>2. \A q \in Pods : cPods[q] = pods[q]
    BY <1>1 DEF Remembered, FreshPods
  <1>3. pods[p].phase # "none"
    BY DEF Minded, NoneSelected
  <1>4. Due(p)
    BY <1>1, <1>2, <1>3 DEF Due, Selected, NoTwin
  <1>. QED BY <1>1, <1>2, <1>4 DEF Minded, PodsCome

\* Whenever the controller rests, a ready pod that a live Service selects is protected, unless two
\* pods show one address: neither the two lists, nor the provider's answer after them, nor an event
\* in between lets it be forgotten.
THEOREM ProtectedAtRest == Spec => []QuiescentProtected
  <1>1. Inv /\ Remembered /\ Minded => QuiescentProtected
    <2> SUFFICES ASSUME Inv, Remembered, Minded, Quiescent, svc.phase = "live", NEW p \in Pods,
                        pods[p].sel, pods[p].ready, NoTwin(p)
                 PROVE  pods[p].flz
      BY DEF QuiescentProtected
    <2>1. Cared(p) /\ cPods[p] = pods[p] /\ pc = "idle"
      BY DueAtRest DEF Quiescent
    <2>. QED BY <2>1 DEF Cared, ListingAtWork, ProtectionAtWork
  <1>. QED BY <1>1, AlwaysInv, AlwaysRemembered, AlwaysMinded, PTL

\* Whenever the controller rests, such a pod is in the record, so that its protection can be
\* taken when it is no longer selected.
THEOREM RecordedAtRest == Spec => []QuiescentRecord
  <1>1. Inv /\ Remembered /\ Minded => QuiescentRecord
    <2> SUFFICES ASSUME Inv, Remembered, Minded, Quiescent, svc.phase = "live", NEW p \in Pods,
                        pods[p].sel, pods[p].ready, NoTwin(p)
                 PROVE  p \in svc.rec
      BY DEF QuiescentRecord
    <2>1. Cared(p) /\ pc = "idle"
      BY DueAtRest DEF Quiescent
    <2>. QED BY <2>1 DEF Cared, ListingAtWork, RecordAtWork
  <1>. QED BY <1>1, AlwaysInv, AlwaysRemembered, AlwaysMinded, PTL
=============================================================================
