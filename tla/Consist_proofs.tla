--------------------------- MODULE Consist_proofs ---------------------------
(***************************************************************************)
(* Type correctness, and the provider's guard: an employer for which the   *)
(* provider holds anything has the clean finalizer.  For every set of pods *)
(* and every bound.                                                        *)
(***************************************************************************)
EXTENDS ConsistInv, TLAPS

-----------------------------------------------------------------------------
(* The objects: what an update of a record changes, and what it leaves alone. *)

\* NoEmployer is an employer the API server may hold.
LEMMA NoEmployerType ==
    /\ NoEmployer \in Employers /\ Consistent(NoEmployer)
    /\ NoEmployer.phase = "none" /\ NoEmployer.flz = {}
  BY DEF NoEmployer, Employers, Consistent

\* The fields of an employer have their types.
LEMMA EmployerFields ==
  ASSUME NEW e \in Employers
  PROVE  /\ e.phase \in {"none", "live", "deleting"} /\ e.flz \subseteq Flz
         /\ e.expRec \subseteq Pods /\ e.lcRec \subseteq Pods
  BY DEF Employers

\* New finalizers leave the phase alone.
LEMMA FlzUpdate ==
  ASSUME NEW e \in Employers, NEW s \in SUBSET Flz
  PROVE  /\ [e EXCEPT !.flz = s] \in Employers
         /\ [e EXCEPT !.flz = s].phase = e.phase /\ [e EXCEPT !.flz = s].flz = s
  BY DEF Employers

\* A new record leaves the phase and the finalizers alone.
LEMMA RecordUpdate ==
  ASSUME NEW e \in Employers, NEW S \in SUBSET Pods
  PROVE  /\ [e EXCEPT !.expRec = S] \in Employers
         /\ [e EXCEPT !.expRec = S].phase = e.phase /\ [e EXCEPT !.expRec = S].flz = e.flz
         /\ [e EXCEPT !.lcRec = S] \in Employers
         /\ [e EXCEPT !.lcRec = S].phase = e.phase /\ [e EXCEPT !.lcRec = S].flz = e.flz
  BY DEF Employers

\* A deletion leaves the finalizers alone.
LEMMA PhaseUpdate ==
  ASSUME NEW e \in Employers
  PROVE  /\ [e EXCEPT !.phase = "deleting"] \in Employers
         /\ [e EXCEPT !.phase = "deleting"].phase = "deleting"
         /\ [e EXCEPT !.phase = "deleting"].flz = e.flz
  BY DEF Employers

\* A new employer is live and has the finalizers it was created with.
LEMMA NewEmployer ==
  ASSUME NEW s \in SUBSET Flz
  PROVE  /\ [NoEmployer EXCEPT !.phase = "live", !.flz = s] \in Employers
         /\ [NoEmployer EXCEPT !.phase = "live", !.flz = s].phase = "live"
         /\ [NoEmployer EXCEPT !.phase = "live", !.flz = s].flz = s
  BY DEF Employers, NoEmployer

\* The API server keeps what is written, or removes an object whose last finalizer has gone.
LEMMA WriteEmployerStores ==
  ASSUME NEW e \in Employers, e.phase # "none", WriteEmployer(e)
  PROVE  /\ employer' \in Employers /\ Consistent(employer') /\ dirtyEmployer' = TRUE
         /\ \/ employer' = e
            \/ employer' = NoEmployer /\ e.phase = "deleting" /\ e.flz = {}
  BY NoEmployerType DEF WriteEmployer, Settle, Consistent

\* NoPod is a pod the API server may hold.
LEMMA NoPodType == NoPod \in PodStates
  BY DEF NoPod, PodStates

\* The updates of a pod make a pod.
LEMMA PodUpdates ==
  ASSUME NEW r \in PodStates, NEW v \in BOOLEAN, NEW w \in BOOLEAN
  PROVE  /\ r.sel \in BOOLEAN /\ r.ready \in BOOLEAN /\ NoPod \in PodStates
         /\ [r EXCEPT !.exp = v] \in PodStates /\ [r EXCEPT !.flz = v] \in PodStates
         /\ [r EXCEPT !.sel = v] \in PodStates /\ [r EXCEPT !.ready = v] \in PodStates
         /\ [r EXCEPT !.phase = "deleting", !.ready = FALSE] \in PodStates
         /\ [r EXCEPT !.phase = "live", !.sel = v, !.exp = w] \in PodStates
  BY DEF PodStates, NoPod

\* A write to a pod keeps the types.
LEMMA WritePodType ==
  ASSUME TypePods, NEW p \in Pods, NEW v \in PodStates, WritePod(p, v)
  PROVE  pods' \in [Pods -> PodStates] /\ dirtyPods' \subseteq Pods
  BY DEF TypePods, WritePod

\* No call is charged beyond the budget of faults.
LEMMA ChargeType ==
  ASSUME TypeManager, NEW outcome, Charge(outcome)
  PROVE  faults' \in 0..MaxFaults
  BY ConstantsAssumption DEF ConstantsAssumption, TypeManager, Charge

\* What the selector matches are pods.
LEMMA SelectedNamesType == SelectedNames \subseteq Pods
  BY DEF SelectedNames

-----------------------------------------------------------------------------
(* What each action that writes the employer does to it. *)

\* ensureEmployerCleanFlz adds the finalizer to a live employer, or writes nothing.
LEMMA EnsureWrites ==
  ASSUME TypeOK, EnsureEmployerCleanFlz
  PROVE  \/ UNCHANGED <<employer, dirtyEmployer>>
         \/ /\ ~dirtyEmployer /\ dirtyEmployer' = TRUE
            /\ employer' \in Employers /\ Consistent(employer')
            /\ employer'.phase = "live" /\ "clean" \in employer'.flz
<1>. DEFINE flz == (cEmployer.flz \ {"old"}) \cup {"clean"}
<1>1. flz \in SUBSET Flz
  BY EmployerFields DEF TypeOK, TypeEmployer, Flz
<1>2. cEmployer.phase = "live"
  BY DEF EnsureEmployerCleanFlz
<1>3. /\ [cEmployer EXCEPT !.flz = flz] \in Employers
      /\ [cEmployer EXCEPT !.flz = flz].phase = "live"
      /\ [cEmployer EXCEPT !.flz = flz].flz = flz
  BY <1>1, <1>2, FlzUpdate DEF TypeOK, TypeEmployer
<1>4. CASE WriteEmployer([cEmployer EXCEPT !.flz = flz]) /\ ~dirtyEmployer
  BY <1>3, <1>4, WriteEmployerStores
<1>. QED BY <1>4 DEF EnsureEmployerCleanFlz

\* The patch of the expected record leaves phase and finalizers alone; Reconcile ends, or goes on
\* with the answer.
LEMMA EndExpectedPatchWrites ==
  ASSUME TypeOK, EndExpectedPatch
  PROVE  /\ \/ UNCHANGED <<employer, dirtyEmployer>>
            \/ /\ dirtyEmployer' = TRUE /\ employer.phase # "none"
               /\ employer' \in Employers /\ Consistent(employer')
               /\ employer'.phase = employer.phase /\ employer'.flz = employer.flz
         /\ \/ pc' = "idle" /\ obj' = NoEmployer /\ res' = {}
            \/ /\ pc' = "syncEmployer" /\ obj' = employer' /\ employer'.phase # "none"
               /\ res' \subseteq {"expClean"}
         /\ toAdd' = {} /\ toDel' = {} /\ done' = {} /\ succ' = {} /\ toDrop' \in {{}, toDrop}
         /\ queued' \in BOOLEAN
<1>. DEFINE new == [employer EXCEPT !.expRec = StillRecorded]
<1>1. StillRecorded \in SUBSET Pods
  BY EmployerFields DEF TypeOK, TypeEmployer, TypeReconcile, StillRecorded
<1>2. new \in Employers /\ new.phase = employer.phase /\ new.flz = employer.flz
  BY <1>1, RecordUpdate DEF TypeOK, TypeEmployer
<1>3. queued \in BOOLEAN /\ Consistent(employer)
  BY DEF TypeOK, TypeManager, TypeEmployer
<1>4. ASSUME employer.phase # "none", WriteEmployer(new)
      PROVE  /\ dirtyEmployer' = TRUE /\ employer' \in Employers /\ Consistent(employer')
             /\ employer'.phase = employer.phase /\ employer'.flz = employer.flz
  BY <1>2, <1>3, <1>4, WriteEmployerStores DEF Consistent
<1>. HIDE DEF new
<1>5. CASE employer.phase = "none" /\ Return(TRUE) /\ UNCHANGED <<employer, dirtyEmployer, faults>>
  BY <1>3, <1>5 DEF Return
<1>6. ASSUME employer.phase # "none", NEW outcome \in Outcomes,
             IF outcome = "failed" THEN UNCHANGED <<employer, dirtyEmployer>> ELSE WriteEmployer(new),
             IF outcome # "ok" \/ (obj.phase = "live" /\ BatchFailed) THEN Return(TRUE)
             ELSE ToSyncEmployer(employer', StillRecorded = {})
      PROVE  /\ \/ UNCHANGED <<employer, dirtyEmployer>>
                \/ /\ dirtyEmployer' = TRUE /\ employer.phase # "none"
                   /\ employer' \in Employers /\ Consistent(employer')
                   /\ employer'.phase = employer.phase /\ employer'.flz = employer.flz
             /\ \/ pc' = "idle" /\ obj' = NoEmployer /\ res' = {}
                \/ /\ pc' = "syncEmployer" /\ obj' = employer' /\ employer'.phase # "none"
                   /\ res' \subseteq {"expClean"}
             /\ toAdd' = {} /\ toDel' = {} /\ done' = {} /\ succ' = {} /\ toDrop' \in {{}, toDrop}
             /\ queued' \in BOOLEAN
  <2>1. CASE Return(TRUE)
    BY <1>3, <1>4, <1>6, <2>1 DEF Return
  <2>2. CASE WriteEmployer(new) /\ ToSyncEmployer(employer', StillRecorded = {})
    BY <1>3, <1>4, <1>6, <2>2 DEF ToSyncEmployer
  <2>. QED BY <1>6, <2>1, <2>2
<1>. QED BY <1>5, <1>6 DEF EndExpectedPatch, new

\* So does the patch of the lifecycle record.
LEMMA RecordLifecycleWrites ==
  ASSUME TypeOK, RecordLifecycle
  PROVE  /\ \/ UNCHANGED <<employer, dirtyEmployer>>
            \/ /\ dirtyEmployer' = TRUE /\ employer.phase # "none"
               /\ employer' \in Employers /\ Consistent(employer')
               /\ employer'.phase = employer.phase /\ employer'.flz = employer.flz
         /\ \/ pc' = "idle" /\ obj' = NoEmployer /\ res' = {} /\ succ' = {} /\ done' = {}
            \/ /\ pc' = "clean" /\ res' = res /\ done' = done /\ succ' = succ
               /\ obj' = obj \/ (obj' = employer' /\ employer'.phase # "none")
         /\ toAdd' = {} /\ toDel' = {} /\ toDrop' = {}
         /\ queued' \in BOOLEAN
<1>. DEFINE new == [employer EXCEPT !.lcRec = toAdd]
<1>1. new \in Employers /\ new.phase = employer.phase /\ new.flz = employer.flz
  BY RecordUpdate DEF TypeOK, TypeEmployer, TypeReconcile
<1>2. queued \in BOOLEAN /\ Consistent(employer)
  BY DEF TypeOK, TypeManager, TypeEmployer
<1>3. ASSUME employer.phase # "none", WriteEmployer(new)
      PROVE  /\ dirtyEmployer' = TRUE /\ employer' \in Employers /\ Consistent(employer')
             /\ employer'.phase = employer.phase /\ employer'.flz = employer.flz
  BY <1>1, <1>2, <1>3, WriteEmployerStores DEF Consistent
<1>. HIDE DEF new
<1>4. toDel = {} /\ toDrop = {}
  BY DEF RecordLifecycle, DeletionsOver
<1>5. CASE Return(TRUE) /\ UNCHANGED <<employer, dirtyEmployer, faults>>
  BY <1>2, <1>5 DEF Return
<1>6. CASE /\ pc' = "clean" /\ toAdd' = {}
           /\ UNCHANGED <<employer, dirtyEmployer, queued, obj, toDel, toDrop, done, succ, res, faults>>
  BY <1>2, <1>4, <1>6
<1>7. ASSUME employer.phase # "none", NEW outcome \in Outcomes,
             IF outcome = "failed" THEN UNCHANGED <<employer, dirtyEmployer>> ELSE WriteEmployer(new),
             IF outcome # "ok" THEN Return(TRUE)
             ELSE /\ pc' = "clean" /\ obj' = employer' /\ toAdd' = {}
                  /\ UNCHANGED <<queued, toDel, toDrop, done, succ, res>>
      PROVE  /\ \/ UNCHANGED <<employer, dirtyEmployer>>
                \/ /\ dirtyEmployer' = TRUE /\ employer.phase # "none"
                   /\ employer' \in Employers /\ Consistent(employer')
                   /\ employer'.phase = employer.phase /\ employer'.flz = employer.flz
             /\ \/ pc' = "idle" /\ obj' = NoEmployer /\ res' = {} /\ succ' = {} /\ done' = {}
                \/ /\ pc' = "clean" /\ res' = res /\ done' = done /\ succ' = succ
                   /\ obj' = obj \/ (obj' = employer' /\ employer'.phase # "none")
             /\ toAdd' = {} /\ toDel' = {} /\ toDrop' = {}
             /\ queued' \in BOOLEAN
  <2>1. CASE Return(TRUE)
    BY <1>2, <1>3, <1>7, <2>1 DEF Return
  <2>2. CASE outcome = "ok"
    BY <1>2, <1>3, <1>4, <1>7, <2>2
  <2>. QED BY <1>7, <2>1, <2>2
<1>. QED BY <1>5, <1>6, <1>7 DEF RecordLifecycle, new

\* cleanEmployerCleanFinalizer writes an employer the cache has right, without the finalizer.
LEMMA CleanWrites ==
  ASSUME TypeOK, CleanEmployerCleanFinalizer
  PROVE  /\ \/ UNCHANGED <<employer, dirtyEmployer>>
            \/ /\ ~dirtyEmployer /\ dirtyEmployer' = TRUE
               /\ employer' \in Employers /\ Consistent(employer') /\ "clean" \notin employer'.flz
               /\ employer'.phase \in {"none", cEmployer.phase}
               /\ cEmployer.phase = "live" => employer'.phase = "live"
         /\ pc' = "idle" /\ obj' = NoEmployer /\ res' = {}
         /\ toAdd' = {} /\ toDel' = {} /\ toDrop' = {} /\ done' = {} /\ succ' = {}
         /\ queued' \in BOOLEAN
<1>. DEFINE flz == obj.flz \ {"clean", "old"}
            new == [cEmployer EXCEPT !.flz = flz]
<1>1. flz \in SUBSET Flz /\ "clean" \notin flz
  BY EmployerFields DEF TypeOK, TypeEmployer
<1>2. new \in Employers /\ new.phase = cEmployer.phase /\ new.flz = flz
  BY <1>1, FlzUpdate DEF TypeOK, TypeEmployer
<1>3. queued \in BOOLEAN /\ cEmployer.phase # "none"
  BY DEF TypeOK, TypeManager, CleanEmployerCleanFinalizer
<1>4. ASSUME WriteEmployer(new)
      PROVE  /\ dirtyEmployer' = TRUE /\ employer' \in Employers /\ Consistent(employer')
             /\ "clean" \notin employer'.flz /\ employer'.phase \in {"none", cEmployer.phase}
             /\ cEmployer.phase = "live" => employer'.phase = "live"
  <2>. HIDE DEF new, flz
  <2>. QED BY <1>1, <1>2, <1>3, <1>4, WriteEmployerStores, NoEmployerType
<1>5. \/ UNCHANGED <<employer, dirtyEmployer>>
      \/ ~dirtyEmployer /\ WriteEmployer(new)
  BY DEF CleanEmployerCleanFinalizer
<1>6. \E again \in BOOLEAN : Return(again)
  <2>1. CASE Return(TRUE)
    BY <2>1
  <2>2. ASSUME NEW outcome \in Outcomes, Return(outcome # "ok" \/ AsksToComeBack)
        PROVE  \E again \in BOOLEAN : Return(again)
    BY <2>2, AsksToComeBack \in BOOLEAN DEF AsksToComeBack
  <2>. QED BY <2>1, <2>2 DEF CleanEmployerCleanFinalizer
<1>. HIDE DEF new, flz
<1>. QED BY <1>3, <1>4, <1>5, <1>6 DEF Return

\* A new employer has not got the clean finalizer.
LEMMA CreateWrites ==
  ASSUME TypeOK, CreateEmployer
  PROVE  /\ employer.phase = "none" /\ (Recreate \/ ~born) /\ born' = TRUE /\ dirtyEmployer' = TRUE
         /\ Change /\ UNCHANGED <<pods, dirtyPods, cacheVars, provVars, queued, recVars, drifts, faults>>
         /\ employer' \in Employers /\ Consistent(employer')
         /\ employer'.phase = "live" /\ "clean" \notin employer'.flz
<1>1. ASSUME NEW flz \in SUBSET ForeignFlz, WriteEmployer([NoEmployer EXCEPT !.phase = "live", !.flz = flz])
      PROVE  /\ employer' \in Employers /\ Consistent(employer') /\ dirtyEmployer' = TRUE
             /\ employer'.phase = "live" /\ "clean" \notin employer'.flz
  <2>. DEFINE new == [NoEmployer EXCEPT !.phase = "live", !.flz = flz]
  <2>1. flz \in SUBSET Flz /\ "clean" \notin flz
    BY ConstantsAssumption DEF ConstantsAssumption, Flz
  <2>2. new \in Employers /\ new.phase = "live" /\ new.flz = flz
    BY <2>1, NewEmployer
  <2>3. WriteEmployer(new)
    BY <1>1
  <2>. HIDE DEF new
  <2>. QED BY <2>1, <2>2, <2>3, WriteEmployerStores
<1>. QED BY <1>1 DEF CreateEmployer

\* A deletion takes no finalizer off.
LEMMA DeleteWrites ==
  ASSUME TypeOK, DeleteEmployer
  PROVE  /\ employer.phase = "live" /\ dirtyEmployer' = TRUE
         /\ employer' \in Employers /\ Consistent(employer')
         /\ employer'.phase \in {"none", "deleting"} /\ employer'.flz = employer.flz
<1>1. WriteEmployer([employer EXCEPT !.phase = "deleting"]) /\ employer.phase = "live"
  BY DEF DeleteEmployer
<1>2. employer \in Employers
  BY DEF TypeOK, TypeEmployer
<1>. QED BY <1>1, <1>2, PhaseUpdate, WriteEmployerStores, NoEmployerType

\* The owner of another finalizer takes off that one only.
LEMMA ReleaseWrites ==
  ASSUME TypeOK, ReleaseOther
  PROVE  /\ employer.phase = "deleting" /\ dirtyEmployer' = TRUE
         /\ employer' \in Employers /\ Consistent(employer')
         /\ employer'.phase \in {"none", "deleting"} /\ employer'.flz = employer.flz \ {"other"}
<1>. DEFINE flz == employer.flz \ {"other"}
            new == [employer EXCEPT !.flz = flz]
<1>1. WriteEmployer(new) /\ employer.phase = "deleting"
  BY DEF ReleaseOther
<1>2. employer \in Employers /\ flz \in SUBSET Flz
  BY EmployerFields DEF TypeOK, TypeEmployer
<1>3. new \in Employers /\ new.phase = "deleting" /\ new.flz = flz
  BY <1>1, <1>2, FlzUpdate
<1>. HIDE DEF new
<1>. QED BY <1>1, <1>3, WriteEmployerStores, NoEmployerType

-----------------------------------------------------------------------------
(* Type correctness. *)

\* Every variable keeps its type in every behaviour: what the caches and the controller hold is an
\* object the API server may hold, and no bound is passed.
THEOREM TypeCorrect == Spec => []TypeOK
<1>1. Init => TypeOK
  <2>. SUFFICES ASSUME Init PROVE TypeOK
    OBVIOUS
  <2>1. TypeEmployer
    <3>1. ASSUME NEW s \in SUBSET ForeignFlz
          PROVE  /\ [NoEmployer EXCEPT !.phase = "live", !.flz = s] \in Employers
                 /\ Consistent([NoEmployer EXCEPT !.phase = "live", !.flz = s])
      <4>1. s \in SUBSET Flz
        BY ConstantsAssumption DEF ConstantsAssumption, Flz
      <4>. QED BY <4>1, NewEmployer DEF Consistent
    <3>2. employer \in Employers /\ Consistent(employer)
      <4>1. \/ employer = NoEmployer
            \/ \E s \in SUBSET ForeignFlz : employer = [NoEmployer EXCEPT !.phase = "live", !.flz = s]
        <5>1. employer \in {NoEmployer}
                \cup {[NoEmployer EXCEPT !.phase = "live", !.flz = s] : s \in SUBSET ForeignFlz}
          BY Zenon DEF Init
        <5>. QED BY <5>1
      <4>. QED BY <3>1, <4>1, NoEmployerType
    <3>3. cEmployer = employer /\ obj = NoEmployer
      BY DEF Init
    <3>. QED BY <3>2, <3>3, NoEmployerType DEF TypeEmployer
  <2>2. TypePods
    BY DEF Init, TypePods
  <2>3. TypeProvider /\ TypeReconcile
    BY DEF Init, TypeProvider, TypeReconcile
  <2>4. TypeManager
    <3>1. dirtyEmployer \in BOOLEAN /\ queued \in BOOLEAN /\ born \in BOOLEAN
      BY Zenon DEF Init
    <3>2. changes \in 0..MaxChanges /\ faults \in 0..MaxFaults /\ drifts \in 0..MaxDrift
      <4>1. changes = 0 /\ faults = 0 /\ drifts = 0
        BY Zenon DEF Init
      <4>. QED BY <4>1, ConstantsAssumption DEF ConstantsAssumption
    <3>. QED BY <3>1, <3>2 DEF TypeManager
  <2>. QED BY <2>1, <2>2, <2>3, <2>4 DEF TypeOK
<1>2. TypeOK /\ [Next]_vars => TypeOK'
  <2>. SUFFICES ASSUME TypeOK, [Next]_vars PROVE TypeOK'
    OBVIOUS
  <2>. USE ConstantsAssumption
       DEF ConstantsAssumption, apiVars, cacheVars, provVars, recVars, envVars
  <2>1. CASE ReconcileNotFound
    <3>1. TypeManager'
      BY <2>1 DEF ReconcileNotFound, TypeOK, TypeManager
    <3>2. TypeEmployer' /\ TypePods' /\ TypeProvider' /\ TypeReconcile'
      BY <2>1 DEF ReconcileNotFound, TypeOK, TypeEmployer, TypePods, TypeProvider, TypeReconcile
    <3>. QED BY <3>1, <3>2 DEF TypeOK
  <2>2. CASE EnsureEmployerCleanFlz
    <3>1. TypeEmployer'
      BY <2>2, EnsureWrites DEF EnsureEmployerCleanFlz, TypeOK, TypeEmployer
    <3>2. TypeManager'
      BY <2>2, ChargeType, EnsureWrites DEF EnsureEmployerCleanFlz, TypeOK, TypeManager
    <3>3. TypePods' /\ TypeProvider' /\ TypeReconcile'
      BY <2>2 DEF EnsureEmployerCleanFlz, TypeOK, TypePods, TypeProvider, TypeReconcile
    <3>. QED BY <3>1, <3>2, <3>3 DEF TypeOK
  <2>3. CASE BeginReconcile
    <3>1. TypeEmployer'
      BY <2>3 DEF BeginReconcile, TypeOK, TypeEmployer
    <3>2. TypeReconcile'
      BY <2>3, SelectedNamesType, EmployerFields DEF BeginReconcile, TypeOK, TypeEmployer,
           TypeReconcile, Results
    <3>3. TypeManager'
      BY <2>3 DEF BeginReconcile, TypeOK, TypeManager
    <3>4. TypePods' /\ TypeProvider'
      BY <2>3 DEF BeginReconcile, TypeOK, TypePods, TypeProvider
    <3>. QED BY <3>1, <3>2, <3>3, <3>4 DEF TypeOK
  <2>4. ASSUME NEW p \in Pods, PatchAdd(p) PROVE TypeOK'
    <3>1. TypePods'
      BY <2>4, PodUpdates, WritePodType DEF PatchAdd, TypeOK, PatchPod, TypePods
    <3>2. TypeReconcile'
      BY <2>4 DEF PatchAdd, TypeOK, PatchPod, Noting, TypeReconcile, Results
    <3>3. TypeManager'
      BY <2>4, ChargeType DEF PatchAdd, TypeOK, PatchPod, TypeManager
    <3>4. TypeEmployer' /\ TypeProvider'
      BY <2>4 DEF PatchAdd, TypeOK, TypeEmployer, TypeProvider, PatchPod
    <3>. QED BY <3>1, <3>2, <3>3, <3>4 DEF TypeOK
  <2>5. ASSUME NEW p \in Pods, PatchDelete(p) PROVE TypeOK'
    <3>1. TypePods'
      BY <2>5, PodUpdates, WritePodType DEF PatchDelete, TypeOK, PatchPod, TypePods
    <3>2. TypeReconcile'
      BY <2>5 DEF PatchDelete, TypeOK, PatchPod, Noting, TypeReconcile, Results
    <3>3. TypeManager'
      BY <2>5, ChargeType DEF PatchDelete, TypeOK, PatchPod, TypeManager
    <3>4. TypeEmployer' /\ TypeProvider'
      BY <2>5 DEF PatchDelete, TypeOK, TypeEmployer, TypeProvider, PatchPod
    <3>. QED BY <3>1, <3>2, <3>3, <3>4 DEF TypeOK
  <2>6. CASE EndExpectedNotNeedRecord
    <3>1. TypeEmployer'
      BY <2>6, NoEmployerType DEF EndExpectedNotNeedRecord, TypeOK, Return, ToSyncEmployer,
           TypeEmployer
    <3>2. TypeReconcile'
      BY <2>6 DEF EndExpectedNotNeedRecord, TypeOK, Return, ToSyncEmployer, TypeReconcile, Results
    <3>3. TypeManager'
      BY <2>6 DEF EndExpectedNotNeedRecord, TypeOK, Return, ToSyncEmployer, TypeManager
    <3>4. TypePods' /\ TypeProvider'
      BY <2>6 DEF EndExpectedNotNeedRecord, TypeOK, TypePods, TypeProvider, Return, ToSyncEmployer
    <3>. QED BY <3>1, <3>2, <3>3, <3>4 DEF TypeOK
  <2>7. CASE EndExpectedUnchanged
    <3>1. TypeEmployer'
      BY <2>7 DEF EndExpectedUnchanged, TypeOK, ToSyncEmployer, TypeEmployer
    <3>2. TypeReconcile'
      BY <2>7 DEF EndExpectedUnchanged, TypeOK, ToSyncEmployer, TypeReconcile, Results
    <3>3. TypeManager'
      BY <2>7 DEF EndExpectedUnchanged, TypeOK, ToSyncEmployer, TypeManager
    <3>4. TypePods' /\ TypeProvider'
      BY <2>7 DEF EndExpectedUnchanged, TypeOK, TypePods, TypeProvider, Return, ToSyncEmployer
    <3>. QED BY <3>1, <3>2, <3>3, <3>4 DEF TypeOK
  <2>8. CASE EndExpectedPatch
    <3>1. TypeEmployer'
      BY <2>8, EndExpectedPatchWrites, NoEmployerType DEF EndExpectedPatch, TypeOK, TypeEmployer
    <3>2. TypeReconcile'
      BY <2>8, EndExpectedPatchWrites DEF EndExpectedPatch, TypeOK, TypeReconcile, Results
    <3>3. TypeManager'
      BY <2>8, ChargeType, EndExpectedPatchWrites DEF EndExpectedPatch, TypeOK, TypeManager
    <3>4. TypePods' /\ TypeProvider'
      BY <2>8 DEF EndExpectedPatch, TypeOK, TypePods, TypeProvider, Return, ToSyncEmployer
    <3>. QED BY <3>1, <3>2, <3>3, <3>4 DEF TypeOK
  <2>9. CASE SyncEmployer
    <3>1. TypeProvider'
      BY <2>9 DEF SyncEmployer, TypeOK, ExpectedVip, TypeProvider
    <3>2. TypeReconcile'
      BY <2>9 DEF SyncEmployer, TypeOK, TypeReconcile, Results
    <3>3. TypeManager'
      BY <2>9, ChargeType DEF SyncEmployer, TypeOK, TypeManager
    <3>4. TypeEmployer' /\ TypePods'
      BY <2>9 DEF SyncEmployer, TypeOK, TypeEmployer, TypePods
    <3>. QED BY <3>1, <3>2, <3>3, <3>4 DEF TypeOK
  <2>10. CASE SyncEmployerError
    <3>1. TypeEmployer'
      BY <2>10, NoEmployerType DEF SyncEmployerError, TypeOK, Return, TypeEmployer
    <3>2. TypeProvider'
      BY <2>10 DEF SyncEmployerError, TypeOK, ExpectedVip, CurrentVip, Apply, TypeProvider
    <3>3. TypeReconcile'
      BY <2>10 DEF SyncEmployerError, TypeOK, Return, TypeReconcile
    <3>4. TypeManager'
      BY <2>10, ChargeType DEF SyncEmployerError, TypeOK, Return, TypeManager
    <3>5. TypePods'
      BY <2>10 DEF SyncEmployerError, TypeOK, TypePods, Return
    <3>. QED BY <3>1, <3>2, <3>3, <3>4, <3>5 DEF TypeOK
  <2>11. CASE SyncEmployees
    <3>1. TypeProvider'
      BY <2>11 DEF SyncEmployees, TypeOK, Apply, ExpectedRs, TypeProvider
    <3>2. TypeReconcile'
      BY <2>11 DEF SyncEmployees, TypeOK, LifecycleToAdd, LifecycleToDelete, ToCreate, ToUpdate,
           ToDelete, Same, ReadyOf, ExpectedRs, Noting, TypeReconcile, Results
    <3>3. TypeManager'
      BY <2>11, ChargeType DEF SyncEmployees, TypeOK, TypeManager
    <3>4. TypeEmployer' /\ TypePods'
      BY <2>11 DEF SyncEmployees, TypeOK, TypeEmployer, TypePods
    <3>. QED BY <3>1, <3>2, <3>3, <3>4 DEF TypeOK
  <2>12. CASE SyncEmployeesError
    <3>1. TypeEmployer'
      BY <2>12, NoEmployerType DEF SyncEmployeesError, TypeOK, Return, TypeEmployer
    <3>2. TypeProvider'
      BY <2>12 DEF SyncEmployeesError, TypeOK, ExpectedRs, Apply, TypeProvider
    <3>3. TypeReconcile'
      BY <2>12 DEF SyncEmployeesError, TypeOK, Return, TypeReconcile
    <3>4. TypeManager'
      BY <2>12, ChargeType DEF SyncEmployeesError, TypeOK, Return, TypeManager
    <3>5. TypePods'
      BY <2>12 DEF SyncEmployeesError, TypeOK, TypePods, Return
    <3>. QED BY <3>1, <3>2, <3>3, <3>4, <3>5 DEF TypeOK
  <2>13. CASE CollectUnselected
    <3>1. TypeReconcile'
      BY <2>13, EmployerFields DEF CollectUnselected, TypeOK, TypeEmployer, TypeReconcile
    <3>2. TypeEmployer' /\ TypePods' /\ TypeProvider' /\ TypeManager'
      BY <2>13 DEF CollectUnselected, TypeOK, TypeEmployer, TypePods, TypeProvider, TypeManager
    <3>. QED BY <3>1, <3>2 DEF TypeOK
  <2>14. ASSUME NEW p \in Pods, AddLifecycleFlz(p) PROVE TypeOK'
    <3>1. TypePods'
      BY <2>14, PodUpdates, WritePodType DEF AddLifecycleFlz, TypeOK, UpdatePodFlz, TypePods
    <3>2. TypeReconcile'
      BY <2>14 DEF AddLifecycleFlz, TypeOK, UpdatePodFlz, Noting, TypeReconcile, Results
    <3>3. TypeManager'
      BY <2>14, ChargeType DEF AddLifecycleFlz, TypeOK, UpdatePodFlz, TypeManager
    <3>4. TypeEmployer' /\ TypeProvider'
      BY <2>14 DEF AddLifecycleFlz, TypeOK, TypeEmployer, TypeProvider
    <3>. QED BY <3>1, <3>2, <3>3, <3>4 DEF TypeOK
  <2>15. ASSUME NEW p \in Pods, DeleteFlzOfEmployee(p) PROVE TypeOK'
    <3>1. TypePods'
      BY <2>15, PodUpdates, WritePodType DEF DeleteFlzOfEmployee, TypeOK, DeleteLifecycleFlz,
           UpdatePodFlz, TypePods
    <3>2. TypeReconcile'
      BY <2>15 DEF DeleteFlzOfEmployee, TypeOK, DeleteLifecycleFlz, UpdatePodFlz, Noting,
           TypeReconcile, Results
    <3>3. TypeManager'
      BY <2>15, ChargeType DEF DeleteFlzOfEmployee, TypeOK, DeleteLifecycleFlz, UpdatePodFlz,
           TypeManager
    <3>4. TypeEmployer' /\ TypeProvider'
      BY <2>15 DEF DeleteFlzOfEmployee, TypeOK, TypeEmployer, TypeProvider
    <3>. QED BY <3>1, <3>2, <3>3, <3>4 DEF TypeOK
  <2>16. ASSUME NEW p \in Pods, DeleteFlzOfRecorded(p) PROVE TypeOK'
    <3>1. TypePods'
      BY <2>16, PodUpdates, WritePodType DEF DeleteFlzOfRecorded, TypeOK, DeleteLifecycleFlz,
           UpdatePodFlz, TypePods
    <3>2. TypeReconcile'
      BY <2>16 DEF DeleteFlzOfRecorded, TypeOK, DeleteLifecycleFlz, UpdatePodFlz, Noting,
           TypeReconcile, Results
    <3>3. TypeManager'
      BY <2>16, ChargeType DEF DeleteFlzOfRecorded, TypeOK, DeleteLifecycleFlz, UpdatePodFlz,
           TypeManager
    <3>4. TypeEmployer' /\ TypeProvider'
      BY <2>16 DEF DeleteFlzOfRecorded, TypeOK, TypeEmployer, TypeProvider
    <3>. QED BY <3>1, <3>2, <3>3, <3>4 DEF TypeOK
  <2>17. CASE EndAddLifecycleFlz
    <3>1. TypeEmployer'
      BY <2>17, NoEmployerType DEF EndAddLifecycleFlz, TypeOK, Return, TypeEmployer
    <3>2. TypeReconcile'
      BY <2>17 DEF EndAddLifecycleFlz, TypeOK, Return, Noting, TypeReconcile, Results
    <3>3. TypeManager'
      BY <2>17 DEF EndAddLifecycleFlz, TypeOK, Return, TypeManager
    <3>4. TypePods' /\ TypeProvider'
      BY <2>17 DEF EndAddLifecycleFlz, TypeOK, TypePods, TypeProvider, Return
    <3>. QED BY <3>1, <3>2, <3>3, <3>4 DEF TypeOK
  <2>18. CASE RecordLifecycle
    <3>1. TypeEmployer'
      BY <2>18, RecordLifecycleWrites, NoEmployerType DEF RecordLifecycle, TypeOK, TypeEmployer
    <3>2. TypeReconcile'
      BY <2>18, RecordLifecycleWrites DEF RecordLifecycle, TypeOK, TypeReconcile, Results
    <3>3. TypeManager'
      BY <2>18, ChargeType, RecordLifecycleWrites DEF RecordLifecycle, TypeOK, TypeManager
    <3>4. TypePods' /\ TypeProvider'
      BY <2>18 DEF RecordLifecycle, TypeOK, TypePods, TypeProvider, Return
    <3>. QED BY <3>1, <3>2, <3>3, <3>4 DEF TypeOK
  <2>19. CASE FinishReconcile
    <3>1. TypeEmployer'
      BY <2>19, NoEmployerType DEF FinishReconcile, TypeOK, Return, TypeEmployer
    <3>2. TypeReconcile'
      BY <2>19 DEF FinishReconcile, TypeOK, Return, TypeReconcile
    <3>3. TypeManager'
      BY <2>19, ChargeType DEF FinishReconcile, TypeOK, Return, AsksToComeBack, TypeManager
    <3>4. TypePods' /\ TypeProvider'
      BY <2>19 DEF FinishReconcile, TypeOK, TypePods, TypeProvider, Return
    <3>. QED BY <3>1, <3>2, <3>3, <3>4 DEF TypeOK
  <2>20. CASE CleanEmployerCleanFinalizer
    <3>1. TypeEmployer'
      BY <2>20, CleanWrites, NoEmployerType DEF CleanEmployerCleanFinalizer, TypeOK, TypeEmployer
    <3>2. TypeReconcile'
      BY <2>20, CleanWrites DEF CleanEmployerCleanFinalizer, TypeOK, TypeReconcile
    <3>3. TypeManager'
      BY <2>20, ChargeType, CleanWrites DEF CleanEmployerCleanFinalizer, TypeOK, TypeManager
    <3>4. TypePods' /\ TypeProvider'
      BY <2>20 DEF CleanEmployerCleanFinalizer, TypeOK, TypePods, TypeProvider, Return
    <3>. QED BY <3>1, <3>2, <3>3, <3>4 DEF TypeOK
  <2>21. CASE SyncEmployerCache
    <3>1. TypeEmployer'
      BY <2>21 DEF SyncEmployerCache, TypeOK, TypeEmployer
    <3>2. TypeManager'
      BY <2>21 DEF SyncEmployerCache, TypeOK, TypeManager
    <3>3. TypePods' /\ TypeProvider' /\ TypeReconcile'
      BY <2>21 DEF SyncEmployerCache, TypeOK, TypePods, TypeProvider, TypeReconcile
    <3>. QED BY <3>1, <3>2, <3>3 DEF TypeOK
  <2>22. CASE SyncPodCache
    <3>1. TypePods'
      BY <2>22 DEF SyncPodCache, TypeOK, TypePods
    <3>2. TypeManager'
      BY <2>22 DEF SyncPodCache, TypeOK, TypeManager
    <3>3. TypeEmployer' /\ TypeProvider' /\ TypeReconcile'
      BY <2>22 DEF SyncPodCache, TypeOK, TypeEmployer, TypeProvider, TypeReconcile
    <3>. QED BY <3>1, <3>2, <3>3 DEF TypeOK
  <2>23. CASE Crash
    <3>1. TypeEmployer'
      BY <2>23, NoEmployerType DEF Crash, TypeOK, TypeEmployer
    <3>2. TypePods'
      BY <2>23 DEF Crash, TypeOK, TypePods
    <3>3. TypeReconcile'
      BY <2>23 DEF Crash, TypeOK, TypeReconcile
    <3>4. TypeManager'
      BY <2>23, ChargeType DEF Crash, TypeOK, TypeManager
    <3>5. TypeProvider'
      BY <2>23 DEF Crash, TypeOK, TypeProvider
    <3>. QED BY <3>1, <3>2, <3>3, <3>4, <3>5 DEF TypeOK
  <2>24. CASE CreateEmployer
    <3>1. TypeEmployer'
      BY <2>24, CreateWrites DEF CreateEmployer, TypeOK, TypeEmployer
    <3>2. TypeManager'
      BY <2>24, CreateWrites DEF TypeOK, Change, TypeManager
    <3>3. TypePods' /\ TypeProvider' /\ TypeReconcile'
      BY <2>24 DEF CreateEmployer, TypeOK, TypePods, TypeProvider, TypeReconcile
    <3>. QED BY <3>1, <3>2, <3>3 DEF TypeOK
  <2>25. CASE DeleteEmployer
    <3>1. TypeEmployer'
      BY <2>25, DeleteWrites DEF DeleteEmployer, TypeOK, TypeEmployer
    <3>2. TypeManager'
      BY <2>25, DeleteWrites DEF DeleteEmployer, TypeOK, Change, TypeManager
    <3>3. TypePods' /\ TypeProvider' /\ TypeReconcile'
      BY <2>25 DEF DeleteEmployer, TypeOK, TypePods, TypeProvider, TypeReconcile
    <3>. QED BY <3>1, <3>2, <3>3 DEF TypeOK
  <2>26. CASE ReleaseOther
    <3>1. TypeEmployer'
      BY <2>26, ReleaseWrites DEF ReleaseOther, TypeOK, TypeEmployer
    <3>2. TypeManager'
      <4>1. Change /\ UNCHANGED <<queued, born, drifts, faults>>
        BY <2>26 DEF ReleaseOther
      <4>. QED BY <2>26, <4>1, ReleaseWrites DEF TypeOK, Change, TypeManager
    <3>3. TypePods' /\ TypeProvider' /\ TypeReconcile'
      BY <2>26 DEF ReleaseOther, TypeOK, TypePods, TypeProvider, TypeReconcile
    <3>. QED BY <3>1, <3>2, <3>3 DEF TypeOK
  <2>27. ASSUME NEW p \in Pods, CreatePod(p) PROVE TypeOK'
    <3>1. TypePods'
      BY <2>27, PodUpdates, WritePodType DEF CreatePod, TypeOK, TypePods
    <3>2. TypeManager'
      BY <2>27 DEF CreatePod, TypeOK, Change, TypeManager
    <3>3. TypeEmployer' /\ TypeProvider' /\ TypeReconcile'
      BY <2>27 DEF CreatePod, TypeOK, TypeEmployer, TypeProvider, TypeReconcile
    <3>. QED BY <3>1, <3>2, <3>3 DEF TypeOK
  <2>28. ASSUME NEW p \in Pods, DeletePod(p) PROVE TypeOK'
    <3>1. TypePods'
      BY <2>28, PodUpdates, WritePodType DEF DeletePod, TypeOK, TypePods
    <3>2. TypeManager'
      BY <2>28 DEF DeletePod, TypeOK, Change, TypeManager
    <3>3. TypeEmployer' /\ TypeProvider' /\ TypeReconcile'
      BY <2>28 DEF DeletePod, TypeOK, TypeEmployer, TypeProvider, TypeReconcile
    <3>. QED BY <3>1, <3>2, <3>3 DEF TypeOK
  <2>29. ASSUME NEW p \in Pods, RelabelPod(p) PROVE TypeOK'
    <3>1. TypePods'
      BY <2>29, PodUpdates, WritePodType DEF RelabelPod, TypeOK, TypePods
    <3>2. TypeManager'
      BY <2>29 DEF RelabelPod, TypeOK, Change, TypeManager
    <3>3. TypeEmployer' /\ TypeProvider' /\ TypeReconcile'
      BY <2>29 DEF RelabelPod, TypeOK, TypeEmployer, TypeProvider, TypeReconcile
    <3>. QED BY <3>1, <3>2, <3>3 DEF TypeOK
  <2>30. ASSUME NEW p \in Pods, ChangeReadiness(p) PROVE TypeOK'
    <3>1. TypePods'
      BY <2>30, PodUpdates, WritePodType DEF ChangeReadiness, TypeOK, TypePods
    <3>2. TypeManager'
      BY <2>30 DEF ChangeReadiness, TypeOK, Change, TypeManager
    <3>3. TypeEmployer' /\ TypeProvider' /\ TypeReconcile'
      BY <2>30 DEF ChangeReadiness, TypeOK, TypeEmployer, TypeProvider, TypeReconcile
    <3>. QED BY <3>1, <3>2, <3>3 DEF TypeOK
  <2>31. ASSUME NEW p \in Pods, PodGone(p) PROVE TypeOK'
    <3>1. TypePods'
      BY <2>31, PodUpdates, WritePodType DEF PodGone, TypeOK, TypePods
    <3>2. TypeEmployer' /\ TypeProvider' /\ TypeReconcile' /\ TypeManager'
      BY <2>31 DEF PodGone, TypeOK, TypeEmployer, TypeProvider, TypeReconcile, TypeManager
    <3>. QED BY <3>1, <3>2 DEF TypeOK
  <2>32. CASE Drift
    <3>1. TypeProvider'
      BY <2>32 DEF Drift, TypeOK, TypeProvider
    <3>2. TypeManager'
      BY <2>32 DEF Drift, TypeOK, Change, TypeManager
    <3>3. TypeEmployer' /\ TypePods' /\ TypeReconcile'
      BY <2>32 DEF Drift, TypeOK, TypeEmployer, TypePods, TypeReconcile
    <3>. QED BY <3>1, <3>2, <3>3 DEF TypeOK
  <2>33. CASE UNCHANGED vars
    BY <2>33 DEF vars, TypeOK, TypeEmployer, TypePods, TypeProvider, TypeReconcile, TypeManager
  <2>34. CASE Controller
    BY <2>34, <2>1, <2>2, <2>3, <2>4, <2>5, <2>6, <2>7, <2>8, <2>9, <2>10, <2>11, <2>12, <2>13,
         <2>14, <2>15, <2>16, <2>17, <2>18, <2>19, <2>20 DEF Controller
  <2>35. CASE Environment
    BY <2>35, <2>24, <2>25, <2>26, <2>27, <2>28, <2>29, <2>30, <2>31, <2>32 DEF Environment
  <2>. QED BY <2>21, <2>22, <2>23, <2>33, <2>34, <2>35 DEF Next
<1>. QED BY <1>1, <1>2, PTL DEF Spec

-----------------------------------------------------------------------------
(* The provider is never left holding anything for an unguarded employer. *)

\* A write to a pod is known to be news.
LEMMA WritePodFrame ==
  ASSUME TypePods, NEW p \in Pods, NEW v, WritePod(p, v)
  PROVE  /\ dirtyPods' = dirtyPods \cup {p} /\ pods'[p] = v
         /\ \A q \in Pods \ {p} : pods'[q] = pods[q]
  BY DEF TypePods, WritePod

\* While the employer is being deleted, provider calls only take entries away.
LEMMA ApplyDeleting ==
  ASSUME TypeProvider, obj.phase = "deleting", NEW applied, NEW p \in Pods
  PROVE  Apply(ExpectedRs, rs, applied)[p] \in {"none", rs[p]}
  BY DEF TypeProvider, Apply, ExpectedRs

\* If the employees are reported clean, the provider holds none of them.
LEMMA EmployeesCleanFact ==
  ASSUME TypeProvider, NEW failed, EmployeesClean(failed), NEW p \in Pods
  PROVE  Apply(ExpectedRs, rs, Pods \ failed)[p] = "none"
<1>. DEFINE E == ExpectedRs
<1>1. DOMAIN E = Pods /\ DOMAIN rs = Pods
  BY DEF ExpectedRs, TypeProvider
<1>. HIDE DEF E
<1>2. E[p] = "none"
  BY <1>1 DEF EmployeesClean, ToCreate, ToUpdate, Same, E
<1>3. p \in failed => rs[p] = "none"
  BY <1>1, <1>2 DEF EmployeesClean, ToDelete, E
<1>. QED BY <1>1, <1>2, <1>3 DEF Apply, E

\* What the watch has nothing to say about, the cache has right, after every step: a write of an
\* object marks it, and only the watch, or a restart, takes the mark off.
LEMMA FreshKept ==
  ASSUME TypeOK, Fresh, [Next]_vars
  PROVE  Fresh'
<1>. USE DEF apiVars, cacheVars
<1>1. CASE UNCHANGED <<employer, pods, dirtyEmployer, dirtyPods, cEmployer, cPods>>
  BY <1>1 DEF Fresh
<1>2. CASE /\ UNCHANGED <<pods, dirtyPods, cEmployer, cPods>>
           /\ UNCHANGED <<employer, dirtyEmployer>> \/ dirtyEmployer' = TRUE
  BY <1>2 DEF Fresh
<1>3. ASSUME NEW p \in Pods, UNCHANGED <<employer, dirtyEmployer, cEmployer, cPods>>,
             UNCHANGED <<pods, dirtyPods>> \/ \E v : WritePod(p, v)
      PROVE  Fresh'
  BY <1>3, WritePodFrame DEF Fresh, TypeOK
<1>4. CASE SyncEmployerCache \/ SyncPodCache \/ Crash
  BY <1>4 DEF SyncEmployerCache, SyncPodCache, Crash, Fresh
<1>5. CASE \/ ReconcileNotFound \/ BeginReconcile \/ EndExpectedNotNeedRecord \/ EndExpectedUnchanged
           \/ SyncEmployer \/ SyncEmployerError \/ SyncEmployees \/ SyncEmployeesError
           \/ CollectUnselected \/ EndAddLifecycleFlz \/ FinishReconcile \/ Drift
  BY <1>1, <1>5 DEF ReconcileNotFound, BeginReconcile, EndExpectedNotNeedRecord, EndExpectedUnchanged,
     SyncEmployer, SyncEmployerError, SyncEmployees, SyncEmployeesError, CollectUnselected,
     EndAddLifecycleFlz, FinishReconcile, Drift
<1>6. CASE \/ EnsureEmployerCleanFlz \/ EndExpectedPatch \/ RecordLifecycle
           \/ CleanEmployerCleanFinalizer
  <2>1. UNCHANGED <<pods, dirtyPods, cEmployer, cPods>>
    BY <1>6 DEF EnsureEmployerCleanFlz, EndExpectedPatch, RecordLifecycle, CleanEmployerCleanFinalizer
  <2>2. UNCHANGED <<employer, dirtyEmployer>> \/ dirtyEmployer' = TRUE
    BY <1>6, EnsureWrites, EndExpectedPatchWrites, RecordLifecycleWrites, CleanWrites DEF Fresh
  <2>. QED BY <1>2, <2>1, <2>2
<1>7. CASE CreateEmployer \/ DeleteEmployer \/ ReleaseOther
  <2>1. UNCHANGED <<pods, dirtyPods, cEmployer, cPods>> /\ dirtyEmployer' = TRUE
    BY <1>7 DEF CreateEmployer, DeleteEmployer, ReleaseOther, WriteEmployer
  <2>. QED BY <1>2, <2>1
<1>8. ASSUME NEW p \in Pods,
             \/ PatchAdd(p) \/ PatchDelete(p)
             \/ AddLifecycleFlz(p) \/ DeleteFlzOfEmployee(p) \/ DeleteFlzOfRecorded(p)
      PROVE  Fresh'
  <2>1. UNCHANGED <<employer, dirtyEmployer, cEmployer, cPods>>
    BY <1>8 DEF PatchAdd, PatchDelete, AddLifecycleFlz, DeleteFlzOfEmployee, DeleteFlzOfRecorded
  <2>2. UNCHANGED <<pods, dirtyPods>> \/ \E v : WritePod(p, v)
    BY <1>8 DEF PatchAdd, PatchDelete, PatchPod, AddLifecycleFlz, DeleteFlzOfEmployee,
       DeleteFlzOfRecorded, DeleteLifecycleFlz, UpdatePodFlz
  <2>. QED BY <1>3, <2>1, <2>2
<1>9. ASSUME NEW p \in Pods,
             CreatePod(p) \/ DeletePod(p) \/ RelabelPod(p) \/ ChangeReadiness(p) \/ PodGone(p)
      PROVE  Fresh'
  <2>1. UNCHANGED <<employer, dirtyEmployer, cEmployer, cPods>> /\ \E v : WritePod(p, v)
    BY <1>9 DEF CreatePod, DeletePod, RelabelPod, ChangeReadiness, PodGone
  <2>. QED BY <1>3, <2>1
<1>. QED BY <1>1, <1>4, <1>5, <1>6, <1>7, <1>8, <1>9 DEF Next, Controller, Environment, vars

\* The inductive invariant.  The recording of expected finalizers must not meet an employer of the
\* same name again: the answer to its patch may be a new employer without the clean finalizer, for which Reconcile goes on.
THEOREM GuardInvariant ==
  ASSUME ~NeedRecordExpected \/ ~Recreate
  PROVE  Spec => []GuardInv
<1>1. Init => GuardInv
  <2>. SUFFICES ASSUME Init PROVE GuardInv
    OBVIOUS
  <2>1. Fresh
    BY DEF Init, Fresh
  <2>2. SeenGuarded /\ SeenOnce /\ HeldGuarded
    BY NoEmployerType DEF Init, SeenGuarded, SeenOnce, HeldGuarded, HasClean
  <2>3. FlagsTrue /\ BackendGuarded
    BY DEF Init, FlagsTrue, BackendGuarded
  <2>. QED BY <2>1, <2>2, <2>3 DEF GuardInv
<1>2. TypeOK /\ GuardInv /\ [Next]_vars => GuardInv'
  <2>. SUFFICES ASSUME TypeOK, GuardInv, [Next]_vars PROVE GuardInv'
    OBVIOUS
  <2>0. Fresh'
    BY FreshKept DEF GuardInv
  <2>. USE DEF apiVars, cacheVars, provVars, recVars, envVars, TypeOK
  <2>1. CASE ReconcileNotFound
    <3>1. Fresh' /\ SeenGuarded' /\ SeenOnce' /\ HeldGuarded' /\ FlagsTrue' /\ BackendGuarded'
      BY <2>0, <2>1 DEF ReconcileNotFound, GuardInv, SeenGuarded, SeenOnce, HeldGuarded,
           FlagsTrue, BackendGuarded
    <3>. QED BY <3>1 DEF GuardInv
  <2>2. CASE EnsureEmployerCleanFlz
    <3>1. Fresh'
      BY <2>0
    <3>2. SeenGuarded'
      BY <2>2, EnsureWrites DEF EnsureEmployerCleanFlz, GuardInv, Fresh, SeenGuarded, HeldGuarded,
           HasClean
    <3>3. SeenOnce'
      BY <2>2, EnsureWrites DEF EnsureEmployerCleanFlz, GuardInv, Fresh, SeenOnce, HeldGuarded
    <3>4. HeldGuarded'
      BY <2>2, EnsureWrites DEF EnsureEmployerCleanFlz, GuardInv, HeldGuarded, HasClean
    <3>5. BackendGuarded'
      BY <2>2, EnsureWrites DEF EnsureEmployerCleanFlz, GuardInv, BackendGuarded
    <3>6. FlagsTrue'
      BY <2>2 DEF EnsureEmployerCleanFlz, GuardInv, FlagsTrue
    <3>. QED BY <3>1, <3>2, <3>3, <3>4, <3>5, <3>6 DEF GuardInv
  <2>3. CASE BeginReconcile
    <3>1. SeenGuarded'
      BY <2>3 DEF BeginReconcile, GuardInv, SeenGuarded
    <3>2. SeenOnce'
      BY <2>3 DEF BeginReconcile, GuardInv, SeenOnce
    <3>3. HeldGuarded'
      BY <2>3 DEF BeginReconcile, GuardInv, MissesCleanFlz, SeenGuarded, HeldGuarded, HasClean
    <3>4. FlagsTrue'
      BY <2>3 DEF BeginReconcile, GuardInv, FlagsTrue
    <3>5. Fresh' /\ BackendGuarded'
      BY <2>0, <2>3 DEF BeginReconcile, GuardInv, BackendGuarded
    <3>. QED BY <3>1, <3>2, <3>3, <3>4, <3>5 DEF GuardInv
  <2>4. ASSUME NEW p \in Pods, PatchAdd(p) PROVE GuardInv'
    <3>1. Fresh'
      BY <2>0
    <3>2. FlagsTrue'
      BY <2>4 DEF PatchAdd, GuardInv, PatchPod, Noting, FlagsTrue
    <3>3. SeenGuarded' /\ SeenOnce' /\ HeldGuarded' /\ BackendGuarded'
      BY <2>4 DEF PatchAdd, GuardInv, SeenGuarded, SeenOnce, HeldGuarded, BackendGuarded
    <3>. QED BY <3>1, <3>2, <3>3 DEF GuardInv
  <2>5. ASSUME NEW p \in Pods, PatchDelete(p) PROVE GuardInv'
    <3>1. Fresh'
      BY <2>0
    <3>2. FlagsTrue'
      BY <2>5 DEF PatchDelete, GuardInv, PatchPod, Noting, FlagsTrue
    <3>3. SeenGuarded' /\ SeenOnce' /\ HeldGuarded' /\ BackendGuarded'
      BY <2>5 DEF PatchDelete, GuardInv, SeenGuarded, SeenOnce, HeldGuarded, BackendGuarded
    <3>. QED BY <3>1, <3>2, <3>3 DEF GuardInv
  <2>6. CASE EndExpectedNotNeedRecord
    <3>1. SeenGuarded'
      BY <2>6, NoEmployerType DEF EndExpectedNotNeedRecord, GuardInv, Return, ToSyncEmployer,
           SeenGuarded
    <3>2. SeenOnce'
      BY <2>6, NoEmployerType DEF EndExpectedNotNeedRecord, GuardInv, Return, ToSyncEmployer,
           SeenOnce
    <3>3. HeldGuarded'
      BY <2>6, NoEmployerType DEF EndExpectedNotNeedRecord, GuardInv, Return, ToSyncEmployer,
           HeldGuarded
    <3>4. FlagsTrue'
      BY <2>6 DEF EndExpectedNotNeedRecord, GuardInv, Return, ToSyncEmployer, FlagsTrue
    <3>5. Fresh' /\ BackendGuarded'
      BY <2>0, <2>6 DEF EndExpectedNotNeedRecord, GuardInv, BackendGuarded, Return,
           ToSyncEmployer
    <3>. QED BY <3>1, <3>2, <3>3, <3>4, <3>5 DEF GuardInv
  <2>7. CASE EndExpectedUnchanged
    <3>1. SeenGuarded'
      BY <2>7, NoEmployerType DEF EndExpectedUnchanged, GuardInv, ToSyncEmployer, SeenGuarded
    <3>2. SeenOnce'
      BY <2>7, NoEmployerType DEF EndExpectedUnchanged, GuardInv, ToSyncEmployer, SeenOnce
    <3>3. HeldGuarded'
      BY <2>7, NoEmployerType DEF EndExpectedUnchanged, GuardInv, ToSyncEmployer, HeldGuarded
    <3>4. FlagsTrue'
      BY <2>7 DEF EndExpectedUnchanged, GuardInv, ToSyncEmployer, FlagsTrue
    <3>5. Fresh' /\ BackendGuarded'
      BY <2>0, <2>7 DEF EndExpectedUnchanged, GuardInv, BackendGuarded, ToSyncEmployer
    <3>. QED BY <3>1, <3>2, <3>3, <3>4, <3>5 DEF GuardInv
  <2>8. CASE EndExpectedPatch
    <3>1. Fresh'
      BY <2>0
    <3>2. SeenGuarded'
      BY <2>8, EndExpectedPatchWrites, NoEmployerType DEF EndExpectedPatch, GuardInv, SeenGuarded,
           HasClean
    <3>3. SeenOnce'
      BY <2>8, EndExpectedPatchWrites, NoEmployerType DEF EndExpectedPatch, GuardInv, SeenOnce
    <3>4. HeldGuarded'
      BY <2>8, EndExpectedPatchWrites, NoEmployerType DEF EndExpectedPatch, GuardInv, SeenOnce,
           HeldGuarded, HasClean, TypeEmployer, Employers, TypeOK
    <3>5. FlagsTrue'
      BY <2>8, EndExpectedPatchWrites, NoEmployerType DEF EndExpectedPatch, GuardInv, FlagsTrue
    <3>6. BackendGuarded'
      BY <2>8, EndExpectedPatchWrites, NoEmployerType DEF EndExpectedPatch, GuardInv,
           BackendGuarded
    <3>. QED BY <3>1, <3>2, <3>3, <3>4, <3>5, <3>6 DEF GuardInv
  <2>9. CASE SyncEmployer
    <3>1. HeldGuarded'
      BY <2>9 DEF SyncEmployer, GuardInv, HeldGuarded
    <3>2. FlagsTrue'
      BY <2>9 DEF SyncEmployer, GuardInv, ExpectedVip, FlagsTrue
    <3>3. BackendGuarded'
      BY <2>9, EmployerFields DEF SyncEmployer, GuardInv, ExpectedVip, TypeEmployer, HeldGuarded,
           HasClean, BackendGuarded, TypeOK
    <3>4. Fresh' /\ SeenGuarded' /\ SeenOnce'
      BY <2>0, <2>9 DEF SyncEmployer, GuardInv, SeenGuarded, SeenOnce
    <3>. QED BY <3>1, <3>2, <3>3, <3>4 DEF GuardInv
  <2>10. CASE SyncEmployerError
    <3>1. SeenGuarded'
      BY <2>10, NoEmployerType DEF SyncEmployerError, GuardInv, Return, SeenGuarded
    <3>2. SeenOnce'
      BY <2>10, NoEmployerType DEF SyncEmployerError, GuardInv, Return, SeenOnce
    <3>3. HeldGuarded'
      BY <2>10, NoEmployerType DEF SyncEmployerError, GuardInv, Return, HeldGuarded
    <3>4. FlagsTrue'
      BY <2>10 DEF SyncEmployerError, GuardInv, Return, FlagsTrue
    <3>5. BackendGuarded'
      BY <2>10, EmployerFields DEF SyncEmployerError, GuardInv, ExpectedVip, CurrentVip, Apply,
           TypeEmployer, HeldGuarded, HasClean, BackendGuarded, TypeOK
    <3>6. Fresh'
      BY <2>0
    <3>. QED BY <3>1, <3>2, <3>3, <3>4, <3>5, <3>6 DEF GuardInv
  <2>11. CASE SyncEmployees
    <3>1. HeldGuarded'
      BY <2>11 DEF SyncEmployees, GuardInv, HeldGuarded
    <3>2. FlagsTrue'
      BY <2>11, EmployeesCleanFact DEF SyncEmployees, GuardInv, Noting, Apply, TypeProvider,
           FlagsTrue, TypeOK
    <3>3. BackendGuarded'
      BY <2>11, EmployerFields, ApplyDeleting DEF SyncEmployees, GuardInv, TypeEmployer,
           HeldGuarded, HasClean, BackendGuarded, TypeOK
    <3>4. Fresh' /\ SeenGuarded' /\ SeenOnce'
      BY <2>0, <2>11 DEF SyncEmployees, GuardInv, SeenGuarded, SeenOnce
    <3>. QED BY <3>1, <3>2, <3>3, <3>4 DEF GuardInv
  <2>12. CASE SyncEmployeesError
    <3>1. SeenGuarded'
      BY <2>12, NoEmployerType DEF SyncEmployeesError, GuardInv, Return, SeenGuarded
    <3>2. SeenOnce'
      BY <2>12, NoEmployerType DEF SyncEmployeesError, GuardInv, Return, SeenOnce
    <3>3. HeldGuarded'
      BY <2>12, NoEmployerType DEF SyncEmployeesError, GuardInv, Return, HeldGuarded
    <3>4. FlagsTrue'
      BY <2>12 DEF SyncEmployeesError, GuardInv, Return, FlagsTrue
    <3>5. BackendGuarded'
      BY <2>12, EmployerFields, ApplyDeleting DEF SyncEmployeesError, GuardInv, TypeEmployer,
           HeldGuarded, HasClean, BackendGuarded, TypeOK
    <3>6. Fresh'
      BY <2>0
    <3>. QED BY <3>1, <3>2, <3>3, <3>4, <3>5, <3>6 DEF GuardInv
  <2>13. CASE CollectUnselected
    <3>1. HeldGuarded'
      BY <2>13 DEF CollectUnselected, GuardInv, HeldGuarded
    <3>2. FlagsTrue'
      BY <2>13 DEF CollectUnselected, GuardInv, FlagsTrue
    <3>3. Fresh' /\ SeenGuarded' /\ SeenOnce' /\ BackendGuarded'
      BY <2>0, <2>13 DEF CollectUnselected, GuardInv, SeenGuarded, SeenOnce, BackendGuarded
    <3>. QED BY <3>1, <3>2, <3>3 DEF GuardInv
  <2>14. ASSUME NEW p \in Pods, AddLifecycleFlz(p) PROVE GuardInv'
    <3>1. Fresh'
      BY <2>0
    <3>2. FlagsTrue'
      BY <2>14 DEF AddLifecycleFlz, GuardInv, UpdatePodFlz, Noting, FlagsTrue
    <3>3. SeenGuarded' /\ SeenOnce' /\ HeldGuarded' /\ BackendGuarded'
      BY <2>14 DEF AddLifecycleFlz, GuardInv, SeenGuarded, SeenOnce, HeldGuarded, BackendGuarded
    <3>. QED BY <3>1, <3>2, <3>3 DEF GuardInv
  <2>15. ASSUME NEW p \in Pods, DeleteFlzOfEmployee(p) PROVE GuardInv'
    <3>1. Fresh'
      BY <2>0
    <3>2. FlagsTrue'
      BY <2>15 DEF DeleteFlzOfEmployee, GuardInv, DeleteLifecycleFlz, UpdatePodFlz, Noting,
           FlagsTrue
    <3>3. SeenGuarded' /\ SeenOnce' /\ HeldGuarded' /\ BackendGuarded'
      BY <2>15 DEF DeleteFlzOfEmployee, GuardInv, SeenGuarded, SeenOnce, HeldGuarded,
           BackendGuarded
    <3>. QED BY <3>1, <3>2, <3>3 DEF GuardInv
  <2>16. ASSUME NEW p \in Pods, DeleteFlzOfRecorded(p) PROVE GuardInv'
    <3>1. Fresh'
      BY <2>0
    <3>2. FlagsTrue'
      BY <2>16 DEF DeleteFlzOfRecorded, GuardInv, DeleteLifecycleFlz, UpdatePodFlz, Noting,
           FlagsTrue
    <3>3. SeenGuarded' /\ SeenOnce' /\ HeldGuarded' /\ BackendGuarded'
      BY <2>16 DEF DeleteFlzOfRecorded, GuardInv, SeenGuarded, SeenOnce, HeldGuarded,
           BackendGuarded
    <3>. QED BY <3>1, <3>2, <3>3 DEF GuardInv
  <2>17. CASE EndAddLifecycleFlz
    <3>1. SeenGuarded'
      BY <2>17, NoEmployerType DEF EndAddLifecycleFlz, GuardInv, Return, SeenGuarded
    <3>2. SeenOnce'
      BY <2>17, NoEmployerType DEF EndAddLifecycleFlz, GuardInv, Return, SeenOnce
    <3>3. HeldGuarded'
      BY <2>17, NoEmployerType DEF EndAddLifecycleFlz, GuardInv, Return, HeldGuarded
    <3>4. FlagsTrue'
      BY <2>17 DEF EndAddLifecycleFlz, GuardInv, Return, Noting, FlagsTrue
    <3>5. Fresh' /\ BackendGuarded'
      BY <2>0, <2>17 DEF EndAddLifecycleFlz, GuardInv, BackendGuarded, Return
    <3>. QED BY <3>1, <3>2, <3>3, <3>4, <3>5 DEF GuardInv
  <2>18. CASE RecordLifecycle
    <3>1. Fresh'
      BY <2>0
    <3>2. SeenGuarded'
      BY <2>18, RecordLifecycleWrites, NoEmployerType DEF RecordLifecycle, GuardInv, SeenGuarded,
           HasClean
    <3>3. SeenOnce'
      BY <2>18, RecordLifecycleWrites, NoEmployerType DEF RecordLifecycle, GuardInv, SeenOnce
    <3>4. HeldGuarded'
      BY <2>18, RecordLifecycleWrites, NoEmployerType DEF RecordLifecycle, GuardInv, HeldGuarded,
           HasClean
    <3>5. FlagsTrue'
      BY <2>18, RecordLifecycleWrites, NoEmployerType DEF RecordLifecycle, GuardInv, FlagsTrue
    <3>6. BackendGuarded'
      BY <2>18, RecordLifecycleWrites, NoEmployerType DEF RecordLifecycle, GuardInv,
           BackendGuarded
    <3>. QED BY <3>1, <3>2, <3>3, <3>4, <3>5, <3>6 DEF GuardInv
  <2>19. CASE FinishReconcile
    <3>1. SeenGuarded'
      BY <2>19, NoEmployerType DEF FinishReconcile, GuardInv, Return, SeenGuarded
    <3>2. SeenOnce'
      BY <2>19, NoEmployerType DEF FinishReconcile, GuardInv, Return, SeenOnce
    <3>3. HeldGuarded'
      BY <2>19, NoEmployerType DEF FinishReconcile, GuardInv, Return, HeldGuarded
    <3>4. FlagsTrue'
      BY <2>19 DEF FinishReconcile, GuardInv, Return, FlagsTrue
    <3>5. Fresh' /\ BackendGuarded'
      BY <2>0, <2>19 DEF FinishReconcile, GuardInv, BackendGuarded, Return
    <3>. QED BY <3>1, <3>2, <3>3, <3>4, <3>5 DEF GuardInv
  <2>20. CASE CleanEmployerCleanFinalizer
    <3>1. Fresh'
      BY <2>0
    <3>2. SeenGuarded'
      BY <2>20, CleanWrites, NoEmployerType DEF CleanEmployerCleanFinalizer, GuardInv, AllClean,
           Fresh, SeenGuarded, HasClean
    <3>3. SeenOnce'
      BY <2>20, CleanWrites, NoEmployerType DEF CleanEmployerCleanFinalizer, GuardInv, AllClean,
           Fresh, SeenOnce
    <3>4. HeldGuarded'
      BY <2>20, CleanWrites, NoEmployerType DEF CleanEmployerCleanFinalizer, GuardInv, HeldGuarded
    <3>5. FlagsTrue'
      BY <2>20, CleanWrites, NoEmployerType DEF CleanEmployerCleanFinalizer, GuardInv, FlagsTrue
    <3>6. BackendGuarded'
      BY <2>20, CleanWrites, NoEmployerType DEF CleanEmployerCleanFinalizer, GuardInv, AllClean,
           FlagsTrue, BackendGuarded
    <3>. QED BY <3>1, <3>2, <3>3, <3>4, <3>5, <3>6 DEF GuardInv
  <2>21. CASE SyncEmployerCache
    <3>1. Fresh'
      BY <2>0
    <3>2. SeenGuarded'
      BY <2>21 DEF SyncEmployerCache, GuardInv, SeenGuarded, HasClean
    <3>3. SeenOnce'
      BY <2>21 DEF SyncEmployerCache, GuardInv, SeenOnce
    <3>4. HeldGuarded' /\ FlagsTrue' /\ BackendGuarded'
      BY <2>21 DEF SyncEmployerCache, GuardInv, HeldGuarded, FlagsTrue, BackendGuarded
    <3>. QED BY <3>1, <3>2, <3>3, <3>4 DEF GuardInv
  <2>22. CASE SyncPodCache
    <3>1. Fresh'
      BY <2>0
    <3>2. SeenGuarded' /\ SeenOnce' /\ HeldGuarded' /\ FlagsTrue' /\ BackendGuarded'
      BY <2>22 DEF SyncPodCache, GuardInv, SeenGuarded, SeenOnce, HeldGuarded, FlagsTrue,
           BackendGuarded
    <3>. QED BY <3>1, <3>2 DEF GuardInv
  <2>23. CASE Crash
    <3>1. Fresh'
      BY <2>0
    <3>2. SeenGuarded'
      BY <2>23, NoEmployerType DEF Crash, GuardInv, SeenGuarded, HasClean
    <3>3. SeenOnce'
      BY <2>23, NoEmployerType DEF Crash, GuardInv, SeenOnce
    <3>4. HeldGuarded'
      BY <2>23, NoEmployerType DEF Crash, GuardInv, HeldGuarded
    <3>5. FlagsTrue'
      BY <2>23 DEF Crash, GuardInv, FlagsTrue
    <3>6. BackendGuarded'
      BY <2>23 DEF Crash, GuardInv, BackendGuarded
    <3>. QED BY <3>1, <3>2, <3>3, <3>4, <3>5, <3>6 DEF GuardInv
  <2>24. CASE CreateEmployer
    <3>1. Fresh'
      BY <2>0
    <3>2. SeenGuarded'
      BY <2>24, CreateWrites, NoEmployerType DEF GuardInv, SeenGuarded, HasClean, TypeOK,
           TypeEmployer, Consistent
    <3>3. SeenOnce'
      BY <2>24, CreateWrites, NoEmployerType DEF GuardInv, SeenOnce
    <3>4. HeldGuarded'
      BY <2>24, CreateWrites, NoEmployerType DEF GuardInv, HeldGuarded, HasClean, TypeOK,
           TypeEmployer, Consistent
    <3>5. BackendGuarded'
      BY <2>24, CreateWrites, NoEmployerType DEF GuardInv, BackendGuarded, TypeOK, TypeEmployer,
           Consistent
    <3>6. FlagsTrue'
      BY <2>24, CreateWrites DEF GuardInv, FlagsTrue
    <3>. QED BY <3>1, <3>2, <3>3, <3>4, <3>5, <3>6 DEF GuardInv
  <2>25. CASE DeleteEmployer
    <3>1. Fresh'
      BY <2>0
    <3>2. SeenGuarded'
      BY <2>25, DeleteWrites DEF DeleteEmployer, GuardInv, SeenGuarded, HasClean
    <3>3. SeenOnce'
      BY <2>25, DeleteWrites DEF DeleteEmployer, GuardInv, SeenOnce
    <3>4. HeldGuarded'
      BY <2>25, DeleteWrites DEF DeleteEmployer, GuardInv, HeldGuarded, HasClean
    <3>5. BackendGuarded'
      BY <2>25, DeleteWrites DEF DeleteEmployer, GuardInv, BackendGuarded
    <3>6. FlagsTrue'
      BY <2>25 DEF DeleteEmployer, GuardInv, FlagsTrue
    <3>. QED BY <3>1, <3>2, <3>3, <3>4, <3>5, <3>6 DEF GuardInv
  <2>26. CASE ReleaseOther
    <3>1. Fresh'
      BY <2>0
    <3>2. SeenGuarded'
      BY <2>26, ReleaseWrites DEF ReleaseOther, GuardInv, SeenGuarded, HasClean
    <3>3. SeenOnce'
      BY <2>26, ReleaseWrites DEF ReleaseOther, GuardInv, SeenOnce
    <3>4. HeldGuarded'
      BY <2>26, ReleaseWrites DEF ReleaseOther, GuardInv, HeldGuarded, HasClean
    <3>5. BackendGuarded'
      BY <2>26, ReleaseWrites DEF ReleaseOther, GuardInv, BackendGuarded
    <3>6. FlagsTrue'
      BY <2>26 DEF ReleaseOther, GuardInv, FlagsTrue
    <3>. QED BY <3>1, <3>2, <3>3, <3>4, <3>5, <3>6 DEF GuardInv
  <2>27. ASSUME NEW p \in Pods, CreatePod(p) PROVE GuardInv'
    <3>1. Fresh'
      BY <2>0
    <3>2. SeenGuarded' /\ SeenOnce' /\ HeldGuarded' /\ FlagsTrue' /\ BackendGuarded'
      BY <2>27 DEF CreatePod, GuardInv, SeenGuarded, SeenOnce, HeldGuarded, FlagsTrue,
           BackendGuarded
    <3>. QED BY <3>1, <3>2 DEF GuardInv
  <2>28. ASSUME NEW p \in Pods, DeletePod(p) PROVE GuardInv'
    <3>1. Fresh'
      BY <2>0
    <3>2. SeenGuarded' /\ SeenOnce' /\ HeldGuarded' /\ FlagsTrue' /\ BackendGuarded'
      BY <2>28 DEF DeletePod, GuardInv, SeenGuarded, SeenOnce, HeldGuarded, FlagsTrue,
           BackendGuarded
    <3>. QED BY <3>1, <3>2 DEF GuardInv
  <2>29. ASSUME NEW p \in Pods, RelabelPod(p) PROVE GuardInv'
    <3>1. Fresh'
      BY <2>0
    <3>2. SeenGuarded' /\ SeenOnce' /\ HeldGuarded' /\ FlagsTrue' /\ BackendGuarded'
      BY <2>29 DEF RelabelPod, GuardInv, SeenGuarded, SeenOnce, HeldGuarded, FlagsTrue,
           BackendGuarded
    <3>. QED BY <3>1, <3>2 DEF GuardInv
  <2>30. ASSUME NEW p \in Pods, ChangeReadiness(p) PROVE GuardInv'
    <3>1. Fresh'
      BY <2>0
    <3>2. SeenGuarded' /\ SeenOnce' /\ HeldGuarded' /\ FlagsTrue' /\ BackendGuarded'
      BY <2>30 DEF ChangeReadiness, GuardInv, SeenGuarded, SeenOnce, HeldGuarded, FlagsTrue,
           BackendGuarded
    <3>. QED BY <3>1, <3>2 DEF GuardInv
  <2>31. ASSUME NEW p \in Pods, PodGone(p) PROVE GuardInv'
    <3>1. Fresh'
      BY <2>0
    <3>2. SeenGuarded' /\ SeenOnce' /\ HeldGuarded' /\ FlagsTrue' /\ BackendGuarded'
      BY <2>31 DEF PodGone, GuardInv, SeenGuarded, SeenOnce, HeldGuarded, FlagsTrue,
           BackendGuarded
    <3>. QED BY <3>1, <3>2 DEF GuardInv
  <2>32. CASE Drift
    <3>1. FlagsTrue'
      BY <2>32 DEF Drift, GuardInv, FlagsTrue
    <3>2. BackendGuarded'
      BY <2>32 DEF Drift, GuardInv, TypeOK, TypeProvider, BackendGuarded
    <3>3. Fresh' /\ SeenGuarded' /\ SeenOnce' /\ HeldGuarded'
      BY <2>0, <2>32 DEF Drift, GuardInv, SeenGuarded, SeenOnce, HeldGuarded
    <3>. QED BY <3>1, <3>2, <3>3 DEF GuardInv
  <2>33. CASE UNCHANGED vars
    BY <2>33 DEF vars, GuardInv,
       Fresh, SeenGuarded, SeenOnce, HeldGuarded, FlagsTrue, BackendGuarded
  <2>34. CASE Controller
    BY <2>34, <2>1, <2>2, <2>3, <2>4, <2>5, <2>6, <2>7, <2>8, <2>9, <2>10, <2>11, <2>12, <2>13,
         <2>14, <2>15, <2>16, <2>17, <2>18, <2>19, <2>20 DEF Controller
  <2>35. CASE Environment
    BY <2>35, <2>24, <2>25, <2>26, <2>27, <2>28, <2>29, <2>30, <2>31, <2>32 DEF Environment
  <2>. QED BY <2>21, <2>22, <2>23, <2>33, <2>34, <2>35 DEF Next
<1>. QED BY <1>1, <1>2, TypeCorrect, PTL DEF Spec

\* Nothing is left at the provider for an employer that could go away unnoticed, whatever calls fail,
\* answers are lost or objects are stale, and however often the controller is restarted.
THEOREM Guarded ==
  ASSUME ~NeedRecordExpected \/ ~Recreate
  PROVE  Spec => []BackendGuarded
<1>1. GuardInv => BackendGuarded
  BY DEF GuardInv
<1>. QED BY <1>1, GuardInvariant, PTL
=============================================================================
