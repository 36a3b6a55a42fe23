----------------------- MODULE ConsistContract_proofs -----------------------
(***************************************************************************)
(* A pod's protection is lifted only when its traffic is off, and the      *)
(* controller implements BackendContract: proofs for every set of pods and *)
(* every bound.                                                            *)
(***************************************************************************)
EXTENDS Consist_proofs

-----------------------------------------------------------------------------
(* What a write to a pod does to its protection. *)

\* The step touches no pod but p, leaves nothing of a pod that goes, and changes p's protection
\* only as part of ensureLifecycleFinalizer.
PodStep(p) ==
    /\ \A q \in Pods \ {p} : pods'[q] = pods[q]
    /\ pods'[p].phase = "none" => pods'[p] = NoPod
    /\ \/ pods'[p].flz = pods[p].flz
       \/ pods'[p].flz = TRUE /\ pc = "addFlz" /\ p \in toAdd
       \/ pods'[p].flz = FALSE /\ pc = "delFlz" /\ p \in toDel \cup toDrop

\* What the updates of a pod leave alone.
LEMMA PodFrame ==
  ASSUME NEW r \in PodStates, NEW v \in BOOLEAN
  PROVE  /\ [r EXCEPT !.exp = v].phase = r.phase /\ [r EXCEPT !.exp = v].flz = r.flz
         /\ [r EXCEPT !.sel = v].phase = r.phase /\ [r EXCEPT !.sel = v].flz = r.flz
         /\ [r EXCEPT !.ready = v].phase = r.phase /\ [r EXCEPT !.ready = v].flz = r.flz
         /\ [r EXCEPT !.flz = v].phase = r.phase /\ [r EXCEPT !.flz = v].flz = v
         /\ [r EXCEPT !.phase = "deleting", !.ready = FALSE].phase = "deleting"
         /\ [r EXCEPT !.phase = "deleting", !.ready = FALSE].flz = r.flz
  BY DEF PodStates

\* A new pod is not protected.
LEMMA NewPod ==
  ASSUME NEW v \in BOOLEAN, NEW w \in BOOLEAN
  PROVE  /\ NoPod.phase = "none" /\ NoPod.flz = FALSE
         /\ [NoPod EXCEPT !.phase = "live", !.sel = v, !.exp = w].phase = "live"
         /\ [NoPod EXCEPT !.phase = "live", !.sel = v, !.exp = w].flz = FALSE
  BY DEF NoPod

\* Nothing happens to the pods.
LEMMA PodsUnchanged ==
  ASSUME Vacant, NEW p \in Pods, UNCHANGED pods
  PROVE  PodStep(p)
  BY DEF Vacant, PodStep

\* A patch of the available-conditions annotation.
LEMMA PatchPodStep ==
  ASSUME TypeOK, Vacant, NEW p \in Pods, NEW v \in BOOLEAN, PatchPod(p, v)
  PROVE  PodStep(p)
<1>1. CASE UNCHANGED pods
  BY <1>1, PodsUnchanged
<1>2. CASE pods[p].phase # "none" /\ WritePod(p, [pods[p] EXCEPT !.exp = v])
  <2>1. /\ [pods[p] EXCEPT !.exp = v].phase = pods[p].phase
        /\ [pods[p] EXCEPT !.exp = v].flz = pods[p].flz
    BY PodFrame DEF TypeOK, TypePods
  <2>. DEFINE new == [pods[p] EXCEPT !.exp = v]
  <2>2. WritePod(p, new) /\ new.phase # "none" /\ new.flz = pods[p].flz
    BY <1>2, <2>1
  <2>. HIDE DEF new
  <2>. QED BY <2>2, WritePodFrame DEF TypeOK, PodStep
<1>. QED BY <1>1, <1>2 DEF PatchPod

\* An update of the lifecycle finalizer: the API server holds the pod that the cache holds.
LEMMA UpdatePodFlzStep ==
  ASSUME TypeOK, Fresh, Vacant, NEW p \in Pods, NEW v \in BOOLEAN, UpdatePodFlz(p, v),
         v => pc = "addFlz" /\ p \in toAdd,
         ~v => pc = "delFlz" /\ p \in toDel \cup toDrop /\ cPods[p].flz
  PROVE  PodStep(p)
<1>1. CASE UNCHANGED pods
  BY <1>1, PodsUnchanged
<1>2. CASE p \notin dirtyPods /\ (v => pods[p].phase = "live") /\ WritePod(p, [pods[p] EXCEPT !.flz = v])
  <2>. DEFINE new == [pods[p] EXCEPT !.flz = v]
  <2>1. WritePod(p, new) /\ new.phase = pods[p].phase /\ new.flz = v
    BY <1>2, PodFrame DEF TypeOK, TypePods
  <2>2. pods[p].phase # "none"
    BY <1>2, NewPod DEF Fresh, Vacant
  <2>. HIDE DEF new
  <2>. QED BY <2>1, <2>2, WritePodFrame DEF TypeOK, PodStep
<1>. QED BY <1>1, <1>2 DEF UpdatePodFlz

\* Users, other controllers and the kubelet do not touch the protection.
LEMMA WrittenPodStep ==
  ASSUME TypeOK, NEW p \in Pods, NEW v, WritePod(p, v), v.flz = pods[p].flz,
         v.phase = "none" => v = NoPod
  PROVE  PodStep(p)
  BY WritePodFrame DEF TypeOK, PodStep

\* The actions that write a pod.
PodAction(p) ==
    \/ PatchAdd(p) \/ PatchDelete(p)
    \/ AddLifecycleFlz(p) \/ DeleteFlzOfEmployee(p) \/ DeleteFlzOfRecorded(p)
    \/ CreatePod(p) \/ DeletePod(p) \/ RelabelPod(p) \/ ChangeReadiness(p) \/ PodGone(p)

\* So they are, and they touch neither the employer nor the provider.
LEMMA PodActions ==
  ASSUME TypeOK, Fresh, Vacant, NEW p \in Pods, PodAction(p)
  PROVE  PodStep(p) /\ UNCHANGED <<employer, vip, rs>>
<1>1. CASE PatchAdd(p)
  BY <1>1, PodsUnchanged, PatchPodStep DEF PatchAdd, provVars
<1>2. CASE PatchDelete(p)
  BY <1>2, PodsUnchanged, PatchPodStep DEF PatchDelete, provVars
<1>3. CASE AddLifecycleFlz(p)
  BY <1>3, PodsUnchanged, UpdatePodFlzStep DEF AddLifecycleFlz, provVars
<1>4. CASE DeleteFlzOfEmployee(p)
  BY <1>4, PodsUnchanged, UpdatePodFlzStep DEF DeleteFlzOfEmployee, DeleteLifecycleFlz, provVars
<1>5. CASE DeleteFlzOfRecorded(p)
  BY <1>5, PodsUnchanged, UpdatePodFlzStep DEF DeleteFlzOfRecorded, DeleteLifecycleFlz, provVars
<1>6. CASE CreatePod(p)
  <2>1. pods[p].phase = "none" /\ UNCHANGED <<employer, vip, rs>>
    BY <1>6 DEF CreatePod, provVars
  <2>2. PICK sel \in BOOLEAN :
          WritePod(p, [NoPod EXCEPT !.phase = "live", !.sel = sel,
                                    !.exp = Webhook /\ sel /\ cEmployer.phase # "none"])
    BY <1>6 DEF CreatePod
  <2>. DEFINE exp == Webhook /\ sel /\ cEmployer.phase # "none"
              new == [NoPod EXCEPT !.phase = "live", !.sel = sel, !.exp = exp]
  <2>3. new.phase = "live" /\ new.flz = FALSE
    BY NewPod, exp \in BOOLEAN
  <2>4. WritePod(p, new) /\ pods[p].flz = FALSE
    BY <2>1, <2>2, NewPod DEF Vacant
  <2>. HIDE DEF new
  <2>. QED BY <2>1, <2>3, <2>4, WrittenPodStep
<1>7. CASE DeletePod(p)
  <2>. DEFINE new == [pods[p] EXCEPT !.phase = "deleting", !.ready = FALSE]
  <2>1. WritePod(p, new) /\ new.phase = "deleting" /\ new.flz = pods[p].flz
    BY <1>7, PodFrame DEF DeletePod, TypeOK, TypePods
  <2>. HIDE DEF new
  <2>. QED BY <1>7, <2>1, WrittenPodStep DEF DeletePod, provVars
<1>8. CASE RelabelPod(p)
  <2>. DEFINE v == ~pods[p].sel
              new == [pods[p] EXCEPT !.sel = v]
  <2>1. WritePod(p, new)
    BY <1>8 DEF RelabelPod
  <2>2. v \in BOOLEAN /\ pods[p] \in PodStates
    BY DEF TypeOK, TypePods
  <2>. HIDE DEF v
  <2>3. new.phase = pods[p].phase /\ new.flz = pods[p].flz
    BY <2>2, PodFrame
  <2>. HIDE DEF new
  <2>. QED BY <1>8, <2>1, <2>3, WrittenPodStep DEF RelabelPod, provVars
<1>9. CASE ChangeReadiness(p)
  <2>. DEFINE v == ~pods[p].ready
              new == [pods[p] EXCEPT !.ready = v]
  <2>1. WritePod(p, new)
    BY <1>9 DEF ChangeReadiness
  <2>2. v \in BOOLEAN /\ pods[p] \in PodStates
    BY DEF TypeOK, TypePods
  <2>. HIDE DEF v
  <2>3. new.phase = pods[p].phase /\ new.flz = pods[p].flz
    BY <2>2, PodFrame
  <2>. HIDE DEF new
  <2>. QED BY <1>9, <2>1, <2>3, WrittenPodStep DEF ChangeReadiness, provVars
<1>10. CASE PodGone(p)
  <2>1. WritePod(p, NoPod) /\ pods[p].flz = FALSE
    BY <1>10 DEF PodGone, TypeOK, TypePods, PodStates
  <2>. QED BY <1>10, <2>1, NewPod, WrittenPodStep DEF PodGone, provVars
<1>. QED BY <1>1, <1>2, <1>3, <1>4, <1>5, <1>6, <1>7, <1>8, <1>9, <1>10 DEF PodAction

\* Every other action leaves the pods alone.
LEMMA PodsLeftAlone ==
  ASSUME Next
  PROVE  UNCHANGED pods \/ \E p \in Pods : PodAction(p)
<1>1. CASE Controller
  BY <1>1 DEF Controller, PodAction, apiVars,
     ReconcileNotFound, EnsureEmployerCleanFlz, BeginReconcile, EndExpectedNotNeedRecord,
          EndExpectedUnchanged, EndExpectedPatch, SyncEmployer, SyncEmployerError, SyncEmployees,
          SyncEmployeesError, CollectUnselected, EndAddLifecycleFlz, RecordLifecycle,
          FinishReconcile, CleanEmployerCleanFinalizer
<1>2. CASE Environment
  BY <1>2 DEF Environment, PodAction, apiVars, CreateEmployer, DeleteEmployer, ReleaseOther, Drift
<1>3. CASE SyncEmployerCache \/ SyncPodCache \/ Crash
  BY <1>3 DEF SyncEmployerCache, SyncPodCache, Crash
<1>. QED BY <1>1, <1>2, <1>3 DEF Next

-----------------------------------------------------------------------------
(* The pods on the list lose their protection with their traffic off. *)

\* Whatever entries failed, a pod that loses its protection is not served any more.
LEMMA ToDeleteOff ==
  ASSUME TypeProvider, NEW failed, NEW p \in LifecycleToDelete(failed)
  PROVE  p \in Pods /\ Apply(ExpectedRs, rs, Pods \ failed)[p] # "on"
<1>. DEFINE E == ExpectedRs
<1>1. DOMAIN E = Pods /\ DOMAIN rs = Pods
  BY DEF ExpectedRs, TypeProvider
<1>2. ASSUME NEW q \in Pods, ~cPods[q].ready PROVE E[q] # "on"
  BY <1>2 DEF ExpectedRs
<1>. HIDE DEF E
<1>3. p \in Pods
  BY <1>1 DEF LifecycleToDelete, ToDelete, ToUpdate, Same, E
<1>4. CASE p \in ToDelete(E, rs) \ failed
  BY <1>1, <1>3, <1>4 DEF ToDelete, Apply, E
<1>5. CASE p \in ToUpdate(E, rs) \ failed /\ ~cPods[p].ready
  BY <1>1, <1>2, <1>3, <1>5 DEF Apply, E
<1>6. CASE p \in Same(E, rs) /\ ~cPods[p].ready
  BY <1>1, <1>2, <1>3, <1>6 DEF Same, Apply, E
<1>. QED BY <1>4, <1>5, <1>6 DEF LifecycleToDelete, ReadyOf, E

\* Nothing is to be protected for an employer that is being deleted.
LEMMA ToAddLive ==
  ASSUME obj.phase = "deleting", NEW failed
  PROVE  LifecycleToAdd(failed) = {}
<1>1. ExpectedRs = [p \in Pods |-> "none"]
  BY DEF ExpectedRs
<1>2. ToCreate(ExpectedRs, rs) = {} /\ ToUpdate(ExpectedRs, rs) = {} /\ Same(ExpectedRs, rs) = {}
  BY <1>1 DEF ToCreate, ToUpdate, Same
<1>. QED BY <1>2 DEF LifecycleToAdd, ReadyOf

\* The part of the inductive invariant that needs no guard: from the moment they are listed, the pods
\* that are to lose their protection are not served, or are dropped for the record.
OffInv == Fresh /\ Vacant /\ OffBeforeRemoval

\* It holds of every controller: whatever is recorded, and whether names are used again or not.
THEOREM OffInvariant == Spec => []OffInv
<1>1. Init => OffInv
  BY DEF Init, OffInv, Fresh, Vacant, OffBeforeRemoval
<1>2. TypeOK /\ OffInv /\ [Next]_vars => OffInv'
  <2>. SUFFICES ASSUME TypeOK, OffInv, [Next]_vars
                PROVE  Vacant' /\ OffBeforeRemoval'
    BY FreshKept DEF OffInv
  <2>0. Fresh /\ Vacant /\ OffBeforeRemoval
    BY DEF OffInv
  <2>. USE <2>0 DEF apiVars, cacheVars, provVars, recVars, envVars
  <2>1. ASSUME ReconcileNotFound PROVE OffBeforeRemoval'
    BY <2>1 DEF ReconcileNotFound, OffBeforeRemoval
  <2>2. ASSUME EnsureEmployerCleanFlz PROVE OffBeforeRemoval'
    BY <2>2 DEF EnsureEmployerCleanFlz, OffBeforeRemoval
  <2>3. ASSUME BeginReconcile PROVE OffBeforeRemoval'
    BY <2>3 DEF BeginReconcile, OffBeforeRemoval
  <2>4. ASSUME NEW p \in Pods, PatchAdd(p) PROVE OffBeforeRemoval'
    BY <2>4 DEF PatchAdd, OffBeforeRemoval
  <2>5. ASSUME NEW p \in Pods, PatchDelete(p) PROVE OffBeforeRemoval'
    BY <2>5 DEF PatchDelete, OffBeforeRemoval
  <2>6. ASSUME EndExpectedNotNeedRecord PROVE OffBeforeRemoval'
    BY <2>6 DEF EndExpectedNotNeedRecord, Return, ToSyncEmployer, OffBeforeRemoval
  <2>7. ASSUME EndExpectedUnchanged PROVE OffBeforeRemoval'
    BY <2>7 DEF EndExpectedUnchanged, ToSyncEmployer, OffBeforeRemoval
  <2>8. ASSUME EndExpectedPatch PROVE OffBeforeRemoval'
    BY <2>8, EndExpectedPatchWrites DEF EndExpectedPatch, OffBeforeRemoval
  <2>9. ASSUME SyncEmployer PROVE OffBeforeRemoval'
    BY <2>9 DEF SyncEmployer, OffBeforeRemoval
  <2>10. ASSUME SyncEmployerError PROVE OffBeforeRemoval'
    BY <2>10 DEF SyncEmployerError, Return, OffBeforeRemoval
  <2>11. ASSUME SyncEmployees PROVE OffBeforeRemoval'
    BY <2>11, ToDeleteOff DEF SyncEmployees, OffBeforeRemoval, TypeOK
  <2>12. ASSUME SyncEmployeesError PROVE OffBeforeRemoval'
    BY <2>12 DEF SyncEmployeesError, Return, OffBeforeRemoval
  <2>13. ASSUME CollectUnselected PROVE OffBeforeRemoval'
    BY <2>13 DEF CollectUnselected, OffBeforeRemoval
  <2>14. ASSUME NEW p \in Pods, AddLifecycleFlz(p) PROVE OffBeforeRemoval'
    BY <2>14 DEF AddLifecycleFlz, OffBeforeRemoval
  <2>15. ASSUME NEW p \in Pods, DeleteFlzOfEmployee(p) PROVE OffBeforeRemoval'
    BY <2>15 DEF DeleteFlzOfEmployee, OffBeforeRemoval
  <2>16. ASSUME NEW p \in Pods, DeleteFlzOfRecorded(p) PROVE OffBeforeRemoval'
    BY <2>16 DEF DeleteFlzOfRecorded, OffBeforeRemoval
  <2>17. ASSUME EndAddLifecycleFlz PROVE OffBeforeRemoval'
    BY <2>17 DEF EndAddLifecycleFlz, Return, OffBeforeRemoval
  <2>18. ASSUME RecordLifecycle PROVE OffBeforeRemoval'
    BY <2>18, RecordLifecycleWrites DEF RecordLifecycle, OffBeforeRemoval
  <2>19. ASSUME FinishReconcile PROVE OffBeforeRemoval'
    BY <2>19 DEF FinishReconcile, Return, OffBeforeRemoval
  <2>20. ASSUME CleanEmployerCleanFinalizer PROVE OffBeforeRemoval'
    BY <2>20, CleanWrites DEF CleanEmployerCleanFinalizer, OffBeforeRemoval
  <2>21. ASSUME SyncEmployerCache PROVE OffBeforeRemoval'
    BY <2>21 DEF SyncEmployerCache, OffBeforeRemoval
  <2>22. ASSUME SyncPodCache PROVE OffBeforeRemoval'
    BY <2>22 DEF SyncPodCache, OffBeforeRemoval
  <2>23. ASSUME Crash PROVE OffBeforeRemoval'
    BY <2>23 DEF Crash, OffBeforeRemoval
  <2>24. ASSUME CreateEmployer PROVE OffBeforeRemoval'
    BY <2>24, CreateWrites DEF OffBeforeRemoval
  <2>25. ASSUME DeleteEmployer PROVE OffBeforeRemoval'
    BY <2>25 DEF DeleteEmployer, OffBeforeRemoval
  <2>26. ASSUME ReleaseOther PROVE OffBeforeRemoval'
    BY <2>26 DEF ReleaseOther, OffBeforeRemoval
  <2>27. ASSUME NEW p \in Pods, CreatePod(p) PROVE OffBeforeRemoval'
    BY <2>27 DEF CreatePod, OffBeforeRemoval
  <2>28. ASSUME NEW p \in Pods, DeletePod(p) PROVE OffBeforeRemoval'
    BY <2>28 DEF DeletePod, OffBeforeRemoval
  <2>29. ASSUME NEW p \in Pods, RelabelPod(p) PROVE OffBeforeRemoval'
    BY <2>29 DEF RelabelPod, OffBeforeRemoval
  <2>30. ASSUME NEW p \in Pods, ChangeReadiness(p) PROVE OffBeforeRemoval'
    BY <2>30 DEF ChangeReadiness, OffBeforeRemoval
  <2>31. ASSUME NEW p \in Pods, PodGone(p) PROVE OffBeforeRemoval'
    BY <2>31 DEF PodGone, OffBeforeRemoval
  <2>32. ASSUME Drift PROVE OffBeforeRemoval'
    BY <2>32 DEF Drift, OffBeforeRemoval, TypeOK, TypeProvider, TypeReconcile
  <2>33. CASE UNCHANGED vars
    BY <2>33 DEF vars, Vacant, OffBeforeRemoval
  <2>34. Vacant'
    <3>1. CASE UNCHANGED pods
      BY <3>1 DEF Vacant
    <3>2. ASSUME NEW p \in Pods, PodAction(p) PROVE Vacant'
      BY <3>2, PodActions DEF Vacant, PodStep
    <3>. QED BY <3>1, <3>2, PodsLeftAlone DEF vars
  <2>35. CASE Controller
    BY <2>34, <2>35, <2>1, <2>2, <2>3, <2>4, <2>5, <2>6, <2>7, <2>8, <2>9, <2>10, <2>11, <2>12,
         <2>13, <2>14, <2>15, <2>16, <2>17, <2>18, <2>19, <2>20 DEF Controller
  <2>36. CASE Environment
    BY <2>34, <2>36, <2>24, <2>25, <2>26, <2>27, <2>28, <2>29, <2>30, <2>31, <2>32 DEF Environment
  <2>. QED BY <2>21, <2>22, <2>23, <2>33, <2>34, <2>35, <2>36 DEF Next
<1>. QED BY <1>1, <1>2, TypeCorrect, PTL DEF Spec

\* What a step that lifts a pod's protection is: a removal from one of the two lists.
LEMMA LostFromList ==
  ASSUME TypeOK, OffInv, Next, NEW p \in Pods, pods[p].flz, ~pods'[p].flz
  PROVE  pc = "delFlz" /\ p \in toDel \cup toDrop
<1>1. PICK q \in Pods : PodAction(q)
  BY PodsLeftAlone
<1>2. PodStep(q)
  BY <1>1, PodActions DEF OffInv
<1>. QED BY <1>2 DEF PodStep

\* Whatever the controller records and whatever becomes of its employer's name: a pod loses its
\* lifecycle finalizer under traffic only if the record of the employer in hand has it listed.
THEOREM OffOrRecorded == Spec => UnprotectOffOrRecorded
<1>1. TypeOK /\ OffInv /\ [Next]_vars =>
        [\A p \in Pods : pods[p].flz /\ ~pods'[p].flz /\ rs[p] = "on" =>
             NeedRecordEmployees /\ p \in toDrop /\ p \in obj.lcRec]_vars
  <2>. SUFFICES ASSUME TypeOK, OffInv, Next, NEW p \in Pods, pods[p].flz, ~pods'[p].flz, rs[p] = "on"
                PROVE  NeedRecordEmployees /\ p \in toDrop /\ p \in obj.lcRec
    OBVIOUS
  <2>. QED BY LostFromList DEF OffInv, OffBeforeRemoval
<1>. QED BY <1>1, TypeCorrect, OffInvariant, PTL DEF Spec, UnprotectOffOrRecorded

\* A pod loses its lifecycle finalizer only after its traffic has been turned off: whatever the
\* interleaving, as long as the finalizers are not recorded on the employer.
THEOREM OffFirst ==
  ASSUME ~NeedRecordEmployees
  PROVE  Spec => UnprotectOnlyWhenOff
<1>1. TypeOK /\ OffInv /\ [Next]_vars =>
        [\A p \in Pods : pods[p].flz /\ ~pods'[p].flz => rs[p] # "on"]_vars
  <2>. SUFFICES ASSUME TypeOK, OffInv, Next, NEW p \in Pods, pods[p].flz, ~pods'[p].flz
                PROVE  rs[p] # "on"
    OBVIOUS
  <2>. QED BY LostFromList DEF OffInv, OffBeforeRemoval
<1>. QED BY <1>1, TypeCorrect, OffInvariant, PTL DEF Spec, UnprotectOnlyWhenOff

\* The rest of it: protection is given under the clean finalizer only.
THEOREM ProtectInvariant ==
  ASSUME ~NeedRecordExpected \/ ~Recreate
  PROVE  Spec => []ProtectInv
<1>1. Init => ProtectsGuarded
  BY DEF Init, ProtectsGuarded
<1>2. TypeOK /\ GuardInv /\ ProtectsGuarded /\ [Next]_vars => ProtectsGuarded'
  <2>. SUFFICES ASSUME TypeOK, GuardInv, ProtectsGuarded, [Next]_vars
                PROVE  ProtectsGuarded'
    OBVIOUS
  <2>. USE DEF apiVars, cacheVars, provVars, recVars, envVars
  <2>1. ASSUME ReconcileNotFound PROVE ProtectsGuarded'
    BY <2>1 DEF ReconcileNotFound, ProtectsGuarded
  <2>2. ASSUME EnsureEmployerCleanFlz PROVE ProtectsGuarded'
    BY <2>2, EnsureWrites DEF EnsureEmployerCleanFlz, ProtectsGuarded, HasClean
  <2>3. ASSUME BeginReconcile PROVE ProtectsGuarded'
    BY <2>3 DEF BeginReconcile, ProtectsGuarded, HasClean
  <2>4. ASSUME NEW p \in Pods, PatchAdd(p) PROVE ProtectsGuarded'
    BY <2>4 DEF PatchAdd, ProtectsGuarded, HasClean
  <2>5. ASSUME NEW p \in Pods, PatchDelete(p) PROVE ProtectsGuarded'
    BY <2>5 DEF PatchDelete, ProtectsGuarded, HasClean
  <2>6. ASSUME EndExpectedNotNeedRecord PROVE ProtectsGuarded'
    BY <2>6 DEF EndExpectedNotNeedRecord, Return, ToSyncEmployer, ProtectsGuarded,
         HasClean
  <2>7. ASSUME EndExpectedUnchanged PROVE ProtectsGuarded'
    BY <2>7 DEF EndExpectedUnchanged, ToSyncEmployer, ProtectsGuarded, HasClean
  <2>8. ASSUME EndExpectedPatch PROVE ProtectsGuarded'
    BY <2>8, EndExpectedPatchWrites DEF EndExpectedPatch, ProtectsGuarded, HasClean
  <2>9. ASSUME SyncEmployer PROVE ProtectsGuarded'
    BY <2>9 DEF SyncEmployer, ProtectsGuarded, HasClean
  <2>10. ASSUME SyncEmployerError PROVE ProtectsGuarded'
    BY <2>10 DEF SyncEmployerError, Return, ProtectsGuarded, HasClean
  <2>11. ASSUME SyncEmployees PROVE ProtectsGuarded'
    BY <2>11, ToAddLive, EmployerFields DEF SyncEmployees, GuardInv, HeldGuarded,
         TypeOK, TypeEmployer, ProtectsGuarded, HasClean
  <2>12. ASSUME SyncEmployeesError PROVE ProtectsGuarded'
    BY <2>12 DEF SyncEmployeesError, Return, ProtectsGuarded, HasClean
  <2>13. ASSUME CollectUnselected PROVE ProtectsGuarded'
    BY <2>13 DEF CollectUnselected, ProtectsGuarded, HasClean
  <2>14. ASSUME NEW p \in Pods, AddLifecycleFlz(p) PROVE ProtectsGuarded'
    BY <2>14 DEF AddLifecycleFlz, ProtectsGuarded, HasClean
  <2>15. ASSUME NEW p \in Pods, DeleteFlzOfEmployee(p) PROVE ProtectsGuarded'
    BY <2>15 DEF DeleteFlzOfEmployee, ProtectsGuarded, HasClean
  <2>16. ASSUME NEW p \in Pods, DeleteFlzOfRecorded(p) PROVE ProtectsGuarded'
    BY <2>16 DEF DeleteFlzOfRecorded, ProtectsGuarded, HasClean
  <2>17. ASSUME EndAddLifecycleFlz PROVE ProtectsGuarded'
    BY <2>17 DEF EndAddLifecycleFlz, Return, ProtectsGuarded, HasClean
  <2>18. ASSUME RecordLifecycle PROVE ProtectsGuarded'
    BY <2>18, RecordLifecycleWrites DEF RecordLifecycle, ProtectsGuarded, HasClean
  <2>19. ASSUME FinishReconcile PROVE ProtectsGuarded'
    BY <2>19 DEF FinishReconcile, Return, ProtectsGuarded, HasClean
  <2>20. ASSUME CleanEmployerCleanFinalizer PROVE ProtectsGuarded'
    BY <2>20, CleanWrites DEF CleanEmployerCleanFinalizer, ProtectsGuarded, HasClean
  <2>21. ASSUME SyncEmployerCache PROVE ProtectsGuarded'
    BY <2>21 DEF SyncEmployerCache, ProtectsGuarded
  <2>22. ASSUME SyncPodCache PROVE ProtectsGuarded'
    BY <2>22 DEF SyncPodCache, ProtectsGuarded
  <2>23. ASSUME Crash PROVE ProtectsGuarded'
    BY <2>23 DEF Crash, ProtectsGuarded, HasClean
  <2>24. ASSUME CreateEmployer PROVE ProtectsGuarded'
    BY <2>24, CreateWrites, NoEmployerType DEF TypeOK, TypeEmployer, Consistent,
         ProtectsGuarded, HasClean
  <2>25. ASSUME DeleteEmployer PROVE ProtectsGuarded'
    BY <2>25, DeleteWrites DEF DeleteEmployer, ProtectsGuarded, HasClean
  <2>26. ASSUME ReleaseOther PROVE ProtectsGuarded'
    BY <2>26, ReleaseWrites DEF ReleaseOther, ProtectsGuarded, HasClean
  <2>27. ASSUME NEW p \in Pods, CreatePod(p) PROVE ProtectsGuarded'
    BY <2>27 DEF CreatePod, ProtectsGuarded
  <2>28. ASSUME NEW p \in Pods, DeletePod(p) PROVE ProtectsGuarded'
    BY <2>28 DEF DeletePod, ProtectsGuarded
  <2>29. ASSUME NEW p \in Pods, RelabelPod(p) PROVE ProtectsGuarded'
    BY <2>29 DEF RelabelPod, ProtectsGuarded
  <2>30. ASSUME NEW p \in Pods, ChangeReadiness(p) PROVE ProtectsGuarded'
    BY <2>30 DEF ChangeReadiness, ProtectsGuarded
  <2>31. ASSUME NEW p \in Pods, PodGone(p) PROVE ProtectsGuarded'
    BY <2>31 DEF PodGone, ProtectsGuarded
  <2>32. ASSUME Drift PROVE ProtectsGuarded'
    BY <2>32 DEF Drift, ProtectsGuarded, HasClean
  <2>33. CASE UNCHANGED vars
    BY <2>33 DEF vars, ProtectsGuarded, HasClean
  <2>35. CASE Controller
    BY <2>35, <2>1, <2>2, <2>3, <2>4, <2>5, <2>6, <2>7, <2>8, <2>9, <2>10, <2>11, <2>12,
         <2>13, <2>14, <2>15, <2>16, <2>17, <2>18, <2>19, <2>20 DEF Controller
  <2>36. CASE Environment
    BY <2>36, <2>24, <2>25, <2>26, <2>27, <2>28, <2>29, <2>30, <2>31, <2>32 DEF Environment
  <2>. QED BY <2>21, <2>22, <2>23, <2>33, <2>35, <2>36 DEF Next
<1>3. OffInv /\ ProtectsGuarded => ProtectInv
  BY DEF OffInv, ProtectInv
<1>. QED BY <1>1, <1>2, <1>3, TypeCorrect, GuardInvariant, OffInvariant, PTL DEF Spec

-----------------------------------------------------------------------------
(* The controller keeps BackendContract. *)

\* A write to a pod is a protection, the lifting of one, or nothing the contract speaks of.
LEMMA PodStepKeepsContract ==
  ASSUME TypeOK, ProtectInv, NEW p \in Pods, PodStep(p),
         UNCHANGED <<employer, vip, rs>>
  PROVE  Contract!Next \/ UNCHANGED Contract!vars
<1>. DEFINE before == [q \in Pods |-> pods[q].flz]
            after == [q \in Pods |-> pods'[q].flz]
<1>1. ("clean" \in employer.flz)' = ("clean" \in employer.flz) /\ vip' = vip /\ rs' = rs
  OBVIOUS
<1>2. CASE pods'[p].flz = pods[p].flz
  <2>1. after = before
    BY <1>2 DEF PodStep
  <2>. QED BY <1>1, <2>1 DEF Contract!vars
<1>3. CASE pods'[p].flz = TRUE /\ pods[p].flz = FALSE /\ pc = "addFlz" /\ p \in toAdd
  <2>1. after = [before EXCEPT ![p] = TRUE]
    BY <1>3 DEF PodStep
  <2>2. "clean" \in employer.flz
    BY <1>3 DEF ProtectInv, ProtectsGuarded, HasClean
  <2>3. Contract!Protect(p)
    BY <1>1, <1>3, <2>1, <2>2 DEF Contract!Protect
  <2>. QED BY <2>3 DEF Contract!Next
<1>4. CASE pods'[p].flz = FALSE /\ pods[p].flz = TRUE /\ pc = "delFlz" /\ p \in toDel \cup toDrop
  <2>1. after = [before EXCEPT ![p] = FALSE]
    BY <1>4 DEF PodStep
  <2>2. rs[p] # "on" \/ NeedRecordEmployees
    BY <1>4 DEF ProtectInv, OffBeforeRemoval
  <2>3. Contract!Unprotect(p)
    BY <1>1, <1>4, <2>1, <2>2 DEF Contract!Unprotect
  <2>. QED BY <2>3 DEF Contract!Next
<1>5. pods[p].flz \in BOOLEAN
  BY DEF TypeOK, TypePods, PodStates
<1>. QED BY <1>2, <1>3, <1>4, <1>5 DEF PodStep, ProtectInv, OffBeforeRemoval

\* The provider is told something only for an employer with the clean finalizer.
LEMMA ProviderStepKeepsContract ==
  ASSUME TypeProvider, TypeProvider', BackendGuarded, BackendGuarded', UNCHANGED <<employer, pods>>
  PROVE  Contract!Next \/ UNCHANGED Contract!vars
<1>1. CASE "clean" \in employer.flz
  <2>1. Contract!Serve
    BY <1>1 DEF Contract!Serve, TypeProvider
  <2>. QED BY <2>1 DEF Contract!Next
<1>2. CASE "clean" \notin employer.flz
  <2>1. vip = "none" /\ vip' = "none" /\ \A p \in Pods : rs[p] = "none" /\ rs'[p] = "none"
    BY <1>2 DEF BackendGuarded
  <2>2. rs' = rs
    BY <2>1 DEF TypeProvider
  <2>. QED BY <2>1, <2>2 DEF Contract!vars
<1>. QED BY <1>1, <1>2

\* The employer is written with the provider and the pods left alone.
LEMMA EmployerStepKeepsContract ==
  ASSUME UNCHANGED <<pods, vip, rs>>,
         ("clean" \in employer.flz) /\ ("clean" \notin employer'.flz) =>
             vip = "none" /\ \A p \in Pods : rs[p] = "none"
  PROVE  Contract!Next \/ UNCHANGED Contract!vars
  BY DEF Contract!Next, Contract!Guard, Contract!Unguard, Contract!Empty, Contract!vars

\* Every behaviour of the controller, its environment's faults included, is one the contract
\* allows: the refinement that KeepsContract states.
THEOREM Implements ==
  ASSUME ~NeedRecordExpected \/ ~Recreate
  PROVE  Spec => KeepsContract
<1>1. Init => Contract!Init
  <2>. SUFFICES ASSUME Init PROVE Contract!Init
    OBVIOUS
  <2>1. "clean" \notin employer.flz
    <3>1. employer \in {NoEmployer}
            \cup {[NoEmployer EXCEPT !.phase = "live", !.flz = s] : s \in SUBSET ForeignFlz}
      BY Zenon DEF Init
    <3>2. ASSUME NEW s \in SUBSET ForeignFlz
          PROVE  "clean" \notin [NoEmployer EXCEPT !.phase = "live", !.flz = s].flz
      <4>1. s \in SUBSET Flz /\ "clean" \notin s
        BY ConstantsAssumption DEF ConstantsAssumption, Flz
      <4>. QED BY <4>1, NewEmployer
    <3>. QED BY <3>1, <3>2, NoEmployerType
  <2>2. ASSUME NEW p \in Pods PROVE pods[p].flz = FALSE
    BY NewPod DEF Init, PodStates
  <2>3. vip = "none" /\ rs = [p \in Pods |-> "none"]
    BY DEF Init
  <2>4. ("clean" \in employer.flz) = FALSE
    BY <2>1
  <2>5. [p \in Pods |-> pods[p].flz] = [p \in Pods |-> FALSE]
    BY <2>2
  <2>. QED BY <2>3, <2>4, <2>5, Zenon DEF Contract!Init
<1>2. ASSUME TypeOK, GuardInv, ProtectInv, [Next]_vars, TypeOK', GuardInv'
      PROVE  Contract!Next \/ UNCHANGED Contract!vars
  <2>1. CASE \E p \in Pods : PodAction(p)
    BY <1>2, <2>1, PodActions, PodStepKeepsContract DEF GuardInv, ProtectInv
  <2>2. CASE \/ EnsureEmployerCleanFlz \/ EndExpectedPatch \/ RecordLifecycle
             \/ CleanEmployerCleanFinalizer \/ CreateEmployer \/ DeleteEmployer \/ ReleaseOther
    <3>1. UNCHANGED <<pods, vip, rs>>
      BY <2>2 DEF EnsureEmployerCleanFlz, EndExpectedPatch, RecordLifecycle,
         CleanEmployerCleanFinalizer, CreateEmployer, DeleteEmployer, ReleaseOther, provVars
    <3>2. CASE CleanEmployerCleanFinalizer
      <4>1. vip = "none" /\ \A p \in Pods : rs[p] = "none"
        BY <1>2, <3>2 DEF CleanEmployerCleanFinalizer, AllClean, GuardInv, FlagsTrue
      <4>. QED BY <3>1, <4>1, EmployerStepKeepsContract
    <3>3. CASE ~CleanEmployerCleanFinalizer
      <4>1. "clean" \in employer.flz => "clean" \in employer'.flz
        BY <1>2, <2>2, <3>3, EnsureWrites, EndExpectedPatchWrites, RecordLifecycleWrites,
           CreateWrites, DeleteWrites, ReleaseWrites, NoEmployerType
           DEF TypeOK, TypeEmployer, Consistent
      <4>. QED BY <3>1, <4>1, EmployerStepKeepsContract
    <3>. QED BY <3>2, <3>3
  <2>3. CASE SyncEmployer \/ SyncEmployerError \/ SyncEmployees \/ SyncEmployeesError \/ Drift
    <3>1. UNCHANGED <<employer, pods>>
      BY <2>3 DEF SyncEmployer, SyncEmployerError, SyncEmployees, SyncEmployeesError, Drift, apiVars
    <3>. QED BY <1>2, <3>1, ProviderStepKeepsContract DEF TypeOK, GuardInv
  <2>4. CASE \/ ReconcileNotFound \/ BeginReconcile \/ EndExpectedNotNeedRecord
             \/ EndExpectedUnchanged \/ CollectUnselected \/ EndAddLifecycleFlz \/ FinishReconcile
             \/ SyncEmployerCache \/ SyncPodCache \/ Crash \/ UNCHANGED vars
    <3>1. UNCHANGED <<employer, pods, vip, rs>>
      BY <2>4 DEF ReconcileNotFound, BeginReconcile, EndExpectedNotNeedRecord,
         EndExpectedUnchanged, CollectUnselected, EndAddLifecycleFlz, FinishReconcile,
         SyncEmployerCache, SyncPodCache, Crash, vars, apiVars, provVars
    <3>. QED BY <3>1, EmployerStepKeepsContract
  <2>. QED BY <1>2, <2>1, <2>2, <2>3, <2>4 DEF Next, Controller, Environment, PodAction
<1>. QED BY <1>1, <1>2, TypeCorrect, GuardInvariant, ProtectInvariant, PTL
     DEF Spec, KeepsContract, Contract!Spec
=============================================================================
