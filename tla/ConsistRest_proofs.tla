-------------------------- MODULE ConsistRest_proofs --------------------------
(***************************************************************************)
(* What the controller leaves behind when it rests, for every set of pods  *)
(* and every bound.  It rests when its key is not in the queue and nothing *)
(* has changed that a watch would report.  That everything is then as it   *)
(* should be is not inductive: Comes says that until then whatever is not  *)
(* as it should be is in the hands of the running reconcile, which either  *)
(* sets it right or comes back.                                            *)
(***************************************************************************)
EXTENDS Consist_proofs

\* The batches start with nobody tried.
DoneAfresh == pc \in {"idle", "syncEmployer", "syncEmployees", "collectUnselected"} => done = {}

\* Records are not kept, or names are not used again: nothing is left at the provider for an employer
\* that is gone (Guarded in Consist_proofs).
NamesKept == ~NeedRecordExpected \/ ~Recreate

\* The provider is as the controller left it, and there is an employer to look after it.
Accounted == drifts = 0 /\ (employer.phase # "none" \/ NamesKept)

\* Nothing is due for the employer: what it is has been seen, and its key is not in the queue.
Still == ~queued /\ ~dirtyEmployer

\* What the provider should hold, as far as the pods have been seen.
WantVip == IF employer.phase = "live" THEN "ok" ELSE "none"
WantRs(p) ==
    IF employer.phase # "live" \/ cPods[p].phase # "live" \/ ~cPods[p].sel THEN "none"
    ELSE IF cPods[p].ready THEN "on" ELSE "off"

BeforeSync == pc \in {"patchExpected", "syncEmployer"}
FailureNoted == pc # "idle" /\ "failed" \in res
VipComes == vip = WantVip \/ BeforeSync \/ FailureNoted
RsComes(p) == rs[p] = WantRs(p) \/ BeforeSync \/ pc = "syncEmployees" \/ FailureNoted

\* p is to be protected, and it is known that it is not.
LacksFlz(p) ==
    /\ FollowPodOps /\ employer.phase = "live" /\ p \notin dirtyPods
    /\ cPods[p].phase = "live" /\ cPods[p].sel /\ cPods[p].ready /\ ~cPods[p].flz
FlzComes(p) ==
    LacksFlz(p) =>
        \/ BeforeSync \/ pc = "syncEmployees" \/ FailureNoted
        \/ pc = "collectUnselected" /\ p \in toAdd
        \/ pc = "addFlz" /\ (p \in toAdd \ done \/ BatchFailed)

ServiceComes ==
    /\ DoneAfresh
    /\ Still =>
         /\ pc # "idle" => obj = employer
         /\ Accounted => VipComes /\ \A p \in Pods : RsComes(p)
         /\ \A p \in Pods : FlzComes(p)

\* p is to have the expected finalizer, and it is known that it has not.
LacksExp(p) ==
    /\ FollowPodOps /\ employer.phase = "live" /\ p \notin dirtyPods
    /\ cPods[p].phase = "live" /\ cPods[p].sel /\ ~cPods[p].exp
ExpComes(p) == LacksExp(p) => pc = "patchExpected" /\ (p \in toAdd \ done \/ BatchFailed)

\* The flags that Reconcile has raised by now.
FlagsDue ==
    (IF pc = "patchExpected" THEN {} ELSE {"expClean"})
      \cup (IF BeforeSync THEN {} ELSE {"erClean"})
      \cup (IF BeforeSync \/ pc = "syncEmployees" THEN {} ELSE {"eeClean"})
DeletionComes ==
    employer.phase = "deleting" /\ employer.flz # {"other"} =>
        pc # "idle" /\ (FailureNoted \/ FlagsDue \subseteq res)

KeysCome == Still => DeletionComes /\ \A p \in Pods : ExpComes(p)

\* Expected finalizers that are recorded are not always added or withdrawn: EndExpectedUnchanged
\* forgets the errors of the batch.
Comes == ServiceComes /\ (~NeedRecordExpected => KeysCome)

\* Reconcile holds an employer until it returns.
Holds == pc = "idle" <=> obj.phase = "none"

Base == TypeOK /\ Fresh /\ Holds /\ (NamesKept => BackendGuarded)

-----------------------------------------------------------------------------
(* Kinds of steps. *)

\* Once a key is queued, or an event is due, nothing is claimed.
LEMMA NothingClaimed == ASSUME DoneAfresh', ~Still' PROVE Comes'
  BY DEF Comes, ServiceComes, KeysCome

\* A call of a running batch, or a change of a pod by somebody else.
LEMMA PodsMove ==
  ASSUME Comes, res \subseteq res', dirtyPods \subseteq dirtyPods',
         UNCHANGED <<employer, dirtyEmployer, queued, cacheVars, provVars, pc, obj, toAdd, drifts>>,
         DoneAfresh',
         \A p \in toAdd \cap (done' \ done) : p \in dirtyPods' \/ "err" \in res' \/ ~(LacksFlz(p) /\ pc = "addFlz"),
         \A p \in toAdd \cap (done' \ done) : p \in dirtyPods' \/ "err" \in res' \/ ~(LacksExp(p) /\ pc = "patchExpected")
  PROVE  Comes'
  <1>. USE DEF cacheVars, provVars
  <1>1. Still' <=> Still
    BY DEF Still
  <1>2. ServiceComes'
    <2>1. VipComes => VipComes'
      BY DEF VipComes, WantVip, BeforeSync, FailureNoted
    <2>2. ASSUME NEW p \in Pods PROVE RsComes(p) => RsComes(p)'
      BY DEF RsComes, WantRs, BeforeSync, FailureNoted
    <2>3. ASSUME NEW p \in Pods PROVE FlzComes(p) => FlzComes(p)'
      BY DEF FlzComes, LacksFlz, BeforeSync, FailureNoted, BatchFailed
    <2>. QED BY <1>1, <2>1, <2>2, <2>3 DEF Comes, ServiceComes, Accounted
  <1>3. ~NeedRecordExpected => KeysCome'
    <2>1. DeletionComes => DeletionComes'
      BY DEF DeletionComes, FlagsDue, BeforeSync, FailureNoted
    <2>2. ASSUME NEW p \in Pods PROVE ExpComes(p) => ExpComes(p)'
      BY DEF ExpComes, LacksExp, BatchFailed
    <2>. QED BY <1>1, <2>1, <2>2 DEF Comes, KeysCome
  <1>. QED BY <1>2, <1>3 DEF Comes

\* The employer that is seen, while nothing is due, is the employer there is; there is nothing at
\* the provider for one that is not.
LEMMA SeenAsItIs ==
  ASSUME Base
  PROVE  /\ ~dirtyEmployer => cEmployer = employer
         /\ \A p \in Pods : p \notin dirtyPods => cPods[p] = pods[p]
         /\ employer.phase = "none" /\ NamesKept => vip = "none" /\ \A p \in Pods : rs[p] = "none"
         /\ employer.phase \in {"none", "live", "deleting"} /\ obj.phase \in {"none", "live", "deleting"}
         /\ pc = "idle" <=> obj.phase = "none"
  BY EmployerFields, NoEmployerType
     DEF Base, TypeOK, TypeEmployer, Consistent, Fresh, Holds, BackendGuarded

-----------------------------------------------------------------------------
(* Reconcile up to the provider. *)

LEMMA NotFoundComes == ASSUME Base, Comes, ReconcileNotFound PROVE Comes'
  <1>. USE DEF apiVars, cacheVars, provVars, recVars, envVars
  <1>1. DoneAfresh'
    BY DEF ReconcileNotFound, Comes, ServiceComes, DoneAfresh
  <1>2. CASE dirtyEmployer
    BY <1>1, <1>2, NothingClaimed DEF ReconcileNotFound, Still
  <1>3. CASE ~dirtyEmployer
    <2>1. employer.phase = "none" /\ employer' = employer /\ pc' = "idle" /\ UNCHANGED provVars
      BY <1>3, SeenAsItIs DEF ReconcileNotFound
    <2>2. /\ Accounted' => VipComes' /\ \A p \in Pods : RsComes(p)'
          /\ \A p \in Pods : FlzComes(p)' /\ ExpComes(p)'
      BY <2>1, SeenAsItIs DEF envVars, Accounted, VipComes, WantVip, RsComes, WantRs, FlzComes, LacksFlz, ExpComes, LacksExp
    <2>3. DeletionComes'
      BY <2>1 DEF DeletionComes
    <2>. QED BY <1>1, <2>1, <2>2, <2>3 DEF Comes, ServiceComes, KeysCome
  <1>. QED BY <1>2, <1>3

LEMMA EnsureComes == ASSUME Base, Comes, EnsureEmployerCleanFlz PROVE Comes'
  <1>1. DoneAfresh'
    BY DEF EnsureEmployerCleanFlz, recVars, Comes, ServiceComes, DoneAfresh
  <1>2. ~Still'
    BY DEF EnsureEmployerCleanFlz, Outcomes, WriteEmployer, Still
  <1>. QED BY <1>1, <1>2, NothingClaimed

\* Every pod that is selected is listed for its expected finalizer, if none is recorded.
LEMMA BeginComes == ASSUME Base, Comes, BeginReconcile PROVE Comes'
  <1>. USE DEF apiVars, cacheVars, provVars, envVars
  <1>1. /\ UNCHANGED <<apiVars, cacheVars, provVars, done, drifts>> /\ obj' = cEmployer /\ done = {}
        /\ pc' \in {"patchExpected", "syncEmployer"}
    BY DEF BeginReconcile, Comes, ServiceComes, DoneAfresh
  <1>2. DoneAfresh'
    BY <1>1 DEF DoneAfresh
  <1>3. CASE dirtyEmployer
    BY <1>1, <1>2, <1>3, NothingClaimed DEF Still
  <1>4. CASE ~dirtyEmployer
    <2>1. cEmployer = employer
      BY <1>4, SeenAsItIs
    <2>2. BeforeSync'
      BY <1>1 DEF BeforeSync
    <2>3. obj' = employer' /\ VipComes' /\ \A p \in Pods : RsComes(p)' /\ FlzComes(p)'
      BY <1>1, <2>1, <2>2 DEF VipComes, RsComes, FlzComes
    <2>4. DeletionComes'
      BY <1>1, <2>2 DEF BeginReconcile, DeletionComes, FlagsDue
    <2>5. ASSUME ~NeedRecordExpected, NEW p \in Pods PROVE ExpComes(p)'
      BY <1>1, <2>1, <2>5 DEF BeginReconcile, ExpComes, LacksExp, SelectedNames
    <2>. QED BY <1>2, <2>3, <2>4, <2>5 DEF Comes, ServiceComes, KeysCome
  <1>. QED BY <1>3, <1>4

\* A patch that does not give the finalizer to the pod, as far as is known, marks the pod or is an
\* error.
LEMMA PatchComes ==
  ASSUME Base, Comes, NEW p \in Pods, PatchAdd(p) \/ PatchDelete(p) PROVE Comes'
  <1>1. /\ UNCHANGED <<employer, dirtyEmployer, cacheVars, provVars, queued, pc, obj, toAdd, drifts>>
        /\ pc = "patchExpected" /\ done' = done \cup {p}
    BY DEF PatchAdd, PatchDelete, envVars
  <1>2. res \subseteq res' /\ dirtyPods \subseteq dirtyPods'
    BY DEF PatchAdd, PatchDelete, PatchPod, WritePod, Noting
  <1>3. PatchPod(p, TRUE) \/ PatchPod(p, FALSE) => p \in dirtyPods' \/ "err" \in res'
    BY DEF PatchPod, WritePod, Noting, Outcomes
  <1>4. CASE PatchAdd(p)
    <2>1. p \in dirtyPods' \/ "err" \in res' \/ ~LacksExp(p)
      BY <1>3, <1>4 DEF PatchAdd, LacksExp
    <2>. QED BY <1>1, <1>2, <2>1, PodsMove DEF DoneAfresh
  <1>5. CASE PatchDelete(p)
    <2>1. toAdd \subseteq done
      BY <1>5 DEF PatchDelete
    <2>2. toAdd \cap (done' \ done) = {}
      BY <1>1, <2>1
    <2>. QED BY <1>1, <1>2, <2>2, PodsMove DEF DoneAfresh
  <1>. QED BY <1>4, <1>5

\* Without a record, what could not be patched brings Reconcile back.
LEMMA ReturnComes == ASSUME Return(TRUE) PROVE Comes'
  <1>1. DoneAfresh' /\ ~Still'
    BY DEF Return, DoneAfresh, Still
  <1>. QED BY <1>1, NothingClaimed

LEMMA EndExpectedComes ==
  ASSUME Base, Comes, EndExpectedNotNeedRecord \/ EndExpectedUnchanged \/ EndExpectedPatch
  PROVE  Comes'
  <1>1. pc = "patchExpected"
    BY DEF EndExpectedNotNeedRecord, EndExpectedUnchanged, EndExpectedPatch
  <1>2. ASSUME NEW o, NEW b, ToSyncEmployer(o, b), UNCHANGED <<employer, dirtyEmployer, cacheVars, provVars, drifts>>,
               dirtyPods \subseteq dirtyPods', o = obj,
               NeedRecordExpected \/ (toAdd \subseteq done /\ ~BatchFailed /\ (b <=> obj.phase = "deleting"))
        PROVE  Comes'
    <2>1. /\ pc' = "syncEmployer" /\ obj' = obj /\ BeforeSync' /\ done' = {} /\ (Still' <=> Still)
          /\ b => res' = {"expClean"}
      BY <1>2 DEF ToSyncEmployer, BeforeSync, Still
    <2>2. ServiceComes'
      BY <1>1, <1>2, <2>1 DEF Comes, ServiceComes, DoneAfresh, VipComes, RsComes, FlzComes
    <2>3. ASSUME ~NeedRecordExpected PROVE KeysCome'
      <3>1. DeletionComes' \/ ~Still'
        BY <1>1, <1>2, <2>1, <2>3 DEF Comes, ServiceComes, DeletionComes, FlagsDue
      <3>2. ASSUME Still, NEW p \in Pods PROVE ExpComes(p)'
        <4>1. ~LacksExp(p)
          BY <1>2, <2>3, <3>2 DEF Comes, KeysCome, ExpComes
        <4>. QED BY <1>2, <4>1 DEF ExpComes, LacksExp, cacheVars
      <3>. QED BY <2>1, <3>1, <3>2 DEF KeysCome
    <2>. QED BY <2>2, <2>3 DEF Comes
  <1>3. CASE EndExpectedNotNeedRecord
    BY <1>2, <1>3, ReturnComes DEF EndExpectedNotNeedRecord, apiVars, envVars
  <1>4. CASE EndExpectedUnchanged
    BY <1>2, <1>4 DEF EndExpectedUnchanged, apiVars, envVars
  <1>5. CASE EndExpectedPatch
    <2>1. CASE Return(TRUE)
      BY <2>1, ReturnComes
    <2>2. CASE ~Return(TRUE)
      <3>1. dirtyEmployer' = TRUE
        BY <1>5, <2>2 DEF EndExpectedPatch, Outcomes, WriteEmployer
      <3>2. DoneAfresh'
        BY <1>5, EndExpectedPatchWrites DEF Base, DoneAfresh
      <3>. QED BY <3>1, <3>2, NothingClaimed DEF Still
    <2>. QED BY <2>1, <2>2
  <1>. QED BY <1>3, <1>4, <1>5

-----------------------------------------------------------------------------
(* The provider. *)

\* An entry that was not written is noted as failed.
LEMMA SyncEmployerComes == ASSUME Base, Comes, SyncEmployer \/ SyncEmployerError PROVE Comes'
  <1>1. CASE SyncEmployerError
    BY <1>1, ReturnComes DEF SyncEmployerError
  <1>2. CASE SyncEmployer
    <2>. USE DEF apiVars, cacheVars, envVars
    <2>1. /\ UNCHANGED <<employer, dirtyEmployer, dirtyPods, cPods, queued, obj, done, drifts>>
          /\ pc = "syncEmployer" /\ pc' = "syncEmployees" /\ (Still' <=> Still) /\ res \subseteq res'
      BY <1>2 DEF SyncEmployer, Still
    <2>2. \/ "failed" \in res'
          \/ vip' = ExpectedVip["vip"] /\ (obj.phase = "deleting" => "erClean" \in res')
      BY <1>2 DEF SyncEmployer
    <2>3. ASSUME Still PROVE obj = employer /\ obj.phase \in {"live", "deleting"}
      BY <2>1, <2>3, SeenAsItIs DEF Comes, ServiceComes
    <2>4. ASSUME Still PROVE VipComes' /\ \A p \in Pods : RsComes(p)' /\ FlzComes(p)'
      <3>1. ExpectedVip["vip"] = WantVip
        BY <2>3, <2>4 DEF ExpectedVip, WantVip
      <3>. QED BY <2>1, <2>2, <3>1 DEF VipComes, WantVip, FailureNoted, RsComes, FlzComes
    <2>5. ServiceComes'
      BY <2>1, <2>3, <2>4 DEF Comes, ServiceComes, DoneAfresh
    <2>6. ASSUME ~NeedRecordExpected, Still PROVE DeletionComes'
      <3>1. employer.phase = "deleting" /\ employer.flz # {"other"} =>
              FailureNoted \/ "expClean" \in res
        BY <2>1, <2>6 DEF Comes, KeysCome, DeletionComes, FlagsDue, BeforeSync
      <3>. QED BY <2>1, <2>2, <2>3, <2>6, <3>1 DEF DeletionComes, FlagsDue, BeforeSync, FailureNoted
    <2>7. ASSUME ~NeedRecordExpected, Still, NEW p \in Pods PROVE ExpComes(p)'
      BY <2>1, <2>7 DEF Comes, KeysCome, ExpComes, LacksExp
    <2>. QED BY <2>1, <2>5, <2>6, <2>7 DEF Comes, KeysCome
  <1>. QED BY <1>1, <1>2

\* What one pass over the real servers leaves: everything is as it should be, and who serves is
\* listed for protection.
LEMMA SyncEmployeesDoes ==
  ASSUME Base, SyncEmployees, obj = employer, obj.phase \in {"live", "deleting"}, "failed" \notin res'
  PROVE  /\ \A p \in Pods : rs'[p] = WantRs(p)
         /\ obj.phase = "deleting" => "eeClean" \in res'
         /\ \A p \in Pods : LacksFlz(p) => p \in toAdd'
  <1>1. PICK failed \in ReturnedOutcomes(ExpectedRs, rs) :
          /\ rs' = Apply(ExpectedRs, rs, Pods \ failed)
          /\ toAdd' = LifecycleToAdd(failed)
          /\ res' = Noting("failed", failed # {})
                      \cup (IF EmployeesClean(failed) THEN {"eeClean"} ELSE {})
    BY DEF SyncEmployees
  <1>2. failed = {}
    BY <1>1 DEF Noting
  <1>3. DOMAIN ExpectedRs = Pods /\ DOMAIN rs = Pods /\ \A p \in Pods : ExpectedRs[p] = WantRs(p)
    BY DEF ExpectedRs, WantRs, Base, TypeOK, TypeProvider
  <1>4. \A p \in Pods : rs'[p] = WantRs(p)
    BY <1>1, <1>2, <1>3 DEF Apply
  <1>5. obj.phase = "deleting" => EmployeesClean(failed)
    <2>1. obj.phase = "deleting" => \A p \in Pods : ExpectedRs[p] = "none"
      BY DEF ExpectedRs
    <2>. QED BY <1>2, <1>3, <2>1 DEF EmployeesClean, ToCreate, ToUpdate, Same
  <1>6. ASSUME NEW p \in Pods, LacksFlz(p) PROVE p \in toAdd'
    <2>1. ExpectedRs[p] = "on" /\ cPods[p].ready /\ FollowPodOps
      BY <1>3, <1>6 DEF LacksFlz, WantRs
    <2>2. p \in ToCreate(ExpectedRs, rs) \cup ToUpdate(ExpectedRs, rs) \cup Same(ExpectedRs, rs)
      BY <1>3, <2>1 DEF ToCreate, ToUpdate, Same
    <2>. QED BY <1>1, <1>2, <2>1, <2>2 DEF LifecycleToAdd, ReadyOf
  <1>. QED BY <1>1, <1>4, <1>5, <1>6

LEMMA SyncEmployeesComes == ASSUME Base, Comes, SyncEmployees \/ SyncEmployeesError PROVE Comes'
  <1>1. CASE SyncEmployeesError
    BY <1>1, ReturnComes DEF SyncEmployeesError
  <1>2. CASE SyncEmployees
    <2>. USE DEF apiVars, cacheVars, envVars
    <2>1. /\ UNCHANGED <<employer, dirtyEmployer, dirtyPods, cPods, vip, queued, obj, done, drifts>>
          /\ pc = "syncEmployees" /\ pc' = "collectUnselected" /\ (Still' <=> Still) /\ res \subseteq res'
      BY <1>2 DEF SyncEmployees, Noting, Still
    <2>2. ASSUME Still PROVE obj = employer /\ obj.phase \in {"live", "deleting"}
      BY <2>1, <2>2, SeenAsItIs DEF Comes, ServiceComes
    <2>3. ASSUME Still PROVE (Accounted => VipComes') /\ \A p \in Pods : RsComes(p)' /\ FlzComes(p)'
      <3>1. Accounted => VipComes'
        BY <2>1, <2>3 DEF Comes, ServiceComes, VipComes, WantVip, FailureNoted, BeforeSync
      <3>2. CASE "failed" \in res'
        BY <2>1, <3>1, <3>2 DEF RsComes, FlzComes, FailureNoted
      <3>3. CASE "failed" \notin res'
        <4>1. \A p \in Pods : rs'[p] = WantRs(p) /\ (LacksFlz(p) => p \in toAdd')
          BY <1>2, <2>2, <2>3, <3>3, SyncEmployeesDoes
        <4>. QED BY <2>1, <3>1, <4>1 DEF RsComes, FlzComes, WantRs, LacksFlz
      <3>. QED BY <3>2, <3>3
    <2>4. ServiceComes'
      BY <2>1, <2>2, <2>3 DEF Comes, ServiceComes, DoneAfresh, Accounted
    <2>5. ASSUME ~NeedRecordExpected, Still PROVE DeletionComes'
      <3>1. employer.phase = "deleting" /\ employer.flz # {"other"} =>
              FailureNoted \/ {"expClean", "erClean"} \subseteq res
        BY <2>1, <2>5 DEF Comes, KeysCome, DeletionComes, FlagsDue, BeforeSync
      <3>2. "failed" \in res' \/ (obj.phase = "deleting" => "eeClean" \in res')
        BY <1>2, <2>2, <2>5, SyncEmployeesDoes
      <3>. QED BY <2>1, <2>2, <2>5, <3>1, <3>2 DEF DeletionComes, FlagsDue, BeforeSync, FailureNoted
    <2>6. ASSUME ~NeedRecordExpected, Still, NEW p \in Pods PROVE ExpComes(p)'
      BY <2>1, <2>6 DEF Comes, KeysCome, ExpComes, LacksExp
    <2>. QED BY <2>1, <2>4, <2>5, <2>6 DEF Comes, KeysCome
  <1>. QED BY <1>1, <1>2

-----------------------------------------------------------------------------
(* Lifecycle finalizers and the end of Reconcile. *)

LEMMA CollectComes == ASSUME Base, Comes, CollectUnselected PROVE Comes'
  <1>. USE DEF apiVars, cacheVars, provVars, envVars
  <1>1. /\ UNCHANGED <<employer, dirtyEmployer, dirtyPods, cPods, vip, rs, queued, obj, toAdd, done, res, drifts>>
        /\ pc = "collectUnselected" /\ pc' = "addFlz" /\ done = {} /\ (Still' <=> Still)
    BY DEF CollectUnselected, Still, Comes, ServiceComes, DoneAfresh
  <1>2. ServiceComes'
    BY <1>1 DEF Comes, ServiceComes, DoneAfresh, Accounted, VipComes, WantVip, RsComes, WantRs, FlzComes, LacksFlz,
                BeforeSync, FailureNoted
  <1>3. ~NeedRecordExpected => KeysCome'
    BY <1>1 DEF Comes, KeysCome, DeletionComes, FlagsDue, BeforeSync, FailureNoted, ExpComes, LacksExp
  <1>. QED BY <1>2, <1>3 DEF Comes

\* An update that does not give the finalizer to the pod, as far as is known, marks the pod or is an
\* error.
LEMMA BatchComes ==
  ASSUME Base, Comes, NEW p \in Pods,
         AddLifecycleFlz(p) \/ DeleteFlzOfEmployee(p) \/ DeleteFlzOfRecorded(p)
  PROVE  Comes'
  <1>1. /\ UNCHANGED <<employer, dirtyEmployer, cacheVars, provVars, queued, pc, obj, toAdd, drifts>>
        /\ pc \in {"addFlz", "delFlz"} /\ DoneAfresh'
    BY DEF AddLifecycleFlz, DeleteFlzOfEmployee, DeleteFlzOfRecorded, envVars, DoneAfresh
  <1>2. res \subseteq res' /\ dirtyPods \subseteq dirtyPods'
    BY DEF AddLifecycleFlz, DeleteFlzOfEmployee, DeleteFlzOfRecorded, DeleteLifecycleFlz, UpdatePodFlz,
           WritePod, Noting
  <1>3. CASE AddLifecycleFlz(p)
    <2>1. UpdatePodFlz(p, TRUE) => p \in dirtyPods' \/ "err" \in res'
      BY DEF UpdatePodFlz, WritePod, Noting, Outcomes
    <2>2. LacksFlz(p) => UpdatePodFlz(p, TRUE)
      BY <1>3 DEF AddLifecycleFlz, LacksFlz
    <2>3. done' = done \cup {p}
      BY <1>3 DEF AddLifecycleFlz
    <2>. QED BY <1>1, <1>2, <2>1, <2>2, <2>3, PodsMove
  <1>4. CASE DeleteFlzOfEmployee(p) \/ DeleteFlzOfRecorded(p)
    <2>1. done' = done
      BY <1>4 DEF DeleteFlzOfEmployee, DeleteFlzOfRecorded
    <2>. QED BY <1>1, <1>2, <2>1, PodsMove
  <1>. QED BY <1>3, <1>4

LEMMA EndAddComes == ASSUME Base, Comes, EndAddLifecycleFlz PROVE Comes'
  <1>1. CASE Return(TRUE)
    BY <1>1, ReturnComes
  <1>2. CASE ~Return(TRUE)
    <2>. USE DEF apiVars, cacheVars, provVars, envVars
    <2>1. /\ UNCHANGED <<employer, dirtyEmployer, dirtyPods, cPods, vip, rs, queued, obj, drifts>>
          /\ pc = "addFlz" /\ pc' = "delFlz" /\ (Still' <=> Still) /\ res \subseteq res'
          /\ toAdd \subseteq done /\ ~BatchFailed
      BY <1>2 DEF EndAddLifecycleFlz, Still, Noting
    <2>2. ServiceComes'
      BY <2>1 DEF Comes, ServiceComes, DoneAfresh, Accounted, VipComes, WantVip, RsComes, WantRs, FlzComes, LacksFlz,
                  BeforeSync, FailureNoted
    <2>3. ~NeedRecordExpected => KeysCome'
      BY <2>1 DEF Comes, KeysCome, DeletionComes, FlagsDue, BeforeSync, FailureNoted, ExpComes, LacksExp
    <2>. QED BY <2>2, <2>3 DEF Comes
  <1>. QED BY <1>1, <1>2

LEMMA RecordComes == ASSUME Base, Comes, RecordLifecycle PROVE Comes'
  <1>1. CASE Return(TRUE)
    BY <1>1, ReturnComes
  <1>2. CASE dirtyEmployer'
    <2>1. pc' \in {"idle", "clean"} /\ (pc' = "idle" => done' = {})
      BY RecordLifecycleWrites DEF Base
    <2>. QED BY <1>2, <2>1, NothingClaimed DEF DoneAfresh, Still
  <1>3. CASE ~Return(TRUE) /\ ~dirtyEmployer'
    <2>. USE DEF cacheVars, provVars, envVars
    <2>1. /\ UNCHANGED <<employer, dirtyEmployer, dirtyPods, cPods, vip, rs, queued, obj, res, drifts>>
          /\ pc = "delFlz" /\ pc' = "clean"
      BY <1>3 DEF RecordLifecycle, Outcomes, WriteEmployer
    <2>2. Still' <=> Still
      BY <2>1 DEF Still
    <2>3. ServiceComes'
      BY <2>1, <2>2 DEF Comes, ServiceComes, DoneAfresh, Accounted, VipComes, WantVip, RsComes, WantRs, FlzComes, LacksFlz,
                  BeforeSync, FailureNoted
    <2>4. ~NeedRecordExpected => KeysCome'
      BY <2>1, <2>2 DEF Comes, KeysCome, DeletionComes, FlagsDue, BeforeSync, FailureNoted, ExpComes, LacksExp
    <2>. QED BY <2>3, <2>4 DEF Comes
  <1>. QED BY <1>1, <1>2, <1>3

\* A reconcile that notes no failure, and does not come back, has nothing left to set right.
LEMMA FinishComes == ASSUME Base, Comes, FinishReconcile PROVE Comes'
  <1>. USE DEF apiVars, cacheVars, provVars, envVars
  <1>1. /\ UNCHANGED <<employer, dirtyEmployer, dirtyPods, cEmployer, cPods, vip, rs, drifts>>
        /\ pc = "clean" /\ pc' = "idle" /\ done' = {}
        /\ Still' => Still /\ "failed" \notin res
    BY DEF FinishReconcile, Return, AsksToComeBack, Still
  <1>2. ASSUME Still' PROVE /\ obj = employer /\ cEmployer = employer
                            /\ Accounted => VipComes' /\ \A p \in Pods : RsComes(p)'
                            /\ \A p \in Pods : FlzComes(p)'
    BY <1>1, <1>2, SeenAsItIs DEF Comes, ServiceComes, VipComes, WantVip, RsComes, WantRs, FlzComes, LacksFlz,
                      BeforeSync, FailureNoted, Still
  <1>3. ASSUME ~NeedRecordExpected, Still' PROVE DeletionComes'
    <2> SUFFICES ASSUME employer.phase = "deleting", employer.flz # {"other"} PROVE FALSE
      BY <1>1 DEF DeletionComes
    <2>1. {"expClean", "erClean", "eeClean"} \subseteq res
      BY <1>1, <1>3 DEF Comes, KeysCome, DeletionComes, FlagsDue, BeforeSync, FailureNoted
    <2>2. AllClean /\ cEmployer.phase # "none"
      BY <1>2, <1>3, <2>1 DEF AllClean
    <2>3. obj.flz \cap {"clean", "old"} # {}
      BY <1>2, <1>3, EmployerFields DEF Base, TypeOK, TypeEmployer, Consistent, Flz
    <2>. QED BY <2>2, <2>3 DEF FinishReconcile
  <1>4. ASSUME ~NeedRecordExpected, Still', NEW p \in Pods PROVE ExpComes(p)'
    BY <1>1, <1>4 DEF Comes, KeysCome, ExpComes, LacksExp
  <1>. QED BY <1>1, <1>2, <1>3, <1>4 DEF Comes, ServiceComes, KeysCome, DoneAfresh, Accounted

LEMMA CleanComes == ASSUME Base, Comes, CleanEmployerCleanFinalizer PROVE Comes'
  <1>1. DoneAfresh'
    BY DEF CleanEmployerCleanFinalizer, Return, DoneAfresh
  <1>2. ~Still'
    BY DEF CleanEmployerCleanFinalizer, Return, Outcomes, WriteEmployer, Still
  <1>. QED BY <1>1, <1>2, NothingClaimed

-----------------------------------------------------------------------------
(* The manager and the environment. *)

\* A pod whose change is reported, and does not put the employer into the queue, is not and has not
\* been one of its pods.
LEMMA SyncPodComes == ASSUME Base, Comes, SyncPodCache PROVE Comes'
  <1>. USE DEF provVars, recVars, envVars
  <1>1. /\ UNCHANGED <<employer, pods, dirtyEmployer, cEmployer, vip, rs, pc, obj, toAdd, done, res, drifts>>
        /\ cPods' = pods /\ dirtyPods' = {}
        /\ queued' = (queued \/ (cEmployer.phase # "none" /\ \E p \in dirtyPods : EventMatches(p)))
    BY DEF SyncPodCache
  <1>2. DoneAfresh'
    BY <1>1 DEF Comes, ServiceComes, DoneAfresh
  <1>3. CASE ~Still'
    BY <1>2, <1>3, NothingClaimed
  <1>4. CASE Still'
    <2>1. Still /\ cEmployer = employer
      BY <1>1, <1>4, SeenAsItIs DEF Still
    <2>2. ASSUME NEW p \in Pods, employer.phase = "live"
          PROVE  (p \notin dirtyPods /\ cPods[p] = pods[p]) \/ (~cPods[p].sel /\ ~pods[p].sel)
      BY <1>1, <1>4, <2>1, <2>2, SeenAsItIs DEF EventMatches, Still
    <2>3. VipComes => VipComes'
      BY <1>1 DEF VipComes, WantVip, BeforeSync, FailureNoted
    <2>4. ASSUME NEW p \in Pods PROVE RsComes(p) => RsComes(p)'
      BY <1>1, <2>2 DEF RsComes, WantRs, BeforeSync, FailureNoted
    <2>5. ASSUME NEW p \in Pods PROVE (FlzComes(p) => FlzComes(p)') /\ (ExpComes(p) => ExpComes(p)')
      <3>1. (LacksFlz(p)' => LacksFlz(p)) /\ (LacksExp(p)' => LacksExp(p))
        BY <1>1, <2>2 DEF LacksFlz, LacksExp
      <3>. QED BY <1>1, <3>1 DEF FlzComes, ExpComes, BeforeSync, FailureNoted, BatchFailed
    <2>6. DeletionComes => DeletionComes'
      BY <1>1 DEF DeletionComes, FlagsDue, BeforeSync, FailureNoted
    <2>. QED BY <1>1, <1>2, <2>1, <2>3, <2>4, <2>5, <2>6 DEF Comes, ServiceComes, KeysCome, Accounted
  <1>. QED BY <1>3, <1>4

LEMMA CrashComes == ASSUME Base, Crash PROVE Comes'
  <1>1. /\ UNCHANGED <<employer, vip, rs>> /\ pc' = "idle" /\ done' = {}
        /\ queued' = (employer.phase # "none")
    BY DEF Crash, provVars
  <1>2. DoneAfresh'
    BY <1>1 DEF DoneAfresh
  <1>3. CASE ~Still'
    BY <1>2, <1>3, NothingClaimed
  <1>4. CASE Still'
    <2>1. employer.phase = "none"
      BY <1>1, <1>4 DEF Still
    <2>2. /\ Accounted' => VipComes' /\ \A p \in Pods : RsComes(p)'
          /\ DeletionComes' /\ \A p \in Pods : FlzComes(p)' /\ ExpComes(p)'
      BY <1>1, <2>1, SeenAsItIs
         DEF Accounted, VipComes, WantVip, RsComes, WantRs, FlzComes, LacksFlz, ExpComes, LacksExp, DeletionComes
    <2>. QED BY <1>1, <1>2, <2>2 DEF Comes, ServiceComes, KeysCome
  <1>. QED BY <1>3, <1>4

LEMMA EnvironmentComes == ASSUME Base, Comes, Environment PROVE Comes'
  <1>1. UNCHANGED <<cacheVars, recVars, queued>>
    BY DEF Environment, CreateEmployer, DeleteEmployer, ReleaseOther, Drift, CreatePod, DeletePod, RelabelPod,
           ChangeReadiness, PodGone
  <1>2. DoneAfresh'
    BY <1>1 DEF recVars, Comes, ServiceComes, DoneAfresh
  <1>3. CASE CreateEmployer \/ DeleteEmployer \/ ReleaseOther
    <2>1. ~Still'
      BY <1>3 DEF CreateEmployer, DeleteEmployer, ReleaseOther, WriteEmployer, Still
    <2>. QED BY <1>2, <2>1, NothingClaimed
  <1>4. CASE Drift
    <2>1. UNCHANGED <<apiVars>> /\ ~(drifts' = 0)
      BY <1>4 DEF Drift, Base, TypeOK, TypeManager
    <2>. QED BY <1>1, <1>2, <2>1
         DEF Comes, ServiceComes, KeysCome, Still, Accounted, FlzComes, LacksFlz, ExpComes, LacksExp, DeletionComes, FlagsDue,
             BeforeSync, FailureNoted, BatchFailed, cacheVars, recVars, apiVars
  <1>5. ASSUME NEW p \in Pods, CreatePod(p) \/ DeletePod(p) \/ RelabelPod(p) \/ ChangeReadiness(p) \/ PodGone(p)
        PROVE  Comes'
    <2>1. UNCHANGED <<employer, dirtyEmployer, provVars, drifts>> /\ dirtyPods \subseteq dirtyPods'
      BY <1>5 DEF CreatePod, DeletePod, RelabelPod, ChangeReadiness, PodGone, WritePod, envVars
    <2>. QED BY <1>1, <1>2, <2>1, PodsMove DEF recVars
  <1>. QED BY <1>3, <1>4, <1>5 DEF Environment

LEMMA NextComes == Base /\ Comes /\ [Next]_vars => Comes'
  <1> SUFFICES ASSUME Base, Comes, [Next]_vars PROVE Comes'
    OBVIOUS
  <1>1. CASE Controller
    BY <1>1, NotFoundComes, EnsureComes, BeginComes, PatchComes, EndExpectedComes, SyncEmployerComes,
       SyncEmployeesComes, CollectComes, BatchComes, EndAddComes, RecordComes, FinishComes, CleanComes
    DEF Controller
  <1>2. CASE SyncEmployerCache
    <2>1. DoneAfresh' /\ ~Still'
      BY <1>2 DEF SyncEmployerCache, recVars, Comes, ServiceComes, DoneAfresh, Still
    <2>. QED BY <2>1, NothingClaimed
  <1>3. CASE UNCHANGED vars
    <2>1. DoneAfresh'
      BY <1>3 DEF vars, recVars, Comes, ServiceComes, DoneAfresh
    <2>. QED BY <1>3, <2>1, PodsMove DEF vars, apiVars, cacheVars, provVars, recVars, envVars
  <1>. QED BY <1>1, <1>2, <1>3, SyncPodComes, CrashComes, EnvironmentComes DEF Next

-----------------------------------------------------------------------------
\* Reconcile takes an employer when it starts and lets go of it when it returns; a patch answers with
\* an employer, never with none.
LEMMA HoldsKept ==
  ASSUME TypeOK, Holds, [Next]_vars
  PROVE  Holds'
<1>. USE DEF recVars
<1>1. CASE UNCHANGED recVars
  BY <1>1 DEF Holds
<1>2. CASE pc' = "idle" /\ obj' = NoEmployer
  BY <1>2, NoEmployerType DEF Holds
<1>3. CASE pc # "idle" /\ pc' # "idle" /\ (obj' = obj \/ obj'.phase # "none")
  BY <1>3 DEF Holds
<1>4. CASE ReconcileNotFound \/ EnsureEmployerCleanFlz \/ SyncEmployerCache \/ SyncPodCache \/ Environment
  BY <1>1, <1>4 DEF ReconcileNotFound, EnsureEmployerCleanFlz, SyncEmployerCache, SyncPodCache, Environment,
     CreateEmployer, DeleteEmployer, ReleaseOther, Drift, CreatePod, DeletePod, RelabelPod, ChangeReadiness, PodGone
<1>5. CASE BeginReconcile
  <2>1. pc' # "idle" /\ obj' = cEmployer /\ cEmployer.phase # "none"
    BY <1>5 DEF BeginReconcile
  <2>. QED BY <2>1 DEF Holds
<1>6. ASSUME NEW p \in Pods,
             \/ PatchAdd(p) \/ PatchDelete(p)
             \/ AddLifecycleFlz(p) \/ DeleteFlzOfEmployee(p) \/ DeleteFlzOfRecorded(p)
      PROVE  Holds'
  BY <1>6 DEF PatchAdd, PatchDelete, AddLifecycleFlz, DeleteFlzOfEmployee, DeleteFlzOfRecorded, Holds
<1>7. CASE SyncEmployerError \/ SyncEmployeesError \/ FinishReconcile \/ CleanEmployerCleanFinalizer \/ Crash
  BY <1>2, <1>7 DEF SyncEmployerError, SyncEmployeesError, FinishReconcile, CleanEmployerCleanFinalizer, Crash, Return
<1>8. CASE EndExpectedPatch \/ RecordLifecycle
  <2>1. pc # "idle"
    BY <1>8 DEF EndExpectedPatch, RecordLifecycle
  <2>. QED BY <1>2, <1>3, <1>8, <2>1, EndExpectedPatchWrites, RecordLifecycleWrites
<1>9. CASE \/ EndExpectedNotNeedRecord \/ EndExpectedUnchanged \/ SyncEmployer \/ SyncEmployees
           \/ CollectUnselected \/ EndAddLifecycleFlz
  BY <1>2, <1>3, <1>9 DEF EndExpectedNotNeedRecord, EndExpectedUnchanged, SyncEmployer, SyncEmployees,
     CollectUnselected, EndAddLifecycleFlz, Return, ToSyncEmployer
<1>. QED BY <1>1, <1>4, <1>5, <1>6, <1>7, <1>8, <1>9 DEF Next, Controller, vars

\* No assumption is left but what Base says of the provider.
LEMMA AlwaysBase == Spec => []Base
<1>1. Init => Fresh /\ Holds
  BY NoEmployerType DEF Init, Fresh, Holds
<1>2. TypeOK /\ Fresh /\ Holds /\ [Next]_vars => Fresh' /\ Holds'
  BY FreshKept, HoldsKept
<1>3. Spec => [](NamesKept => BackendGuarded)
  <2>1. CASE NamesKept
    <3>1. Spec => []BackendGuarded
      BY <2>1, Guarded DEF NamesKept
    <3>2. BackendGuarded => (NamesKept => BackendGuarded)
      OBVIOUS
    <3>. QED BY <3>1, <3>2, PTL
  <2>2. CASE ~NamesKept
    <3>1. NamesKept => BackendGuarded
      BY <2>2
    <3>. QED BY <3>1, PTL
  <2>. QED BY <2>1, <2>2
<1>. QED BY <1>1, <1>2, <1>3, TypeCorrect, PTL DEF Spec, Base

LEMMA AlwaysComes == Spec => [](Base /\ Comes)
  <1>1. Init => Comes
    <2> SUFFICES ASSUME Init PROVE Comes
      OBVIOUS
    <2>1. pc = "idle" /\ done = {} /\ vip = "none" /\ (\A p \in Pods : rs[p] = "none")
          /\ queued = (employer.phase # "none")
      BY DEF Init
    <2>. QED BY <2>1 DEF Comes, ServiceComes, KeysCome, DoneAfresh, Still, VipComes, WantVip, RsComes, WantRs,
                         FlzComes, LacksFlz, ExpComes, LacksExp, DeletionComes
  <1>2. Spec => []Base
    BY AlwaysBase
  <1>. QED BY <1>1, <1>2, NextComes, PTL DEF Spec

\* Whenever the controller rests and there is an employer, the provider holds what the employer and
\* its pods ask for, whatever records are kept and however often the name was used.
THEOREM BackendAtRestOfEmployer == Spec => [](employer.phase # "none" => QuiescentBackend)
  <1>1. Base /\ Comes => (employer.phase # "none" => QuiescentBackend)
    BY SeenAsItIs DEF Comes, ServiceComes, Still, Accounted, VipComes, WantVip, RsComes, WantRs, BeforeSync,
                      FailureNoted, QuiescentBackend, Quiescent
  <1>. QED BY <1>1, AlwaysComes, PTL

\* Whenever the controller rests, the provider holds what the employer and its pods ask for,
\* whatever has failed, conflicted or been lost on the way, unless it lost something by itself.
THEOREM BackendAtRest ==
  ASSUME ~NeedRecordExpected \/ ~Recreate
  PROVE  Spec => []QuiescentBackend
  <1>1. Base /\ Comes => QuiescentBackend
    BY SeenAsItIs DEF Comes, ServiceComes, Still, Accounted, NamesKept, VipComes, WantVip, RsComes, WantRs,
                      BeforeSync, FailureNoted, QuiescentBackend, Quiescent
  <1>. QED BY <1>1, AlwaysComes, PTL

\* Whenever the controller rests, every ready pod of a live employer has the lifecycle finalizer.
THEOREM ProtectedAtRest == Spec => []QuiescentProtected
  <1>1. Base /\ Comes => QuiescentProtected
    BY SeenAsItIs DEF Comes, ServiceComes, Still, FlzComes, LacksFlz, BeforeSync, FailureNoted,
                      QuiescentProtected, Quiescent
  <1>. QED BY <1>1, AlwaysComes, PTL

\* Whenever the controller rests, every pod of a live employer has the expected finalizer, if none
\* is recorded.
THEOREM ExpectedAtRest ==
  ASSUME ~NeedRecordExpected
  PROVE  Spec => []QuiescentExpected
  <1>1. Base /\ Comes => QuiescentExpected
    BY SeenAsItIs DEF Comes, KeysCome, Still, ExpComes, LacksExp, QuiescentExpected, Quiescent
  <1>. QED BY <1>1, AlwaysComes, PTL

\* Whenever the controller rests, an employer that is being deleted waits for a finalizer that is
\* not the controller's, if no expected finalizer is recorded.
THEOREM DeletedAtRest ==
  ASSUME ~NeedRecordExpected
  PROVE  Spec => []QuiescentDeleted
  <1>1. Base /\ Comes => QuiescentDeleted
    BY DEF Comes, KeysCome, Still, DeletionComes, QuiescentDeleted, Quiescent
  <1>. QED BY <1>1, AlwaysComes, PTL
=============================================================================
