------------------------- MODULE SharedPods_proofs -------------------------
(***************************************************************************)
(* Safety of SharedPods, for any number of employers, pods, changes and    *)
(* faults: types, KeyInv, that keys given at admission are kept, and that  *)
(* at rest no key is missing and an employer that is being deleted waits   *)
(* for pods it selects only.                                               *)
(***************************************************************************)
EXTENDS SharedPods, TLAPS

Inv == TypeOK /\ KeyInv

LEMMA NoOnes == NoService \in Employers /\ [NoService EXCEPT !.phase = "gone"] \in Employers
                /\ NoPod \in PodStates /\ [NoPod EXCEPT !.phase = "gone"] \in PodStates
  BY DEF NoService, NoPod, Employers, PodStates

\* What a worker has of a pod.
LEMMA ReadsAre ==
  /\ NotRead \in Reads /\ ~NotRead.on
  /\ \A r \in Reads : r.keys \subseteq Services /\ (r.on \/ r = NotRead)
  /\ \A keys \in SUBSET Services : [on |-> TRUE, keys |-> keys] \in Reads
  <1>1. NotRead \in Reads /\ ~NotRead.on /\ NotRead.keys = {}
    BY DEF NotRead, Reads
  <1>2. ASSUME NEW r \in Reads PROVE r.keys \subseteq Services /\ (r.on \/ r = NotRead)
    <2>1. CASE r = NotRead
      BY <1>1, <2>1
    <2>2. CASE r \in [on : {TRUE}, keys : SUBSET Services]
      BY <2>2
    <2>. QED BY <1>2, <2>1, <2>2 DEF Reads
  <1>3. \A keys \in SUBSET Services : [on |-> TRUE, keys |-> keys] \in Reads
    BY DEF Reads
  <1>. QED BY <1>1, <1>2, <1>3

LEMMA InitInv == Init => Inv
  <1> SUFFICES ASSUME Init PROVE Inv
    OBVIOUS
  <1>1. TypeOK
    BY SharedAssumption DEF Init, TypeOK, TypeAPI, TypeReconcile, NoneRead, NotRead, Reads
  <1>2. KeyInv
    <2>1. \A t \in Services, p \in Pods : ~read[t][p].on
      BY DEF Init, NoneRead, NotRead
    <2>2. SeenTruly
      BY DEF Init, SeenTruly, Over, Employers, NoService
    <2>3. Unborn /\ InEveryCopy
      BY <2>1 DEF Init, Unborn, InEveryCopy
    <2>. QED BY <2>2, <2>3 DEF KeyInv
  <1>. QED BY <1>1, <1>2 DEF Inv

\* What a call costs keeps the budget.
LEMMA ChargeType == ASSUME TypeOK, NEW outcome, Charge(outcome) PROVE faults' \in 0..MaxFaults
  BY SharedAssumption DEF TypeOK, Charge

\* A write of a Service that keeps it as far along as it was, or farther, and that no copy is
\* ahead of.
LEMMA WriteSvcInv ==
  ASSUME Inv, NEW s \in Services, NEW v \in Employers, WriteSvc(s, v),
         v.phase \in {"live", "deleting"},
         Over(s) => v.phase = "deleting",
         UNCHANGED <<podVars, cacheVars, admitted>>,
         \A t \in Services : deleting'[t] => deleting[t],
         \A t \in Services, p \in Pods : read'[t][p].on => read'[t][p] = read[t][p]
  PROVE  KeyInv' /\ svc' \in [Services -> Employers] /\ dirtySvc' \subseteq Services
  <1> USE DEF Inv
  <1> DEFINE w == IF v.phase = "deleting" /\ ~v.clean THEN [NoService EXCEPT !.phase = "gone"] ELSE v
  <1>1. w \in Employers /\ w.phase \in {"live", "deleting", "gone"} /\ (Over(s) => w.phase # "live")
    BY NoOnes DEF NoService
  <1>2. svc' = [svc EXCEPT ![s] = w] /\ dirtySvc' = dirtySvc \cup {s}
    BY DEF WriteSvc
  <1> HIDE DEF w
  <1>3. svc' \in [Services -> Employers] /\ dirtySvc' \subseteq Services
    BY <1>1, <1>2 DEF TypeOK, TypeAPI
  <1>4. /\ svc'[s] = w
        /\ \A t \in Services : t # s => svc'[t] = svc[t]
        /\ \A t \in Services : Over(t) => Over(t)'
        /\ \A t \in Services : svc[t].phase # "new" => svc'[t].phase # "new"
    BY <1>1, <1>2 DEF TypeOK, TypeAPI, Over
  <1>5. SeenTruly'
    BY <1>1, <1>2, <1>4 DEF KeyInv, SeenTruly, cacheVars
  <1>6. Unborn'
    <2>1. \A p \in Pods, t \in Services : read'[t][p].on => read[t][p].on
      OBVIOUS
    <2>2. \A p \in Pods : admitted[p] \subseteq Services
      BY DEF TypeOK
    <2>. QED BY <1>4, <2>1, <2>2 DEF KeyInv, Unborn, podVars, cacheVars
  <1>7. InEveryCopy'
    <2>1. \A p \in Pods : admitted[p] \subseteq Services
      BY DEF TypeOK
    <2>2. ASSUME NEW p \in Pods, NEW u \in admitted[p], ~Over(u)'
          PROVE  /\ Exists(pods[p]) => u \in pods[p].keys
                 /\ Exists(cPods[p]) => u \in cPods[p].keys
                 /\ \A t \in Services : read'[t][p].on => u \in read'[t][p].keys
      <3>1. u \in Services /\ ~Over(u)
        BY <1>4, <2>1, <2>2
      <3>2. \A t \in Services : read'[t][p].on => read'[t][p] = read[t][p]
        OBVIOUS
      <3>. QED BY <3>1, <3>2 DEF KeyInv, InEveryCopy
    <2>. QED BY <2>2 DEF InEveryCopy, podVars, cacheVars
  <1>. QED BY <1>3, <1>5, <1>6, <1>7 DEF KeyInv

\* Nothing that KeyInv speaks of changes, but that reads may end and deletions be forgotten.
LEMMA RestInv ==
  ASSUME Inv, UNCHANGED <<svcVars, podVars, cacheVars, admitted>>,
         \A t \in Services : deleting'[t] => deleting[t],
         \A t \in Services, p \in Pods : read'[t][p].on => read'[t][p] = read[t][p]
  PROVE  KeyInv'
  BY DEF Inv, KeyInv, SeenTruly, Unborn, InEveryCopy, Over, svcVars, podVars, cacheVars

\* Returning: the worker holds nothing.
LEMMA ReturnType ==
  ASSUME TypeOK, NEW s \in Services, NEW b \in BOOLEAN, Return(s, b),
         todo[s] = {}, read[s] = NoneRead
  PROVE  /\ TypeReconcile'
         /\ \A t \in Services : pc'[t] # "patch" => todo'[t] = {} /\ read'[t] = NoneRead
         /\ \A t \in Services : deleting'[t] => deleting[t]
  BY DEF TypeOK, TypeReconcile, Return

-----------------------------------------------------------------------------
LEMMA NotFoundInv == ASSUME Inv, NEW s \in Services, ReconcileNotFound(s) PROVE Inv'
  <1>1. TypeOK'
    BY DEF Inv, ReconcileNotFound, TypeOK, TypeAPI, TypeReconcile, svcVars, podVars, cacheVars, recVars
  <1>2. KeyInv'
    BY RestInv DEF ReconcileNotFound, recVars
  <1>. QED BY <1>1, <1>2 DEF Inv

LEMMA EnsureInv == ASSUME Inv, NEW s \in Services, EnsureEmployerCleanFlz(s) PROVE Inv'
  <1> USE DEF Inv
  <1>1. queue' \subseteq Services /\ UNCHANGED <<podVars, cacheVars, recVars, admitted, changes>>
    BY DEF EnsureEmployerCleanFlz, TypeOK, TypeReconcile
  <1>2. faults' \in 0..MaxFaults
    BY ChargeType DEF EnsureEmployerCleanFlz, TypeOK
  <1>3. KeyInv' /\ svc' \in [Services -> Employers] /\ dirtySvc' \subseteq Services
    <2>1. CASE UNCHANGED svcVars
      BY <1>1, <2>1, RestInv DEF recVars, svcVars, TypeOK, TypeAPI
    <2>2. CASE s \notin dirtySvc /\ WriteSvc(s, [cSvc[s] EXCEPT !.clean = TRUE])
      <3> DEFINE v == [cSvc[s] EXCEPT !.clean = TRUE]
      <3>1. cSvc[s] \in Employers /\ cSvc[s].phase = "live" /\ cSvc[s] = svc[s]
        BY <2>2 DEF EnsureEmployerCleanFlz, TypeOK, TypeAPI, KeyInv, SeenTruly
      <3>2. v \in Employers /\ v.phase = "live" /\ ~Over(s)
        BY <3>1 DEF Employers, Over
      <3>. QED BY <1>1, <2>2, <3>2, WriteSvcInv DEF recVars
    <2>. QED BY <2>1, <2>2 DEF EnsureEmployerCleanFlz
  <1>. QED BY <1>1, <1>2, <1>3 DEF TypeOK, TypeAPI, TypeReconcile, podVars, cacheVars, recVars

LEMMA BeginInv == ASSUME Inv, NEW s \in Services, BeginReconcile(s) PROVE Inv'
  <1> USE DEF Inv
  <1>1. TypeOK'
    BY DEF BeginReconcile, GoingAway, Selected, TypeOK, TypeAPI, TypeReconcile, svcVars, podVars, cacheVars
  <1>2. SeenTruly'
    BY DEF BeginReconcile, GoingAway, KeyInv, SeenTruly, Over, svcVars, cacheVars, TypeOK, TypeReconcile
  <1>3. Unborn' /\ InEveryCopy'
    BY DEF BeginReconcile, KeyInv, Unborn, InEveryCopy, Over, svcVars, podVars, cacheVars
  <1>. QED BY <1>1, <1>2, <1>3 DEF KeyInv

\* Reading: what is in the cache's copy is in what was read.
LEMMA ReadInv == ASSUME Inv, NEW s \in Services, NEW p \in Pods, ReadPod(s, p) PROVE Inv'
  <1> USE DEF Inv
  <1>1. read' \in [Services -> [Pods -> Reads]]
    <2>1. cPods[p].keys \subseteq Services
      BY DEF TypeOK, TypeAPI, PodStates
    <2>2. [on |-> TRUE, keys |-> cPods[p].keys] \in Reads
      BY <2>1, ReadsAre
    <2>3. CASE ToPatch(s, p)
      <3> DEFINE r == [on |-> TRUE, keys |-> cPods[p].keys]
      <3>1. read' = [read EXCEPT ![s] = [@ EXCEPT ![p] = r]]
        BY <2>3 DEF ReadPod
      <3>2. r \in Reads
        BY <2>2
      <3> HIDE DEF r
      <3>. QED BY <3>1, <3>2 DEF TypeOK, TypeReconcile
    <2>. QED BY <2>3 DEF ReadPod, TypeOK, TypeReconcile
  <1>2. TypeOK'
    BY <1>1 DEF ReadPod, TypeOK, TypeAPI, TypeReconcile, svcVars, podVars, cacheVars
  <1>3. \A t \in Services, q \in Pods : read'[t][q].on =>
          \/ read'[t][q] = read[t][q]
          \/ q = p /\ Exists(cPods[p]) /\ read'[t][q].keys = cPods[p].keys
    BY DEF ReadPod, ToPatch, Exists, TypeOK, TypeReconcile
  <1>4. UNCHANGED <<svcVars, podVars, cacheVars, deleting, admitted>>
    BY DEF ReadPod
  <1>5. SeenTruly'
    BY <1>4 DEF KeyInv, SeenTruly, Over, svcVars, cacheVars
  <1>6. Unborn'
    BY <1>3, <1>4 DEF KeyInv, Unborn, Exists, svcVars, podVars, cacheVars
  <1>7. InEveryCopy'
    BY <1>3, <1>4 DEF KeyInv, InEveryCopy, Over, svcVars, podVars, cacheVars
  <1>. QED BY <1>2, <1>5, <1>6, <1>7 DEF KeyInv

\* Patching: all that was read is written back but the employer's own key, and that is taken off
\* only when the employer is being deleted.
LEMMA PatchInv == ASSUME Inv, NEW s \in Services, NEW p \in Pods, PatchPod(s, p) PROVE Inv'
  <1> USE DEF Inv
  <1> DEFINE v == [pods[p] EXCEPT !.keys = NewKeys(s, p)]
  <1>1. /\ UNCHANGED <<svcVars, cacheVars, queue, pc, deleting, todo, admitted, changes>>
        /\ read[s][p].on /\ pc[s] = "patch" /\ read' = [read EXCEPT ![s][p] = NotRead]
        /\ err' \in [Services -> BOOLEAN]
    BY DEF PatchPod, TypeOK, TypeReconcile
  <1>2. \/ UNCHANGED podVars
        \/ Exists(pods[p]) /\ WritePod(p, v)
    BY DEF PatchPod
  <1>3. faults' \in 0..MaxFaults
    BY ChargeType DEF PatchPod, TypeOK
  <1>4. /\ read' \in [Services -> [Pods -> Reads]]
        /\ \A t \in Services : pc[t] # "patch" => read'[t] = read[t]
        /\ \A t \in Services, q \in Pods : read'[t][q].on => read'[t][q] = read[t][q]
    BY <1>1, ReadsAre DEF TypeOK, TypeReconcile
  <1>5. NewKeys(s, p) \subseteq Services
    <2>1. read[s][p] \in Reads
      BY DEF TypeOK, TypeReconcile
    <2>. QED BY <2>1, ReadsAre DEF NewKeys
  <1>6. pods' \in [Pods -> PodStates] /\ dirtyPods' \subseteq Pods
    <2>1. v \in PodStates
      BY <1>5 DEF TypeOK, TypeAPI, PodStates
    <2>. QED BY <1>2, <2>1 DEF WritePod, podVars, TypeOK, TypeAPI
  <1>7. TypeOK'
    BY <1>1, <1>3, <1>4, <1>6 DEF TypeOK, TypeAPI, TypeReconcile, svcVars, cacheVars
  <1>8. /\ \A q \in Pods : pods'[q].phase = pods[q].phase
        /\ \A q \in Pods : q # p => pods'[q] = pods[q]
        /\ pods'[p].keys \in {pods[p].keys, NewKeys(s, p)}
    <2>1. CASE UNCHANGED podVars
      BY <2>1 DEF podVars
    <2>2. CASE WritePod(p, v)
      <3>1. pods[p] \in PodStates
        BY DEF TypeOK, TypeAPI
      <3>2. v.phase = pods[p].phase /\ v.keys = NewKeys(s, p)
        BY <3>1 DEF PodStates
      <3>. QED BY <2>2, <3>2 DEF WritePod, TypeOK, TypeAPI
    <2>. QED BY <1>2, <2>1, <2>2
  <1>9. SeenTruly'
    BY <1>1 DEF KeyInv, SeenTruly, Over, svcVars, cacheVars
  <1>10. Unborn'
    BY <1>1, <1>4, <1>8 DEF KeyInv, Unborn, svcVars, cacheVars
  <1>11. \A u \in admitted[p] : ~Over(u) => u \in NewKeys(s, p)
    BY <1>1 DEF NewKeys, KeyInv, InEveryCopy, SeenTruly
  <1>12. InEveryCopy'
    <2>1. ASSUME NEW q \in Pods, NEW u \in admitted[q], ~Over(u)
          PROVE  /\ Exists(pods'[q]) => u \in pods'[q].keys
                 /\ Exists(cPods[q]) => u \in cPods[q].keys
                 /\ \A t \in Services : read'[t][q].on => u \in read'[t][q].keys
      BY <1>4, <1>8, <1>11, <2>1 DEF KeyInv, InEveryCopy, Exists
    <2>. QED BY <1>1, <2>1 DEF InEveryCopy, Over, svcVars, cacheVars
  <1>. QED BY <1>7, <1>9, <1>10, <1>12 DEF KeyInv


\* A worker that is not patching, or whose batch is over, holds no pod.
LEMMA HoldsNone ==
  ASSUME TypeOK, NEW s \in Services, pc[s] # "patch" \/ BatchOver(s)
  PROVE  todo[s] = {} /\ read[s] = NoneRead
  <1>1. CASE pc[s] # "patch"
    BY <1>1 DEF TypeOK
  <1>2. CASE BatchOver(s)
    <2>1. \A p \in Pods : read[s][p] = NotRead
      BY <1>2, ReadsAre DEF BatchOver, TypeOK, TypeReconcile
    <2>2. read[s] \in [Pods -> Reads]
      BY DEF TypeOK, TypeReconcile
    <2>3. read[s] = NoneRead
      BY <2>1, <2>2 DEF NoneRead
    <2>. QED BY <1>2, <2>3 DEF BatchOver
  <1>. QED BY <1>1, <1>2

LEMMA EndInv == ASSUME Inv, NEW s \in Services, EndPatch(s) PROVE Inv'
  <1> USE DEF Inv
  <1>1. todo[s] = {} /\ read[s] = NoneRead
    BY HoldsNone DEF EndPatch
  <1>2. /\ UNCHANGED <<svcVars, podVars, cacheVars, admitted, changes, faults>>
        /\ TypeReconcile'
        /\ \A t \in Services : pc'[t] # "patch" => todo'[t] = {} /\ read'[t] = NoneRead
        /\ \A t \in Services : deleting'[t] => deleting[t]
        /\ read' = read
    <2>1. CASE Return(s, TRUE)
      BY <1>1, <2>1, ReturnType DEF EndPatch, Return
    <2>2. CASE pc' = [pc EXCEPT ![s] = "sync"] /\ UNCHANGED <<queue, deleting, todo, read, err>>
      BY <1>1, <2>2 DEF EndPatch, TypeOK, TypeReconcile
    <2>. QED BY <2>1, <2>2 DEF EndPatch
  <1>3. TypeOK'
    BY <1>2 DEF TypeOK, TypeAPI, svcVars, podVars, cacheVars
  <1>4. KeyInv'
    BY <1>2, RestInv
  <1>. QED BY <1>3, <1>4

LEMMA SyncInv == ASSUME Inv, NEW s \in Services, Sync(s) PROVE Inv'
  <1> USE DEF Inv
  <1>1. todo[s] = {} /\ read[s] = NoneRead
    BY HoldsNone DEF Sync
  <1>2. /\ TypeReconcile'
        /\ \A t \in Services : pc'[t] # "patch" => todo'[t] = {} /\ read'[t] = NoneRead
        /\ \A t \in Services : deleting'[t] => deleting[t]
        /\ read' = read
    <2>1. CASE Return(s, TRUE) \/ Return(s, FALSE)
      BY <1>1, <2>1, ReturnType DEF Return
    <2>2. CASE pc' = [pc EXCEPT ![s] = "clean"] /\ UNCHANGED <<queue, deleting, todo, read, err>>
      BY <1>1, <2>2 DEF TypeOK, TypeReconcile
    <2>. QED BY <2>1, <2>2 DEF Sync
  <1>3. faults' \in 0..MaxFaults
    BY ChargeType DEF Sync, TypeOK
  <1>4. TypeOK'
    BY <1>2, <1>3 DEF Sync, TypeOK, TypeAPI, svcVars, podVars, cacheVars
  <1>5. KeyInv'
    BY <1>2, RestInv DEF Sync
  <1>. QED BY <1>4, <1>5

LEMMA CleanInv == ASSUME Inv, NEW s \in Services, CleanEmployerCleanFinalizer(s) PROVE Inv'
  <1> USE DEF Inv
  <1>1. todo[s] = {} /\ read[s] = NoneRead
    BY HoldsNone DEF CleanEmployerCleanFinalizer
  <1>2. \E b \in BOOLEAN : Return(s, b)
    BY DEF CleanEmployerCleanFinalizer
  <1>3. /\ TypeReconcile'
        /\ \A t \in Services : pc'[t] # "patch" => todo'[t] = {} /\ read'[t] = NoneRead
        /\ \A t \in Services : deleting'[t] => deleting[t]
        /\ read' = read
    BY <1>1, <1>2, ReturnType DEF Return
  <1>4. faults' \in 0..MaxFaults
    BY ChargeType DEF CleanEmployerCleanFinalizer, TypeOK
  <1>5. UNCHANGED <<podVars, cacheVars, admitted, changes>>
    BY DEF CleanEmployerCleanFinalizer
  <1>6. KeyInv' /\ svc' \in [Services -> Employers] /\ dirtySvc' \subseteq Services
    <2>1. CASE UNCHANGED svcVars
      BY <1>3, <1>5, <2>1, RestInv DEF svcVars, TypeOK, TypeAPI
    <2>2. CASE /\ Exists(cSvc[s]) /\ s \notin dirtySvc
               /\ WriteSvc(s, [cSvc[s] EXCEPT !.clean = FALSE])
      <3> DEFINE v == [cSvc[s] EXCEPT !.clean = FALSE]
      <3>1. cSvc[s] \in Employers /\ cSvc[s].phase \in {"live", "deleting"} /\ cSvc[s] = svc[s]
        BY <2>2 DEF Exists, TypeOK, TypeAPI, KeyInv, SeenTruly
      <3>2. v \in Employers /\ v.phase = svc[s].phase
        BY <3>1 DEF Employers
      <3>3. Over(s) => v.phase = "deleting"
        BY <3>1, <3>2 DEF Over
      <3>. QED BY <1>3, <1>5, <2>2, <3>1, <3>2, <3>3, WriteSvcInv
    <2>. QED BY <2>1, <2>2 DEF CleanEmployerCleanFinalizer
  <1>7. TypeOK'
    BY <1>3, <1>4, <1>5, <1>6 DEF TypeOK, TypeAPI, podVars, cacheVars
  <1>. QED BY <1>6, <1>7

-----------------------------------------------------------------------------
LEMMA WatchInv ==
  ASSUME Inv, SyncPodCache \/ \E s \in Services : SyncSvcCache(s) PROVE Inv'
  <1> USE DEF Inv
  <1>1. CASE SyncPodCache
    <2>1. queue' \subseteq Services
      BY <1>1 DEF SyncPodCache, EventNames, TypeOK, TypeAPI, TypeReconcile, PodStates
    <2>2. TypeOK'
      BY <1>1, <2>1 DEF SyncPodCache, TypeOK, TypeAPI, TypeReconcile, svcVars, recVars
    <2>3. KeyInv'
      BY <1>1 DEF SyncPodCache, KeyInv, SeenTruly, Unborn, InEveryCopy, Over, svcVars, recVars
    <2>. QED BY <2>2, <2>3
  <1>2. ASSUME NEW s \in Services, SyncSvcCache(s) PROVE Inv'
    <2>1. TypeOK'
      BY <1>2 DEF SyncSvcCache, TypeOK, TypeAPI, TypeReconcile, podVars, recVars
    <2>2. SeenTruly'
      BY <1>2 DEF SyncSvcCache, KeyInv, SeenTruly, Over, TypeOK, TypeAPI, recVars
    <2>3. Unborn' /\ InEveryCopy'
      BY <1>2 DEF SyncSvcCache, KeyInv, Unborn, InEveryCopy, Over, podVars, recVars
    <2>. QED BY <2>1, <2>2, <2>3 DEF KeyInv
  <1>. QED BY <1>1, <1>2

LEMMA CrashInv == ASSUME Inv, Crash PROVE Inv'
  <1> USE DEF Inv
  <1>1. faults' \in 0..MaxFaults
    BY ChargeType DEF Crash, TypeOK
  <1>2. TypeOK'
    BY <1>1 DEF Crash, TypeOK, TypeAPI, TypeReconcile, NoneRead, Reads
  <1>3. SeenTruly'
    BY DEF Crash, SeenTruly, Over
  <1>4. \A t \in Services, p \in Pods : ~read'[t][p].on
    BY DEF Crash, NoneRead, NotRead
  <1>5. Unborn'
    BY <1>4 DEF Crash, KeyInv, Unborn
  <1>6. InEveryCopy'
    BY <1>4 DEF Crash, KeyInv, InEveryCopy, Over
  <1>. QED BY <1>2, <1>3, <1>5, <1>6 DEF KeyInv

LEMMA ServiceInv ==
  ASSUME Inv, NEW s \in Services, CreateService(s) \/ DeleteService(s) \/ LabelService(s) PROVE Inv'
  <1> USE DEF Inv
  <1>1. /\ changes' \in 0..MaxChanges
        /\ UNCHANGED <<podVars, cacheVars, queue, recVars, admitted, faults>>
    BY SharedAssumption DEF CreateService, DeleteService, LabelService, Change, TypeOK
  <1>2. PICK v \in Employers :
          /\ WriteSvc(s, v) /\ v.phase \in {"live", "deleting"}
          /\ Over(s) => v.phase = "deleting"
    <2>1. svc[s] \in Employers
      BY DEF TypeOK, TypeAPI
    <2>2. CASE CreateService(s)
      <3>1. PICK ctl \in BOOLEAN : WriteSvc(s, [phase |-> "live", clean |-> FALSE, ctl |-> ctl])
        BY <2>2 DEF CreateService
      <3>. QED BY <2>2, <3>1 DEF CreateService, Employers, Over
    <2>3. CASE DeleteService(s)
      <3> DEFINE v == [svc[s] EXCEPT !.phase = "deleting"]
      <3>1. v \in Employers /\ v.phase = "deleting"
        BY <2>1 DEF Employers
      <3>. QED BY <2>3, <3>1 DEF DeleteService
    <2>4. CASE LabelService(s)
      <3> DEFINE v == [svc[s] EXCEPT !.ctl = ~@]
      <3>1. v \in Employers /\ v.phase = svc[s].phase
        BY <2>1 DEF Employers
      <3>2. svc[s].phase \in {"live", "deleting"}
        BY <2>4 DEF LabelService, Exists
      <3>. QED BY <2>4, <3>1, <3>2 DEF LabelService, Over
    <2>. QED BY <2>2, <2>3, <2>4
  <1>3. KeyInv' /\ svc' \in [Services -> Employers] /\ dirtySvc' \subseteq Services
    BY <1>1, <1>2, WriteSvcInv DEF recVars
  <1>4. TypeOK'
    BY <1>1, <1>3 DEF TypeOK, TypeAPI, TypeReconcile, podVars, cacheVars, recVars
  <1>. QED BY <1>3, <1>4

\* A change of a pod other than its creation leaves the keys it has.
LEMMA OldPodInv ==
  ASSUME Inv, NEW p \in Pods, RelabelPod(p) \/ DeletePod(p) \/ PodGone(p) PROVE Inv'
  <1> USE DEF Inv
  <1>1. /\ changes' \in 0..MaxChanges
        /\ UNCHANGED <<svcVars, cacheVars, queue, recVars, admitted, faults>>
        /\ pods[p].phase # "new"
    BY SharedAssumption DEF RelabelPod, DeletePod, PodGone, Change, TypeOK, Exists
  <1>2. PICK v \in PodStates :
          /\ WritePod(p, v) /\ v.phase # "new"
          /\ Exists(v) => Exists(pods[p]) /\ v.keys = pods[p].keys
    <2>1. pods[p] \in PodStates
      BY DEF TypeOK, TypeAPI
    <2>2. CASE RelabelPod(p)
      <3>1. PICK sel \in SUBSET Services : WritePod(p, [pods[p] EXCEPT !.sel = sel])
        BY <2>2 DEF RelabelPod
      <3> DEFINE v == [pods[p] EXCEPT !.sel = sel]
      <3>2. v \in PodStates /\ v.phase = pods[p].phase /\ v.keys = pods[p].keys
        BY <2>1 DEF PodStates
      <3>. QED BY <1>1, <3>1, <3>2 DEF Exists
    <2>3. CASE DeletePod(p)
      <3> DEFINE v == [pods[p] EXCEPT !.phase = "deleting"]
      <3>1. v \in PodStates /\ v.phase = "deleting" /\ v.keys = pods[p].keys
        BY <2>1 DEF PodStates
      <3>. QED BY <2>3, <3>1 DEF DeletePod, Exists
    <2>4. CASE PodGone(p)
      BY <2>4, NoOnes DEF PodGone, NoPod, Exists
    <2>. QED BY <2>2, <2>3, <2>4
  <1>3. pods' \in [Pods -> PodStates] /\ dirtyPods' \subseteq Pods
    BY <1>2 DEF WritePod, TypeOK, TypeAPI
  <1>4. TypeOK'
    BY <1>1, <1>3 DEF TypeOK, TypeAPI, TypeReconcile, svcVars, cacheVars, recVars
  <1>5. pods'[p] = v /\ \A q \in Pods : q # p => pods'[q] = pods[q]
    BY <1>2 DEF WritePod, TypeOK, TypeAPI
  <1>6. SeenTruly'
    BY <1>1 DEF KeyInv, SeenTruly, Over, svcVars, cacheVars, recVars
  <1>7. Unborn'
    BY <1>1, <1>2, <1>5 DEF KeyInv, Unborn, svcVars, cacheVars, recVars
  <1>8. InEveryCopy'
    BY <1>1, <1>2, <1>5 DEF KeyInv, InEveryCopy, Over, svcVars, cacheVars, recVars
  <1>. QED BY <1>4, <1>6, <1>7, <1>8 DEF KeyInv

\* A pod is created: if its name is new, nobody has an older annotation of that name.
LEMMA NewPodInv == ASSUME Inv, NEW p \in Pods, CreatePod(p) PROVE Inv'
  <1> USE DEF Inv
  <1>1. /\ changes' \in 0..MaxChanges
        /\ UNCHANGED <<svcVars, cacheVars, queue, recVars, faults>>
    BY SharedAssumption DEF CreatePod, Change, TypeOK
  <1>2. PICK sel \in SUBSET Services, seen \in {cSvc, svc} :
          LET keys == Admission(seen, sel)
          IN  /\ WritePod(p, [phase |-> "live", sel |-> sel, keys |-> keys])
              /\ admitted' = [admitted EXCEPT ![p] = IF pods[p].phase = "new" THEN keys ELSE {}]
    BY DEF CreatePod
  <1> DEFINE keys == Admission(seen, sel)
             v == [phase |-> "live", sel |-> sel, keys |-> keys]
  <1>3. keys \subseteq Services /\ \A s \in keys : svc[s].phase # "new"
    BY DEF Admission, Exists, KeyInv, SeenTruly
  <1>4. v \in PodStates
    BY <1>3 DEF PodStates
  <1>5. /\ pods'[p] = v /\ \A q \in Pods : q # p => pods'[q] = pods[q]
        /\ admitted'[p] = (IF pods[p].phase = "new" THEN keys ELSE {})
        /\ \A q \in Pods : q # p => admitted'[q] = admitted[q]
    BY <1>2 DEF WritePod, TypeOK, TypeAPI
  <1>6. TypeOK'
    BY <1>1, <1>2, <1>3, <1>4 DEF WritePod, TypeOK, TypeAPI, TypeReconcile, svcVars, cacheVars, recVars
  <1>7. SeenTruly'
    BY <1>1 DEF KeyInv, SeenTruly, Over, svcVars, cacheVars, recVars
  <1>8. Unborn'
    BY <1>1, <1>3, <1>5 DEF KeyInv, Unborn, svcVars, cacheVars, recVars
  <1>9. InEveryCopy'
    BY <1>1, <1>5 DEF KeyInv, Unborn, InEveryCopy, Exists, Over, svcVars, cacheVars, recVars
  <1>. QED BY <1>6, <1>7, <1>8, <1>9 DEF KeyInv

LEMMA NextInv == Inv /\ [Next]_vars => Inv'
  <1> SUFFICES ASSUME Inv, [Next]_vars PROVE Inv'
    OBVIOUS
  <1>1. ASSUME NEW s \in Services, Reconcile(s) PROVE Inv'
    BY <1>1, NotFoundInv, EnsureInv, BeginInv, ReadInv, PatchInv, EndInv, SyncInv, CleanInv DEF Reconcile
  <1>2. CASE Environment
    BY <1>2, ServiceInv, OldPodInv, NewPodInv DEF Environment
  <1>3. CASE UNCHANGED vars
    BY <1>3, RestInv DEF Inv, TypeOK, TypeAPI, TypeReconcile, vars, svcVars, podVars, cacheVars, recVars
  <1>. QED BY <1>1, <1>2, <1>3, WatchInv, CrashInv DEF Next

-----------------------------------------------------------------------------
LEMMA AlwaysInv == Spec => []Inv
  BY InitInv, NextInv, PTL DEF Spec

\* Every variable keeps its type, and workers forget what they read.
THEOREM SharedTypes == Spec => []TypeOK
  BY AlwaysInv, PTL DEF Inv

\* A key given at admission is in every copy of the annotation that anybody may still write back.
THEOREM KeyInvariant == Spec => []KeyInv
  BY AlwaysInv, PTL DEF Inv

\* Whatever the employers' reconciles write over each other, a pod of a new name keeps the keys
\* that the webhook gave it for employers that live.
THEOREM AdmissionKept == Spec => []AdmittedKept
  <1>1. Inv => AdmittedKept
    BY DEF Inv, KeyInv, InEveryCopy, AdmittedKept, Over
  <1>. QED BY <1>1, AlwaysInv, PTL

-----------------------------------------------------------------------------
(* At rest.  What is still to be done is never forgotten: as long as a key *)
(* lacks, or an employer waits to be deleted, the employer is queued, or   *)
(* something the watches will report has changed, or its worker is on it,  *)
(* or, for the deletion, there are pods whose events will bring it back.   *)

\* What is not marked has been seen.
FreshPods == \A p \in Pods : p \notin dirtyPods => cPods[p] = pods[p]

LacksKey(s, p) ==
    /\ svc[s].phase = "live" /\ svc[s].ctl
    /\ pods[p].phase = "live" /\ s \in pods[p].sel /\ s \notin pods[p].keys
AtWork(s, p) == pc[s] = "patch" /\ (p \in todo[s] \/ read[s][p].on \/ err[s])
KeyComes(s, p) ==
    LacksKey(s, p) => s \in queue \/ s \in dirtySvc \/ p \in dirtyPods \/ AtWork(s, p)
ReleaseComes(s) ==
    svc[s].phase = "deleting" /\ svc[s].ctl =>
        s \in queue \/ s \in dirtySvc \/ (pc[s] # "idle" /\ deleting[s]) \/ Selected(s) # {}
Remembered == FreshPods /\ \A s \in Services : ReleaseComes(s) /\ \A p \in Pods : KeyComes(s, p)

\* A step that marks what it changes has to be looked at for the employers in T only, whose worker
\* or place in the queue it changes.
LEMMA Others ==
  ASSUME Remembered, NEW T \in SUBSET Services, UNCHANGED cacheVars,
         dirtySvc \subseteq dirtySvc', dirtyPods \subseteq dirtyPods',
         \A s \in Services : svc'[s] = svc[s] \/ s \in dirtySvc',
         \A p \in Pods : pods'[p] = pods[p] \/ p \in dirtyPods',
         \A s \in Services \ T :
            /\ s \in queue => s \in queue'
            /\ pc'[s] = pc[s] /\ todo'[s] = todo[s] /\ read'[s] = read[s]
            /\ err'[s] = err[s] /\ deleting'[s] = deleting[s],
         \A s \in T : ReleaseComes(s)' /\ \A p \in Pods : KeyComes(s, p)'
  PROVE  Remembered'
  <1>1. FreshPods'
    BY DEF Remembered, FreshPods, cacheVars
  <1>2. ASSUME NEW s \in Services \ T PROVE ReleaseComes(s)'
    BY <1>2 DEF Remembered, ReleaseComes, Selected, cacheVars
  <1>3. ASSUME NEW s \in Services \ T, NEW p \in Pods PROVE KeyComes(s, p)'
    <2>1. KeyComes(s, p)
      BY DEF Remembered
    <2>. QED BY <2>1 DEF KeyComes, LacksKey, AtWork
  <1>. QED BY <1>1, <1>2, <1>3 DEF Remembered

\* The same for a step that leaves the API server alone.
LEMMA OthersQuiet ==
  ASSUME Remembered, NEW s \in Services, UNCHANGED <<svcVars, podVars, cacheVars>>,
         \A t \in Services \ {s} :
            /\ t \in queue => t \in queue'
            /\ pc'[t] = pc[t] /\ todo'[t] = todo[t] /\ read'[t] = read[t]
            /\ err'[t] = err[t] /\ deleting'[t] = deleting[t],
         ReleaseComes(s)', \A p \in Pods : KeyComes(s, p)'
  PROVE  Remembered'
  BY Others, {s} \in SUBSET Services DEF svcVars, podVars

LEMMA ReturnElse ==
  ASSUME TypeOK, NEW s \in Services, NEW b \in BOOLEAN, Return(s, b)
  PROVE  /\ \A t \in Services \ {s} :
              /\ t \in queue => t \in queue'
              /\ pc'[t] = pc[t] /\ todo'[t] = todo[t] /\ read'[t] = read[t]
              /\ err'[t] = err[t] /\ deleting'[t] = deleting[t]
         /\ b => s \in queue'
         /\ s \in queue => s \in queue'
  BY DEF Return, TypeOK, TypeReconcile

LEMMA NotFoundComes ==
  ASSUME Inv, Remembered, NEW s \in Services, ReconcileNotFound(s) PROVE Remembered'
  <1>1. ~Exists(cSvc[s]) /\ UNCHANGED <<svcVars, podVars, cacheVars, recVars>> /\ queue' = queue \ {s}
    BY DEF ReconcileNotFound
  <1>2. s \notin dirtySvc => ~Exists(svc[s])
    BY <1>1 DEF Inv, KeyInv, SeenTruly
  <1>3. ReleaseComes(s)' /\ \A p \in Pods : KeyComes(s, p)'
    BY <1>1, <1>2 DEF ReleaseComes, KeyComes, LacksKey, Exists, svcVars
  <1>. QED BY <1>1, <1>3, OthersQuiet DEF recVars

LEMMA EnsureComes ==
  ASSUME Inv, Remembered, NEW s \in Services, EnsureEmployerCleanFlz(s) PROVE Remembered'
  <1>1. /\ UNCHANGED <<podVars, cacheVars, recVars>>
        /\ \A t \in Services \ {s} : t \in queue => t \in queue'
        /\ dirtySvc \subseteq dirtySvc'
        /\ \A t \in Services : svc'[t] = svc[t] \/ t \in dirtySvc'
    BY DEF EnsureEmployerCleanFlz, WriteSvc, svcVars, Inv, TypeOK, TypeAPI
  <1>2. s \in queue' \/ s \in dirtySvc'
    BY DEF EnsureEmployerCleanFlz, Outcomes, WriteSvc, svcVars
  <1>3. ReleaseComes(s)' /\ \A p \in Pods : KeyComes(s, p)'
    BY <1>2 DEF ReleaseComes, KeyComes
  <1>. QED BY <1>1, <1>3, Others, {s} \in SUBSET Services DEF recVars, podVars

\* The batch is made of what the cache shows, and that is all there is if nothing is marked.
LEMMA BeginComes ==
  ASSUME Inv, Remembered, NEW s \in Services, BeginReconcile(s) PROVE Remembered'
  <1>1. /\ UNCHANGED <<svcVars, podVars, cacheVars, read, err>> /\ queue' = queue \ {s}
        /\ pc'[s] = "patch" /\ deleting'[s] = (cSvc[s].phase = "deleting")
        /\ todo'[s] = Selected(s)
        /\ \A t \in Services \ {s} : pc'[t] = pc[t] /\ todo'[t] = todo[t] /\ deleting'[t] = deleting[t]
    BY DEF BeginReconcile, GoingAway, Inv, TypeOK, TypeReconcile
  <1>2. ReleaseComes(s)'
    BY <1>1 DEF ReleaseComes, svcVars, Inv, KeyInv, SeenTruly
  <1>3. \A p \in Pods : KeyComes(s, p)'
    BY <1>1 DEF KeyComes, LacksKey, AtWork, svcVars, podVars, Selected, Exists, Remembered, FreshPods
  <1>. QED BY <1>1, <1>2, <1>3, OthersQuiet

\* A pod that lacks the key, and is not marked, is found to lack it.
LEMMA ReadComes ==
  ASSUME Inv, Remembered, NEW s \in Services, NEW p \in Pods, ReadPod(s, p) PROVE Remembered'
  <1> USE DEF Inv
  <1>1. /\ UNCHANGED <<svcVars, podVars, cacheVars, queue, pc, deleting, err>> /\ pc[s] = "patch"
        /\ todo'[s] = todo[s] \ {p}
        /\ \A t \in Services \ {s} : todo'[t] = todo[t] /\ read'[t] = read[t]
    BY DEF ReadPod, TypeOK, TypeReconcile
  <1>2. \A q \in Pods : read[s][q].on => read'[s][q].on
    BY DEF ReadPod, TypeOK, TypeReconcile
  <1>3. ToPatch(s, p) => read'[s][p].on
    BY DEF ReadPod, TypeOK, TypeReconcile
  <1>4. LacksKey(s, p) /\ p \notin dirtyPods => ToPatch(s, p)
    BY DEF LacksKey, ToPatch, Remembered, FreshPods, KeyInv, SeenTruly, Over
  <1>5. ReleaseComes(s)'
    BY <1>1 DEF Remembered, ReleaseComes, Selected, svcVars, cacheVars
  <1>6. ASSUME NEW q \in Pods PROVE KeyComes(s, q)'
    <2>1. KeyComes(s, q)
      BY DEF Remembered
    <2>2. LacksKey(s, q)' <=> LacksKey(s, q)
      BY <1>1 DEF LacksKey, svcVars, podVars
    <2>. QED BY <1>1, <1>2, <1>3, <1>4, <2>1, <2>2 DEF KeyComes, AtWork, svcVars, podVars
  <1>. QED BY <1>1, <1>5, <1>6, OthersQuiet

\* A patch that neither fails nor changes the pod has found the key there, or the employer going.
LEMMA PatchComes ==
  ASSUME Inv, Remembered, NEW s \in Services, NEW p \in Pods, PatchPod(s, p) PROVE Remembered'
  <1> USE DEF Inv
  <1>1. /\ UNCHANGED <<svcVars, cacheVars, queue, pc, deleting, todo>> /\ pc[s] = "patch"
        /\ \A q \in Pods \ {p} : read'[s][q] = read[s][q]
        /\ \A t \in Services \ {s} : read'[t] = read[t] /\ err'[t] = err[t]
        /\ err[s] => err'[s]
    BY DEF PatchPod, TypeOK, TypeReconcile
  <1>2. /\ dirtyPods \subseteq dirtyPods'
        /\ \A q \in Pods : pods'[q] = pods[q] \/ q \in dirtyPods'
        /\ \A q \in Pods \ {p} : pods'[q] = pods[q]
    BY DEF PatchPod, WritePod, podVars, TypeOK, TypeAPI
  <1>3. p \in dirtyPods' \/ err'[s] \/ ~LacksKey(s, p)'
    <2> DEFINE v == [pods[p] EXCEPT !.keys = NewKeys(s, p)]
    <2>1. err'[s] \/ WritePod(p, v)
      BY DEF PatchPod, Outcomes, TypeOK, TypeReconcile
    <2>2. ASSUME WritePod(p, v), p \notin dirtyPods', ~deleting[s] PROVE s \in pods'[p].keys
      <3>1. pods[p] \in PodStates /\ pods'[p] = v
        BY <2>2 DEF WritePod, TypeOK, TypeAPI
      <3>. QED BY <2>2, <3>1 DEF NewKeys, PodStates
    <2>3. deleting[s] => ~LacksKey(s, p)'
      BY <1>1 DEF LacksKey, KeyInv, SeenTruly, Over, svcVars
    <2>. QED BY <2>1, <2>2, <2>3 DEF LacksKey
  <1>4. ReleaseComes(s)'
    BY <1>1 DEF Remembered, ReleaseComes, Selected, svcVars, cacheVars
  <1>5. ASSUME NEW q \in Pods PROVE KeyComes(s, q)'
    <2>1. CASE q = p
      BY <1>1, <1>3, <2>1 DEF KeyComes, AtWork
    <2>2. CASE q # p
      <3>1. KeyComes(s, q) /\ q \in Pods \ {p}
        BY <2>2 DEF Remembered
      <3>2. LacksKey(s, q)' <=> LacksKey(s, q)
        BY <1>1, <1>2, <3>1 DEF LacksKey, svcVars
      <3>. QED BY <1>1, <1>2, <3>1, <3>2 DEF KeyComes, AtWork, svcVars
    <2>. QED BY <2>1, <2>2
  <1>. QED BY <1>1, <1>2, <1>4, <1>5, Others, {s} \in SUBSET Services DEF svcVars

\* A batch without an error has left nothing undone; one with an error puts the employer back.
LEMMA EndComes ==
  ASSUME Inv, Remembered, NEW s \in Services, EndPatch(s) PROVE Remembered'
  <1> USE DEF Inv
  <1>1. UNCHANGED <<svcVars, podVars, cacheVars>>
    BY DEF EndPatch
  <1>2. CASE Return(s, TRUE)
    <2>1. ReleaseComes(s)' /\ \A p \in Pods : KeyComes(s, p)'
      BY <1>2, ReturnElse DEF ReleaseComes, KeyComes
    <2>. QED BY <1>1, <1>2, <2>1, ReturnElse, OthersQuiet
  <1>3. CASE ~err[s] /\ pc' = [pc EXCEPT ![s] = "sync"] /\ UNCHANGED <<queue, deleting, todo, read, err>>
    <2>1. ReleaseComes(s)'
      BY <1>1, <1>3 DEF Remembered, ReleaseComes, Selected, EndPatch, svcVars, cacheVars, TypeOK, TypeReconcile
    <2>2. ASSUME NEW p \in Pods PROVE KeyComes(s, p)'
      <3>1. KeyComes(s, p) /\ ~AtWork(s, p)
        BY <1>3 DEF Remembered, EndPatch, BatchOver, AtWork
      <3>. QED BY <1>1, <1>3, <3>1 DEF KeyComes, LacksKey, svcVars, podVars
    <2>3. \A t \in Services \ {s} : pc'[t] = pc[t]
      BY <1>3 DEF TypeOK, TypeReconcile
    <2>. QED BY <1>1, <1>3, <2>1, <2>2, <2>3, OthersQuiet
  <1>. QED BY <1>2, <1>3 DEF EndPatch

\* A worker that began before its employer was deleted leaves it to the deletion's event, one that
\* finds pods selected to theirs.
LEMMA SyncComes ==
  ASSUME Inv, Remembered, NEW s \in Services, Sync(s) PROVE Remembered'
  <1> USE DEF Inv
  <1>1. UNCHANGED <<svcVars, podVars, cacheVars>> /\ pc[s] = "sync"
    BY DEF Sync
  <1>2. ReleaseComes(s) /\ \A p \in Pods : KeyComes(s, p) /\ ~AtWork(s, p)
    BY <1>1 DEF Remembered, AtWork
  <1>3. CASE Return(s, TRUE) \/ ((~deleting[s] \/ Selected(s) # {}) /\ Return(s, FALSE))
    <2>1. s \in queue => s \in queue'
      BY <1>3, ReturnElse
    <2>2. ReleaseComes(s)'
      BY <1>1, <1>2, <1>3, <2>1, ReturnElse DEF ReleaseComes, Selected, svcVars, cacheVars
    <2>3. \A p \in Pods : KeyComes(s, p)'
      BY <1>1, <1>2, <2>1 DEF KeyComes, LacksKey, svcVars, podVars
    <2>. QED BY <1>1, <1>3, <2>2, <2>3, ReturnElse, OthersQuiet
  <1>4. CASE pc' = [pc EXCEPT ![s] = "clean"] /\ UNCHANGED <<queue, deleting, todo, read, err>>
    <2>1. pc'[s] = "clean" /\ \A t \in Services \ {s} : pc'[t] = pc[t]
      BY <1>4 DEF TypeOK, TypeReconcile
    <2>2. ReleaseComes(s)'
      BY <1>1, <1>2, <1>4, <2>1 DEF ReleaseComes, Selected, svcVars, cacheVars
    <2>3. \A p \in Pods : KeyComes(s, p)'
      BY <1>1, <1>2, <1>4 DEF KeyComes, LacksKey, svcVars, podVars
    <2>. QED BY <1>1, <1>4, <2>1, <2>2, <2>3, OthersQuiet
  <1>. QED BY <1>3, <1>4 DEF Sync

LEMMA CleanComes ==
  ASSUME Inv, Remembered, NEW s \in Services, CleanEmployerCleanFinalizer(s) PROVE Remembered'
  <1> USE DEF Inv
  <1>1. PICK b \in BOOLEAN : Return(s, b) /\ (b \/ s \in dirtySvc' \/ (~Exists(cSvc[s]) /\ UNCHANGED svcVars))
    BY DEF CleanEmployerCleanFinalizer, Outcomes, WriteSvc
  <1>2. /\ UNCHANGED <<podVars, cacheVars>> /\ dirtySvc \subseteq dirtySvc'
        /\ \A t \in Services : svc'[t] = svc[t] \/ t \in dirtySvc'
    BY DEF CleanEmployerCleanFinalizer, WriteSvc, svcVars, TypeOK, TypeAPI
  <1>3. s \notin dirtySvc => cSvc[s] = svc[s]
    BY DEF KeyInv, SeenTruly
  <1>4. ReleaseComes(s)' /\ \A p \in Pods : KeyComes(s, p)'
    BY <1>1, <1>3, ReturnElse DEF ReleaseComes, KeyComes, LacksKey, Exists, svcVars
  <1>. QED BY <1>1, <1>2, <1>4, ReturnElse, Others, {s} \in SUBSET Services DEF podVars

-----------------------------------------------------------------------------
\* What the watches take off the marks, they put into the queue.
LEMMA WatchComes ==
  ASSUME Inv, Remembered, SyncPodCache \/ \E s \in Services : SyncSvcCache(s) PROVE Remembered'
  <1> USE DEF Inv
  <1>1. CASE SyncPodCache
    <2>1. UNCHANGED <<svcVars, pods, cSvc, recVars>> /\ queue \subseteq queue' /\ cPods' = pods /\ dirtyPods' = {}
      BY <1>1 DEF SyncPodCache
    <2>2. FreshPods'
      BY <2>1 DEF FreshPods
    <2>3. ASSUME NEW s \in Services PROVE ReleaseComes(s)'
      <3>1. ReleaseComes(s)
        BY DEF Remembered
      <3>2. ASSUME NEW p \in Selected(s), svc[s].ctl, s \notin dirtySvc, Exists(svc[s])
            PROVE  s \in queue' \/ p \in Selected(s)'
        <4>1. CASE p \in dirtyPods
          BY <1>1, <3>2, <4>1 DEF SyncPodCache, EventNames, Selected, KeyInv, SeenTruly
        <4>2. CASE p \notin dirtyPods
          BY <2>1, <3>2, <4>2 DEF Selected, Remembered, FreshPods
        <4>. QED BY <4>1, <4>2
      <3>. QED BY <2>1, <3>1, <3>2 DEF ReleaseComes, Exists, svcVars, recVars
    <2>4. ASSUME NEW s \in Services, NEW p \in Pods PROVE KeyComes(s, p)'
      <3>1. KeyComes(s, p) /\ (LacksKey(s, p)' <=> LacksKey(s, p)) /\ (AtWork(s, p)' <=> AtWork(s, p))
        BY <2>1 DEF Remembered, LacksKey, AtWork, svcVars, recVars
      <3>2. LacksKey(s, p) /\ s \notin dirtySvc => s \in EventNames(p)
        BY DEF LacksKey, EventNames, Exists, KeyInv, SeenTruly, TypeOK, TypeAPI, PodStates
      <3>3. p \in dirtyPods /\ s \in EventNames(p) => s \in queue'
        BY <1>1 DEF SyncPodCache
      <3>. QED BY <2>1, <3>1, <3>2, <3>3 DEF KeyComes, svcVars
    <2>. QED BY <2>2, <2>3, <2>4 DEF Remembered
  <1>2. ASSUME NEW s \in Services, SyncSvcCache(s) PROVE Remembered'
    <2>1. /\ UNCHANGED <<svc, podVars, cPods, recVars>> /\ queue \subseteq queue'
          /\ dirtySvc' = dirtySvc \ {s} /\ (svc[s].ctl => s \in queue')
      BY <1>2 DEF SyncSvcCache
    <2>2. FreshPods'
      BY <2>1 DEF Remembered, FreshPods, podVars
    <2>3. ASSUME NEW t \in Services PROVE ReleaseComes(t)'
      BY <2>1 DEF Remembered, ReleaseComes, Selected, recVars
    <2>4. ASSUME NEW t \in Services, NEW p \in Pods PROVE KeyComes(t, p)'
      <3>1. KeyComes(t, p) /\ (LacksKey(t, p)' <=> LacksKey(t, p)) /\ (AtWork(t, p)' <=> AtWork(t, p))
        BY <2>1 DEF Remembered, LacksKey, AtWork, podVars, recVars
      <3>. QED BY <2>1, <3>1 DEF KeyComes, LacksKey, podVars
    <2>. QED BY <2>2, <2>3, <2>4 DEF Remembered
  <1>. QED BY <1>1, <1>2

LEMMA CrashComes == ASSUME Inv, Crash PROVE Remembered'
  BY DEF Crash, Remembered, FreshPods, ReleaseComes, KeyComes, LacksKey, Exists

LEMMA EnvironmentComes == ASSUME Inv, Remembered, Environment PROVE Remembered'
  <1> USE DEF Inv
  <1>1. UNCHANGED <<cacheVars, queue, recVars>>
    BY DEF Environment, CreateService, DeleteService, LabelService, CreatePod, RelabelPod, DeletePod, PodGone
  <1>2. dirtySvc \subseteq dirtySvc' /\ \A s \in Services : svc'[s] = svc[s] \/ s \in dirtySvc'
    BY DEF Environment, CreateService, DeleteService, LabelService, CreatePod, RelabelPod, DeletePod, PodGone,
           WriteSvc, svcVars, TypeOK, TypeAPI
  <1>3. dirtyPods \subseteq dirtyPods' /\ \A p \in Pods : pods'[p] = pods[p] \/ p \in dirtyPods'
    <2>1. CASE \E s \in Services : CreateService(s) \/ DeleteService(s) \/ LabelService(s)
      BY <2>1 DEF CreateService, DeleteService, LabelService, podVars
    <2>2. ASSUME NEW p \in Pods, CreatePod(p) \/ RelabelPod(p) \/ DeletePod(p) \/ PodGone(p)
          PROVE  \E v : WritePod(p, v)
      BY <2>2 DEF CreatePod, RelabelPod, DeletePod, PodGone
    <2>. QED BY <2>1, <2>2 DEF Environment, WritePod, TypeOK, TypeAPI
  <1>. QED BY <1>1, <1>2, <1>3, Others, {} \in SUBSET Services DEF recVars

LEMMA NextComes == Inv /\ Remembered /\ [Next]_vars => Remembered'
  <1> SUFFICES ASSUME Inv, Remembered, [Next]_vars PROVE Remembered'
    OBVIOUS
  <1>1. ASSUME NEW s \in Services, Reconcile(s) PROVE Remembered'
    BY <1>1, NotFoundComes, EnsureComes, BeginComes, ReadComes, PatchComes, EndComes, SyncComes,
       CleanComes DEF Reconcile
  <1>2. CASE UNCHANGED vars
    BY <1>2, Others, {} \in SUBSET Services DEF vars, svcVars, podVars, recVars
  <1>. QED BY <1>1, <1>2, WatchComes, CrashComes, EnvironmentComes DEF Next

LEMMA AlwaysRemembered == Spec => []Remembered
  <1>1. Init => Remembered
    BY DEF Init, Remembered, FreshPods, ReleaseComes, KeyComes, LacksKey, Exists
  <1>. QED BY <1>1, NextComes, AlwaysInv, PTL DEF Spec

\* Whenever the manager rests, every pod that a labelled employer selects has the employer's key,
\* whatever patches have taken with them.
THEOREM ExpectedAtRest == Spec => []QuiescentExpected
  <1>1. Remembered => QuiescentExpected
    BY DEF Remembered, KeyComes, LacksKey, AtWork, QuiescentExpected, Quiescent
  <1>. QED BY <1>1, AlwaysRemembered, PTL

\* Whenever the manager rests, a labelled employer that is being deleted waits for a pod that it
\* selects: the last one's going, or relabelling, has not been lost on it.
THEOREM GoneAtRest == Spec => []QuiescentGone
  <1>1. Remembered => QuiescentGone
    BY DEF Remembered, ReleaseComes, Selected, FreshPods, QuiescentGone, Quiescent
  <1>. QED BY <1>1, AlwaysRemembered, PTL
=============================================================================
