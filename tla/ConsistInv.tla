----------------------------- MODULE ConsistInv -----------------------------
(***************************************************************************)
(* The inductive invariants behind the safety properties of Consist: why   *)
(* stale caches, stale held objects and lost answers do no harm.           *)
(***************************************************************************)
EXTENDS Consist

HasClean(e) == "clean" \in e.flz

\* What the watch has nothing to say about, the cache has right.
Fresh ==
    /\ ~dirtyEmployer => cEmployer = employer
    /\ \A p \in Pods \ dirtyPods : cPods[p] = pods[p]

\* Once an employer was seen live with the finalizer, only this controller takes it off, and not
\* before it has seen the deletion; once a deletion was seen, a live employer is a new one, which
\* has yet to be given the finalizer.
SeenGuarded ==
    /\ cEmployer.phase = "live" /\ HasClean(cEmployer) => HasClean(employer)
    /\ (cEmployer.phase = "deleting" \/ obj.phase = "deleting") /\ employer.phase = "live" =>
           ~HasClean(employer)

\* A name that may not be used again stays with the one employer that has used it.
SeenOnce ==
    /\ (employer.phase # "none" \/ cEmployer.phase # "none" \/ obj.phase # "none") => born
    /\ ~Recreate /\ (cEmployer.phase = "deleting" \/ obj.phase = "deleting") =>
           employer.phase # "live"

\* Reconcile holds an employer until it returns, and until the last step a live one has the
\* finalizer at the API server too, whatever has become of it since.
HeldGuarded ==
    /\ pc = "idle" <=> obj.phase = "none"
    /\ pc # "clean" /\ obj.phase = "live" => HasClean(employer)

\* The two provider flags are raised on what the provider holds, and stay true of it.
FlagsTrue ==
    /\ "erClean" \in res => /\ pc \notin {"idle", "patchExpected", "syncEmployer"}
                            /\ vip = "none"
    /\ "eeClean" \in res => /\ pc \notin {"idle", "patchExpected", "syncEmployer", "syncEmployees"}
                            /\ \A p \in Pods : rs[p] = "none"

GuardInv == Fresh /\ SeenGuarded /\ SeenOnce /\ HeldGuarded /\ FlagsTrue /\ BackendGuarded

\* A pod that does not exist has nothing.
Vacant == \A p \in Pods : pods[p].phase = "none" => pods[p] = NoPod
\* The pods that are to lose their protection are not served from the moment they are listed, those
\* listed for the record excepted; these are in the record of the employer in hand.
OffBeforeRemoval ==
    /\ pc \in {"collectUnselected", "addFlz", "delFlz"} => \A p \in toDel : rs[p] # "on"
    /\ pc \notin {"addFlz", "delFlz"} => toDrop = {}
    /\ toDrop \subseteq obj.lcRec /\ (~NeedRecordEmployees => toDrop = {})
\* Pods are given protection only for an employer that has the finalizer.
ProtectsGuarded ==
    pc \in {"collectUnselected", "addFlz"} /\ toAdd # {} => HasClean(employer)
ProtectInv == Vacant /\ OffBeforeRemoval /\ ProtectsGuarded
=============================================================================
