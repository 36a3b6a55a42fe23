-------------------------- MODULE BackendContract --------------------------
(***************************************************************************)
(* What the controller promises about one employer, with no word of        *)
(* caches, conflicts or retries (docs/keyconcepts.md, LifecycleFinalizer   *)
(* and CleanFinalizer): the employer is guarded by the clean finalizer     *)
(* whenever the provider holds anything for it, pods are protected by the  *)
(* lifecycle finalizer only under that guard, and a pod's protection is    *)
(* lifted only when its traffic is off, unless the employer names the pods *)
(* it protects: then the pods that have left it are let go as they are.    *)
(***************************************************************************)
CONSTANTS
    Pods,
    Named   \* does the employer name the pods it protects?

VARIABLES
    guarded,    \* does the employer have the clean finalizer?
    entry,      \* the employer's entry at the provider
    traffic,    \* the traffic of each pod at the provider: "none", "off" or "on"
    protected   \* has the pod the employer's lifecycle finalizer?

vars == <<guarded, entry, traffic, protected>>

Empty == entry = "none" /\ \A p \in Pods : traffic[p] = "none"

Init ==
    /\ guarded = FALSE /\ entry = "none"
    /\ traffic = [p \in Pods |-> "none"] /\ protected = [p \in Pods |-> FALSE]

\* The employer is taken under control.
Guard ==
    /\ ~guarded /\ guarded' = TRUE
    /\ UNCHANGED <<entry, traffic, protected>>

\* The provider is told what to hold, all of it in one go or part of it.
Serve ==
    /\ guarded
    /\ entry' \in {"none", "drift", "ok"} /\ traffic' \in [Pods -> {"none", "off", "on"}]
    /\ UNCHANGED <<guarded, protected>>

Protect(p) ==
    /\ guarded /\ ~protected[p]
    /\ protected' = [protected EXCEPT ![p] = TRUE]
    /\ UNCHANGED <<guarded, entry, traffic>>

Unprotect(p) ==
    /\ protected[p] /\ (traffic[p] # "on" \/ Named)
    /\ protected' = [protected EXCEPT ![p] = FALSE]
    /\ UNCHANGED <<guarded, entry, traffic>>

\* The employer is let go.
Unguard ==
    /\ guarded /\ Empty /\ guarded' = FALSE
    /\ UNCHANGED <<entry, traffic, protected>>

Next == Guard \/ Serve \/ Unguard \/ \E p \in Pods : Protect(p) \/ Unprotect(p)

Spec == Init /\ [][Next]_vars
=============================================================================
