---------------------------- MODULE ConsistDiff ----------------------------
(***************************************************************************)
(* The comparison at the heart of a reconcile: what the adapter expects    *)
(* against what the provider reports, both keyed by id                     *)
(* (pkg/frame/controller/consister.go, diffEmployer and diffEmployees).    *)
(* A list of statuses is a function from ids to statuses, "none" where the *)
(* list has no entry; EmployerEqual / EmployeeEqual is equality.           *)
(***************************************************************************)

\* The ids that are expected and not there: ToCreate.
ToCreate(expect, current) ==
    {k \in DOMAIN expect : expect[k] # "none" /\ current[k] = "none"}

\* The ids that are on both sides with different statuses: ToUpdate.
ToUpdate(expect, current) ==
    {k \in DOMAIN expect : expect[k] # "none" /\ current[k] # "none" /\ expect[k] # current[k]}

\* The ids that are there and not expected: ToDelete.
ToDelete(expect, current) ==
    {k \in DOMAIN expect : expect[k] = "none" /\ current[k] # "none"}

\* The ids that are on both sides with the same status: Unchanged.
Same(expect, current) ==
    {k \in DOMAIN expect : expect[k] # "none" /\ expect[k] = current[k]}

\* What the provider holds once the calls on the ids in applied have taken effect.
Apply(expect, current, applied) ==
    [k \in DOMAIN current |-> IF k \in applied THEN expect[k] ELSE current[k]]

(***************************************************************************)
(* The three provider calls of syncEmployer and syncEmployees, in the      *)
(* order of the code: create, then update, then delete.  Each returns the  *)
(* entries it failed on, or an error that skips the calls after it; the    *)
(* call that returned the error may have taken effect for some entries.    *)
(* Empty lists are not sent to the provider, so they cannot fail.          *)
(***************************************************************************)

\* All three calls return: the entries in failed are reported as failed.
ReturnedOutcomes(expect, current) ==
    SUBSET (ToCreate(expect, current) \cup ToUpdate(expect, current) \cup ToDelete(expect, current))

\* One call returns an error: the ids whose calls have taken effect by then.
ErrorOutcomes(expect, current) ==
    LET c == ToCreate(expect, current)
        u == ToUpdate(expect, current)
        d == ToDelete(expect, current)
    IN  {a \in SUBSET c : c # {}} \cup {c \cup a : a \in {x \in SUBSET u : u # {}}}
            \cup {c \cup u \cup a : a \in {x \in SUBSET d : d # {}}}
=============================================================================
