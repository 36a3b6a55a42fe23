--------------------------- MODULE ParallelCalls ---------------------------
(***************************************************************************)
(* What a caller of SlowStartBatch relies on, with no word of batches,     *)
(* goroutines or channels: the calls asked for are made once each, in any  *)
(* order and side by side, and the caller is answered when none is under   *)
(* way any more: how many succeeded, and an error of one that failed.      *)
(***************************************************************************)
EXTENDS Naturals

CONSTANT Calls

VARIABLES
    asked, stop,       \* the calls asked for; may the rest be left out once one has failed?
    active, good, bad, \* the calls under way, those that succeeded, those that failed
    won,               \* how many succeeded
    answer             \* what the caller was told, if anything yet: the successes, and the error of one call

vars == <<asked, stop, active, good, bad, won, answer>>

\* An error of one of the calls, if there is one.
Errors == IF bad = {} THEN {{}} ELSE {{i} : i \in bad}

Init ==
    /\ asked \in SUBSET Calls /\ stop \in BOOLEAN
    /\ active = {} /\ good = {} /\ bad = {} /\ won = 0
    /\ answer = IF asked = {} THEN {[successes |-> 0, err |-> {}]} ELSE {}

Begin(i) ==
    /\ answer = {} /\ i \in asked \ (active \cup good \cup bad)
    /\ active' = active \cup {i}
    /\ UNCHANGED <<asked, stop, good, bad, won, answer>>

Succeed(i) ==
    /\ i \in active
    /\ active' = active \ {i} /\ good' = good \cup {i} /\ won' = won + 1
    /\ UNCHANGED <<asked, stop, bad, answer>>

Fail(i) ==
    /\ i \in active
    /\ active' = active \ {i} /\ bad' = bad \cup {i}
    /\ UNCHANGED <<asked, stop, good, won, answer>>

Answer ==
    /\ answer = {} /\ active = {}
    /\ asked = good \cup bad \/ (stop /\ bad # {})
    /\ \E e \in Errors : answer' = {[successes |-> won, err |-> e]}
    /\ UNCHANGED <<asked, stop, active, good, bad, won>>

Next == Answer \/ \E i \in Calls : Begin(i) \/ Succeed(i) \/ Fail(i)

Spec == Init /\ [][Next]_vars
=============================================================================
