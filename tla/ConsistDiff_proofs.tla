------------------------ MODULE ConsistDiff_proofs ------------------------
(***************************************************************************)
(* What Consist and SlbConsist rely on when they compare two lists: the    *)
(* four parts of the comparison leave nothing out and share nothing, fit   *)
(* the slices they are put in, and what a round of calls has left undone   *)
(* is exactly what the next comparison finds.                              *)
(***************************************************************************)
EXTENDS ConsistDiff, Integers, FiniteSets, TLAPS, FiniteSetTheorems

\* Two lists of entries, by the same ids.
Lists(expect, current) ==
    /\ expect = [k \in DOMAIN expect |-> expect[k]]
    /\ current = [k \in DOMAIN expect |-> current[k]]

\* The ids a list has an entry for, and the ids that a round of calls is about.
Entries(list) == {k \in DOMAIN list : list[k] # "none"}
Differing(expect, current) ==
    ToCreate(expect, current) \cup ToUpdate(expect, current) \cup ToDelete(expect, current)

\* Every id of either list is in exactly one of the four parts: the calls are about disjoint ids,
\* so that their order and their failures cannot touch an entry twice (diffEmployer, diffEmployees).
THEOREM EachIdOnce ==
  ASSUME NEW expect, NEW current, Lists(expect, current)
  PROVE  /\ Differing(expect, current) \cup Same(expect, current) = Entries(expect) \cup Entries(current)
         /\ ToCreate(expect, current) \cap ToUpdate(expect, current) = {}
         /\ ToCreate(expect, current) \cap ToDelete(expect, current) = {}
         /\ ToUpdate(expect, current) \cap ToDelete(expect, current) = {}
         /\ Differing(expect, current) \cap Same(expect, current) = {}
<1>1. DOMAIN current = DOMAIN expect
  BY DEF Lists
<1>. QED BY <1>1 DEF Differing, Entries, ToCreate, ToUpdate, ToDelete, Same

\* What a round of calls has not done is what the next comparison finds, each id in the part it was
\* in, and what it has done is found unchanged: a reconcile that comes back after a failure
\* (resourceconsist_controller.go, lines 267-273) does the rest, and nothing twice.
THEOREM NextRoundDoesTheRest ==
  ASSUME NEW expect, NEW current, Lists(expect, current),
         NEW applied \in SUBSET Differing(expect, current)
  PROVE  LET left == Apply(expect, current, applied)
         IN  /\ Lists(expect, left)
             /\ ToCreate(expect, left) = ToCreate(expect, current) \ applied
             /\ ToUpdate(expect, left) = ToUpdate(expect, current) \ applied
             /\ ToDelete(expect, left) = ToDelete(expect, current) \ applied
             /\ Same(expect, left) = Same(expect, current) \cup (applied \cap Entries(expect))
<1>1. DOMAIN current = DOMAIN expect
  BY DEF Lists
<1>. DEFINE left == Apply(expect, current, applied)
<1>2. /\ DOMAIN left = DOMAIN expect
      /\ \A k \in DOMAIN expect : left[k] = IF k \in applied THEN expect[k] ELSE current[k]
  BY <1>1 DEF Apply
<1>3. Lists(expect, left)
  BY <1>1 DEF Lists, Apply
<1>4. applied \subseteq DOMAIN expect
  BY DEF Differing, ToCreate, ToUpdate, ToDelete
<1>5. ToCreate(expect, left) = ToCreate(expect, current) \ applied
  BY <1>2 DEF ToCreate
<1>6. ToUpdate(expect, left) = ToUpdate(expect, current) \ applied
  BY <1>2 DEF ToUpdate
<1>7. ToDelete(expect, left) = ToDelete(expect, current) \ applied
  BY <1>2 DEF ToDelete
<1>8. Same(expect, left) = Same(expect, current) \cup (applied \cap Entries(expect))
  BY <1>2, <1>4 DEF Same, Entries
<1>. QED BY <1>3, <1>5, <1>6, <1>7, <1>8

\* The provider has what is expected exactly if the comparison finds no difference; that is so once
\* every call has taken effect.
THEOREM NoDifferenceLeft ==
  ASSUME NEW expect, NEW current, Lists(expect, current)
  PROVE  /\ current = expect <=> Differing(expect, current) = {}
         /\ Apply(expect, current, Differing(expect, current)) = expect
<1>1. DOMAIN current = DOMAIN expect
  BY DEF Lists
<1>2. ASSUME NEW k \in DOMAIN expect, k \notin Differing(expect, current) PROVE current[k] = expect[k]
  BY <1>2, <1>1 DEF Differing, ToCreate, ToUpdate, ToDelete
<1>3. current = expect => Differing(expect, current) = {}
  BY DEF Differing, ToCreate, ToUpdate, ToDelete
<1>4. Differing(expect, current) = {} => current = expect
  BY <1>1, <1>2 DEF Lists
<1>5. Apply(expect, current, Differing(expect, current)) = expect
  BY <1>1, <1>2 DEF Apply, Lists
<1>. QED BY <1>3, <1>4, <1>5

\* A call that returns an error skips the ones after it (lines 190-205): nothing is deleted at the
\* provider unless everything that was to be created or updated has been.
THEOREM ErrorSparesDeletion ==
  ASSUME NEW expect, NEW current, NEW applied \in ErrorOutcomes(expect, current)
  PROVE  /\ applied \subseteq Differing(expect, current)
         /\ applied \cap ToDelete(expect, current) # {} =>
                ToCreate(expect, current) \cup ToUpdate(expect, current) \subseteq applied
         /\ applied \cap ToUpdate(expect, current) # {} => ToCreate(expect, current) \subseteq applied
<1>1. /\ ToCreate(expect, current) \cap ToUpdate(expect, current) = {}
      /\ ToCreate(expect, current) \cap ToDelete(expect, current) = {}
      /\ ToUpdate(expect, current) \cap ToDelete(expect, current) = {}
  BY DEF ToCreate, ToUpdate, ToDelete
<1>. QED BY <1>1 DEF ErrorOutcomes, Differing

\* The slices diffEmployees fills by index are as long as the lists: created entries number no more
\* than what is expected, and updated, unchanged and deleted ones no more than what is there, so
\* that no index is out of range.
THEOREM SlicesFit ==
  ASSUME NEW expect, NEW current, Lists(expect, current), IsFiniteSet(DOMAIN expect)
  PROVE  /\ Cardinality(ToCreate(expect, current)) <= Cardinality(Entries(expect))
         /\ Cardinality(ToUpdate(expect, current)) <= Cardinality(Entries(current))
         /\ Cardinality(Same(expect, current)) <= Cardinality(Entries(current))
         /\ Cardinality(ToDelete(expect, current)) <= Cardinality(Entries(current))
<1>1. /\ ToCreate(expect, current) \subseteq Entries(expect)
      /\ ToUpdate(expect, current) \subseteq Entries(current)
      /\ Same(expect, current) \subseteq Entries(current)
      /\ ToDelete(expect, current) \subseteq Entries(current)
  BY DEF Lists, Entries, ToCreate, ToUpdate, ToDelete, Same
<1>2. /\ IsFiniteSet(Entries(expect))
      /\ IsFiniteSet(Entries(current))
  BY FS_Subset DEF Lists, Entries
<1>. QED BY <1>1, <1>2, FS_Subset
=============================================================================
