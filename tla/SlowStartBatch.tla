--------------------------- MODULE SlowStartBatch ---------------------------
(***************************************************************************)
(* SlowStartBatch of pkg/utils/utils.go: count calls of a function, in     *)
(* batches that double, each call of a batch in a goroutine of its own.    *)
(* All the calls the controller makes on the pods of one reconcile go      *)
(* through it; Consist takes from it that every pod is tried once, and     *)
(* that an error of one of the calls comes back.                           *)
(***************************************************************************)
EXTENDS Integers, Sequences, FiniteSets

CONSTANTS
    MaxCount,   \* bound: calls asked for
    MaxInitial  \* bound: initialBatchSize

ASSUME BoundsAssumption == MaxCount \in Nat /\ MaxInitial \in Nat

VARIABLES
    count, initialBatchSize, shortCircuit,  \* the arguments
    remaining, successes, index, gotErr,    \* the local variables; gotErr: nil, or the error of one call
    batchSize, launched, errCh,             \* the running batch: its size, goroutines started, its channel
    running,                                \* the goroutines that have started and are not done
    called, failed,                         \* history: the calls that have started, and those that failed
    pc

args == <<count, initialBatchSize, shortCircuit>>
vars == <<args, remaining, successes, index, gotErr, batchSize, launched, errCh, running, called,
          failed, pc>>

intMin(l, r) == IF l < r THEN l ELSE r

\* The loop's header: another batch of size b, or the end.
Loop(b) ==
    /\ batchSize' = b /\ launched' = 0 /\ errCh' = <<>>
    /\ pc' = IF b > 0 THEN "batch" ELSE "done"

Init ==
    /\ count \in 0..MaxCount /\ initialBatchSize \in 0..MaxInitial /\ shortCircuit \in BOOLEAN
    /\ remaining = count /\ successes = 0 /\ index = 0 /\ gotErr = {}
    /\ batchSize = intMin(count, initialBatchSize) /\ launched = 0 /\ errCh = <<>>
    /\ pc = (IF batchSize > 0 THEN "batch" ELSE "done")
    /\ running = {} /\ called = {} /\ failed = {}

\* Mutant: the index is the loop variable's, which starts again in every batch.
NextIndex_OfBatch == launched
\* The call the next goroutine makes.
NextIndex == index

\* go func(index int) {...}(index); index++
Launch ==
    /\ pc = "batch" /\ launched < batchSize
    /\ running' = running \cup {NextIndex} /\ called' = called \cup {NextIndex}
    /\ index' = index + 1 /\ launched' = launched + 1
    /\ UNCHANGED <<args, remaining, successes, gotErr, batchSize, errCh, failed, pc>>

\* A call returns nil, and its goroutine is done.
Succeed(i) ==
    /\ i \in running \ failed
    /\ running' = running \ {i}
    /\ UNCHANGED <<args, remaining, successes, index, gotErr, batchSize, launched, errCh, called,
                   failed, pc>>

\* A call returns an error.
Fail(i) ==
    /\ i \in running \ failed
    /\ failed' = failed \cup {i}
    /\ UNCHANGED <<args, remaining, successes, index, gotErr, batchSize, launched, errCh, running,
                   called, pc>>

\* Mutant: room for one error only.
Capacity_One == 1
\* make(chan error, batchSize)
Capacity == batchSize

\* Its goroutine sends the error, as soon as the channel has room, and is done.
Send(i) ==
    /\ i \in running \cap failed /\ Len(errCh) < Capacity
    /\ running' = running \ {i} /\ errCh' = Append(errCh, i)
    /\ UNCHANGED <<args, remaining, successes, index, gotErr, batchSize, launched, called, failed, pc>>

\* Mutant: the last batch may be larger than what is left.
NextBatchSize_Doubles == IF remaining = batchSize THEN 0 ELSE 2 * batchSize
\* Mutant: the first batch is the last.
NextBatchSize_None == 0
\* Mutant: everything that is left, at once.
NextBatchSize_All == remaining - batchSize
NextBatchSize == intMin(2 * batchSize, remaining - batchSize)

\* Mutants: a batch that fails is counted whole; a batch that fails never ends the loop.
Succeeded_All == batchSize
Succeeded == batchSize - Len(errCh)
StopsHere_Never == FALSE
StopsHere == errCh # <<>> /\ shortCircuit

\* Mutant: the caller waits until all the goroutines have started.
Waited_ForStart == TRUE
\* wg.Wait(): all of them are done.
Waited == running = {}

\* When it is over, the errors are counted, and the first one received is kept.
EndBatch ==
    /\ pc = "batch" /\ launched = batchSize /\ Waited
    /\ successes' = successes + Succeeded
    /\ gotErr' = IF errCh # <<>> THEN {Head(errCh)} ELSE gotErr
    /\ IF StopsHere
       THEN pc' = "done" /\ UNCHANGED <<remaining, batchSize, launched, errCh>>
       ELSE remaining' = remaining - batchSize /\ Loop(NextBatchSize)
    /\ UNCHANGED <<args, index, running, called, failed>>

Next == Launch \/ EndBatch \/ \E i \in 0..MaxCount : Succeed(i) \/ Fail(i) \/ Send(i)

Spec == Init /\ [][Next]_vars

\* The caller and its goroutines keep going, and every call returns.
FairSpec == Spec /\ WF_vars(Next)

-----------------------------------------------------------------------------
(* Properties. *)

\* Every variable keeps its type.
TypeOK ==
    /\ count \in 0..MaxCount /\ initialBatchSize \in 0..MaxInitial /\ shortCircuit \in BOOLEAN
    /\ remaining \in 0..count /\ successes \in 0..count /\ index \in 0..count
    /\ gotErr \subseteq 0..MaxCount
    /\ batchSize \in 0..count /\ launched \in 0..batchSize /\ errCh \in Seq(0..MaxCount)
    /\ running \subseteq called /\ failed \subseteq called /\ called \subseteq 0..MaxCount
    /\ pc \in {"batch", "done"}

\* No pod is tried twice, and no call is made that was not asked for, across batches and goroutines.
CalledOnce ==
    [][index' # index => \E i \in 0..(count - 1) : i \notin called /\ called' = called \cup {i}]_vars

\* The result says what happened: the successes are counted right whatever order the goroutines
\* finish in, and an error comes back exactly if a call failed.
ReportsOutcome ==
    pc = "done" => /\ successes = Cardinality(called \ failed)
                   /\ gotErr = {} <=> failed = {}
                   /\ gotErr \subseteq failed

\* Unless asked to stop at a failure, it makes every call: no pod is passed over because a call
\* for another one failed in an earlier batch.  So do all the callers use it; the comment above the
\* code says otherwise (SkipsRemainingBatches).
MakesEveryCall ==
    pc = "done" /\ initialBatchSize > 0 /\ (~shortCircuit \/ failed = {}) => called = 0..(count - 1)

\* It starts slowly: no more calls are in flight than have ended before the batch, and a first batch.
StartsSlowly ==
    Cardinality(running) <= initialBatchSize + (index - launched)

\* Asked to stop at a failure, it starts no call once a batch has failed.
StopsAtFailure ==
    [][shortCircuit /\ gotErr # {} => called' = called]_vars

\* What its comment says: if there are any failures in a batch, all remaining batches are skipped.
SkipsRemainingBatches ==
    [][gotErr # {} => called' = called]_vars

\* It does for its caller what ParallelCalls says, whatever the sizes of the batches: each step is one
\* of that specification's or none of them.  So nobody who waits for the answer need know of batches,
\* and no call is under way, or begins, once there is one.
Calls == INSTANCE ParallelCalls WITH
    Calls <- 0..MaxCount,
    asked <- IF initialBatchSize > 0 THEN 0..(count - 1) ELSE {}, stop <- shortCircuit,
    active <- running \ failed, good <- called \ (running \cup failed), bad <- failed,
    won <- Cardinality(called \ (running \cup failed)),
    answer <- IF pc = "done" THEN {[successes |-> successes, err |-> gotErr]} ELSE {}
ImplementsCalls == Calls!Spec

\* A goroutine never waits to hand in its error: the caller reads the channel only when all of them
\* are done, so that one that waited would wait for ever, and the caller with it.
NeverBlocks == running \cap failed # {} => Len(errCh) < Capacity

\* What is left to do: a call has three steps, a batch one, and the loop ends once.
Distance ==
    3 * (count - index) + Cardinality(running) + Cardinality(running \ failed)
      + remaining + (IF pc = "batch" THEN 1 ELSE 0)
\* Every step of the caller or of a goroutine leaves less to do: however the sizes of the batches
\* come out, the loop does not go round for nothing, nor past the last call.
Progresses == [][Distance' \in Nat /\ Distance' < Distance]_vars

\* It returns.
Terminates == <>(pc = "done")

-----------------------------------------------------------------------------
(* The inductive invariant. *)

\* The calls are numbered as they start.
Numbered == called = 0..(index - 1) /\ running \cup failed \subseteq called

\* The failures whose error has been sent.
Sent == failed \ running

\* What the local variables say while a batch is under way.
InBatch ==
    pc = "batch" =>
        /\ 0 < initialBatchSize /\ 0 < batchSize /\ batchSize <= remaining
        /\ index = (count - remaining) + launched
        /\ batchSize <= initialBatchSize + (count - remaining)
        /\ Cardinality(running) + Len(errCh) <= launched
        /\ successes + Cardinality(Sent) = (index - launched) + Len(errCh)

\* The errors of the batch are in its channel, those of the batches before it in gotErr.
BatchErrors ==
    pc = "batch" => /\ Sent = {} <=> gotErr = {} /\ errCh = <<>>
                    /\ shortCircuit => gotErr = {}

\* What they say at the end.
AtEnd ==
    pc = "done" =>
        /\ running = {} /\ successes + Cardinality(failed) = index
        /\ failed = {} <=> gotErr = {}
        /\ index = count \/ initialBatchSize = 0 \/ (shortCircuit /\ failed # {})

\* Only errors of failed calls are reported.
ErrorsTrue ==
    /\ gotErr \subseteq failed /\ \A e, f \in gotErr : e = f
    /\ \A k \in 1..Len(errCh) : errCh[k] \in failed

BatchInv == TypeOK /\ launched <= index /\ Numbered /\ InBatch /\ BatchErrors /\ AtEnd /\ ErrorsTrue
=============================================================================
