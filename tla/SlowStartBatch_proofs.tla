------------------------ MODULE SlowStartBatch_proofs ------------------------
(***************************************************************************)
(* SlowStartBatch, for every number of calls, size of the first batch,     *)
(* order of the goroutines and pattern of failures.                        *)
(***************************************************************************)
EXTENDS SlowStartBatch, FiniteSetTheorems, TLAPS

\* The smaller of two numbers.
LEMMA intMinFact ==
  ASSUME NEW l \in Int, NEW r \in Int
  PROVE  intMin(l, r) \in {l, r} /\ intMin(l, r) <= l /\ intMin(l, r) <= r
  BY DEF intMin

\* The calls in flight and the failed ones can be counted.
LEMMA FiniteCalls ==
  ASSUME TypeOK
  PROVE  /\ IsFiniteSet(called) /\ IsFiniteSet(running) /\ IsFiniteSet(failed)
         /\ Cardinality(running) \in Nat /\ Cardinality(failed) \in Nat /\ Len(errCh) \in Nat
         /\ IsFiniteSet(Sent) /\ Cardinality(Sent) \in Nat
<1>1. IsFiniteSet(0..MaxCount)
  BY BoundsAssumption, FS_Interval DEF BoundsAssumption
<1>2. IsFiniteSet(called)
  BY <1>1, FS_Subset DEF TypeOK
<1>3. IsFiniteSet(running) /\ IsFiniteSet(failed) /\ IsFiniteSet(Sent)
  BY <1>2, FS_Subset DEF TypeOK, Sent
<1>4. Len(errCh) \in Nat
  BY DEF TypeOK
<1>. QED BY <1>2, <1>3, <1>4, FS_CardinalityType

\* A call that returns leaves one call fewer in flight.
LEMMA ReturnCounts ==
  ASSUME TypeOK, NEW i \in running
  PROVE  Cardinality(running \ {i}) = Cardinality(running) - 1
  BY FiniteCalls, FS_RemoveElement

\* The inductive invariant.
THEOREM BatchInvariant == Spec => []BatchInv
<1>. USE BoundsAssumption DEF BoundsAssumption
<1>1. Init => BatchInv
  <2>. SUFFICES ASSUME Init PROVE BatchInv
    OBVIOUS
  <2>1. /\ batchSize \in 0..count /\ batchSize <= initialBatchSize
        /\ (batchSize = 0 => count = 0 \/ initialBatchSize = 0)
    BY intMinFact DEF Init
  <2>2. Cardinality({}) = 0
    BY FS_EmptySet
  <2>3. TypeOK
    BY <2>1 DEF Init, TypeOK
  <2>4. launched <= index /\ Numbered /\ ErrorsTrue
    BY DEF Init, Numbered, ErrorsTrue
  <2>5. InBatch /\ BatchErrors /\ AtEnd
    BY <2>1, <2>2 DEF Init, InBatch, BatchErrors, AtEnd, Sent
  <2>. QED BY <2>3, <2>4, <2>5 DEF BatchInv
<1>2. BatchInv /\ [Next]_vars => BatchInv'
  <2>. SUFFICES ASSUME BatchInv, [Next]_vars PROVE BatchInv'
    OBVIOUS
  <2>. USE DEF BatchInv, args
  <2>1. CASE Launch
    <3>1. /\ called' = called \cup {index} /\ running' = running \cup {index}
          /\ index' = index + 1 /\ launched' = launched + 1 /\ launched < batchSize /\ pc = "batch"
          /\ UNCHANGED <<args, remaining, successes, gotErr, batchSize, errCh, failed, pc>>
      BY <2>1 DEF Launch, NextIndex
    <3>2. index < count /\ index \notin called
      BY <3>1 DEF TypeOK, InBatch, Numbered
    <3>3. Cardinality(running') = Cardinality(running) + 1
      BY <3>1, <3>2, FiniteCalls, FS_AddElement DEF Numbered
    <3>4. TypeOK' /\ Sent' = Sent
      BY <3>1, <3>2 DEF TypeOK, Sent, Numbered
    <3>5. Numbered'
      BY <3>1, <3>2 DEF Numbered, TypeOK
    <3>6. InBatch' /\ (launched <= index)'
      BY <3>1, <3>3, <3>4, FiniteCalls DEF InBatch, TypeOK
    <3>7. AtEnd' /\ BatchErrors' /\ ErrorsTrue'
      BY <3>1, <3>4 DEF AtEnd, BatchErrors, ErrorsTrue
    <3>. QED BY <3>4, <3>5, <3>6, <3>7
  <2>2. ASSUME NEW i \in 0..MaxCount, Succeed(i) PROVE BatchInv'
    <3>1. /\ i \in running \ failed /\ running' = running \ {i}
          /\ UNCHANGED <<args, remaining, successes, index, gotErr, batchSize, launched, errCh,
                         called, failed, pc>>
      BY <2>2 DEF Succeed
    <3>5. Sent' = Sent
      BY <3>1 DEF Sent
    <3>2. Cardinality(running') = Cardinality(running) - 1
      BY <3>1, ReturnCounts
    <3>3. TypeOK' /\ Numbered' /\ BatchErrors' /\ ErrorsTrue' /\ AtEnd'
      BY <3>1, <3>5 DEF TypeOK, Numbered, BatchErrors, ErrorsTrue, AtEnd
    <3>4. InBatch' /\ (launched <= index)'
      BY <3>1, <3>2, <3>5, FiniteCalls DEF InBatch, TypeOK
    <3>. QED BY <3>3, <3>4
  <2>3. ASSUME NEW i \in 0..MaxCount, Send(i) PROVE BatchInv'
    <3>1. /\ i \in running \cap failed /\ running' = running \ {i}
          /\ errCh' = Append(errCh, i) /\ Len(errCh) < batchSize
          /\ UNCHANGED <<args, remaining, successes, index, gotErr, batchSize, launched, called, failed,
                         pc>>
      BY <2>3 DEF Send, Capacity
    <3>2. /\ Cardinality(running') = Cardinality(running) - 1
          /\ Sent' = Sent \cup {i} /\ i \notin Sent
          /\ Cardinality(Sent') = Cardinality(Sent) + 1
      <4>1. Sent' = Sent \cup {i} /\ i \notin Sent
        BY <3>1 DEF Sent
      <4>. QED BY <3>1, <4>1, ReturnCounts, FiniteCalls, FS_AddElement
    <3>3. /\ errCh' \in Seq(0..MaxCount) /\ Len(errCh') = Len(errCh) + 1 /\ errCh' # <<>>
          /\ \A k \in 1..Len(errCh') : errCh'[k] \in failed'
      BY <3>1 DEF TypeOK, ErrorsTrue
    <3>4. pc = "batch"
      BY <3>1 DEF AtEnd, TypeOK
    <3>5. TypeOK' /\ Numbered' /\ BatchErrors' /\ ErrorsTrue' /\ AtEnd'
      BY <3>1, <3>2, <3>3, <3>4 DEF TypeOK, Numbered, BatchErrors, ErrorsTrue, AtEnd
    <3>6. Cardinality(running') + Len(errCh') <= launched'
      BY <3>1, <3>2, <3>3, <3>4, FiniteCalls DEF InBatch
    <3>7. successes' + Cardinality(Sent') = (index' - launched') + Len(errCh')
      <4>1. successes + Cardinality(Sent) = (index - launched) + Len(errCh)
        BY <3>4 DEF InBatch
      <4>2. successes \in Nat /\ index \in Nat /\ launched \in Nat
        BY DEF TypeOK
      <4>3. /\ successes' = successes /\ index' = index /\ launched' = launched
            /\ Len(errCh') = Len(errCh) + 1
            /\ Cardinality(Sent') = Cardinality(Sent) + 1
        BY <3>1, <3>2, <3>3
      <4>4. Cardinality(Sent) \in Nat /\ Len(errCh) \in Nat
        BY FiniteCalls
      <4>. HIDE DEF BatchInv
      <4>. QED BY <4>1, <4>2, <4>3, <4>4
    <3>8. InBatch' /\ (launched <= index)'
      BY <3>1, <3>6, <3>7 DEF InBatch
    <3>. QED BY <3>5, <3>8
  <2>6. ASSUME NEW i \in 0..MaxCount, Fail(i) PROVE BatchInv'
    <3>1. /\ i \in running \ failed /\ failed' = failed \cup {i}
          /\ UNCHANGED <<args, remaining, successes, index, gotErr, batchSize, launched, errCh,
                         running, called, pc>>
      BY <2>6 DEF Fail
    <3>2. Sent' = Sent
      BY <3>1 DEF Sent
    <3>3. pc = "batch"
      BY <3>1 DEF AtEnd, TypeOK
    <3>4. TypeOK' /\ Numbered' /\ BatchErrors' /\ ErrorsTrue' /\ AtEnd'
      BY <3>1, <3>2, <3>3 DEF TypeOK, Numbered, BatchErrors, ErrorsTrue, AtEnd
    <3>5. InBatch' /\ (launched <= index)'
      BY <3>1, <3>2 DEF InBatch
    <3>. QED BY <3>4, <3>5
  <2>4. CASE EndBatch
    <3>1. /\ pc = "batch" /\ launched = batchSize /\ running = {}
          /\ successes' = successes + (batchSize - Len(errCh))
          /\ UNCHANGED <<args, index, running, called, failed>>
      BY <2>4 DEF EndBatch, Succeeded, Waited
    <3>2. Cardinality(running) = 0 /\ Sent = failed
      BY <3>1, FS_EmptySet DEF Sent
    <3>3. Len(errCh) \in Nat /\ Len(errCh) <= batchSize
      BY <3>1, <3>2 DEF InBatch, TypeOK
    <3>4. /\ successes' + Cardinality(failed) = index
          /\ successes' \in 0..count
      <4>1. successes + Cardinality(failed) = (index - launched) + Len(errCh)
        BY <3>1, <3>2 DEF InBatch
      <4>2. /\ successes \in Nat /\ batchSize \in Nat /\ index \in Nat /\ index <= count /\ count \in Nat
            /\ launched = batchSize
        BY <3>1 DEF TypeOK
      <4>3. successes' + Cardinality(failed) = index
        BY <3>1, <3>3, <4>1, <4>2, FiniteCalls
      <4>. QED BY <3>1, <3>3, <4>2, <4>3, FiniteCalls
    <3>5. /\ gotErr' \subseteq failed /\ gotErr' \subseteq 0..MaxCount
          /\ \A e, f \in gotErr' : e = f
          /\ failed = {} <=> gotErr' = {}
          /\ errCh # <<>> => gotErr' # {}
      <4>1. CASE errCh # <<>>
        <5>1. Head(errCh) = errCh[1] /\ 1 \in 1..Len(errCh)
          BY <4>1 DEF TypeOK
        <5>2. gotErr' = {Head(errCh)} /\ Head(errCh) \in failed
          BY <2>4, <4>1, <5>1 DEF EndBatch, ErrorsTrue
        <5>. QED BY <5>2 DEF TypeOK
      <4>2. CASE errCh = <<>>
        BY <2>4, <3>1, <3>2, <4>2 DEF EndBatch, BatchErrors, ErrorsTrue, TypeOK
      <4>. QED BY <4>1, <4>2
    <3>6. CASE StopsHere
      <4>1. pc' = "done" /\ UNCHANGED <<remaining, batchSize, launched, errCh>>
        BY <2>4, <3>6 DEF EndBatch
      <4>2. shortCircuit /\ failed # {}
        BY <3>5, <3>6 DEF StopsHere
      <4>3. TypeOK' /\ Numbered' /\ ErrorsTrue'
        BY <3>1, <3>4, <3>5, <4>1 DEF TypeOK, Numbered, ErrorsTrue
      <4>4. InBatch' /\ BatchErrors' /\ AtEnd' /\ (launched <= index)'
        BY <3>1, <3>4, <3>5, <4>1, <4>2 DEF InBatch, BatchErrors, AtEnd
      <4>. QED BY <4>3, <4>4
    <3>7. CASE ~StopsHere
      <4>. DEFINE b == NextBatchSize
      <4>1. /\ remaining' = remaining - batchSize /\ batchSize' = b /\ launched' = 0 /\ errCh' = <<>>
            /\ pc' = IF b > 0 THEN "batch" ELSE "done"
        BY <2>4, <3>7 DEF EndBatch, Loop
      <4>2. /\ b \in 0..(remaining - batchSize) /\ b <= 2 * batchSize
            /\ b = 0 => remaining = batchSize
        BY <3>1, intMinFact DEF NextBatchSize, InBatch, TypeOK
      <4>3. index = count - remaining'
        BY <3>1, <4>1 DEF InBatch, TypeOK
      <4>4. shortCircuit => errCh = <<>> /\ gotErr' = {}
        BY <2>4, <3>1, <3>7 DEF StopsHere, EndBatch, BatchErrors
      <4>. HIDE DEF b
      <4>5. TypeOK'
        BY <3>1, <3>4, <3>5, <4>1, <4>2 DEF TypeOK, InBatch
      <4>6. Numbered' /\ ErrorsTrue' /\ (launched <= index)'
        BY <3>1, <3>5, <4>1 DEF TypeOK, Numbered, ErrorsTrue
      <4>7. InBatch'
        BY <3>1, <3>2, <3>4, <4>1, <4>2, <4>3, FiniteCalls DEF InBatch, TypeOK, Sent
      <4>9. BatchErrors'
        BY <3>1, <3>5, <4>1, <4>4 DEF BatchErrors, Sent
      <4>8. AtEnd'
        BY <3>1, <3>4, <3>5, <4>1, <4>2, <4>3 DEF AtEnd, TypeOK
      <4>. QED BY <4>5, <4>6, <4>7, <4>8, <4>9
    <3>. QED BY <3>6, <3>7
  <2>5. CASE UNCHANGED vars
    BY <2>5 DEF vars, TypeOK, Numbered, InBatch, BatchErrors, AtEnd, ErrorsTrue, Sent
  <2>. QED BY <2>1, <2>2, <2>3, <2>4, <2>5, <2>6 DEF Next
<1>. QED BY <1>1, <1>2, PTL DEF Spec

\* Every variable keeps its type: the batch neither grows past what remains nor counts below zero.
THEOREM BatchTypes == Spec => []TypeOK
  BY BatchInvariant, PTL DEF BatchInv

\* The result tells the caller of every failure: the successes are counted right, and an error comes
\* back exactly if a call failed.
THEOREM Reports == Spec => []ReportsOutcome
<1>1. BatchInv => ReportsOutcome
  <2>. SUFFICES ASSUME BatchInv, pc = "done"
                PROVE  /\ successes = Cardinality(called \ failed)
                       /\ gotErr = {} <=> failed = {}
                       /\ gotErr \subseteq failed
    BY DEF ReportsOutcome
  <2>1. Cardinality(called) = index
    BY FS_Interval DEF BatchInv, TypeOK, Numbered
  <2>2. called \cap failed = failed
    BY DEF BatchInv, Numbered
  <2>3. Cardinality(called \ failed) = Cardinality(called) - Cardinality(failed)
    BY <2>2, FiniteCalls, FS_Difference DEF BatchInv
  <2>4. successes + Cardinality(failed) = index
    BY DEF BatchInv, AtEnd
  <2>5. successes = Cardinality(called \ failed)
    BY <2>1, <2>3, <2>4, FiniteCalls DEF BatchInv, TypeOK
  <2>. QED BY <2>5 DEF BatchInv, AtEnd, ErrorsTrue
<1>. QED BY <1>1, BatchInvariant, PTL

\* Unless it is asked to stop at a failure, every call is made: no pod of a reconcile is passed over.
THEOREM CallsAll == Spec => []MakesEveryCall
<1>1. BatchInv => MakesEveryCall
  <2>. SUFFICES ASSUME BatchInv, pc = "done", initialBatchSize > 0, ~shortCircuit \/ failed = {}
                PROVE  called = 0..(count - 1)
    BY DEF MakesEveryCall
  <2>1. index = count \/ initialBatchSize = 0
    BY DEF BatchInv, AtEnd
  <2>2. initialBatchSize # 0
    BY DEF BatchInv, TypeOK
  <2>. QED BY <2>1, <2>2 DEF BatchInv, Numbered
<1>. QED BY <1>1, BatchInvariant, PTL

\* No more calls are in flight than have ended before the batch, and a first batch.
THEOREM SlowStart == Spec => []StartsSlowly
<1>1. BatchInv => StartsSlowly
  <2>. SUFFICES ASSUME BatchInv
                PROVE  Cardinality(running) <= initialBatchSize + (index - launched)
    BY DEF StartsSlowly
  <2>1. CASE pc = "batch"
    BY <2>1, FiniteCalls DEF BatchInv, TypeOK, InBatch
  <2>2. CASE pc = "done"
    <3>1. Cardinality(running) = 0
      BY <2>2, FS_EmptySet DEF BatchInv, AtEnd
    <3>. QED BY <3>1 DEF BatchInv, TypeOK
  <2>. QED BY <2>1, <2>2 DEF BatchInv, TypeOK
<1>. QED BY <1>1, BatchInvariant, PTL

\* No call is made twice, or without being asked for.
THEOREM CallsOnce == Spec => CalledOnce
<1>1. BatchInv /\ [Next]_vars =>
        [index' # index => \E i \in 0..(count - 1) : i \notin called /\ called' = called \cup {i}]_vars
  <2>. SUFFICES ASSUME BatchInv, Next, index' # index
                PROVE  \E i \in 0..(count - 1) : i \notin called /\ called' = called \cup {i}
    OBVIOUS
  <2>1. Launch
    BY DEF Next, Succeed, Fail, Send, EndBatch
  <2>2. index \in 0..(count - 1) /\ index \notin called
    BY <2>1 DEF Launch, BatchInv, TypeOK, InBatch, Numbered
  <2>. QED BY <2>1, <2>2 DEF Launch, NextIndex
<1>. QED BY <1>1, BatchInvariant, PTL DEF Spec, CalledOnce

\* Asked to stop at a failure, it starts no call once a batch has failed.
THEOREM StopsShort == Spec => StopsAtFailure
<1>1. BatchInv /\ [Next]_vars => [shortCircuit /\ gotErr # {} => called' = called]_vars
  <2>. SUFFICES ASSUME BatchInv, Next, shortCircuit, gotErr # {} PROVE called' = called
    OBVIOUS
  <2>1. pc = "done"
    BY DEF BatchInv, BatchErrors, TypeOK
  <2>. QED BY <2>1 DEF Next, Launch, Succeed, Fail, Send, EndBatch
<1>. QED BY <1>1, BatchInvariant, PTL DEF Spec, StopsAtFailure
\* A goroutine that has an error to hand in finds room for it: it never waits for the caller.
THEOREM SendsAtOnce == Spec => []NeverBlocks
<1>1. BatchInv => NeverBlocks
  <2>. SUFFICES ASSUME BatchInv, NEW i \in running \cap failed PROVE Len(errCh) < batchSize
    BY DEF NeverBlocks, Capacity
  <2>1. pc = "batch"
    BY DEF BatchInv, AtEnd, TypeOK
  <2>2. Cardinality(running) # 0
    BY FiniteCalls, FS_EmptySet DEF BatchInv
  <2>3. Cardinality(running) + Len(errCh) <= launched /\ launched <= batchSize
    BY <2>1 DEF BatchInv, InBatch, TypeOK
  <2>. QED BY <2>2, <2>3, FiniteCalls DEF BatchInv, TypeOK
<1>. QED BY <1>1, BatchInvariant, PTL

\* The calls under way whose result is not known yet, one more and one less.
LEMMA PendingCounts ==
  ASSUME TypeOK
  PROVE  /\ IsFiniteSet(running \ failed) /\ Cardinality(running \ failed) \in Nat
         /\ \A i \in running \ failed :
              Cardinality((running \ failed) \ {i}) = Cardinality(running \ failed) - 1
         /\ \A i : i \notin running \ failed =>
              Cardinality((running \ failed) \cup {i}) = Cardinality(running \ failed) + 1
<1>1. IsFiniteSet(running \ failed)
  BY FiniteCalls, FS_Subset
<1>. QED BY <1>1, FS_CardinalityType, FS_RemoveElement, FS_AddElement

\* Every step leaves less to do, and there is never less than nothing to do: whatever the number of
\* calls, the size of the first batch and the failures, only finitely many steps can be taken.
THEOREM GetsOn == Spec => Progresses
<1>. USE BoundsAssumption DEF BoundsAssumption
<1>. DEFINE rest == Cardinality(running \ failed)
            open == Cardinality(running)
            bit == IF pc = "batch" THEN 1 ELSE 0
<1>1. TypeOK => /\ Distance = 3 * (count - index) + open + rest + remaining + bit
                /\ 3 * (count - index) \in Nat /\ open \in Nat /\ rest \in Nat
                /\ remaining \in Nat /\ bit \in 0..1
                /\ Distance \in Nat
  <2>. SUFFICES ASSUME TypeOK PROVE /\ Distance = 3 * (count - index) + open + rest + remaining + bit
                                    /\ 3 * (count - index) \in Nat /\ open \in Nat /\ rest \in Nat
                                    /\ remaining \in Nat /\ bit \in 0..1
                                    /\ Distance \in Nat
    OBVIOUS
  <2>1. open \in Nat /\ rest \in Nat
    BY FiniteCalls, PendingCounts
  <2>2. 3 * (count - index) \in Nat /\ remaining \in Nat /\ bit \in 0..1
    BY DEF TypeOK
  <2>3. Distance = 3 * (count - index) + open + rest + remaining + bit
    BY DEF Distance
  <2>. QED BY <2>1, <2>2, <2>3
<1>3. (TypeOK => /\ Distance = 3 * (count - index) + open + rest + remaining + bit
                 /\ 3 * (count - index) \in Nat /\ open \in Nat /\ rest \in Nat
                 /\ remaining \in Nat /\ bit \in 0..1
                 /\ Distance \in Nat)'
  BY <1>1, PTL
<1>2. BatchInv /\ BatchInv' /\ [Next]_vars => [Distance' \in Nat /\ Distance' < Distance]_vars
  <2>. SUFFICES ASSUME BatchInv, BatchInv', Next PROVE Distance' \in Nat /\ Distance' < Distance
    OBVIOUS
  <2>00. TypeOK /\ TypeOK' /\ Numbered /\ InBatch
    BY DEF BatchInv
  <2>0. /\ TypeOK /\ TypeOK'
        /\ Distance = 3 * (count - index) + open + rest + remaining + bit
        /\ Distance' = 3 * (count' - index') + open' + rest' + remaining' + bit'
        /\ count \in Nat /\ index \in Nat /\ index' \in Nat /\ open \in Nat /\ rest \in Nat
        /\ remaining \in Nat /\ bit \in 0..1 /\ open' \in Nat /\ rest' \in Nat
        /\ remaining' \in Nat /\ bit' \in 0..1 /\ Distance' \in Nat
    <3>2. count \in Nat /\ index \in Nat
      BY <2>00 DEF TypeOK
    <3>3. index' \in Nat
      BY <2>00 DEF TypeOK
    <3>. QED BY <1>1, <1>3, <2>00, <3>2, <3>3
  <2>. HIDE DEF Distance
  <2>1. CASE Launch
    <3>1. /\ running' = running \cup {index} /\ index' = index + 1
          /\ UNCHANGED <<args, remaining, failed, pc>>
      BY <2>1 DEF Launch, NextIndex
    <3>2. index \notin running /\ index \notin failed
      BY <2>00 DEF TypeOK, Numbered
    <3>3. running' \ failed' = (running \ failed) \cup {index}
      BY <3>1, <3>2
    <3>4. open' = open + 1 /\ rest' = rest + 1 /\ bit' = bit
      BY <2>0, <3>1, <3>2, <3>3, FiniteCalls, PendingCounts, FS_AddElement
    <3>. HIDE DEF open, rest, bit
    <3>. QED BY <2>0, <3>1, <3>4 DEF args
  <2>2. ASSUME NEW i \in 0..MaxCount, Succeed(i) PROVE Distance' < Distance
    <3>1. /\ i \in running \ failed /\ running' = running \ {i}
          /\ UNCHANGED <<args, remaining, index, failed, pc>>
      BY <2>2 DEF Succeed
    <3>2. running' \ failed' = (running \ failed) \ {i}
      BY <3>1
    <3>3. open' = open - 1 /\ rest' = rest - 1 /\ bit' = bit
      BY <2>0, <3>1, <3>2, PendingCounts, ReturnCounts
    <3>. HIDE DEF open, rest, bit
    <3>. QED BY <2>0, <3>1, <3>3 DEF args
  <2>3. ASSUME NEW i \in 0..MaxCount, Fail(i) PROVE Distance' < Distance
    <3>1. /\ i \in running \ failed /\ failed' = failed \cup {i}
          /\ UNCHANGED <<args, remaining, index, running, pc>>
      BY <2>3 DEF Fail
    <3>2. running' \ failed' = (running \ failed) \ {i}
      BY <3>1
    <3>3. open' = open /\ rest' = rest - 1 /\ bit' = bit
      BY <2>0, <3>1, <3>2, PendingCounts
    <3>. HIDE DEF open, rest, bit
    <3>. QED BY <2>0, <3>1, <3>3 DEF args
  <2>4. ASSUME NEW i \in 0..MaxCount, Send(i) PROVE Distance' < Distance
    <3>1. /\ i \in running \cap failed /\ running' = running \ {i}
          /\ UNCHANGED <<args, remaining, index, failed, pc>>
      BY <2>4 DEF Send
    <3>2. running' \ failed' = running \ failed
      BY <3>1
    <3>3. open' = open - 1 /\ rest' = rest /\ bit' = bit
      BY <2>0, <3>1, <3>2, ReturnCounts
    <3>. HIDE DEF open, rest, bit
    <3>. QED BY <2>0, <3>1, <3>3 DEF args
  <2>5. CASE EndBatch
    <3>1. /\ pc = "batch" /\ UNCHANGED <<args, index, running, failed>>
      BY <2>5 DEF EndBatch
    <3>2. open' = open /\ rest' = rest /\ bit = 1
      BY <3>1
    <3>3. CASE StopsHere
      <4>1. bit' = 0 /\ remaining' = remaining
        BY <2>5, <3>3 DEF EndBatch
      <4>. HIDE DEF open, rest, bit
      <4>. QED BY <2>0, <3>1, <3>2, <4>1 DEF args
    <3>4. CASE ~StopsHere
      <4>1. /\ remaining' = remaining - batchSize /\ batchSize \in Nat /\ 0 < batchSize
            /\ count' = count /\ index' = index
        BY <2>00, <2>5, <3>1, <3>4 DEF EndBatch, InBatch, TypeOK, args
      <4>2. bit' = 0 \/ bit' = 1
        OBVIOUS
      <4>. HIDE DEF open, rest, bit
      <4>3. CASE bit' = 0
        BY <2>0, <3>1, <3>2, <4>1, <4>3
      <4>4. CASE bit' = 1
        BY <2>0, <3>1, <3>2, <4>1, <4>4
      <4>. QED BY <4>2, <4>3, <4>4
    <3>. QED BY <3>3, <3>4
  <2>. QED BY <2>0, <2>1, <2>2, <2>3, <2>4, <2>5 DEF Next
<1>. QED BY <1>2, BatchInvariant, PTL DEF Spec, Progresses

\* It does what its callers rely on: for every size and pattern of failures, each step is one of
\* ParallelCalls or none of them.
THEOREM ImplementsCallsSpec == Spec => ImplementsCalls
<1>. USE BoundsAssumption DEF BoundsAssumption
<1>. DEFINE Asked == IF initialBatchSize > 0 THEN 0..(count - 1) ELSE {}
            Active == running \ failed
            Good == called \ (running \cup failed)
            Won == Cardinality(Good)
            Answered == IF pc = "done" THEN {[successes |-> successes, err |-> gotErr]} ELSE {}
<1>1. Init => Calls!Init
  <2>. SUFFICES ASSUME Init PROVE Calls!Init
    OBVIOUS
  <2>1. Asked \in SUBSET (0..MaxCount) /\ shortCircuit \in BOOLEAN
    BY DEF Init
  <2>2. Active = {} /\ Good = {} /\ failed = {} /\ Won = 0
    BY FS_EmptySet DEF Init
  <2>3. Asked = {} <=> pc = "done"
    <3>1. /\ count \in Nat /\ initialBatchSize \in Nat
          /\ batchSize = intMin(count, initialBatchSize)
          /\ pc = (IF batchSize > 0 THEN "batch" ELSE "done")
      BY DEF Init
    <3>2. batchSize > 0 <=> initialBatchSize > 0 /\ count > 0
      BY <3>1 DEF intMin
    <3>3. 0..(count - 1) = {} <=> ~(count > 0)
      BY <3>1
    <3>. QED BY <3>1, <3>2, <3>3
  <2>4. Answered = IF Asked = {} THEN {[successes |-> 0, err |-> {}]} ELSE {}
    BY <2>3 DEF Init
  <2>. QED BY <2>1, <2>2, <2>4 DEF Calls!Init
<1>2. BatchInv /\ BatchInv' /\ [Next]_vars => [Calls!Next]_(Calls!vars)
  <2>. SUFFICES ASSUME BatchInv, BatchInv', [Next]_vars
                PROVE  Calls!Next \/ UNCHANGED Calls!vars
    OBVIOUS
  <2>0. TypeOK /\ Numbered /\ InBatch
    BY DEF BatchInv
  <2>00. AtEnd' /\ ErrorsTrue' /\ TypeOK'
    BY DEF BatchInv
  <2>1. CASE Launch
    <3>1. /\ called' = called \cup {index} /\ running' = running \cup {index}
          /\ index' = index + 1 /\ launched < batchSize /\ pc = "batch"
          /\ UNCHANGED <<args, successes, gotErr, failed, pc>>
      BY <2>1 DEF Launch, NextIndex
    <3>2. index \in 0..(count - 1) /\ index \in 0..MaxCount /\ index \notin called
      BY <2>0, <3>1 DEF TypeOK, InBatch, Numbered
    <3>3. initialBatchSize > 0
      BY <2>0, <3>1 DEF InBatch, TypeOK
    <3>4. Asked = 0..(count - 1) /\ Asked' = Asked
      BY <3>1, <3>3 DEF args
    <3>5. /\ index \notin running /\ index \notin failed
          /\ Active' = Active \cup {index} /\ Good' = Good
      BY <2>0, <3>1, <3>2 DEF Numbered
    <3>6. Answered = {} /\ Answered' = {}
      BY <3>1
    <3>7. Calls!Begin(index)
      BY <3>1, <3>2, <3>4, <3>5, <3>6 DEF Calls!Begin, args
    <3>. QED BY <3>2, <3>7 DEF Calls!Next
  <2>2. ASSUME NEW i \in 0..MaxCount, Succeed(i) PROVE Calls!Next
    <3>1. /\ i \in running \ failed /\ running' = running \ {i}
          /\ UNCHANGED <<args, successes, gotErr, called, failed, pc>>
      BY <2>2 DEF Succeed
    <3>2. Active' = Active \ {i} /\ Good' = Good \cup {i} /\ i \notin Good
      BY <2>0, <3>1 DEF Numbered
    <3>5. Won' = Won + 1
      <4>1. IsFiniteSet(Good)
        BY <2>0, FiniteCalls, FS_Subset
      <4>. HIDE DEF Good
      <4>. QED BY <3>2, <4>1, FS_AddElement
    <3>3. Asked' = Asked /\ Answered' = Answered
      BY <3>1 DEF args
    <3>4. Calls!Succeed(i)
      BY <3>1, <3>2, <3>3, <3>5 DEF Calls!Succeed, args
    <3>. QED BY <3>4 DEF Calls!Next
  <2>3. ASSUME NEW i \in 0..MaxCount, Fail(i) PROVE Calls!Next
    <3>1. /\ i \in running \ failed /\ failed' = failed \cup {i}
          /\ UNCHANGED <<args, successes, gotErr, called, running, pc>>
      BY <2>3 DEF Fail
    <3>2. Active' = Active \ {i} /\ Good' = Good
      BY <3>1
    <3>3. Asked' = Asked /\ Answered' = Answered
      BY <3>1 DEF args
    <3>4. Calls!Fail(i)
      BY <3>1, <3>2, <3>3 DEF Calls!Fail, args
    <3>. QED BY <3>4 DEF Calls!Next
  <2>4. ASSUME NEW i \in 0..MaxCount, Send(i) PROVE UNCHANGED Calls!vars
    <3>1. /\ i \in running \cap failed /\ running' = running \ {i}
          /\ UNCHANGED <<args, successes, gotErr, called, failed, pc>>
      BY <2>4 DEF Send
    <3>2. Active' = Active /\ Good' = Good /\ Asked' = Asked /\ Answered' = Answered
      BY <3>1 DEF args
    <3>. QED BY <3>1, <3>2 DEF Calls!vars, args
  <2>5. CASE EndBatch
    <3>1. /\ pc = "batch" /\ running = {} /\ UNCHANGED <<args, index, running, called, failed>>
      BY <2>5 DEF EndBatch, Waited
    <3>2. Active' = Active /\ Good' = Good /\ Asked' = Asked /\ Active = {} /\ Answered = {}
      BY <3>1 DEF args
    <3>3. CASE pc' = "batch"
      <4>1. Answered' = Answered
        BY <3>2, <3>3
      <4>. QED BY <3>1, <3>2, <4>1 DEF Calls!vars, args
    <3>4. CASE pc' = "done"
      <4>1. Good = called \ failed /\ failed \subseteq called
        BY <2>0, <3>1 DEF Numbered
      <4>2. Asked = Good \cup failed \/ (shortCircuit /\ failed # {})
        <5>1. index = count \/ initialBatchSize = 0 \/ (shortCircuit /\ failed # {})
          BY <2>00, <3>1, <3>4 DEF AtEnd, args
        <5>2. initialBatchSize > 0
          BY <2>0, <3>1 DEF InBatch, TypeOK
        <5>3. Good \cup failed = 0..(index - 1)
          BY <2>0, <4>1 DEF Numbered
        <5>4. Asked = 0..(count - 1)
          BY <5>2
        <5>5. initialBatchSize # 0
          BY <2>0, <5>2 DEF TypeOK
        <5>. QED BY <5>1, <5>3, <5>4, <5>5
      <4>3. successes' = Cardinality(Good)
        <5>1. successes' + Cardinality(failed) = index /\ successes' \in Nat
          BY <2>00, <3>1, <3>4 DEF AtEnd, TypeOK
        <5>2. Cardinality(called) = index
          BY <2>0, FS_Interval DEF TypeOK, Numbered
        <5>3. called \cap failed = failed
          BY <4>1
        <5>4. Cardinality(called \ failed) = Cardinality(called) - Cardinality(failed)
          BY <2>0, <5>3, FiniteCalls, FS_Difference
        <5>5. index \in Nat /\ Cardinality(failed) \in Nat
          BY <2>0, FiniteCalls DEF TypeOK
        <5>6. Cardinality(Good) = Cardinality(called \ failed)
          BY <4>1
        <5>. HIDE DEF Good
        <5>. QED BY <5>1, <5>2, <5>4, <5>5, <5>6
      <4>4. gotErr' \in Calls!Errors
        <5>1. /\ gotErr' \subseteq failed /\ \A e, f \in gotErr' : e = f
              /\ failed = {} <=> gotErr' = {}
          BY <2>00, <3>1, <3>4 DEF ErrorsTrue, AtEnd
        <5>2. CASE failed = {}
          BY <5>1, <5>2 DEF Calls!Errors
        <5>3. CASE failed # {}
          <6>1. PICK e \in gotErr' : e \in failed
            BY <5>1, <5>3
          <6>2. gotErr' = {e}
            BY <5>1, <6>1
          <6>. QED BY <5>3, <6>1, <6>2 DEF Calls!Errors
        <5>. QED BY <5>2, <5>3
      <4>5. Answered' = {[successes |-> successes', err |-> gotErr']}
        BY <3>4
      <4>6. Calls!Answer
        BY <3>1, <3>2, <4>2, <4>3, <4>4, <4>5 DEF Calls!Answer, args
      <4>. QED BY <4>6 DEF Calls!Next
    <3>. QED BY <2>00, <3>3, <3>4 DEF TypeOK
  <2>6. CASE UNCHANGED vars
    BY <2>6 DEF vars, args, Calls!vars
  <2>. QED BY <2>1, <2>2, <2>3, <2>4, <2>5, <2>6 DEF Next
<1>. QED BY <1>1, <1>2, BatchInvariant, PTL DEF Spec, ImplementsCalls, Calls!Spec
=============================================================================
