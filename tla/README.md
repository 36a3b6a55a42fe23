# ResourceConsist: TLA+ models, checks and proofs

ResourceConsist is a framework for Kubernetes controllers that keep a backend provider (a load
balancer, say) in step with an *employer* (a Service) and its *employees* (Pods). A controller is an
adapter that says what is expected and what is there; the framework compares, calls the adapter to
create, update and delete, and guards both sides with finalizers: the *clean finalizer* on the
employer, the *lifecycle finalizer* on each pod that serves, and an *expected finalizer* in a pod's
`available-conditions` annotation, which tells PodOpsLifecycle what to wait for.

The order of these writes, made against stale caches, with calls that fail, answers that are lost,
conflicts and restarts, is where the system is right or wrong, and is what the models are about.

Paths below are relative to `src/`; `consister.go`, `resourceconsist_controller.go`,
`event_handler.go` and `utils.go` are those of `pkg/frame/controller`, unless said otherwise.

## The system

| Component | State | Operations | Hard parts | What makes it correct |
|---|---|---|---|---|
| Reconcile (`resourceconsist_controller.go`, `consister.go`) | none of its own between runs: the employer (finalizers, two annotations), the pods (finalizer, annotation), the provider | ensureEmployerCleanFlz, ensureExpectedFinalizer, syncEmployer, syncEmployees, ensureLifecycleFinalizer, cleanEmployerCleanFinalizer | reads from caches; unconditional patches and conditional updates side by side; some entries of a batch fail; a crash between any two calls; a name used again | the provider never holds anything for an unguarded employer; traffic is off before protection goes; at rest everything is as asked |
| SlowStartBatch (`pkg/utils/utils.go`) | local | run `count` calls in doubling batches of goroutines | order of completion, counting errors, indices | each call once, errors reported, it ends |
| Event handlers, work queue (`event_handler.go`, `watch`) | the queue | which event enqueues which employer | lookup in a cache of another age, relabelling, the control label | no lost wake-up |
| Mutating webhook (`pkg/frame/webhook`, with an adapter's lookup) | pod being created | Mutating | race with the employer's deletion, the cache of another replica | a key given at admission stays while its employer lives |
| Webhook certificates (`pkg/frame/webhook`, `main.go`) | a secret, two CA bundles, two files for each replica | Initialize | three replicas at once, an update retried on a stale object, a crash between any two calls | every replica comes to serve what the bundles trust |
| SLB adapter (`pkg/adapters/alibabacloudslb`) | none: the cloud controller manager (CCM) writes the provider | lists pods twice, asks for back ends, reports what differs as failed | IP as identity, entries put together from different moments, a provider that is not its own | protection follows traffic, and goes only after traffic is off |
| Demo adapter (`resourceconsist_controller_suite_test.go`) | two maps | the whole ReconcileAdapter | - | - |
| Readiness, names (`utils.go`, `pkg/utils/utils.go`) | - | isPodLifecycleReady, GenerateLifecycleFinalizer | order of conditions; names shared by employers | - |
| Multi-cluster access | - | name#cluster branches of each batch | a local pod read from the federated cluster | - |
| Registry, start-up (`adapters.go`, `main.go`) | - | flags, registration | none: runs once | - |

They interact through the API server. A watch event reaches the cache, then a handler, which looks
up employers *in the cache* and puts their keys in the queue. A worker takes a key and runs Reconcile,
one at a time per key, which reads from the caches, writes to the API server and calls the provider.
Its own writes come back as events.

## Modules

| Module | What it is |
|---|---|
| `ConsistDiff` | diffEmployer / diffEmployees as set operators, and what provider calls can leave behind when one fails |
| `Consist` | the core: one employer, its pods, caches, queue, Reconcile step by step, provider, environment |
| `BackendContract` | the abstract promise, four variables; weaker where a lifecycle record is kept (`Named`) |
| `ConsistInv` | the inductive invariants `GuardInv` and `ProtectInv` |
| `MCConsist` | `Consist` on two interchangeable pods, for TLC |
| `SlowStartBatch` | the batches, each goroutine's call a separate step, with its own inductive invariant |
| `ParallelCalls` | what a caller of SlowStartBatch relies on: calls side by side, one answer |
| `SharedPods` | several employers whose expected finalizers share the annotation of a pod: admission, reconciles side by side, the control label, events |
| `SlbConsist` | the SLB adapter under Reconcile, with CCM and kubelet as environment |
| `WebhookCerts` | the start of the replicas, as far as the webhook's certificate goes |
| `CertTrust` | what the replicas agree on: certificates offered, each configuration decided once, who serves |
| `ConsistDiff_proofs` | that the comparison forgets nothing, does nothing twice and fits its slices |
| `Consist_proofs` | type correctness, `GuardInv`, `BackendGuarded` |
| `ConsistContract_proofs` | `ProtectInv`, `UnprotectOffOrRecorded`, `UnprotectOnlyWhenOff`, the refinement of `BackendContract` |
| `ConsistRest_proofs` | the four `Quiescent...` properties |
| `SlowStartBatch_proofs` | type correctness, the safety properties, `Progresses`, the refinement of `ParallelCalls` |
| `SharedPods_proofs` | type correctness, `KeyInv`, `AdmittedKept`, `QuiescentExpected`, `QuiescentGone` |
| `SlbConsist_proofs` | type correctness, `UnprotectsIdle`, `QuiescentDeleted`, `QuiescentProtected`, `QuiescentRecord` |
| `WebhookCerts_proofs` | type correctness, `CertInv`, `FilesPair`, `Trusted`, `BundleKept`, the refinement of `CertTrust` |

`Consist`, `SharedPods` and `SlbConsist` are three views of the same Reconcile. Each keeps what its
questions are about and lets the rest succeed or fail: `Consist` has one employer with everything that
happens to it, `SharedPods` what several employers do to one pod, `SlbConsist` what becomes of the
lifecycle finalizers when somebody else writes the provider.

### How Consist corresponds to the code

Reconcile is split where another actor can get in between: a step is one call that leaves the process,
with the computation up to it. `pc` is where Reconcile stands:

| `pc` | Code | Actions |
|---|---|---|
| `idle` | Get of the employer, ensureEmployerCleanFlz | `ReconcileNotFound`, `EnsureEmployerCleanFlz`, `BeginReconcile` |
| `patchExpected` | ensureExpectedFinalizer, one patch a pod, then the record | `PatchAdd`, `PatchDelete`, `EndExpectedNotNeedRecord`, `EndExpectedUnchanged`, `EndExpectedPatch` |
| `syncEmployer` | GetExpected/GetCurrentEmployer, syncEmployer | `SyncEmployer`, `SyncEmployerError` |
| `syncEmployees` | ... employees, up to line 211 | `SyncEmployees`, `SyncEmployeesError` |
| `collectUnselected` | the second reading of the selection, 213-229 | `CollectUnselected` |
| `addFlz`, `delFlz` | ensureLifecycleFinalizer, one update a pod, then the record | `AddLifecycleFlz`, `EndAddLifecycleFlz`, `DeleteFlzOfEmployee`, `DeleteFlzOfRecorded`, `RecordLifecycle` |
| `clean` | cleanEmployerCleanFinalizer, RecordStatuses, the requeue | `CleanEmployerCleanFinalizer`, `FinishReconcile` |

State: `employer` and `pods` are the API server's objects; `cEmployer` and `cPods` the informer
caches; `dirtyEmployer` and `dirtyPods` say whose resourceVersion has moved since, which decides both
whether an event is still to come and whether a conditional update conflicts. `obj` is the employer
object Reconcile holds: a patch replaces it by the server's answer, as `client.Patch` does.
`toAdd`, `toDel`, `toDrop`, `done`, `succ` are the running batch, and `res` the flags and errors noted
so far. `vip` and `rs` are the provider, `queued` the key in the work queue.

Abstractions, each a place where the model says less than the code:

- one employer, in one cluster; pods by name, names may be used again;
- readiness is one bit that changes at will and is false once a pod is being deleted;
- a finalizer or an annotation key is present or not. An annotation that lists pods is a set. The code
  compares a deleting employer's record as a string against a sorted list, and so may rewrite an
  unsorted record once more than the model does;
- a cache catches up with all pods, or with the employer, at once;
- a call to the API server succeeds, fails, or takes effect and loses its answer (`Outcomes`);
- the provider is the demo adapter's, with entries for this employer only. Where the framework lets
  an adapter report some entries as failed without an error, the model does too
  (`ReturnedOutcomes`), though the demo adapter always returns both; an error may leave any part of the
  failing call done (`ErrorOutcomes`);
- reading, computing and the provider's calls of syncEmployer, or of syncEmployees, are one step: they
  touch nothing that another actor of the model writes except pods' caches, which are listed once;
- the shared `err` variable of the deletion goroutines (line 720, used at 798-841) is a choice: with
  three deletions or more, an update may go undone with no error, provided one of them has something
  other than success to report;
- Reconcile's steps for pods of one batch are taken in any order; `SlowStartBatch` has the goroutines.

### How SharedPods corresponds to the code

This is the path of an adapter without `ExpectedFinalizerRecordOptions` (`consister.go:314-343`), the SLB
adapter's. `todo[s]` is the batch of employer `s` (the selected pods), `read[s][p]` what a goroutine of it
has read of pod `p` and is about to write back whole (`ReadPod`, `PatchPod`: lines 461-561 and 575-653),
`deleting[s]` whether the object it holds has a deletion timestamp, `err[s]` whether a call has failed. `pc`
goes from `idle` to `patch`, `sync` (everything from line 198 of `resourceconsist_controller.go` on) and,
when the employer is being deleted and all is clean, `clean`. `Sync` has every way this part can end: an
error, nothing more to do, or all clean. Of an employer that is being deleted the second is possible only as
long as the adapter expects employees, which the SLB adapter does while pods are selected
(`alibabacloudslb_controller.go:118`): then nothing has failed, nothing is queued (line 275), and the
employer keeps its finalizer. Every employer has a worker (there are five,
`defaultMaxConcurrentReconciles`).

- A patch is not conditional (`client.MergeFrom` without optimistic lock): it goes to whatever pod has the
  name. One that changes nothing raises no event. An update of a Service is conditional: `dirtySvc` is a
  conflict.
- `ctl` is the label the predicates read. A change of a Service is heard if its new object is labelled;
  `SyncSvcCache` may also hear one it slept through (several changes may lie between two looks at the
  watch). A pod's event names the labelled employers in the cache that select its old or its new labels.
- The webhook is answered by any replica. Its cache is as old as the leader's or up to date.
- A Service's name is used once, a pod's again and again. `admitted` is a history variable: the keys the
  first pod of a name was created with. Later ones are left out of `AdmittedKept`, because a patch meant
  for the predecessor may replace the annotation of the successor; `QuiescentExpected` has them.
- Lifecycle finalizers are not there: a pod that is being deleted goes at some time.

### How SlbConsist corresponds to the code

| `pc` | Code | Actions |
|---|---|---|
| `idle` | as in `Consist`; the adapter has no employers of its own (lines 71-73, 95-109 of `alibabacloudslb_controller.go`) | `ReconcileNotFound`, `EnsureEmployerCleanFlz`, `BeginReconcile` |
| `listExpected`, `listCurrent` | GetExpectedEmployee; GetCurrentEmployee up to its list | `ListExpected`, `ListCurrent` |
| `query` | GetBackendServers, diffEmployees, the Create/Update/DeleteEmployees that do nothing, `consister.go:190-211` | `Query`, `QueryError` |
| `collectUnselected` ... `clean` | as in `Consist` with `NeedRecordLifecycleFinalizerCondition` | the same names |

`seen` is what the two lists agree on, by pod: a pod's entry is its address and its readiness, and the diff
keeps one pod of each address (`OneOfEachIp`), whichever. An entry that differs between the lists is dropped
and `failed` noted. `expClean` in `res` is the answer of ensureExpectedFinalizer (`isExpectedClean` of line
244): false for a Service that was live then, though the object held at the end, which the patch of the
record may have replaced, is being deleted. `backends` is the load balancer, which CCM (`CcmSync`) fills
with the pods whose PodReady condition is true; `ready` needs the service-ready gate as well, so that
closing the gate (`ChangeReadiness`) makes a pod not ready while it still has traffic, until the kubelet
lets PodReady fall (`FollowGate`) and CCM follows. `off` is a history variable: the addresses that were not
behind the load balancer at some moment since the first list. CCM and kubelet are modelled from what the
adapter relies on: they react to the Service and the pods only, one step at a time, in any order.

### How WebhookCerts corresponds to the code

Everything that is generated together is one identity (`Materials`), so that "this certificate is signed
by that CA", "this key belongs to that certificate" are equalities. `pc[r]` is where Initialize of a
replica stands: `getSecret`, `createSecret` or `updateSecret` (`ensureWebhookSecret`), `getConfig` and
`updateConfig`, once for each of the two configurations (`ensureWebhookCABundleAndCert`), `writeKey`,
`writeCrt` (`ensureWebhookCert`), `serving`. One call to the API server is one step. `current[r]` is
whether the resourceVersion the replica holds is the configuration's: `RetryOnConflict` tries the very
object that was read, so one conflict is five. Any error is the end of the process (`os.Exit(1)` in
`main.go:97`) and the next start, with the old file system or a new one (`Exit`); a failed call, and one
whose answer is lost, is `Crash` before or after it.

## Runs

All runs of `Consist` use `MCConsist`. Bounds: `MaxChanges` (what users and other controllers do: create
or delete the employer, take another finalizer off it, create, delete, relabel a pod or change its
readiness; and what the provider loses by itself), `MaxFaults` (failed or lost calls, provider failures,
crashes), `MaxDrift` (how many of the changes may be the provider's). What needs no user (watches, kubelet)
is not bounded. The initial states already range
over any employer and pods a manager may find when it starts, so two changes suffice to relabel and
relabel back, to delete and create again, or to delete the employer and change a pod; each hazard
listed in `PROJECT.json` for `Consist` needs at most two changes and one fault. Deadlock is not checked:
with the budgets spent and nothing queued, the system rests.

| Run | Instance | Shows |
|---|---|---|
| `safety` | 2 pods, 2 changes, 1 fault, no records, name used again, other owners of finalizers | `TypeOK`, the inductive invariants, `UnprotectOnlyWhenOff`, `KeepsContract`, and the four `Quiescent...` properties: whenever the controller rests, provider, finalizers and expected finalizers are as asked, and a deleted employer waits for somebody else |
| `record` | 1 pod, 2 changes, of which 1 the provider's, 1 fault, both records, old finalizers, fairness | `BackendGuarded`; `KeepsContract`; `UnprotectOffOrRecorded`: while its traffic is on, a pod loses protection only from the lifecycle record of the employer in hand; `Settles`: after any change the controller comes to rest, its own writes of the records included. What holds at rest with records is proved (`BackendAtRest`, `ProtectedAtRest`) |
| `slow_start` | up to 7 calls, first batch 0 to 2, fairness | results, indices, slow start, short circuit; `NeverBlocks`, `Progresses` and with them `Terminates`; `ImplementsCalls` |
| `shared_pods` | 2 Services, 1 pod, 2 changes, 1 fault, fairness | `KeyInv`, `AdmittedKept`; at rest every labelled Service that selects the pod has its key, and one that is being deleted waits for a pod it selects, its last pod's going or relabelling never forgotten; `Settles` |
| `slb` | 2 pods, 1 address, 1 change, 1 fault, fairness | `UnprotectsIdle`; at rest protection, record and deletion are right; `ProtectionFollows` |
| `webhook_certs` | 2 replicas, 8 certificates, 2 crashes, 1 operator's change, fairness | `CertInv`, `Trusted`, `KeepsTrust`; `EventuallyServes` |
| `skips_remaining` (violation) | up to 4 calls, first batch 0 or 1 | a call starts after a batch in which one has failed |
| `pod_deletion` (violation) | 1 pod, no faults | a pod's deletion can hang on a finalizer nobody takes off |
| `unprotect` (violation) | 1 pod, lifecycle record | protection goes while traffic is on |
| `clean_last` (violation) | 1 pod, no faults | the employer goes before a pod's lifecycle finalizer |
| `swallowed` (violation) | 1 pod, expected record, 1 fault | a deleted employer stays, with nothing queued |
| `lost_expected` (violation) | 1 pod, expected record, no faults | a selected pod at rest has no expected finalizer |

Seven calls are three batches (1, 2, 4) and part of none, or with a first batch of 2 two and a part of
the third: first, full and short batches all occur.

`shared_pods`: with two Services and one pod, two patches of one annotation are in flight at once, one of
them may be of a deleted Service, of a pod that was relabelled or created anew, or fail. A third Service
would be one more of the same kind: what a patch does to the keys of others it does to each of them. The
initial states range over any pods and Services a manager may find, whose changes come on top.

`record` has one pod because its records are sets of names and each pod is listed, patched and recorded by
itself. The same instance without records was run as well, and holds: it has fewer writes that come back as
events.

`slb`: two pods for one address is the smallest instance in which a new pod gets the address of one that
is still there, or waits for it. The other direction (one pod with three changes, two addresses, or two
changes without faults) was run as well, and holds.

`webhook_certs`: two replicas make every race of three, as each call sees only what is at the API server,
whoever put it there. Two crashes, with the errors that the replicas give each other and an operator's
change (a deleted secret, a touched configuration), are at most eight certificates, so `Materials` never
runs out.

The properties at rest (`Quiescent...`) are safety properties that catch lost wake-ups: in a state with
nothing to do and nothing to hear, what is wrong would stay wrong. Together with `Settles` they say the
system gets there.

Fairness (`FairSpec`): the worker keeps taking steps (`WF_vars(Controller)`: controller-runtime's
workers run until the queue is shut down, and a key that was returned with an error is taken again after
its back-off), each watch delivers, and the kubelet lets a deleted pod without finalizers go. No fairness
on users, faults or other owners of finalizers. For `SlowStartBatch`: the caller and its goroutines run
and every call returns. For `SharedPods` the worker of each employer, each watch, and deleted pods; for
`SlbConsist` the worker (a result with `RequeueAfter` is an entry of the queue), the watches, the kubelet
and CCM, without which no protection could follow; for `WebhookCerts` each replica (the kubelet starts a
process again). `WF` on the whole of a worker's or a replica's steps, never on one of its branches.

### What the violations say

`PROJECT.json` quotes the lines. Those of `Consist` follow from two habits of the code. First, the provider
is changed before the API server (`consister.go:205`, then 233), and the list of finalizers to take off is
computed from what the provider call has just changed: whatever prevents the second write, a conflict or
only a cache that does not show the finalizer yet (`consister.go:828`), loses the list (`pod_deletion`,
`clean_last`). The lifecycle record was added for this, but it reads the selection a second time
(`unprotect`). Second, the expected-finalizer record is believed without a look at the pods, and its errors
are dropped (`swallowed`, `lost_expected`).

The comment of `SlowStartBatch` says that remaining batches are skipped after a failure
(`pkg/utils/utils.go:74-75`). The code does so only with `shortCircuit`, which no caller passes
(`skips_remaining`): `MakesEveryCall` and `StopsAtFailure` say what it does without and with it, and `Consist`
and `SharedPods` rely on the former, that one pod's error does not keep the others from being tried.

Other disagreements, not given a run: with the expected-finalizer record and a name that is used again, line
377 patches whatever object has the name by now and Reconcile goes on with a live employer without the clean
finalizer, so that `BackendGuarded` fails; a pod just created at the provider gets a lifecycle finalizer
although it is not ready (858-861), and loses it again at the next reconcile.

What the properties of the new modules leave out, because the code does not give it:

- a pod that leaves an employer's selection, or is admitted while the employer goes, keeps the key
  (`SharedPods`: only keys missing are repaired, never keys too many, unless the record is kept);
- a Service that loses the control label is not heard of again, its deletion included;
- while two pods show one address, diffEmployees looks at one of them (`NoTwin`);
- pods that left the selection lose protection from the record, whether they have traffic or not (the run
  `unprotect`); `UnprotectsIdle` is about pods that are selected;
- a Service that is being deleted waits until its selector matches no pod (`alibabacloudslb_controller.go:118`
  ignores the deletion); `QuiescentGone` and `QuiescentDeleted` say that it waits for nothing else. One whose
  load balancer is gone already cannot be reconciled any more;
- a pod that is not ready may keep its protection for good when three deletions share their `err` and one
  error is lost (`NoRaces`; see the end of Proofs);
- once a secret was replaced, bundles keep the CA of the first: `Trusted` is for clusters on which one
  certificate has ever been stored (`OneSecret`).

Beside the models: `config/statefulset.yaml:61` mounts the secret `webhook-certs`, which the code, whose
secret is `resourceconsist-webhook-certs`, neither makes nor reads.

## Proofs

For every set of pods, employers, replicas and addresses, and all bounds, by TLAPS:

| Module | Theorem | Statement | Assumes |
|---|---|---|---|
| `Consist_proofs` | `TypeCorrect` | `Spec => []TypeOK` | - |
| | `GuardInvariant`, `Guarded` | `Spec => []GuardInv`, `[]BackendGuarded` | no expected-finalizer record, or names not used again |
| `ConsistContract_proofs` | `OffInvariant`, `OffOrRecorded` | `Spec => []OffInv`, `UnprotectOffOrRecorded` | - |
| | `OffFirst` | `Spec => UnprotectOnlyWhenOff` | no lifecycle record |
| | `ProtectInvariant`, `Implements` | `Spec => []ProtectInv`, `KeepsContract` | no expected-finalizer record, or names not used again |
| `ConsistRest_proofs` | `ProtectedAtRest`, `BackendAtRestOfEmployer` | `Spec => []QuiescentProtected`, `[](employer.phase # "none" => QuiescentBackend)` | - |
| | `BackendAtRest` | `Spec => []QuiescentBackend` | no expected-finalizer record, or names not used again |
| | `ExpectedAtRest`, `DeletedAtRest` | `Spec => []QuiescentExpected`, `[]QuiescentDeleted` | no expected-finalizer record |
| `ConsistDiff_proofs` | `EachIdOnce`, `NextRoundDoesTheRest`, `NoDifferenceLeft`, `ErrorSparesDeletion`, `SlicesFit` | about the comparison of any two lists | finitely many ids, for `SlicesFit` |
| `SlowStartBatch_proofs` | `BatchTypes`, `BatchInvariant`, `Reports`, `CallsAll`, `SlowStart`, `CallsOnce`, `StopsShort` | safety of `SlowStartBatch` | - |
| | `SendsAtOnce`, `GetsOn`, `ImplementsCallsSpec` | `Spec => []NeverBlocks`, `Progresses`, `ImplementsCalls` | - |
| `SharedPods_proofs` | `SharedTypes`, `KeyInvariant`, `AdmissionKept` | `Spec => []TypeOK`, `[]KeyInv`, `AdmittedKept` | - |
| | `ExpectedAtRest`, `GoneAtRest` | `Spec => []QuiescentExpected`, `[]QuiescentGone` | - |
| `SlbConsist_proofs` | `SlbTypes`, `SlbUnprotectsIdle`, `DeletedAtRest` | `Spec => []TypeOK`, `UnprotectsIdle`, `[]QuiescentDeleted` | - |
| | `ProtectedAtRest`, `RecordedAtRest` | `Spec => []QuiescentProtected`, `[]QuiescentRecord` | - |
| `WebhookCerts_proofs` | `CertTypes`, `CertInvariant`, `ServesWithPair`, `ServesTrusted`, `BundlesKept` | `Spec => []TypeOK`, `[]CertInv`, `[]FilesPair`, `[]Trusted`, `BundleKept` | - |
| | `ImplementsTrust` | `Spec => KeepsTrust` | - |

Each assumption is one TLC shows to be needed. With the expected-finalizer record and a name that is used
again, the case of line 377 above breaks `BackendGuarded`, and with it `QuiescentBackend`, but only once
there is no employer any more: what is left over at the provider then is nobody's. Protection, and the
provider as long as there is an employer, come out right all the same, which is why `ProtectedAtRest` and
`BackendAtRestOfEmployer` assume nothing. For `ExpectedAtRest` and `DeletedAtRest` the record itself is
enough: the runs `lost_expected` and `swallowed` (`QuiescentDeleted` fails even without a fault, when a pod
goes between the listing and its patch). Without the assumption of `OffFirst`, the run `unprotect`;
`Implements` needs none of the kind, because the contract says of an employer that names the pods it
protects (`Named`) that it lets go of those that have left it as they are. What is assumed of the constants
themselves is in the modules, named, and TLC evaluates it: bounds are numbers, pods are finitely many,
`None` is no address.

**Stale evidence** (`GuardInv`). `BackendGuarded` is not inductive: the clean finalizer is removed on the
evidence of a held object and of flags raised calls earlier, and the provider is written on the evidence
of a cached object. `GuardInv` adds what makes that evidence good: an object not marked dirty is cached as
it is (`Fresh`); once seen live with the finalizer, an employer keeps it, and once a deletion was seen, a
live namesake has no finalizer yet (`SeenGuarded`, `SeenOnce`); a live employer held before the last step
has the finalizer at the server (`HeldGuarded`); and the clean flags stay true of the provider until
Reconcile returns (`FlagsTrue`). The conflict check of conditional updates enters through `Fresh`: an
update goes through only on an object that is cached as it is, so what was seen is what is.

**Off before unprotected** (`OffInv`, `ProtectInv`). The pods listed to lose protection are off at the
provider from the moment they are listed, or were listed from the record of the employer in hand
(`OffBeforeRemoval`); a pod that does not exist has nothing to lose (`Vacant`); caches that are not marked
are right (`Fresh`). That much holds whatever records are kept, and gives `OffOrRecorded`: the hole that the
run `unprotect` shows is the only one. Without the lifecycle record nothing is listed from it, and
`OffFirst` follows. `ProtectInv` adds that pods are listed to get protection only under the clean finalizer
(`ProtectsGuarded`), for which it needs `GuardInv`. `Implements` maps the finalizer to `guarded`, the
provider to `entry` and `traffic`, the pods' finalizers to `protected`, and shows for each action which step
of the contract it is, or that it is none.

**A retry does the rest** (`ConsistDiff_proofs`). The framework remembers nothing of a failed round but that
it failed; that this is enough rests on the comparison: whatever part of a round took effect, the next one
finds exactly the other part, each id in the list it was in (`NextRoundDoesTheRest`), and when it finds
nothing the provider has what is expected (`NoDifferenceLeft`).

**Nothing is forgotten** (`Comes` in `ConsistRest_proofs`, `Remembered` in `SharedPods_proofs`, `Remembered`
and `Minded` in `SlbConsist_proofs`). A property at rest says nothing while the system works, so it is not
inductive either. The strengthening says where what is still to be done is kept until then. In `Consist`: if
the key is not queued and no event of the employer is due (`Still`), then Reconcile holds the employer as it
is, and whatever differs between the provider, the protections and expected finalizers and what the cache
asks for is either before Reconcile (its step has yet to come, the pod is in the batch and untried) or noted
(`failed`, an error of the batch), and what is noted brings the key back. The events enter in one step only:
a pod whose change does not put the employer into the queue neither is nor was one of its pods. What is
claimed of the provider is claimed as long as it is accounted for (`Accounted`): nothing drifted, and there
is an employer or none was left behind. In `SharedPods`: a key that is missing is in the queue, marked as
changed, or in a worker's hands, and so is an employer to be let go, unless it selects a pod, whose event
brings it back. In `SlbConsist`: a Service that is being deleted, and has no pods in the cache, is queued,
about to be seen, or held by a reconcile that saw it deleted from its first step on, and that found it clean
or found something to come back for; and a ready pod whose address nobody else shows is protected and
recorded, or is before the lists, was listed as it is, is in the batch, or is a failure that has been noted
(`PodsCome`). The second list is where this could break: both lists hold such a pod (`SoleListed`: one of
each address is left, and its address is its own), so they agree on it or the difference is noted. These
strengthenings were checked by TLC on the instances of the runs before they were proved.

**The shared annotation** (`KeyInv`). A patch writes the whole annotation as its worker read it, so a key
survives only if every copy has it: the API server's, the cache's, and what each worker has read and is
about to write. `KeyInv` says so of the keys a pod was admitted with, as long as their employers live.

**The provider of somebody else** (`SvcInv`, `LabelInv`, `OffInv`). `UnprotectsIdle` needs that no pod is
protected before the Service has the load balancer's ID, and that whoever holds the Service from then on
holds one with the ID: without it nobody seems to have traffic. The history variable `off` turns "was idle
when the back ends were asked for" into a statement about the state in which the finalizer goes.

**Several replicas, one secret** (`CertInv`). What a replica passes on was in the secret at some time; a
bundle that is about to be written is what is there unless the update conflicts; a certificate file is
written only next to its own key. `Trusted` follows as long as one certificate has ever been stored.

`ImplementsTrust` reads the same from above: what was ever stored is what was offered, a bundle is decided
once by whoever comes first, a process that ends stops serving, and the second file makes a replica serve
with the pair it holds. `BundleKept` and `FilesPair` are corollaries of it.

**Counting calls** (`BatchInv`) relates the counters to the history of calls: `called` is an initial
segment of the numbers, `successes` plus failures is what has ended before the batch, the channel holds
the failures of this one (`Numbered`, `InBatch`, `BatchErrors`, `AtEnd`, `ErrorsTrue`). `TypeOK`'s
`remaining \in 0..count` hangs on it too. A failure is sent before its goroutine ends, so while one that has
failed is running the channel holds fewer errors than the batch has calls: it never blocks (`SendsAtOnce`).
Then `Distance`, what is left to start, to end and to send, goes down with every step (`GetsOn`), and since
Next is enabled until the end, `Terminates` needs no more than that steps are taken. The refinement maps
the calls that run and have not failed to `active`, and the result to `answer`: it is `Waited`, the `wg.Wait`
of line 96, that makes the answer come after every call. `Consist`, `SharedPods` and `SlbConsist` take a
batch to be what `ParallelCalls` says, calls in any order with the error of one of them at the end; with
`ImplementsCallsSpec` that is no longer an abstraction taken on trust, except for the variable `err` the
deletions share among themselves.

Only model-checked: everything under fairness (`Settles` of `Consist` and `SharedPods`, `Terminates`,
`EventuallyServes`, `ProtectionFollows`), which is liveness and out of the prover's reach. The half of
`ProtectionFollows` about pods that are not ready is stated for fewer than three pods (`NoRaces`), and it
is not true of more: with three, one change and two faults (a crash before the record is written and one
failed update), the deletion that failed may lose its error to the shared `err` of its batch
(`consister.go:720`, 798-841) while the other two have nothing to delete; no event comes, and a pod that is
not ready stays protected. TLC finds that on such an instance. Ready pods are not affected, whatever their
number (`ProtectedAtRest`): additions collect their errors one by one.

## Not modelled, and the plan

The plan was: the reconcile of one employer and its contract, `SlowStartBatch`, then several employers on
one pod with the events and the webhook (`SharedPods`), the SLB adapter (`SlbConsist`), the webhook's
certificates (`WebhookCerts`), proofs of the properties at rest, and the abstract specifications of the
parts (`BackendContract`, `ParallelCalls`, `CertTrust`) with the proofs that they are implemented. That is
done. Left, in order:

1. `LifecycleBatch`: ensureLifecycleFinalizer's goroutines with the shared `err`, step by step, from which
   the choice in `DeleteLifecycleFlz` is to be justified. Until then that choice is argued in its comment.
2. The multi-cluster branches (`name#cluster` employees, `consister.go:797-806` in particular). No adapter
   of the repository implements `MultiClusterOptions`, and which cluster's objects the federated client
   returns is decided by a library outside of it.
3. `isPodLifecycleReady`'s scan of the list of conditions against "both conditions are true": a bit here.
4. Employers of one name and different kinds, which share the lifecycle finalizer's name
   (`pkg/utils/utils.go:47`): two controllers on one pod's finalizer.
5. Events one at a time: when a watch delivers, it delivers everything that has changed so far. A cache
   that has the first of two changes and not yet the second, although both have been made, occurs only as
   the state before the second is made.

Left out for good: start-up, flags and the registry of adapters (they run once, before anything is
shared); generated files, RBAC and deployment; the making of keys and certificates as such (`Materials`
are identities); the SLB client's HTTP, which is a call that answers or fails.
