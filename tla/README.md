# Secure Gateway Studio: TLA+ specification

This directory specifies the stateful core of the repository in TLA+, checks it
with TLC on small instances and proves its safety properties with TLAPS for
every instance. Paths below are relative to `src/`; `ext/` abbreviates
`secure-gateway-studio/extension/src/`.

## 1. The system

Secure Gateway Studio deploys a Google Cloud secure gateway from an approved
plan. The browser extension is the product; a Python backend is its local
predecessor with the same lifecycle; the Go agent is a separate endpoint tool.

| Component | State | Operations | Hard behaviour |
|---|---|---|---|
| Run engine (`ext/runtime/run-engine.ts`) | one `RunRecord`: state, per-step status, attempts, before-image | `tick`, `rollbackStep`, residual list, compensation preflight | the worker dies between any two awaits; a step may or may not have happened |
| Service worker (`ext/background/service-worker.ts`) | alarms, `executingRuns`, cold-start promise, credentials | Apply, Resume, alarm, cold start, finalization, sign-out | alarm, message and driver interleave at every await |
| Executor (`ext/providers/executor*.ts`, `ext/domain/iam-policy.ts`) | the phase of each mutation in the before-image | create, policy merge, restore, destroy | lost answers, late effects, same-name objects of others, etag races |
| Repository (`ext/storage/repository.ts`) | approvals, runs, teardowns, resources, CEP leases, audit chain | transactions over several stores | one lifecycle slot shared by four kinds of work |
| Router (`ext/background/router.ts`) | a teardown's in-memory copy, a CEP lease handle | teardown drivers, CEP lease fence and heartbeat | stale copies, expiry, recovery by the same request only |
| CEP provider, planner, discovery, certificates, tokens, audit, storage | caches and formats | list-before-create sagas, validation, reads | token generation, chain forks |
| Backend (`secure-gateway-studio/backend`) | SQLite runs, operations, claims | `DeploymentExecutor.execute` | restart in mid-operation, claims before creates |
| Go agent (`cep-local-dlp-agent`) | baselines, verdict caches, quarantine, process set | polling scanner, clipboard loop and hook, CLI guard, proxy | files and clipboard changing during a scan, scans shared by goroutines |
| Wizard, scripts, infrastructure | none that lasts | | |

The run driver calls the executor, which calls the provider and, before and
after each mutation, calls back to commit the before-image in the run record.
Message handlers and alarms start drivers; `executeRunExclusively` admits one
driver per run and worker. Everything durable goes through IndexedDB
transactions, which are atomic; between two of them anything may happen.

What each component must guarantee, in one line:

* run engine and executor: nothing created is forgotten, nothing foreign is
  deleted, every run ends, an outcome once reported stays;
* repository: at most one lifecycle actor mutates the project at a time;
* teardown: an inventory row goes only after its resource, and a finished
  teardown leaves neither;
* policy update: after a crash exactly the proven writes are compensated;
* CEP lease: only its owner mutates, and only the same request may recover it;
* backend: a claim covers every create that may have been sent;
* egress guard: every file that changes is judged, and a blocked one goes;
* clipboard guard: refused content goes, dialogs follow presses and only presses.

`PROJECT.json` lists the components and, under `hazards`, the places in the code
where these can go wrong.

## 2. Modules

| Module | Models | Abstract specification | Proofs |
|---|---|---|---|
| `RunEngine`, `MCRunEngine` | engine, driver, handlers, create protocol, provider | | `RunEngineProofs` |
| `Teardown`, `MCTeardown` | both teardown drivers, reconciliation, the commits of rows and run | `Release`: a resource goes before its row, the run with its last row | `TeardownProofs` |
| `PolicyUpdate`, `MCPolicyUpdate` | the two-write saga, its compensation, the cold start's | `PolicyPair`: the pair changes at once or not at all | `PolicyUpdateProofs` |
| `CepLease`, `MCCepLease` | lifecycle slot, leases, fence, heartbeat, list-before-create | | `CepLeaseProofs` |
| `Credentials`, `MCCredentials` | token cache, collapsed mint, 401 resend, sign-in, sign-out | | `CredentialsProofs` |
| `BackendExecutor`, `MCBackendExecutor` | the Python backend's run and teardowns | | `BackendExecutorProofs` |
| `EgressGuard`, `MCEgressGuard` | the Go agent's file watcher | | `EgressGuardProofs` |
| `ClipboardGuard`, `MCClipboardGuard` | the Go agent's clipboard loop and paste hook | | `ClipboardGuardProofs` |

The modules meet in the lifecycle slot: `runHasActiveWork`,
`teardownHasActiveWork` and the CEP lease test. `CepLease` models the slot
itself, with runs, policy updates and teardowns reduced to holders of it;
`RunEngine`, `Teardown` and `PolicyUpdate` model what a holder does with it, and
`Teardown` keeps the rest of the lifecycle as one flag (`other`).

Every invariant and every action property that a passing run checks is also a
theorem, for all values of the constants; two of them need one assumption on the
provider (section 5). Where the code breaks a property in one particular case, the
property names that case, and section 12 has the unconditional form with the trace
that refutes it. Liveness is model-checked only.

## 3. `RunEngine`

One durable run of `N` create steps. An action is the code between two awaits
that can be interrupted, so every place where a crash, an alarm or another
handler can cut in is a state.

| Variable | Code |
|---|---|
| `disk` | the `RunRecord` in IndexedDB: `state`, `fin` (`finalizationPending`), `from` (`interruptedFrom`), `status`, `attempts`, `image` (the phase of the before-image) |
| `mem` | the copy the driver loaded and saves whole |
| `pc`, `drv`, `step` | the await the driver is at, who started it, the step it works on |
| `alarm` | the run's recurring `chrome.alarms` entry |
| `req` | the message handler that accepted Apply or Resume and has not finished |
| `cold` | has this worker awaited `ensureColdStartReconciled`? |
| `inv` | rows of the ownership inventory |
| `cloud`, `sent` | external: what exists under each step's name, and the fate of each create request |

The driver starts at `Load` (`driveDurableRun`, or the alarm handler), passes
`Engine` (`engineFor`: identity, certificate, preparation) and then a tick:
`TickLoad`, then one of `TickInactive`, `TickSucceed`, `TickIntent`,
`UndoStart`, `UndoFinish`. The branch of `tick` that finds a failed step in a
running record (`ext/runtime/run-engine.ts:465-470`) has no action: the save that
fails a step is the save that starts the rollback, and `FailuresHandled`
checks that no such record exists. `TickIntent` commits the intent and
enters `executor.apply`: `ApplyPrepare`, `ApplySending`, `Post`, then
`PostConfirmed`, `PostRejected` or `ApplyFails`; a retry enters through
`ApplyReconcile` or `ApplyAlreadyApplied`. `TickDone`, `TickFail` and `TickAuth`
are the ends of the tick; a failure or a lost session may also come after the save
of the applied image, before the step is done. A rollback tick is `UndoStart`, `UndoProve`,
`UndoDelete`, and `UndoDone` or `UndoFails`. `Finalize`, `Interrupt*` and
`Fatal*` are the service worker's own steps around the tick; `Resume`,
`Handler*`, `AlarmFires` and `ColdStart` are its entry points; `Crash` and
`IdleKill` end it.

Steps are abstracted to how they prove ownership (`Kind`): `"marked"` objects
carry the request id in their description (Compute), `"unmarked"` ones are
deduplicated by request id only (BeyondCorp), `"iam"` is a policy
read-modify-write with neither. The phase protocol is the same for the other
resource types of the executor, whose payloads are left out.

The provider is free: an accepted request may land at any later time (`Land`),
be refused (`Refuse`) or never be decided, its answer may be lost (`ApplyFails`
after `Post`), and other administrators may take a name or grant a role first
(`ForeignCreate`).

### Assumptions and what is left out

* `force_overwrite` is off; with it the executor deletes same-name objects first.
* Other administrators create objects and grants but do not delete the run's.
* One message handler at a time is between its transaction and its return.
* The transport's own retries (429, 503, 401) resend the same request id and are
  part of `Post`; the in-attempt etag retry of a policy write is the `"aborted"`
  phase returning to `apply`, without its limit of three.
* The lifecycle-schema adoption of old records and `policyUpdateCheckpoint` are
  left out, as is the purge of certificates after finalization.
* An administrator's grant of a member that the policy already has is no change
  and cannot be told from the run's own grant.

### Runs

| Run | Instance | Shows |
|---|---|---|
| `pair` | a marked object, then a grant; 2 attempts, 1 crash, 1 Resume, of a live run too | the safety properties below |
| `replay` | an unmarked object, then a marked one; Resume may hit a live run; fair | replays of a request id orphan nothing and delete nothing foreign, and every run settles |

Two steps are enough for the order of compensation and for one step's failure to
meet another's success; two attempts give a first send, a retry and a give-up;
one crash can fall at every await; one Resume re-enters every state that
`resumeRun` accepts. Those include `running` and `rolling_back`, under a driver at
work: the wizard offers Resume for fewer states, but the transaction does not ask. The bounds are `N`, `MAX_ATTEMPTS`, `MaxCrashes` and
`MaxResumes`; nothing else is unbounded. Deadlock is not checked: a run that is
over, on a worker that stays awake, has nothing left to do.

| Property | Says |
|---|---|
| `IntentBeforeSend` | no create leaves the worker before the committed record says so |
| `NoOrphan` | when a run is over, every object it made, or that may still appear, has an inventory row |
| `SucceededMeansPresent` | success is reported only when every planned object is there |
| `SlotHeldDuringCalls` | the provider is called only while the record holds the lifecycle slot, or after a Resume sealed the run under its driver |
| `FailuresHandled` | retries are limited, one more per crash at most, and no record that still goes forward holds a failed step |
| `ReverseOrder` | an object is deleted only after all later ones, residuals apart |
| `ForeignUntouched` | no object or earlier grant of somebody else is removed |
| `OutcomeIsFinal` | success, complete rollback and rollback_unavailable are never taken back, but for a seal that a driver under way overwrites |
| `RunSettles` | every run ends or waits for its operator |

Every passing property is also checked against a mutated definition (the
operators named `...Mutant`), which must violate it.

### Fairness

`FairSpec` assumes that the driver and the handlers of a live worker run on
(the event loop), that a set alarm rings again and again (`chrome.alarms` with a
one-minute period; strong fairness, for a busy driver disables it), and that an
idle worker is stopped and some later event starts a new one, which then awaits
the cold-start reconciliation. The last assumption matters: a run can lose its alarm
(section 12, `ActiveHasAlarm`), and only a new worker finds it. The provider is not
assumed to answer well: a request may fail for ever.

## 4. `Teardown`

One finalized run, its inventory and the teardown records that requests add to
it. As in `RunEngine` an action is what runs between two awaits that can be
interrupted, but here several message handlers run at once: `pc`, `mode`, `job`,
`todo`, `cur` and `copy` are functions of the handler.

| Variable | Code |
|---|---|
| `rec` | the teardown records: `status` and the status of each operation ("out" for a row that the record does not name); `instructions` are the operations it has |
| `inv`, `run` | the run's rows in the `resources` store, and whether its record says `deleted` |
| `other` | some other run or a CEP lease makes `runHasActiveWork` or the lease test true |
| `cloud` | external: what exists at the provider |
| `copy` | `teardownRecord` of the first driver, `running`/`latest` of the resuming one |
| `cold` | has this worker reconciled durable state? |

| Actions | Code |
|---|---|
| `StartRead`, `StartAdmit`, `StartMark`, `StartFails` | `POST /runs/{}/teardowns` and its loop (`ext/background/router.ts:2043-2206`) with `startTeardown` |
| `Resume`, `ResumeRead`, `ResumeFails` | `resumeTeardown`, then `executeDurableTeardown` (`router.ts:573-700`) |
| `Write` | `updateTeardownProgress` as the resuming driver calls it |
| `Destroy`, `DestroyFails` | `executor.destroy`, external: it may fail before or after it took effect |
| `Commit`, `CommitRefused` | `commitTeardownResourceSuccess` and its aborts |
| `ColdStart`, `RestoreDeployer` | `reconcileInterruptedTeardowns` in a new worker, and again from `rememberDeployer` in a live one |
| `OtherStarts`, `OtherEnds` | the transactions of other lifecycle work that take and free the slot |
| `Crash`, `IdleKill` | Chrome ends the worker, with or without a handler at work |

The two drivers differ, and the model keeps the difference: the first one owns a
copy that it saves whole and never looks at the stored status, so it overwrites
what a reconciliation decided; the resuming one reads the record again before
each operation and once more after an error, and stops when it is not running.

`Rank` is the order in which the store returns the rows, which is the order of
their keys, digests, and so says nothing of the plan; `Needs` is what the provider
refuses to delete first. `Release` is the abstract specification: it
knows resources, rows and the run, and nothing of records, drivers or crashes.

Left out: the audit events, the digests that pin the immutable snapshot, the
identity checks (they refuse a request without changing anything), failing
IndexedDB writes, and a Resume of the source run that would change its inventory
while it is torn down; the slot excludes that one, except where run `bootstrap`
shows the slot lost.

| Run | Instance | Shows |
|---|---|---|
| `release` | 3 resources in digest order, one of them retained, 2 handlers, 3 requests, 2 crashes, 1 restored deployer, fair; a delete may fail at any time | the properties below, but the last two |
| `bootstrap` | 1 request, 1 restored deployer | `CallerHoldsSlot` is lost, section 12 |
| `order` | 2 resources in digest order, the one needing the other | `DependencyOrder` is lost, section 12 |

| Property | Says |
|---|---|
| `RowUntilGone` | what still exists has its row, so a later teardown can release it |
| `SucceededMeansGone` | a teardown that reports success released all it was approved for |
| `NothingSkipped` | no driver, resumed or not, goes past a resource that has not gone |
| `KeepsPromise` | the teardown implements `Release` |
| `SlotExclusive` | as long as no deployer was restored, who calls the provider holds the slot alone, and no two records, nor a record and other work, hold it at once |
| `OutcomeIsFinal` | a reported success or failure stays |
| `TeardownSettles` | no teardown stays running |
| `CallerHoldsSlot` | who calls the provider holds the slot, whatever happened (run `bootstrap` only) |
| `DependencyOrder` | no delete is sent for what something else still needs (run `order` only) |

The bounds are `MaxRequests`, `MaxCrashes` and `MaxRestores`. Three requests are
a first attempt, a resumption and a rival; two handlers let two drivers meet
at one record; two crashes leave a second teardown half done as well. Two
released resources separate "one row gone" from "all rows gone", and the third,
retained one checks that nothing else goes.

`NothingSkipped` is what the loop and its stop at the first failure promise for any
order of the rows; that this order respects the dependencies is what nobody
promises, as `order` shows. `release` lets nothing be needed, since a delete fails
there at will, a refusal included.
`SlotExclusive` is conditional because `bootstrap` shows that a restored
deployer breaks it; everything else in `release` holds with one.
That a run is `deleted` when exactly the retained rows and resources are left
(`DeletedMeansReleased`) follows from `KeepsPromise` and is only proved.

`FairSpec` assumes that each handler of a live worker runs on and that an idle
worker is stopped and started by some later event; the provider may fail for
ever, as a failed teardown has settled too. Deadlock is not checked: a run may
be over.

## 5. `PolicyUpdate`

A change of who may use a finished deployment rewrites two IAM policies, the
gateway's and the application's, under a checkpoint in the run record.

| Variable | Code |
|---|---|
| `principals`, `checkpoint` | `policyPrincipals` and `policyUpdateCheckpoint` of the run record; id 0 is no checkpoint |
| `baseline` | stands for the IAM images of the inventory, which `commitRunPolicyUpdate` compares and moves forward |
| `pol`, `flight`, `answer` | external: the policies with their etags, the writes under way, the answers |
| `mem`, `todo`, `got` | a process's copy of the checkpoint, what it has to restore, the policy it read for that |
| `others`, `wrote` | history: grants by other administrators; policies the open update has rewritten |
| `stranded`, `crossed` | history: members that a committed update did not know of; whether a reconciliation has taken up the checkpoint of a live update |

| Actions | Code |
|---|---|
| `Request`, `ReadInventory`, `ReadPolicy`, `Begin` | `POST /runs/{}/update-access-level` and `beginRunPolicyUpdate` |
| `Mark`, `Post`, `PostApplied`, `PostRejected`, `PostLost`, `Record`, `Commit` | the saga, `checkpointRunPolicyUpdatePhase`, `commitRunPolicyUpdate` |
| `UndoRead`, `UndoPost`, `UndoAnswered`, `UndoFails`, `UndoAbort` | `policyUpdateCompensationTargets`, `restoreIamPolicyWithFreshEtag`, `abortRunPolicyUpdate`, for a handler and for the reconciliation |
| `ColdStart`, `RestoreDeployer`, `Crash`, `IdleKill` | as in `Teardown` |
| `Land`, `Refuse`, `ForeignEdit` | external |

Run `policy` (2 handlers, 2 requests, a restored deployer counting as one, 1
foreign edit, 1 crash, 1 failing compensation, fair; 517 920 states):

| Property | Says |
|---|---|
| `PairAgrees` | with no checkpoint, both policies grant what the record says, grants of others and members left behind (`stranded`) apart, unless a reconciliation has `crossed` an update |
| `WritesUnderCheckpoint` | a policy is written only under the checkpoint that covers the write, unless `crossed` |
| `ChangesAsPair` | the saga implements `PolicyPair`, unless `crossed` |
| `CheckpointSettles` | a checkpoint is committed, compensated or waits for review of a write with unknown outcome |

Two updates by two handlers are what it takes for one to read before the other
commits; one edit can fall between any read and write; one death and one
failure of the compensation leave a checkpoint to a reconciliation that may
itself fail.

The handlers interleave freely and the deployer may be restored at any moment, as
in the code, and each costs the update one promise. The handler reads the record,
awaits `requireDeployer` and only then reads the inventory
(`router.ts:1609-1622`); an update that commits meanwhile adds members that this
handler does not know of and so does not take out of the policies: `stranded`.
`rememberDeployer` reconciles at once, and so may compensate an update whose
handler is between its writes: `crossed`. Only these two cases are set apart, and
section 12 shows that each occurs (`PairIsExact`, `RestoreIsHarmless`).

One constant is an assumption about the provider: `LateUnavailable = FALSE`, a write
that was answered 503 was not made, so that its resend does not meet its own etag.
`PairAgrees` and `ChangesAsPair` fail without it.

`"gone"` names the sender of a request whose process has died, so
`ReconcilerAssumption` keeps it apart from the processes.

Fairness: handlers run, writes land, an idle worker is stopped and the next one
reconciles. Left out: the audit events, the validation of principals and the
access level's other fields.

## 6. `CepLease`

The lease under which Chrome Enterprise Premium tenants are changed, the slot it
shares with the rest of the lifecycle, and the saga that runs under it.

| Variable | Code |
|---|---|
| `work` | whether each run, policy update or teardown record is active: what `runHasActiveWork` and `teardownHasActiveWork` say |
| `driven`, `revived` | whose record a driver in this worker has a copy of; history: work that the save of such a copy made active again |
| `lease` | the `cepMutationLeases` rows: request digest, owner, time left |
| `op` | a handler inside `withCepMutationLease`: list, fence, send, wait, confirm, release |
| `objects`, `flight`, `refused` | external: what each scope holds, creates under way, definite refusals |
| `open` | ghost: requests with a create whose outcome nobody has read |

| Actions | Code |
|---|---|
| `Apply`, `ResumeRun`, `BeginRunPolicyUpdate`, `StartTeardown`, `ResumeTeardown`, `WorkEnds` | the transactions of the repository that take and free the slot |
| `Drive`, `SaveOldCopy` | a driver loads a record; `updateTeardownProgress` and the run driver's save write its copy whole, whatever the stored status is |
| `Acquire`, `Fence`, `Release`, `LeaseLost`, `Heartbeat` | `acquireCepMutationLease`, `renewFence`, `releaseCepMutationLease`, the heartbeat timer |
| `List`, `Post`, `Rejected`, `Answered`, `AnswerLost`, `Confirmed`, `Ambiguous`, `Finish` | list-before-create in `cep-provider.ts`; `CepMutationOutcomeAmbiguous` keeps the lease |
| `Land`, `Refuse`, `Sleep`, `Crash` | external, and the machine's sleep |

Run `lifecycle` (three requests, of which two share a scope, two handlers, one
plan with its run, update and teardown, 2 faults, a lease of two heartbeats,
requests under way for one, fair; 86 142 states):

| Property | Says |
|---|---|
| `SharedSlot` | one piece of work is active, and none while any scope is leased, but for work that an old driver's save has brought back |
| `NoDuplicate` | no scope gets a second object, whatever deaths, sleeps and repeats there are |
| `OutcomeKept` | nobody but the same request gets the scopes of a create with an unread outcome |
| `LeaseClears` | a kept lease does not block for ever |

Time counts in heartbeats; `LeaseAssumption` (`FlightTime < LeaseTime`) is the
code's own reason for the length of the lease, and a request leaves in the
heartbeat of its fence. `ScopesAssumption` lets every request name a key, as
`acquireCepMutationLease` demands, and `CreatesAssumption` lets it create only
under its own keys. Two faults are a death or a lost answer and a sleep on
top of it, the least that lets a lease expire while its create is out. Work that is
stopped while its driver goes on (a sealed run, a teardown that a restored deployer
interrupted) counts as a fault, too; every such driver ends (`DriverEnds`).

`open` loses a request when it is acquired again, since a repeated request lists
anew before it creates; a retry whose first list fails gives the lease back, as
the code does. A request for a group is never granted: its key does not match
the expression that `acquireCepMutationLease` checks keys with
(`repository.ts:1033`). `LeaseClears` assumes that the administrator repeats a
request whose lease was kept (strong fairness of `Retry`), as the error says;
nobody else can clear it.

Left out: PATCHes and Chrome policy writes (idempotent), the clearing of leases
of a former schema at start-up, resends by the transport of a create that was
answered 503 (taken not to have been made), and the contents of the rules.

## 7. `Credentials`

| Variable | Code |
|---|---|
| `credentials`, `generation`, `cached`, `inFlight` | the `DeployerCredentials` in use, and the fields of every one that is still referred to |
| `session` | `operatorSessionsByEmail` of the deployer's operator |
| `bound`, `authorized` | the durable state names a deployer; Chrome holds a session |
| `call` | each request: its object, token, attempt, and the caller whose mint it awaits |
| `leaving`, `entering` | where `signOutSafely`, and sign-in or bootstrap, stand |

`Ensure`, `Make`, `Reuse`, `BeginMint`, `Join`, `Ask`, `Minted` and `MintFails`
are `ensureCredentials` and `accessToken`; `Refused`, `Invalidate` and `Drop` the
401 branch of `makeTransport`; the rest is the operator. A promise that several
callers await is one mint that settles for all of them (`Settle`).

Run `tokens` (2 callers, 4 objects, one 401, one sign-out, fair):

| Property | Says |
|---|---|
| `CacheIsCurrent` | a mint that was under way when its object was invalidated does not fill the cache |
| `ResendIsFresh` | a resend carries a token asked for after the refusal, whoever minted it |
| `SignedOut` | after a sign-out nothing the worker still reaches holds a session or a token |
| `RequestsEnd` | nobody is left waiting for a mint that failed or was signed out |

Two callers are the least that share a mint, and each can hold an old object
while a third is in use and a fourth is made; objects nobody refers to are used
again, and `ObjectsAssumption` says that there is always one more, for the code
makes one whenever it needs one. One 401 is enough to have a mint before and one after it, and one
sign-out to have it meet every await of a request.

Left out: another account's session in the cache, a switch of account between
attestation and mint, the encryption at rest, and the three transactions in
which `signOutSafely` looks for active work first. A stale session makes the
mint fail until the next sign-in, which `MintFails` covers.

## 8. `BackendExecutor`

The backend checkpoints each operation in SQLite; one process, one background
task per run or teardown, and a recovery at start-up.

| Variable | Code |
|---|---|
| `run`, `op`, `claim`, `td` | the rows of the run, its operations, the claimed resources, the teardowns |
| `sent`, `undo` | the phase of an operation's provider checkpoint and of its rollback's |
| `missed` | history: policy edits that were still under way when somebody came to undo them |
| `worker` | where the background task stands |
| `ext` | external: what Google holds, a create that may still land included |

| Actions | Code |
|---|---|
| `Apply`, `ResumeRun`, `StartTeardown`, `ResumeTeardown` | the routes and their transactions |
| `Begin` ... `FinishSucceeded` | `DeploymentExecutor.execute`, `domain/execution.py` |
| `Send`, `Replay`, `Adopt`, `Unclear`, `Accepted`, `Rejected`, `AnswerLost`, `Confirmed`, `WaitFails` | `_create` and the checkpoints of `providers/google_executor.py` |
| `UnwindNext` ... `FinishRollback` | the rollback |
| `NextRemoval` ... `TeardownSucceeds` | `domain/teardown.py` |
| `Raise`, `Restart` | an exception that is not the provider's; the process ends and `_recover_interrupted_runs` |

Changes are told apart by how the provider proves what it made: an ordinary
resource carries a marker, a `Shared` one (the Gateway) does not and is replayed
with its request id, a policy edit has neither, a `Reused` one is only looked at.

Run `backend` (one change of each kind, 2 teardowns, 3 faults, 2 deaths, fair):

| Property | Says |
|---|---|
| `NoOrphan` | what the run has, or may still get, is claimed, or is shared and succeeded; `missed` edits apart |
| `SendsOnce` | nothing is sent while an earlier request for it may have been carried out |
| `ReportsTrue` | what a run or a teardown reports as made, undone or removed is so |
| `OneWorker` | the run and its teardowns are worked on one at a time |
| `LifecycleEnds` | every run and teardown ends |

`ReportsTrue` leaves out the operations that a restart left interrupted, for
which run `orphan` shows that it is false, and the `missed` edits. Three faults are a lost answer, a
failing rollback and a failing teardown; two deaths let one fall into the
recovery of another; two teardowns are a failed one and its successor.

Fairness: the background task runs on, the operator restarts a backend whose
work stands still and resumes what was interrupted. The recovery alone resumes
nothing, so without that operator a run stays interrupted.

A policy write times out after 20 seconds (`google_rest.py:187-195`) and may be
carried out later. The undo that comes first reads a policy without the edit,
restores nothing and drops the claim (`google_executor.py:3460-3537`); such an edit
is `missed`, and `EditsAreClaimed` (section 12) is the promise that it breaks.

A Gateway and the
policy of the project are always skipped by a teardown, which fails then, as the
code does; an interrupted teardown does not hold the slot. The branch for
operations that an older release left in `FAILED` beside `ROLLED_BACK` cannot
be reached from `Init`. Left out: approvals, acceptance, the audit log, identity
checks, secrets, enterprise certificates, NAT, Chrome policies.

## 9. `EgressGuard`

One goroutine that walks a removable or network target and inspects what
changed, `cep-local-dlp-agent/pkg/egress/watcher.go`.

| Variable | Code |
|---|---|
| `disk`, `clock` | external: content and stamp (time and size) of each file |
| `known`, `baseline` | the target and its `FileState`s |
| `walk`, `pc`, `path`, `data` | the loop: files noted, the one inspected, what was read of it |
| `allowed`, `blocked` | `allowedHashes` (which expire), `blockedHashes` |
| `quarantine` | the quarantine directory |
| `taken`, `confirmed`, `excused` | ghosts: contents taken away, warnings confirmed, stamps never scanned by design |

`AddTarget`, `ScanOnce`, `Unchanged`, `Changed`, `ScanEnds` are the walk;
`ReadFile`, `ReadFails`, `Scan`, `ScanFails`, `Hold`, `Confirm`, `Decline` are
`InspectFileTransfer`; `RemoveFile` and `Backup` are `quarantineAndRemove`;
`Write`, `Delete`, `Expire` and `Die` are the surroundings.

Run `egress` (2 files, 3 verdicts, 3 writes, one failing read, scan or removal, one
death and expiry, fair; 1 093 014 states):

| Property | Says |
|---|---|
| `BaselineVouches` | a file equals its baseline only if its content was judged and may stay, or is `excused` |
| `KeepsRead` | what the guard took away is in its hands, written back or in quarantine |
| `BlockedLeaves` | blocked content leaves, even if it could not be removed at first, unless it is `excused` |

Two paths let the loop work on one while the other changes; three writes are a
first content, one during the inspection and one after it. `excused` holds the
stamps that the code lets pass unjudged: files already there when a target is
found, files whose scan failed ("failing open"), and files that are there but
could not be read (a lock on a share, `watcher.go:128-131`), which pass for good
because the baseline has moved on before (`watcher.go:112`). A file that is empty
or too large is a content that the scan allows.

Assumed: each write has a fresh stamp, quarantine and restoring writes succeed,
a notifier is present, the scan's verdict of a content does not change. Reads,
scans and removals fail `MaxFaults` times, so a removal succeeds in the end. What the code
does not promise and the model shows: a write between read and removal, or under
the prompt, is lost; a death during the prompt loses the file that was held
back, so `KeepsRead` is about a living agent. The command-line guard
(`cli_guard.go`) and the discovery of targets ask the operating system for
processes and mounts and are left out.

`policy`, `lifecycle`, `tokens`, `backend` and `egress` do not check deadlock:
with their bounds used up and nothing under way each of these systems is at rest.

## 10. `ClipboardGuard`

The agent's clipboard guard as it runs on Windows,
`cep-local-dlp-agent/pkg/oshook/clipboard.go`: the loop of `Run` (`Ticker`), the
keyboard hook (`Hook`) and the goroutines that `HandlePasteAttempt` starts for a
text it does not know (`Jobs`). They share one mutex, which is never held over a
scan, a clipboard call or a dialog; each section under it, and each such call, is
an action.

| Variable | Code |
|---|---|
| `clip`, `app` | external: the clipboard and the application in front |
| `quarantine` | `quarantinedHash`, `-Text`, `-App`, `-Notified` |
| `blocked`, `lastBlocked`, `allowed`, `last` | `blockedVerdicts`, `lastBlockedHash`, `allowedVerdicts`, `LastEvaluatedHash` |
| `blind` | the loop has cached the empty text of a failed read under the clipboard's sequence number (`currentClipboardText`) |
| `inflight` | `inflightScan` of each text and application: its leader, `notifyOnBlock`, the result |
| `work` | where each evaluator is, with the text and application it read when it began |
| `pressed`, `due` | ghosts: what the user tried to paste, the presses without an answer |

`Tick`, `TickText` are the loop; `Judge*`, `Join`, `Lead`, `Scan*`, `Clear`,
`Record`, `Refuse`, `Alert`, `Warn`, `Accept`, `Decline`, `Forget`, `Admit`,
`Finish` are `evaluateClipboardInternal` and, for a file,
`evaluateClipboardFiles`, which shares no scans and asks no questions; `Press*`
are `HandlePasteAttempt`. `Copy`, `Switch` and the two `Expire` are the
surroundings.

Run `clipboard` (2 texts, a file, 2 watched applications with different verdicts,
a browser and the agent's own dialog, 2 presses, one copy, one switch and one failed
scan, read, write or clear, fair; 327 964 states):

| Property | Says |
|---|---|
| `AlertsNeedPress` | no dialog opens for what the user never tried to paste in that application |
| `PressesAnswered` | a press dropped while its text is being scanned is told the outcome in the end, whoever leads the scan |
| `BlockedLeaves` | content refused everywhere does not stay on the clipboard in a watched application, unless the loop is `blind` to it |

Two presses let one goroutine lead, the other join and both share a scan with the
loop. One copy and one switch put the copy before, between or after anything
else. The verdicts of the cache expire only while nothing runs but a question to
the user: they live for minutes, a scan for seconds. `FairSpec` lets the three
kinds of goroutine run on, a scan end (the client has a timeout) and the user
answer a question; it does not let the job's own five seconds (`GiveUp`) help.

Left out: the lower limit of text length (one character as configured), the
restart of a cache at 512 or 1024 entries, labels that only go to the log or the
scan, several files in one copy. The Win32 sequence number makes the next tick read
after every change of the clipboard and every reset of the number; a tick that reads
again what has not changed finds the same, so only the result of a failed read is
kept, in `blind`. A read fails when another process holds the clipboard for 40 ms
(`clipboard_windows.go:255-257`) and then returns the empty text. Deadlock is
checked: the loop never stops.

What the code does not promise and the model shows: a scan that ends late clears
a clipboard that has moved on, and ends the quarantine of another text
(`SilentlyKept`, section 12); a text given back overwrites a newer copy made in
the browser; a press that joins a scan whose warning was already found to need
no question passes without one.

## 11. Proofs

Each component has a module `<Component>Proofs` with its theorems. A proof
begins with the type invariant; then each property is the consequence of an
inductive invariant, which TLC first confirmed on the run of the module and
which one lemma per action shows to be preserved. The theorems hold for all
values of the constants that satisfy the named `ASSUME`s of the module; two of
`PolicyUpdateProofs` assume more, as the table says.

| Module | Theorem | Property | Assumes |
|---|---|---|---|
| `RunEngineProofs` | `TypeCorrect`, `IntentRecorded`, `ForeignSafe` | `TypeOK`, `IntentBeforeSend`, `ForeignUntouched` | |
| | `NothingOrphaned`, `SuccessIsReal`, `FailuresAreHandled`, `RollsBackInReverse` | `NoOrphan`, `SucceededMeansPresent`, `FailuresHandled`, `ReverseOrder` | |
| | `SlotIsHeld`, `OutcomeStays` | `SlotHeldDuringCalls`, `OutcomeIsFinal` | |
| `TeardownProofs` | `TypeCorrect`, `TeardownReleases`, `RowsOutliveResources`, `DeletionIsComplete` | `TypeOK`, `KeepsPromise`, `RowUntilGone`, `DeletedMeansReleased` | |
| | `SuccessIsComplete`, `SlotIsExclusive`, `OutcomeStays` | `SucceededMeansGone`, `SlotExclusive`, `OutcomeIsFinal` | |
| | `NothingIsSkipped` | `NothingSkipped` | |
| `PolicyUpdateProofs` | `TypeCorrect` | `TypeOK` | |
| | `WritesAreCovered` | `WritesUnderCheckpoint` | |
| | `UpdatesAreAtomic`, `ImplementsPair` | `PairAgrees`, `ChangesAsPair` | `~LateUnavailable` |
| `CepLeaseProofs` | `TypeCorrect`, `OneSlot`, `CreatesOnce`, `UnreadIsKept` | `TypeOK`, `SharedSlot`, `NoDuplicate`, `OutcomeKept` | |
| `CredentialsProofs` | `TypeCorrect`, `CachesOnlyCurrent`, `ResendsFresh`, `LeavesNothing` | `TypeOK`, `CacheIsCurrent`, `ResendIsFresh`, `SignedOut` | |
| `BackendExecutorProofs` | `TypeCorrect`, `ClaimsWhatExists`, `NeverSentTwice`, `ReportsAreTrue`, `WorkersAlone` | `TypeOK`, `NoOrphan`, `SendsOnce`, `ReportsTrue`, `OneWorker` | |
| `EgressGuardProofs` | `TypeCorrect`, `BaselineIsRight`, `NothingIsLost` | `TypeOK`, `BaselineVouches`, `KeepsRead` | |
| `ClipboardGuardProofs` | `TypeCorrect`, `SilentWithoutPress` | `TypeOK`, `AlertsNeedPress` | |

The assumption is needed (section 5). The exceptions are in the statements: a seal
under a live driver in `SlotHeldDuringCalls` and `OutcomeIsFinal` of `RunEngine`, the
time before a deployer was restored in `SlotExclusive` and `OutcomeIsFinal` of
`Teardown`, `stranded` and `crossed` in `PolicyUpdate`, `revived` in `SharedSlot`,
`missed` and the interrupted operations in `BackendExecutor`, `excused` in
`BaselineVouches`.

The arguments, module by module:

**RunEngine.** `TypeOK` is not inductive: a save of an interrupted run stores
`mem.state` as the state to return to, so `TypeInv` adds that it is active then,
and that both records keep `from` within what `Resume` may restore. `IntentInv`
says that the driver's copy and the disk agree on the images while a step is
applied (only the driver writes images), that the record says "sending" when the
driver is about to post, and that only policy writes are aborted. `DeleteProven`
says that what is to be deleted is still the run's own when the delete is sent:
only `UndoProve` establishes it and nobody else can take the name meanwhile. `RunInv`
joins to these: `SyncInv`, that a driver which writes has the record as
it is, unless a Resume sealed the run under it; `WorldInv`, that what exists
or may still land was sent for and that the record says so; `MeaningInv`, what
a record in each state means for the provider (steps are done in their order,
with their evidence, and once the run turns back whatever is exposed is still
owed), of the disk and of the copy of a driver that will save it; `PlaceInv`,
where the driver stands in a step; `ListedInv`, what the inventory holds once the
run is finalized; `TriesInv`, that each attempt was paid for by the limit or by a
crash. `RollsBackInReverse` needs the last part of `PlaceInv`: while a step is
undone, whatever a later step has exposed is recorded as a residual.

**Teardown.** `ReleaseInv` carries the refinement: a record never loses or gains
instructions, and they cover every row that may go (`Approved`, so that "all its
operations are done" means "the run is released" for any record, a stale one
too); the copies that drivers save agree with the record on them (`HandlerInv`,
which is why a stale save does no harm to the rows); a row about to be committed
belongs to a resource that is gone (`CommitProven`). `SoundInv` says of every
record, and of every copy that may yet be saved, that what it calls done is gone;
`PassedInv` that a driver has left nothing behind it and works on the highest row
that remains; `SlotInv` that, before any restored deployer, one driver works for
the record that holds the slot and its copy is the record. The later three are
proved over `Shape`, which lists once, field by field, what a step may do.

**PolicyUpdate.** `CoverInv` says that one process at a time works under the
checkpoint and that its copy agrees with it; `ReadInv` that what was read is what
the policy still is until its etag moves; `FlightInv` that a write under
way is what its sender waits for. `PairInv` says of each policy whether it is
clean, written by the open update, or can be taken back from it, and of
every request under way that it is too late to land or does no harm. A handler may
have read principals that an update has changed since: what its commit then leaves
behind is `stranded`, and `PairInv` carries that set along. All of this holds until
a reconciliation has `crossed` an update, which stays so (`CrossedStays`). The
refinement to `PolicyPair` follows: `Begin` opens an update, `Commit` or the last
step of a compensation closes it, and by `PairInv` both policies then agree with
the record; every other step writes under the open update or stutters.

**CepLease.** `OneSlot` is inductive over the type invariant: who takes the slot finds
it free of all others, and an old copy's save adds only to `revived`. `CreateInv` is the fencing
argument: a request leaves under a lease of full length (`FenceOf`), so a lease
outlives every request that left under it (`FlightInv`, from `LeaseAssumption`);
hence who holds the scopes, having listed them, knows what is in them (`KnowOf`).
`OutcomeInv` adds that a handler that may release its lease has read the
outcome of its create.

**Credentials.** `MintInv` says that the mint in an object's field is one of
the object as it is now, its generation included. `ResendInv` follows a caller
that was refused: whatever it can take its token from was asked for after the
refusal (`Fresh`). `LeftInv` says that after a sign-out no mint of the object in
use can still be answered.

**BackendExecutor.** `IInv` has four parts: where the worker stands (`PlaceInv`);
of each change, how its checkpoint, its operation, its claim and the provider
fit together (`CellInv`), a `missed` edit's apart; what the end of a run has settled (`EndInv`); and the
teardowns (`RemovalInv`: none before the run is over, one active at most, and
what one reports removed is gone). That the loop of a teardown finds a last
resource for its `CHOOSE` is shown by well-founded induction.

**EgressGuard.** `TypeInv` says that no stamp is from the future, so that a later
write never looks like an earlier one. `VouchInv` keeps `BaselineVouches` through
an inspection: what was read is still the file's content as long as the stamp has
not moved, and a read that fails excuses the stamp. `KeepInv` says that between inspections the guard holds nothing.

**ClipboardGuard.** `PressInv`: everyone but the loop judges only what was
pressed, and a scan that will alert was asked to by a press of its key.

Model-checked only: the liveness properties `RunSettles`, `TeardownSettles`,
`CheckpointSettles`, `LeaseClears`, `RequestsEnd`, `LifecycleEnds`,
`PressesAnswered` and the two `BlockedLeaves`, whose fairness is beyond these
provers, and the definitions that TLC refutes in section 12.

## 12. Where the code and its documentation disagree

* `bootstrap`: `rememberDeployer` repeats the cold-start reconciliation in a live
  worker. A teardown whose driver is waiting for the provider becomes
  `interrupted`, which frees the slot for another Apply, while the driver goes
  on deleting. `KeepsPromise` holds all the same: no resource or row is lost.
* `order`: the store's primary keys are digests, so rows come back in digest
  order, and the reverse of that is not the reverse dependency order that
  `ext/domain/teardown.ts:4-5` promises. The provider refuses a resource that is
  in use, the teardown fails, and a new one repeats the same order.
* `orphan`: the backend's rollback takes only operations that succeeded, or
  failed with a claim. One that a restart left interrupted is skipped when the
  resumed run fails its preparation, and the run ends `rolled_back` although the
  resource exists, still claimed.

Thirteen more are stated as definitions and have no run of their own; TLC refutes
each with the constants given here.

| Definition | Constants | What happens |
|---|---|---|
| `RunEngine!ActiveHasAlarm` | `N = 1`, `MarkedOnly`, `Owned = {1}`, `MAX_ATTEMPTS = 2`, one crash, one Resume | a Resume between the save and the alarm cancellation of `interruptRunForAuthentication` sets the alarm that is then cleared, and starts no driver because one is still registered; nobody moves the run until the worker restarts |
| `RunEngine!SealWaitsForDriver`, `SealIsPermanent` | those of run `pair`, `Spec` | `resumeRun` accepts a running run (`repository.ts:1313-1322`), finds a policy write in flight without evidence and seals the run as `rollback_unavailable`: the slot is free while the driver is still at the provider, and the driver's next save makes the run active again |
| `RunEngine!PreflightIsHonest` | `N = 1`, `UnmarkedOnly`, `Owned = {1}`, no crash | a BeyondCorp create that was never sent passes `compensationCapability` but fails in `destroyGenericCreatedResource`, which wants the created object's identity first; the run ends `rollback_failed` after every Resume |
| `RunEngine!GrantsKept` | `N = 1`, `IamOnly`, `Owned = {}`, one crash | the rollback of a grant, repeated because its result was not saved, also takes out the same grant that another administrator made in between |
| `PolicyUpdate!PairIsExact` | those of run `policy`, `Spec` | between reading the record and reading the inventory the handler awaits `requireDeployer`; the members that another update adds meanwhile stay in the policies after this one, and in no record |
| `PolicyUpdate!RestoreIsHarmless` | those of run `policy`, `Spec` | `rememberDeployer` reconciles under a live update: it takes the update for a dead one's and closes its checkpoint, while its handler goes on writing |
| `CepLease!SlotIsAtomic` | those of run `lifecycle`, `Spec` | a run stops while its driver goes on, a teardown starts, and the driver's save makes the run active as well, against "share atomic global slots" (`VERIFYING_THE_BUILD.md:98`) |
| `BackendExecutor!EditsAreClaimed` | those of run `backend`, `Spec` | a policy write times out and lands after its rollback has found nothing to restore and dropped the claim, against "Retain `sending` and its active intent claim" (`google_executor.py:3439-3443`) |
| `BackendExecutor!SkippedFails` | those of run `backend`, `Spec` | the skipped operation and the failure of the teardown are two transactions (`domain/teardown.py:247-257`); a restart between them resumes the teardown, which then succeeds |
| `EgressGuard!BlockedAlwaysLeaves` | those of run `egress` | "If CEP WebProtect returns BLOCK, the file is immediately removed" (`watcher.go:122-123`): a file that changes is noted before it is read, its read fails once, and the unjudged file is never looked at again |
| `ClipboardGuard!BlockedAlwaysLeaves` | those of run `clipboard` | the comment on `PrewarmClipboardOnce` (`clipboard.go:267-272`) says that neither Ctrl+V nor the mouse can leak a refused text: the loop's read fails once, its empty result is cached under the sequence number, and the text stays until the clipboard changes or a key press judges it |
| `ClipboardGuard!SilentlyKept` | those of run `clipboard`, two copies, one press, no fault, `Spec` | `oshook/clipboard.go:12-13` promises a silently quarantined text back in the browser; an allowed scan of an earlier text, which a press started, ends after the quarantine of a newer one began and clears it (line 514), so that the newer text is in neither place |

## 13. Not modelled

* The planner, the specification, discovery, catalog and certificates: pure
  functions of their input and of what the provider answers, with no state of
  their own. So are the payloads of the Path A and production executors and of
  the resource types behind `Kind`, whose protocol is modelled once.
* The audit chain: a head is read and appended to inside one transaction.
* The wizard, its texts and pages, half of the repository's lines: the handlers are
  modelled as they answer any request, at whatever moment a page sends it.
* The DLP proxy, the installer, the administration and
  verification scripts, the deployment templates: I/O, formats and one-shot
  procedures.
* In the modelled components, what sections 3 to 10 name as left out.

This is also why the modules stand for a small share of the repository's lines:
they cover the code that keeps state across an await, a transaction, a request
or a death, and that code is a small share of it.

## 14. Running

    tlc -workers 2 -config RunEngine_pair.cfg MCRunEngine          # also _replay
    tlc -workers 2 -config Teardown_release.cfg MCTeardown         # also _bootstrap, _order
    tlc -workers 2 -config PolicyUpdate_policy.cfg MCPolicyUpdate
    tlc -workers 2 -config CepLease_lifecycle.cfg MCCepLease
    tlc -workers 2 -config Credentials_tokens.cfg MCCredentials
    tlc -workers 2 -config BackendExecutor_backend.cfg MCBackendExecutor   # also _orphan
    tlc -workers 2 -config EgressGuard_egress.cfg MCEgressGuard
    tlc -workers 2 -config ClipboardGuard_clipboard.cfg MCClipboardGuard
    tlapm RunEngineProofs.tla
    tlapm TeardownProofs.tla
    tlapm PolicyUpdateProofs.tla
    tlapm CepLeaseProofs.tla
    tlapm CredentialsProofs.tla
    tlapm BackendExecutorProofs.tla
    tlapm EgressGuardProofs.tla
    tlapm ClipboardGuardProofs.tla

`_bootstrap`, `_order` and `_orphan` end with the counterexamples of section 12.
Every passing property is also refuted by TLC when the definition that
`PROJECT.json` names under `mutants` is replaced by its `...Mutant`.
