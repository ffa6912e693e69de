----------------------------- MODULE RunEngine -----------------------------
(* The resumable Apply of the browser extension: one durable run, driven by  *)
(* the ticks of runtime/run-engine.ts from background/service-worker.ts, the *)
(* create protocol of providers/executor.ts, and the provider it talks to.   *)
(* A Manifest V3 worker may die between any two steps: what survives is the  *)
(* run record in IndexedDB (disk), the ownership inventory (inv), the alarm  *)
(* and whatever the provider has accepted.                                   *)
EXTENDS Naturals

CONSTANTS
    N,              \* create steps of the approved plan
    Kind,           \* how each step proves what it did: see Kinds
    Owned,          \* steps whose change is owned_after_apply
    MAX_ATTEMPTS,   \* tries of a step before the run rolls back
    MaxCrashes,     \* bound: worker deaths while something is in flight
    MaxResumes      \* bound: Resume requests

Steps == 1..N

\* "marked": Compute resources, whose description carries the request id;
\* "unmarked": BeyondCorp resources, deduplicated by request id only;
\* "iam": read-modify-write of a shared policy, with no request id at all.
Kinds == {"marked", "unmarked", "iam"}

ASSUME NAssumption == N \in Nat \ {0}
ASSUME KindAssumption == Kind \in [Steps -> Kinds]
ASSUME OwnedAssumption == Owned \subseteq Steps
ASSUME AttemptsAssumption == MAX_ATTEMPTS \in Nat \ {0}
ASSUME BoundsAssumption == MaxCrashes \in Nat /\ MaxResumes \in Nat

VARIABLES
    disk,       \* the run record, as committed
    mem,        \* the driver's copy of it, loaded earlier
    pc,         \* where the driver of the run stands
    drv,        \* who drives: the Apply/Resume loop, an alarm, a cold start
    step,       \* the step the driver works on
    alarm,      \* is the run's recurring alarm set?
    req,        \* the message handler that accepted Apply or Resume
    cold,       \* has this worker reconciled durable state yet?
    inv,        \* steps with a row in the ownership inventory
    cloud,      \* what exists at the provider under each step's name
    sent,       \* the fate of each step's create request
    crashes, resumes

store == <<disk, inv>>
driver == <<mem, pc, drv, step>>
world == <<cloud, sent>>
counters == <<crashes, resumes>>
vars == <<disk, mem, pc, drv, step, alarm, req, cold, inv, cloud, sent, crashes, resumes>>

StepStatus == {"pending", "running", "done", "failed", "rollback_failed"}
RunState == {"running", "interrupted", "succeeded", "rolling_back", "rolled_back",
             "rollback_failed", "rollback_unavailable"}
Phase == {"none", "prepared", "sending", "aborted", "rejected", "applied"}

RunRecord == [state : RunState, fin : BOOLEAN, from : {"none", "running", "rolling_back"},
              status : [Steps -> StepStatus], attempts : [Steps -> Nat],
              image : [Steps -> Phase]]

\* The record planRun builds: every step pending, nothing captured.
PlannedRun == [state |-> "running", fin |-> FALSE, from |-> "none",
               status |-> [s \in Steps |-> "pending"],
               attempts |-> [s \in Steps |-> 0],
               image |-> [s \in Steps |-> "none"]]

PCs == {"idle", "load", "engine", "tick", "decide", "apply", "send", "post", "repost",
        "await", "reawait", "applied", "failed", "undo", "delete", "deleted",
        "sched", "finalize", "cancel", "interrupt", "interruptSave", "fatal",
        "fatalSave", "fatalSched"}

TypeOK ==
    /\ disk \in RunRecord
    /\ mem \in RunRecord
    /\ pc \in PCs
    /\ drv \in {"loop", "alarm", "cold"}
    /\ step \in Steps
    /\ alarm \in BOOLEAN
    /\ req \in {"none", "schedule", "drive", "seal", "cancel"}
    /\ cold \in BOOLEAN
    /\ inv \subseteq Steps
    /\ cloud \in [Steps -> {"absent", "ours", "foreign"}]
    /\ sent \in [Steps -> {"no", "flight", "landed", "merged", "refused"}]
    /\ crashes \in Nat
    /\ resumes \in Nat

isActive(state) == state \in {"running", "rolling_back"}

----------------------------------------------------------------------------
(* What a step still owes: the three predicates of run-engine.ts, and the    *)
(* compensation preflight that Resume runs over the whole record.            *)

rollbackCandidate(r, s) ==
    \/ r.status[s] = "rollback_failed"
    \/ /\ r.status[s] \in {"done", "failed"}
       /\ s \in Owned \/ r.image[s] # "none"

residualResourceRecords(r) ==
    IF r.state \in {"rollback_failed", "rollback_unavailable"}
    THEN {s \in Steps : rollbackCandidate(r, s)}
    ELSE {}

inventoryOf(r) == IF r.state = "succeeded" THEN Steps ELSE residualResourceRecords(r)

\* rollbackStep's own choice is narrower: a failed step counts only with an image.
undoable(r, s) ==
    \/ r.status[s] = "done" /\ (s \in Owned \/ r.image[s] # "none")
    \/ r.status[s] = "failed" /\ r.image[s] # "none"

compensationAvailable(r, s) ==
    /\ r.image[s] = "none" => s \notin Owned
    /\ r.image[s] = "sending" => Kind[s] = "marked"

preflightIssues(r) ==
    {s \in Steps : /\ rollbackCandidate(r, s) \/ r.image[s] # "none"
                   /\ ~compensationAvailable(r, s)}

----------------------------------------------------------------------------
(* The driver. Goto moves it; Save commits its copy, as runStore.save does.  *)

Goto(p) == pc' = p

Save(r) == mem' = r /\ disk' = r /\ UNCHANGED inv

\* A driver that returns holds nothing: its copy and its step are dropped.
Stop == pc' = "idle" /\ mem' = PlannedRun /\ step' = 1 /\ drv' = "loop"

Load ==
    /\ pc = "load"
    /\ mem' = disk
    /\ \/ isActive(disk.state) /\ Goto("engine")
       \/ /\ ~isActive(disk.state)
          /\ Goto(IF drv = "loop" \/ disk.fin THEN "finalize" ELSE "cancel")
    /\ UNCHANGED <<store, drv, step, alarm, req, cold, world, counters>>

\* engineFor: attest the deployer, rebuild the certificate, prepare the project.
Engine ==
    /\ pc = "engine"
    /\ \E next \in {"tick", "interrupt", "fatal"} : Goto(next)
    /\ UNCHANGED <<store, mem, drv, step, alarm, req, cold, world, counters>>

TickLoad ==
    /\ pc = "tick"
    /\ mem' = disk
    /\ Goto("decide")
    /\ UNCHANGED <<store, drv, step, alarm, req, cold, world, counters>>

\* The loaded run is no longer active: keep the alarm only for finalization.
TickInactive ==
    /\ pc = "decide"
    /\ ~isActive(mem.state)
    /\ alarm' = mem.fin
    /\ Goto("finalize")
    /\ UNCHANGED <<store, mem, drv, step, req, cold, world, counters>>

TickSucceed ==
    /\ pc = "decide"
    /\ mem.state = "running"
    /\ \A s \in Steps : mem.status[s] = "done"
    /\ Save([mem EXCEPT !.state = "succeeded", !.fin = TRUE])
    /\ Goto("sched")
    /\ UNCHANGED <<drv, step, alarm, req, cold, world, counters>>

\* s is the first step that is not done.
FirstOpen(r, s) == r.status[s] # "done" /\ \A t \in Steps : t < s => r.status[t] = "done"

\* Commit the intent before acting. (The tick's branch for a failed step of a
\* running record is dead: see FailureStartsRollback.)
TickIntent ==
    /\ pc = "decide"
    /\ mem.state = "running"
    /\ \E s \in Steps :
          /\ FirstOpen(mem, s)
          /\ mem.status[s] # "failed"
          /\ step' = s
          /\ Save([mem EXCEPT !.status[s] = "running", !.attempts[s] = @ + 1])
    /\ Goto("apply")
    /\ UNCHANGED <<drv, alarm, req, cold, world, counters>>

\* The executor's answer ends the tick, and each end is one more commit.
TickDone ==
    /\ pc = "applied"
    /\ Save([mem EXCEPT !.status[step] = "done"])
    /\ Goto("sched")
    /\ UNCHANGED <<drv, step, alarm, req, cold, world, counters>>

\* Bug: no limit on attempts.
TickFailMutant ==
    /\ pc = "failed"
    /\ Save([mem EXCEPT !.status[step] = "pending"])
    /\ Goto("sched")
    /\ UNCHANGED <<drv, step, alarm, req, cold, world, counters>>

\* Bug: the rollback is left to the next tick.
TickFailLateMutant ==
    /\ pc = "failed"
    /\ Save(IF mem.attempts[step] >= MAX_ATTEMPTS
            THEN [mem EXCEPT !.status[step] = "failed"]
            ELSE [mem EXCEPT !.status[step] = "pending"])
    /\ Goto("sched")
    /\ UNCHANGED <<drv, step, alarm, req, cold, world, counters>>

TickFail ==
    /\ pc = "failed"
    /\ Save(IF mem.attempts[step] >= MAX_ATTEMPTS
            THEN [mem EXCEPT !.status[step] = "failed", !.state = "rolling_back"]
            ELSE [mem EXCEPT !.status[step] = "pending"])
    /\ Goto("sched")
    /\ UNCHANGED <<drv, step, alarm, req, cold, world, counters>>

\* An AuthenticationError gives the attempt back: any request to the provider
\* may meet it, the reads that follow the create and its checkpoint included.
TickAuth ==
    /\ pc \in {"apply", "post", "repost", "await", "reawait", "applied"}
    /\ Save([mem EXCEPT !.status[step] = "pending",
                        !.attempts[step] = IF @ = 0 THEN 0 ELSE @ - 1])
    /\ Goto("interrupt")
    /\ UNCHANGED <<drv, step, alarm, req, cold, world, counters>>

\* Every tick that did not throw re-arms the alarm; then the loop goes on, and
\* an alarm's single tick ends.
Reschedule ==
    /\ pc = "sched"
    /\ alarm' = TRUE
    /\ \/ ~isActive(mem.state) /\ Goto("finalize") /\ UNCHANGED <<mem, drv, step>>
       \/ isActive(mem.state) /\ drv = "loop" /\ Goto("engine") /\ UNCHANGED <<mem, drv, step>>
       \/ isActive(mem.state) /\ drv = "alarm" /\ Stop
    /\ UNCHANGED <<store, req, cold, world, counters>>

----------------------------------------------------------------------------
(* executor.apply: every mutation is bracketed by checkpoints of its phase,  *)
(* each committed through checkpointBeforeImage before the next await.       *)

Checkpoint(phase) == Save([mem EXCEPT !.image[step] = phase])

ApplyPrepare ==
    /\ pc = "apply"
    /\ \/ mem.image[step] \in {"none", "aborted"} /\ Checkpoint("prepared")
       \/ mem.image[step] = "prepared" /\ UNCHANGED <<store, mem>>
    /\ Goto("send")
    /\ UNCHANGED <<drv, step, alarm, req, cold, world, counters>>

ApplySendingMutant ==
    /\ pc = "send"
    /\ Goto("post")
    /\ UNCHANGED <<store, mem, drv, step, alarm, req, cold, world, counters>>

ApplySending ==
    /\ pc = "send"
    /\ Checkpoint("sending")
    /\ Goto("post")
    /\ UNCHANGED <<drv, step, alarm, req, cold, world, counters>>

\* A retry that finds its own earlier send: the marker on the live object
\* proves it landed; otherwise the same request id is replayed. Not for IAM.
ApplyReconcile ==
    /\ pc = "apply"
    /\ mem.image[step] = "sending"
    /\ \/ /\ Kind[step] = "marked"
          /\ cloud[step] = "ours"
          /\ Checkpoint("applied")
          /\ Goto("applied")
       \/ /\ Kind[step] = "unmarked" \/ (Kind[step] = "marked" /\ cloud[step] # "ours")
          /\ Goto("repost")
          /\ UNCHANGED <<store, mem>>
    /\ UNCHANGED <<drv, step, alarm, req, cold, world, counters>>

ApplyAlreadyApplied ==
    /\ pc = "apply"
    /\ mem.image[step] = "applied"
    /\ Kind[step] = "iam" \/ cloud[step] = "ours"
    /\ Goto("applied")
    /\ UNCHANGED <<store, mem, drv, step, alarm, req, cold, world, counters>>

\* The request leaves the worker. A provider that already accepted this
\* request id answers from its record.
Post ==
    /\ \/ pc = "post" /\ Goto("await")
       \/ pc = "repost" /\ Goto("reawait")
    /\ sent' = [sent EXCEPT ![step] = IF @ = "landed" THEN @ ELSE "flight"]
    /\ UNCHANGED <<store, mem, drv, step, alarm, req, cold, cloud, counters>>

\* Bug: an accepted operation taken for a finished one.
PostConfirmedMutant ==
    /\ pc \in {"await", "reawait"}
    /\ Checkpoint("applied")
    /\ Goto("applied")
    /\ UNCHANGED <<drv, step, alarm, req, cold, world, counters>>

\* A response, or for a marked object the reconcile after a lost response,
\* proves the object ours: its provider identity is recorded.
PostConfirmed ==
    /\ pc \in {"await", "reawait"}
    /\ sent[step] \in {"landed", "merged"}
    /\ Checkpoint("applied")
    /\ Goto("applied")
    /\ UNCHANGED <<drv, step, alarm, req, cold, world, counters>>

\* Bug: the rejection of a replay taken for the rejection of the create.
PostRejectedMutant ==
    /\ \/ pc = "await" /\ sent[step] = "refused"
       \/ pc = "reawait"
    /\ Checkpoint("rejected")
    /\ Goto("failed")
    /\ UNCHANGED <<drv, step, alarm, req, cold, world, counters>>

\* A definite rejection proves that nothing was created, but only of a first
\* send: the answer to a replay says nothing of the send before it. A policy
\* write that lost its etag race is merged anew, at once or on the next attempt.
PostRejected ==
    /\ pc = "await"
    /\ sent[step] = "refused"
    /\ \/ Checkpoint("rejected") /\ Goto("failed")
       \/ /\ Kind[step] = "iam"
          /\ Checkpoint("aborted")
          /\ Goto("apply") \/ Goto("failed")
    /\ UNCHANGED <<drv, step, alarm, req, cold, world, counters>>

\* Anything else that goes wrong leaves the checkpoint where it is: a refusal
\* before the send, an ambiguous one after it, a readiness check that fails once
\* the object is there and recorded.
ApplyFails ==
    /\ pc \in {"apply", "post", "repost", "await", "reawait", "applied"}
    /\ Goto("failed")
    /\ UNCHANGED <<store, mem, drv, step, alarm, req, cold, world, counters>>

----------------------------------------------------------------------------
(* rollbackStep: the last undoable step, one per tick.                       *)

\* Bug: plan order.
LastUndoableMutant(r, s) == undoable(r, s) /\ \A t \in Steps : t < s => ~undoable(r, t)

LastUndoable(r, s) == undoable(r, s) /\ \A t \in Steps : t > s => ~undoable(r, t)

UndoStart ==
    /\ pc = "decide"
    /\ mem.state = "rolling_back"
    /\ \E s \in Steps : LastUndoable(mem, s) /\ step' = s
    /\ Goto("undo")
    /\ UNCHANGED <<store, mem, drv, alarm, req, cold, world, counters>>

UndoFinish ==
    /\ pc = "decide"
    /\ mem.state = "rolling_back"
    /\ \A s \in Steps : ~undoable(mem, s)
    /\ Save([mem EXCEPT !.fin = TRUE,
                        !.state = IF \E s \in Steps : mem.status[s] = "rollback_failed"
                                  THEN "rollback_failed" ELSE "rolled_back"])
    /\ Goto("sched")
    /\ UNCHANGED <<drv, step, alarm, req, cold, world, counters>>

\* destroyGenericCreatedResource asks a BeyondCorp checkpoint for the identity of
\* the created object before it looks at the phase; only "applied" has one.
checkpointInvalid(r, s) == Kind[s] = "unmarked" /\ r.image[s] # "applied"

\* Bug: the name alone identifies the object.
ProvenOursMutant(s) == mem.image[s] \in {"sending", "applied"} /\ cloud[s] # "absent"

\* Does what the provider shows prove that the object is this run's?
ProvenOurs(s) ==
    \/ Kind[s] = "iam" /\ mem.image[s] = "applied"
    \/ Kind[s] # "iam" /\ mem.image[s] = "applied" /\ cloud[s] = "ours"
    \/ Kind[s] = "marked" /\ mem.image[s] = "sending" /\ cloud[s] = "ours"

UndoProve ==
    /\ pc = "undo"
    /\ ProvenOurs(step)
    /\ Goto("delete")
    /\ UNCHANGED <<store, mem, drv, step, alarm, req, cold, world, counters>>

\* The exact object is deleted; of a policy, revertIamPolicyDelta takes out the
\* members this run's write had added, whoever grants them by now.
UndoDelete ==
    /\ pc = "delete"
    /\ cloud' = [cloud EXCEPT ![step] = IF Kind[step] = "iam" /\ sent[step] # "landed" THEN @
                                        ELSE "absent"]
    /\ Goto("deleted")
    /\ UNCHANGED <<store, mem, drv, step, alarm, req, cold, sent, counters>>

\* Bug: a lookup that finds nothing taken to mean that nothing was sent.
NothingToUndoMutant(s) ==
    \/ mem.image[s] \in {"prepared", "rejected", "aborted"} /\ ~checkpointInvalid(mem, s)
    \/ mem.image[s] \in {"sending", "applied"} /\ cloud[s] = "absent"

\* Nothing was sent, or an applied object is already gone: nothing to undo.
NothingToUndo(s) ==
    \/ mem.image[s] \in {"prepared", "rejected", "aborted"} /\ ~checkpointInvalid(mem, s)
    \/ mem.image[s] = "applied" /\ Kind[s] # "iam" /\ cloud[s] = "absent"

UndoDone ==
    /\ \/ pc = "undo" /\ NothingToUndo(step)
       \/ pc = "deleted"
    /\ Save([mem EXCEPT !.status[step] = "pending"])
    /\ Goto("sched")
    /\ UNCHANGED <<drv, step, alarm, req, cold, world, counters>>

\* Any failure, an unproven object included, is recorded and passed over.
UndoFails ==
    /\ pc \in {"undo", "delete", "deleted"}
    /\ Save([mem EXCEPT !.status[step] = "rollback_failed"])
    /\ Goto("sched")
    /\ UNCHANGED <<drv, step, alarm, req, cold, world, counters>>

----------------------------------------------------------------------------
(* Finalization, interruption and the fatal path of the service worker.      *)

\* finalizeRunInventory: one transaction, refused if the record moved on.
sameCheckpoint(a, b) ==
    a.state = b.state /\ a.status = b.status /\ a.attempts = b.attempts /\ a.image = b.image

CommitInventory(r) ==
    \/ disk.fin /\ inv' = inventoryOf(r) /\ disk' = [disk EXCEPT !.fin = FALSE]
    \/ ~disk.fin /\ inv = inventoryOf(r) /\ UNCHANGED store

Finalize ==
    /\ pc = "finalize"
    /\ sameCheckpoint(disk, mem)
    /\ CommitInventory(mem)
    /\ Goto("cancel")
    /\ UNCHANGED <<mem, drv, step, alarm, req, cold, world, counters>>

FinalizeRefused ==
    /\ pc = "finalize"
    /\ \/ ~sameCheckpoint(disk, mem)
       \/ ~disk.fin /\ inv # inventoryOf(mem)
    /\ Goto("fatal")
    /\ UNCHANGED <<store, mem, drv, step, alarm, req, cold, world, counters>>

CancelAlarm ==
    /\ pc = "cancel"
    /\ alarm' = FALSE
    /\ Stop
    /\ UNCHANGED <<store, req, cold, world, counters>>

\* Bug: no look at whether the run is still active.
InterruptMutant ==
    /\ pc = "interrupt"
    /\ mem' = disk
    /\ Goto("interruptSave")
    /\ UNCHANGED <<store, drv, step, alarm, req, cold, world, counters>>

\* interruptRunForAuthentication: load, save, then cancel the alarm.
Interrupt ==
    /\ pc = "interrupt"
    /\ mem' = disk
    /\ Goto(IF isActive(disk.state) THEN "interruptSave" ELSE "cancel")
    /\ UNCHANGED <<store, drv, step, alarm, req, cold, world, counters>>

InterruptSave ==
    /\ pc = "interruptSave"
    /\ Save([mem EXCEPT !.from = mem.state, !.state = "interrupted"])
    /\ Goto("cancel")
    /\ UNCHANGED <<drv, step, alarm, req, cold, world, counters>>

\* scheduleRollbackAfterFatalError.
Fatal ==
    /\ pc = "fatal"
    /\ \/ isActive(disk.state) /\ mem' = disk /\ Goto("fatalSave") /\ UNCHANGED <<drv, step>>
       \/ ~isActive(disk.state) /\ Stop
    /\ UNCHANGED <<store, alarm, req, cold, world, counters>>

FatalSave ==
    /\ pc = "fatalSave"
    /\ \/ /\ mem.state = "rolling_back"
          /\ Save([mem EXCEPT !.state = "rollback_failed", !.fin = TRUE])
       \/ /\ mem.state = "running"
          /\ Save([mem EXCEPT !.state = "rolling_back",
                              !.status = [s \in Steps |-> IF FirstOpen(mem, s) THEN "failed"
                                                          ELSE mem.status[s]]])
    /\ Goto("fatalSched")
    /\ UNCHANGED <<drv, step, alarm, req, cold, world, counters>>

FatalSched ==
    /\ pc = "fatalSched"
    /\ alarm' = TRUE
    /\ Stop
    /\ UNCHANGED <<store, req, cold, world, counters>>

----------------------------------------------------------------------------
(* Handlers: the Apply or Resume message, the alarm, the cold start.         *)

\* Bug: whatever the record was, it returns to where it was interrupted.
ResumedMutant(r) ==
    IF r.state = "rollback_failed"
    THEN [r EXCEPT !.state = "rolling_back", !.fin = FALSE, !.from = "none",
                   !.status = [s \in Steps |-> IF r.status[s] = "rollback_failed" THEN "done"
                                               ELSE r.status[s]]]
    ELSE [r EXCEPT !.state = r.from, !.fin = FALSE, !.from = "none"]

Resumed(r) ==
    IF r.state = "rollback_failed"
    THEN [r EXCEPT !.state = "rolling_back", !.fin = FALSE, !.from = "none",
                   !.status = [s \in Steps |-> IF r.status[s] = "rollback_failed" THEN "done"
                                               ELSE r.status[s]]]
    ELSE [r EXCEPT !.state = IF r.state = "interrupted" THEN r.from ELSE r.state,
                   !.fin = FALSE, !.from = "none"]

\* A step that cannot be compensated from durable state seals the whole run.
Sealed(r) ==
    [r EXCEPT !.state = "rollback_unavailable", !.fin = TRUE, !.from = "none",
              !.status = [s \in Steps |-> IF s \in preflightIssues(r) THEN "rollback_failed"
                                          ELSE r.status[s]]]

\* Every unfinished record is resumable, whoever drives it. ("failed" is a state
\* of older records only.)
ResumableStates == {"running", "rolling_back", "interrupted", "rollback_failed"}

\* resumeRun is one transaction. The page offers it for an interrupted or
\* rollback-failed run; a second click or tab can send it for a live one.
Resume ==
    /\ cold /\ req = "none" /\ resumes < MaxResumes
    /\ ~(drv = "cold" /\ pc # "idle")
    /\ disk.state \in ResumableStates
    /\ IF preflightIssues(disk) = {}
       THEN disk' = Resumed(disk) /\ req' = "schedule"
       ELSE disk' = Sealed(disk) /\ req' = "seal"
    /\ resumes' = resumes + 1
    /\ UNCHANGED <<inv, driver, alarm, cold, world, crashes>>

HandlerSchedule ==
    /\ req = "schedule"
    /\ alarm' = TRUE
    /\ req' = "drive"
    /\ UNCHANGED <<store, driver, cold, world, counters>>

\* driveDurableRun: a run that has a driver already gets no second one.
HandlerDrive ==
    /\ req = "drive"
    /\ req' = "none"
    /\ \/ pc = "idle" /\ Goto("load") /\ drv' = "loop"
       \/ pc # "idle" /\ UNCHANGED <<pc, drv>>
    /\ UNCHANGED <<store, mem, step, alarm, cold, world, counters>>

\* A sealed run is finalized by the handler itself.
HandlerSeal ==
    /\ req = "seal"
    /\ \/ disk.state = "rollback_unavailable" /\ CommitInventory(disk) /\ req' = "cancel"
       \/ disk.state # "rollback_unavailable" /\ req' = "none" /\ UNCHANGED store
    /\ UNCHANGED <<driver, alarm, cold, world, counters>>

HandlerCancel ==
    /\ req = "cancel"
    /\ alarm' = FALSE
    /\ req' = "none"
    /\ UNCHANGED <<store, driver, cold, world, counters>>

AlarmFires ==
    /\ alarm /\ cold /\ pc = "idle"
    /\ Goto("load") /\ drv' = "alarm"
    /\ UNCHANGED <<store, mem, step, alarm, req, cold, world, counters>>

\* Bug: a cold start settles finalizations and forgets the active runs.
ColdStartMutant ==
    /\ ~cold
    /\ cold' = TRUE
    /\ IF disk.fin THEN Goto("finalize") /\ drv' = "cold" /\ mem' = disk
       ELSE UNCHANGED <<pc, drv, mem>>
    /\ UNCHANGED <<store, step, alarm, req, world, counters>>

\* ensureColdStartReconciled, awaited by every handler of a new worker.
ColdStart ==
    /\ ~cold
    /\ cold' = TRUE
    /\ \/ disk.fin /\ Goto("finalize") /\ drv' = "cold" /\ mem' = disk /\ UNCHANGED alarm
       \/ /\ ~disk.fin
          /\ alarm' = (alarm \/ isActive(disk.state))
          /\ UNCHANGED <<pc, drv, mem>>
    /\ UNCHANGED <<store, step, req, world, counters>>

\* The browser ends the worker: memory is gone, storage and alarms stay.
Die == Stop /\ req' = "none" /\ cold' = FALSE /\ UNCHANGED <<store, alarm, world, resumes>>

Crash ==
    /\ pc # "idle" \/ req # "none"
    /\ crashes < MaxCrashes
    /\ crashes' = crashes + 1
    /\ Die

IdleKill == cold /\ pc = "idle" /\ req = "none" /\ Die /\ UNCHANGED crashes

----------------------------------------------------------------------------
(* The provider and the other administrators of the project.                 *)

\* An accepted request takes effect at any later time, once per request id. A
\* policy write that adds a member already there is "merged": its delta is empty.
Land(s) ==
    /\ sent[s] = "flight"
    /\ cloud[s] = "absent" \/ Kind[s] = "iam"
    /\ sent' = [sent EXCEPT ![s] = IF cloud[s] = "absent" THEN "landed" ELSE "merged"]
    /\ cloud' = [cloud EXCEPT ![s] = IF @ = "absent" THEN "ours" ELSE @]
    /\ UNCHANGED <<store, driver, alarm, req, cold, counters>>

Refuse(s) ==
    /\ sent[s] = "flight"
    /\ sent' = [sent EXCEPT ![s] = "refused"]
    /\ UNCHANGED <<store, driver, alarm, req, cold, cloud, counters>>

\* Somebody else creates the same name, or grants the same role.
ForeignCreate(s) ==
    /\ cloud[s] = "absent"
    /\ cloud' = [cloud EXCEPT ![s] = "foreign"]
    /\ UNCHANGED <<store, driver, alarm, req, cold, sent, counters>>

----------------------------------------------------------------------------

\* The Apply message has just consumed the approval and committed the record.
Init ==
    /\ disk = PlannedRun /\ mem = PlannedRun
    /\ pc = "idle" /\ drv = "loop" /\ step = 1
    /\ alarm = FALSE /\ req = "schedule" /\ cold = TRUE
    /\ inv = {}
    /\ cloud = [s \in Steps |-> "absent"]
    /\ sent = [s \in Steps |-> "no"]
    /\ crashes = 0 /\ resumes = 0

Executor ==
    \/ ApplyPrepare \/ ApplySending \/ ApplyReconcile \/ ApplyAlreadyApplied
    \/ Post \/ PostConfirmed \/ PostRejected \/ ApplyFails

Tick ==
    \/ Load \/ Engine \/ TickLoad \/ TickInactive \/ TickSucceed
    \/ TickIntent \/ TickDone \/ TickFail \/ TickAuth \/ Reschedule

Rollback == UndoStart \/ UndoFinish \/ UndoProve \/ UndoDelete \/ UndoDone \/ UndoFails

Settle ==
    \/ Finalize \/ FinalizeRefused \/ CancelAlarm
    \/ Interrupt \/ InterruptSave \/ Fatal \/ FatalSave \/ FatalSched

Driver == Tick \/ Executor \/ Rollback \/ Settle

Handler == HandlerSchedule \/ HandlerDrive \/ HandlerSeal \/ HandlerCancel

Next ==
    \/ Driver \/ Handler \/ Resume \/ AlarmFires \/ ColdStart \/ Crash \/ IdleKill
    \/ \E s \in Steps : Land(s) \/ Refuse(s) \/ ForeignCreate(s)

Spec == Init /\ [][Next]_vars
----------------------------------------------------------------------------
(* What the engine must guarantee.                                           *)

Calling == pc \in {"apply", "send", "post", "repost", "await", "reawait",
                   "undo", "delete", "deleted"}

Settled == ~isActive(disk.state) /\ ~disk.fin

\* No create request leaves the worker before the record says so: whatever the
\* provider may have accepted, now or later, the committed step names it.
IntentBeforeSend ==
    \A s \in Steps : sent[s] # "no" => disk.image[s] \in {"sending", "aborted", "rejected", "applied"}
                                       \/ (Kind[s] = "iam" /\ disk.image[s] = "prepared")

\* A run that is over leaves nothing behind unlisted: every object it created,
\* and every create that may still land, has a row in the ownership inventory.
NoOrphan ==
    Settled /\ disk.state # "interrupted" =>
        \A s \in Steps : cloud[s] = "ours" \/ sent[s] = "flight" => s \in inv

\* A run reports success only when every planned object is there.
SucceededMeansPresent ==
    disk.state = "succeeded" => \A s \in Steps : cloud[s] # "absent" /\ disk.image[s] = "applied"

\* The engine calls the provider only while its record holds the lifecycle slot
\* (runHasActiveWork), for otherwise another Apply or a teardown could start
\* meanwhile: only a Resume that seals the run takes the slot from a live driver.
SlotHeldDuringCalls ==
    Calling => isActive(disk.state) \/ disk.fin \/ disk.state = "rollback_unavailable"

\* Without that exception it would be what "Apply, rollback, finalization, policy
\* updates, and teardown share atomic global slots" promises.
SealWaitsForDriver == Calling => isActive(disk.state) \/ disk.fin

\* Retries are bounded: only a death of the worker in mid-step buys one more.
AttemptsBounded == \A s \in Steps : disk.attempts[s] <= MAX_ATTEMPTS + crashes

\* A step fails for good and its run starts to roll back in one save, so that no
\* crash, interruption or Resume in between finds a failed step in a run that
\* goes on: tick's branch for one is never taken.
FailureStartsRollback ==
    disk.state = "running" \/ (disk.state = "interrupted" /\ disk.from = "running")
        => \A s \in Steps : disk.status[s] # "failed"

\* A failing step is retried, but not for ever, and then the run unwinds.
FailuresHandled == AttemptsBounded /\ FailureStartsRollback

\* Compensation deletes in reverse: an object goes only after every later one
\* is gone, or was recorded as a residual the rollback could not remove.
ReverseOrder ==
    [][\A s \in Steps : cloud[s] = "ours" /\ cloud'[s] = "absent" =>
          \A t \in Steps : t > s /\ cloud[t] = "ours" => disk.status[t] = "rollback_failed"]_vars

\* Nothing that somebody else created is ever deleted, same name or not, and no
\* grant that somebody else had made before this run's own write.
ForeignUntouched ==
    [][\A s \in Steps :
          cloud[s] = "foreign" /\ (Kind[s] = "iam" => sent[s] # "landed")
              => cloud'[s] = "foreign"]_vars

\* revertIamPolicyDelta's promise for the rest: members that other administrators
\* introduce after Apply are kept by the rollback.
GrantsKept ==
    [][\A s \in Steps : Kind[s] = "iam" /\ cloud[s] = "foreign" => cloud'[s] = "foreign"]_vars

\* A run that reported success or a complete rollback never reports anything
\* else, and a sealed one is brought back only by the save of a driver that had
\* loaded it before: no interruption, alarm, new worker or later Resume does.
OutcomeIsFinal ==
    [][disk.state \in {"succeeded", "rolled_back", "rollback_unavailable"} =>
          \/ disk'.state = disk.state
          \/ disk.state = "rollback_unavailable" /\ pc # "idle" /\ isActive(mem.state)]_vars

\* The promise for a sealed run, which "becomes permanently rollback_unavailable".
SealIsPermanent ==
    [][disk.state = "rollback_unavailable" => disk'.state = disk.state]_vars

\* compensationCapability decides "whether one step can be compensated using
\* durable state alone": a rollback that Resume's preflight has let through meets
\* no checkpoint that the executor refuses to read.
PreflightIsHonest ==
    resumes > 0 /\ disk.state = "rolling_back" /\ preflightIssues(disk) = {} =>
        \A s \in Steps : undoable(disk, s) => ~checkpointInvalid(disk, s)

\* drain's contract, "tick alone, called repeatedly by an alarm, gets there",
\* needs the alarm: an active run nobody is driving has one, unless the worker
\* has not reconciled yet.
ActiveHasAlarm == isActive(disk.state) /\ cold /\ pc = "idle" /\ req = "none" => alarm

\* Every accepted run comes to an end or asks for its operator.
RunSettles == []<>Settled

\* What keeps a run moving: the event loop runs each handler to its end, and
\* the alarm rings. A worker that sleeps wakes on the alarm.
Alarms ==
    /\ WF_vars(Driver) /\ WF_vars(Handler) /\ SF_vars(AlarmFires)
    /\ WF_vars(alarm /\ ColdStart)

\* Besides, Chrome stops an idle worker and some later event starts a new one.
Wakeups == WF_vars(IdleKill) /\ WF_vars(ColdStart)

FairSpec == Spec /\ Alarms /\ Wakeups
=============================================================================
