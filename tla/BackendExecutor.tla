--------------------------- MODULE BackendExecutor ---------------------------
(* The Python backend's Apply and teardown of one approved plan: the          *)
(* checkpointed loops of domain/execution.py and domain/teardown.py, the      *)
(* transactions of storage/repository.py they make, the recovery at start-up, *)
(* and the create, undo and destroy protocols of providers/google_executor.py.*)
EXTENDS Naturals, FiniteSets

CONSTANTS
    N,              \* number of changes of the plan
    Reused,         \* changes that find a compatible resource
    Shared,         \* creations the run does not own afterwards: the Gateway
    Policies,       \* changes that edit an IAM policy
    Teardowns,
    MaxFaults,      \* bound: requests that fail, or whose answer is lost
    MaxCrashes      \* bound: workers that die with the process or an exception

Changes == 1 .. N

ASSUME PlanAssumption ==
    /\ N \in Nat
    /\ Reused \subseteq Changes /\ Shared \subseteq Changes /\ Policies \subseteq Changes
    /\ Reused \cap Shared = {} /\ Reused \cap Policies = {} /\ Shared \cap Policies = {}
ASSUME TeardownsAssumption == "run" \notin Teardowns
ASSUME BoundsAssumption == MaxFaults \in Nat /\ MaxCrashes \in Nat

VARIABLES
    run,        \* durable: status and phase of the deployment run
    op,         \* durable: status of the operation of each change
    sent,       \* durable: phase of each operation's provider checkpoint
    undo,       \* durable: phase of the rollback checkpoint of a policy edit
    missed,     \* history: policy edits under way when somebody came to undo them
    claim,      \* durable: changes whose resource the run claims
    td,         \* durable: status of each teardown, what it removes, its operations
    worker,     \* the background task of the run and of each teardown
    ext,        \* external: what Google holds for each change
    faults, crashes

records == <<run, op, claim, td>>
checkpoints == <<sent, undo, missed>>
bounds == <<faults, crashes>>
vars == <<records, checkpoints, worker, ext, bounds>>

Jobs == {"run"} \cup Teardowns
Generic == Changes \ (Reused \cup Shared \cup Policies)
Final == {"succeeded", "failed", "rolled_back", "rollback_failed"}
Idle == [pc |-> "idle", at |-> 0, failed |-> FALSE]
Begun == [pc |-> "begin", at |-> 0, failed |-> FALSE]

PCs == {"idle", "begin", "prepare", "operation", "skip", "claim", "apply", "post", "replay",
        "created", "fail", "complete", "unwind", "revert", "delete", "undone",
        "destroy", "destroyed", "abandon"}
WorkerState == [pc : PCs, at : 0 .. N + 1, failed : BOOLEAN]
RunRecord == [status : {"none", "running", "interrupted"} \cup Final,
              phase : {"applying", "rolling_back", "finalized"}]
TeardownRecord ==
    [status : {"none", "pending", "running", "interrupted", "succeeded", "failed"},
     plan : SUBSET Changes,
     ops : [Changes -> {"pending", "running", "succeeded", "failed", "skipped"}]]

TypeOK ==
    /\ run \in RunRecord
    /\ op \in [Changes -> {"none", "running", "interrupted", "succeeded", "skipped",
                           "failed", "rolled_back"}]
    /\ sent \in [Changes -> {"prepared", "sending", "applied", "rejected"}]
    /\ undo \in [Policies -> {"none", "sending", "applied"}]
    /\ claim \subseteq Changes /\ missed \subseteq Policies
    /\ td \in [Teardowns -> TeardownRecord]
    /\ worker \in [Jobs -> WorkerState]
    /\ ext \in [Changes -> {"absent", "inflight", "present"}]
    /\ faults \in 0 .. MaxFaults /\ crashes \in 0 .. MaxCrashes

NoTeardown == [status |-> "none", plan |-> {}, ops |-> [c \in Changes |-> "pending"]]

Init ==
    /\ run = [status |-> "none", phase |-> "applying"]
    /\ op = [c \in Changes |-> "none"]
    /\ sent = [c \in Changes |-> "prepared"] /\ undo = [c \in Policies |-> "none"]
    /\ claim = {} /\ missed = {}
    /\ td = [t \in Teardowns |-> NoTeardown]
    /\ worker = [j \in Jobs |-> Idle]
    /\ ext = [c \in Changes |-> IF c \in Reused THEN "present" ELSE "absent"]
    /\ faults = 0 /\ crashes = 0

At(j, p) == worker[j].pc = p
Goto(j, p, c) == worker' = [worker EXCEPT ![j].pc = p, ![j].at = c]
Stop(j) == worker' = [worker EXCEPT ![j] = Idle]
Start(j) == worker' = [worker EXCEPT ![j] = Begun]
Fault == faults < MaxFaults /\ faults' = faults + 1

----------------------------------------------------------------------------
(* The HTTP handlers: each takes the lifecycle slot and starts a worker.     *)

RunActive == run.status \in {"running", "interrupted"}

\* A teardown that was interrupted does not hold the slot.
TeardownActive == \E t \in Teardowns : td[t].status \in {"pending", "running"}

\* consume_approval_and_create_run, then DeploymentExecutor.execute.
Apply ==
    /\ run.status = "none" /\ ~TeardownActive
    /\ run' = [status |-> "running", phase |-> "applying"]
    /\ Start("run")
    /\ UNCHANGED <<op, claim, td, checkpoints, ext, bounds>>

ResumeRun ==
    /\ run.status = "interrupted" /\ ~TeardownActive
    /\ run' = [run EXCEPT !.status = "running"]
    /\ Start("run")
    /\ UNCHANGED <<op, claim, td, checkpoints, ext, bounds>>

\* build_teardown_plan: what the run claims, and a Gateway it created.
TeardownPlan == claim \cup {c \in Shared : op[c] = "succeeded"}

\* create_teardown_run, then TeardownExecutor.execute.
StartTeardown(t) ==
    /\ td[t].status = "none"
    /\ run.status \in Final /\ ~TeardownActive /\ TeardownPlan # {}
    /\ \A u \in Teardowns : td[u].status # "succeeded"
    /\ td' = [td EXCEPT ![t] = [NoTeardown EXCEPT !.status = "pending", !.plan = TeardownPlan]]
    /\ Start(t)
    /\ UNCHANGED <<run, op, claim, checkpoints, ext, bounds>>

\* Bug: an interrupted teardown resumes whatever else is under way.
ResumeTeardownMutant(t) ==
    /\ td[t].status = "interrupted"
    /\ td' = [td EXCEPT ![t].status = "running"]
    /\ Start(t)
    /\ UNCHANGED <<run, op, claim, checkpoints, ext, bounds>>

ResumeTeardown(t) ==
    /\ td[t].status = "interrupted" /\ ~RunActive /\ ~TeardownActive
    /\ td' = [td EXCEPT ![t].status = "running"]
    /\ Start(t)
    /\ UNCHANGED <<run, op, claim, checkpoints, ext, bounds>>

----------------------------------------------------------------------------
(* Apply: one operation after the other.                                     *)

\* execute goes on where the phase of the run says.
Begin ==
    /\ At("run", "begin")
    /\ IF run.phase = "rolling_back" THEN Goto("run", "unwind", N) ELSE Goto("run", "prepare", 0)
    /\ UNCHANGED <<records, checkpoints, ext, bounds>>

Prepared ==
    /\ At("run", "prepare")
    /\ Goto("run", "operation", 1)
    /\ UNCHANGED <<records, checkpoints, ext, bounds>>

BeginRollback == run' = [run EXCEPT !.phase = "rolling_back"] /\ Goto("run", "unwind", N)

FinishRun(s) == run' = [status |-> s, phase |-> "finalized"] /\ Stop("run")

\* prepare_apply no longer finds the image or the certificate as approved.
PrepareFails ==
    /\ At("run", "prepare") /\ Fault
    /\ IF claim # {} \/ \E c \in Changes : op[c] = "succeeded" THEN BeginRollback
       ELSE FinishRun("failed")
    /\ UNCHANGED <<op, claim, td, checkpoints, ext, crashes>>

\* start_operation records the intent, or takes up an operation again.
StartOperation(c) ==
    /\ At("run", "operation") /\ worker["run"].at = c
    /\ \/ /\ op[c] \in {"none", "running", "interrupted"}
          /\ op' = [op EXCEPT ![c] = "running"]
          /\ Goto("run", IF c \in Reused THEN "skip" ELSE "claim", c)
          /\ run' = run
       \/ /\ op[c] \in {"succeeded", "skipped"}
          /\ Goto("run", "operation", c + 1)
          /\ UNCHANGED <<run, op>>
    /\ UNCHANGED <<claim, td, checkpoints, ext, bounds>>

Skip(c) ==
    /\ At("run", "skip") /\ worker["run"].at = c
    /\ op' = [op EXCEPT ![c] = "skipped"]
    /\ Goto("run", "operation", c + 1)
    /\ UNCHANGED <<run, claim, td, checkpoints, ext, bounds>>

\* The exact intent is claimed before the provider may send anything.
Claim(c) ==
    /\ At("run", "claim") /\ worker["run"].at = c
    /\ claim' = claim \cup {c}
    /\ Goto("run", "apply", c)
    /\ UNCHANGED <<run, op, td, checkpoints, ext, bounds>>

\* complete_operation_and_claim: a shared resource is released again.
Complete(c) ==
    /\ At("run", "complete") /\ worker["run"].at = c
    /\ op' = [op EXCEPT ![c] = "succeeded"]
    /\ claim' = IF c \in Shared THEN claim \ {c} ELSE claim \cup {c}
    /\ Goto("run", "operation", c + 1)
    /\ UNCHANGED <<run, td, checkpoints, ext, bounds>>

\* fail_operation_and_begin_rollback, in one transaction.
FailOperation(c) ==
    /\ At("run", "fail") /\ worker["run"].at = c
    /\ op' = [op EXCEPT ![c] = "failed"]
    /\ BeginRollback
    /\ UNCHANGED <<claim, td, checkpoints, ext, bounds>>

FinishSucceeded ==
    /\ At("run", "operation") /\ worker["run"].at = N + 1
    /\ FinishRun("succeeded")
    /\ UNCHANGED <<op, claim, td, checkpoints, ext, bounds>>

----------------------------------------------------------------------------
(* The provider's create protocol: checkpoint, send, confirm.                *)

Applies(c) == At("run", "apply") /\ worker["run"].at = c

Unsent == {"prepared", "rejected"}

\* Bug: a request that was under way at the death is sent once more.
SendMutant(c) ==
    /\ Applies(c) /\ sent[c] \in Unsent \cup {"sending"}
    /\ sent' = [sent EXCEPT ![c] = "sending"]
    /\ Goto("run", "post", c)
    /\ UNCHANGED <<records, undo, missed, ext, bounds>>

\* Only what was prepared or refused may be sent.
Send(c) ==
    /\ Applies(c) /\ sent[c] \in Unsent
    /\ sent' = [sent EXCEPT ![c] = "sending"]
    /\ Goto("run", "post", c)
    /\ UNCHANGED <<records, undo, missed, ext, bounds>>

\* A Gateway carries no marker: its exact request, with its id, is replayed.
Replay(c) ==
    /\ Applies(c) /\ c \in Shared /\ sent[c] = "sending"
    /\ Goto("run", "replay", c)
    /\ UNCHANGED <<records, checkpoints, ext, bounds>>

\* Bug: a request that was under way is taken for carried out.
AdoptMutant(c) ==
    /\ Applies(c)
    /\ sent[c] = "applied" \/ (c \in Generic /\ sent[c] = "sending")
    /\ sent' = [sent EXCEPT ![c] = "applied"]
    /\ Goto("run", "complete", c)
    /\ UNCHANGED <<records, undo, missed, ext, bounds>>

\* The marker in the resource proves that the request under way made it.
Adopt(c) ==
    /\ Applies(c)
    /\ \/ sent[c] = "applied"
       \/ c \in Generic /\ sent[c] = "sending" /\ ext[c] = "present"
    /\ sent' = [sent EXCEPT ![c] = "applied"]
    /\ Goto("run", "complete", c)
    /\ UNCHANGED <<records, undo, missed, ext, bounds>>

\* Nothing tells whether a request under way at the death was carried out.
Unclear(c) ==
    /\ Applies(c) /\ sent[c] = "sending"
    /\ c \in Policies \/ (c \in Generic /\ ext[c] # "present")
    /\ Goto("run", "fail", c)
    /\ UNCHANGED <<records, checkpoints, ext, bounds>>

Posts(c) == worker["run"].pc \in {"post", "replay"} /\ worker["run"].at = c

Accepted(c) ==
    /\ Posts(c)
    /\ ext' = [ext EXCEPT ![c] = "present"]
    /\ Goto("run", "created", c)
    /\ UNCHANGED <<records, checkpoints, bounds>>

\* A definite refusal is recorded, but for a replay it proves nothing.
Rejected(c) ==
    /\ Posts(c) /\ ext[c] = "absent" /\ Fault
    /\ sent' = [sent EXCEPT ![c] = IF At("run", "post") THEN "rejected" ELSE @]
    /\ Goto("run", "fail", c)
    /\ UNCHANGED <<records, undo, missed, ext, crashes>>

\* Bug: a request without an answer is taken for a refused one.
AnswerLostMutant(c) ==
    /\ Posts(c) /\ Fault
    /\ \E e \in {ext[c], "present", "inflight"} : ext' = [ext EXCEPT ![c] = e]
    /\ sent' = [sent EXCEPT ![c] = "rejected"]
    /\ Goto("run", "fail", c)
    /\ UNCHANGED <<records, undo, missed, crashes>>

\* A timeout or 5xx: carried out, lost, or under way for longer.
AnswerLost(c) ==
    /\ Posts(c) /\ Fault
    /\ \E e \in {ext[c], "present", "inflight"} : ext' = [ext EXCEPT ![c] = e]
    /\ Goto("run", "fail", c)
    /\ UNCHANGED <<records, checkpoints, crashes>>

Land(c) ==
    /\ ext[c] = "inflight"
    /\ ext' = [ext EXCEPT ![c] = "present"]
    /\ UNCHANGED <<records, checkpoints, worker, bounds>>

Confirmed(c) ==
    /\ At("run", "created") /\ worker["run"].at = c
    /\ sent' = [sent EXCEPT ![c] = "applied"]
    /\ Goto("run", "complete", c)
    /\ UNCHANGED <<records, undo, missed, ext, bounds>>

\* The wait or the read back fails: _create deletes what carries its marker.
WaitFails(c) ==
    /\ At("run", "created") /\ worker["run"].at = c /\ c \notin Policies /\ Fault
    /\ \E e \in IF c \in Generic THEN {"present", "absent"} ELSE {"present"} :
           ext' = [ext EXCEPT ![c] = e]
    /\ Goto("run", "fail", c)
    /\ UNCHANGED <<records, checkpoints, crashes>>

----------------------------------------------------------------------------
(* Rollback: the operations in reverse, each compensated and then released.  *)

Unwinds(c) == At("run", "unwind") /\ worker["run"].at = c
Reverts(c) == At("run", "revert") /\ worker["run"].at = c

\* Bug: only operations that succeeded are compensated.
CompensatedMutant(c) == op[c] = "succeeded"

Compensated(c) == op[c] = "succeeded" \/ (op[c] = "failed" /\ c \in claim)

UnwindNext(c) ==
    /\ Unwinds(c)
    /\ IF Compensated(c) THEN Goto("run", "revert", c) ELSE Goto("run", "unwind", c - 1)
    /\ UNCHANGED <<records, checkpoints, ext, bounds>>

\* What the checkpoint of c cannot tell: was it made, was it undone?
Ambiguous(c) ==
    \/ c \in Generic /\ sent[c] = "sending" /\ ext[c] # "present"
    \/ c \in Shared /\ sent[c] = "sending"
    \/ c \in Policies /\ undo[c] = "sending"

NothingToUndo(c) ==
    \/ sent[c] \in Unsent
    \/ c \in Policies /\ undo[c] = "applied"
    \/ ext[c] # "present"

\* The rollback goes on with the other operations, and ends as failed.
RollbackFails(c) == worker' = [worker EXCEPT !["run"] = [pc |-> "unwind", at |-> c - 1, failed |-> TRUE]]

RevertUnclear(c) ==
    /\ Reverts(c) /\ Ambiguous(c)
    /\ RollbackFails(c)
    /\ UNCHANGED <<records, checkpoints, ext, bounds>>

MarkUndo(c, p) == undo' = IF c \in Policies THEN [undo EXCEPT ![c] = p] ELSE undo

\* Whoever comes to undo a policy edit that is still under way finds nothing of it.
NoteMissed(c) == missed' = IF c \in Policies /\ ext[c] = "inflight" THEN missed \cup {c} ELSE missed

\* A policy that reads as it was before the edit is left alone, and the edit counts as
\* undone.
RevertNothing(c) ==
    /\ Reverts(c) /\ ~Ambiguous(c) /\ NothingToUndo(c)
    /\ IF sent[c] = "prepared" THEN undo' = undo ELSE MarkUndo(c, "applied")
    /\ NoteMissed(c)
    /\ Goto("run", "undone", c)
    /\ UNCHANGED <<records, sent, ext, bounds>>

RevertSend(c) ==
    /\ Reverts(c) /\ ~Ambiguous(c) /\ ~NothingToUndo(c)
    /\ MarkUndo(c, "sending")
    /\ Goto("run", "delete", c)
    /\ UNCHANGED <<records, sent, missed, ext, bounds>>

Reverted(c) ==
    /\ At("run", "delete") /\ worker["run"].at = c
    /\ ext' = [ext EXCEPT ![c] = "absent"]
    /\ MarkUndo(c, "applied")
    /\ Goto("run", "undone", c)
    /\ UNCHANGED <<records, sent, missed, bounds>>

\* The removal is refused (a policy edit may then be tried again), or its answer lost.
RevertFails(c) ==
    /\ At("run", "delete") /\ worker["run"].at = c /\ Fault
    /\ RollbackFails(c)
    /\ \/ ext' = ext /\ MarkUndo(c, "none")
       \/ \E e \in {"present", "absent"} : ext' = [ext EXCEPT ![c] = e] /\ undo' = undo
    /\ UNCHANGED <<records, sent, missed, crashes>>

\* complete_rollback_and_release.
Undone(c) ==
    /\ At("run", "undone") /\ worker["run"].at = c
    /\ op' = [op EXCEPT ![c] = "rolled_back"]
    /\ claim' = claim \ {c}
    /\ Goto("run", "unwind", c - 1)
    /\ UNCHANGED <<run, td, checkpoints, ext, bounds>>

FinishRollback ==
    /\ At("run", "unwind") /\ worker["run"].at = 0
    /\ FinishRun(IF worker["run"].failed THEN "rollback_failed" ELSE "rolled_back")
    /\ UNCHANGED <<op, claim, td, checkpoints, ext, bounds>>

----------------------------------------------------------------------------
(* Teardown: what its instruction lists, last change first.                  *)

ToRemove(t) == {c \in td[t].plan : td[t].ops[c] \notin {"succeeded", "skipped"}}

\* A Gateway the run created is removed without being owned.
Owned(c) == ~(c \in Shared /\ op[c] = "succeeded")

Works(t, p, c) == At(t, p) /\ worker[t].at = c

\* start_teardown_operation, if the resource is still claimed as instructed.
NextRemoval(t) ==
    /\ At(t, "begin") /\ ToRemove(t) # {}
    /\ LET c == CHOOSE d \in ToRemove(t) : \A e \in ToRemove(t) : e <= d IN
           IF Owned(c) /\ c \notin claim
           THEN /\ td' = [td EXCEPT ![t].ops[c] = "failed"]
                /\ Goto(t, "abandon", c)
           ELSE /\ td' = [td EXCEPT ![t].status = "running", ![t].ops[c] = "running"]
                /\ Goto(t, "destroy", c)
    /\ UNCHANGED <<run, op, claim, checkpoints, ext, bounds>>

\* destroy leaves alone what its checkpoint does not prove to be the run's own.
Skips(c) == c \notin Policies /\ (~Owned(c) \/ sent[c] # "applied")

\* Bug: what is left alone is released all the same.
KeepMutant(t, c) ==
    /\ Works(t, "destroy", c) /\ Skips(c)
    /\ td' = [td EXCEPT ![t].ops[c] = "skipped"]
    /\ claim' = claim \ {c}
    /\ Goto(t, "abandon", c)
    /\ UNCHANGED <<run, op, checkpoints, ext, bounds>>

Keep(t, c) ==
    /\ Works(t, "destroy", c) /\ Skips(c)
    /\ td' = [td EXCEPT ![t].ops[c] = "skipped"]
    /\ Goto(t, "abandon", c)
    /\ UNCHANGED <<run, op, claim, checkpoints, ext, bounds>>

\* What is left of c once it is removed: a policy edit under way is not seen.
WithoutIt(c) == IF ext[c] = "inflight" THEN "inflight" ELSE "absent"

\* Refused, unanswered, or not to be decided from the checkpoint.
DestroyFails(t, c) ==
    /\ Works(t, "destroy", c) /\ ~Skips(c)
    /\ \/ c \in Policies /\ (undo[c] = "sending" \/ sent[c] = "prepared") /\ UNCHANGED <<ext, faults>>
       \/ Fault /\ \E e \in {ext[c], WithoutIt(c)} : ext' = [ext EXCEPT ![c] = e]
    /\ td' = [td EXCEPT ![t].ops[c] = "failed"]
    /\ Goto(t, "abandon", c)
    /\ UNCHANGED <<run, op, claim, checkpoints, crashes>>

Destroy(t, c) ==
    /\ Works(t, "destroy", c) /\ ~Skips(c)
    /\ ~(c \in Policies /\ undo[c] = "sending")
    /\ ext' = [ext EXCEPT ![c] = WithoutIt(c)]
    /\ NoteMissed(c)
    /\ Goto(t, "destroyed", c)
    /\ UNCHANGED <<records, sent, undo, bounds>>

\* complete_teardown_operation_and_release.
Release(t, c) ==
    /\ Works(t, "destroyed", c)
    /\ td' = [td EXCEPT ![t].ops[c] = "succeeded"]
    /\ claim' = claim \ {c}
    /\ Goto(t, "begin", c)
    /\ UNCHANGED <<run, op, checkpoints, ext, bounds>>

FinishTeardown(t, s) ==
    /\ td' = [td EXCEPT ![t].status = s]
    /\ Stop(t)
    /\ UNCHANGED <<run, op, claim, checkpoints, ext, bounds>>

TeardownFails(t) == At(t, "abandon") /\ FinishTeardown(t, "failed")

TeardownSucceeds(t) == At(t, "begin") /\ ToRemove(t) = {} /\ FinishTeardown(t, "succeeded")

----------------------------------------------------------------------------
(* Deaths and recovery.                                                      *)

\* An exception that is not the provider's ends a worker; its records stay.
Raise(j) ==
    /\ ~At(j, "idle") /\ crashes < MaxCrashes
    /\ crashes' = crashes + 1
    /\ Stop(j)
    /\ UNCHANGED <<records, checkpoints, ext, faults>>

InterruptedOps == [c \in Changes |-> IF op[c] = "running" THEN "interrupted" ELSE op[c]]

RecoverRun ==
    IF run.status = "running"
    THEN run' = [run EXCEPT !.status = "interrupted"] /\ op' = InterruptedOps
    ELSE UNCHANGED <<run, op>>

\* Bug: a teardown that had not removed anything yet is not recovered.
RecoveredMutant(d) ==
    IF d.status # "running" THEN d
    ELSE [d EXCEPT !.status = "interrupted",
                   !.ops = [c \in Changes |-> IF d.ops[c] = "running" THEN "pending" ELSE d.ops[c]]]

Recovered(d) ==
    IF d.status \notin {"pending", "running"} THEN d
    ELSE [d EXCEPT !.status = "interrupted",
                   !.ops = [c \in Changes |-> IF d.ops[c] = "running" THEN "pending" ELSE d.ops[c]]]

AllIdle == \A j \in Jobs : At(j, "idle")

\* The process ends, with whatever it was doing, and _recover_interrupted_runs.
Restart ==
    /\ run.status = "running" \/ TeardownActive
    /\ IF AllIdle THEN crashes' = crashes ELSE crashes < MaxCrashes /\ crashes' = crashes + 1
    /\ worker' = [j \in Jobs |-> Idle]
    /\ RecoverRun
    /\ td' = [t \in Teardowns |-> Recovered(td[t])]
    /\ UNCHANGED <<claim, checkpoints, ext, faults>>

----------------------------------------------------------------------------
ApplyStep(c) ==
    \/ StartOperation(c) \/ Skip(c) \/ Claim(c) \/ Complete(c) \/ FailOperation(c)
    \/ Send(c) \/ Replay(c) \/ Adopt(c) \/ Unclear(c)
    \/ Accepted(c) \/ Rejected(c) \/ AnswerLost(c) \/ Confirmed(c) \/ WaitFails(c)

RollbackStep(c) ==
    \/ UnwindNext(c) \/ RevertUnclear(c) \/ RevertNothing(c) \/ RevertSend(c)
    \/ Reverted(c) \/ RevertFails(c) \/ Undone(c)

RunStep ==
    \/ Begin \/ Prepared \/ PrepareFails \/ FinishSucceeded \/ FinishRollback
    \/ \E c \in Changes : ApplyStep(c) \/ RollbackStep(c)

TeardownStep(t) ==
    \/ NextRemoval(t) \/ TeardownFails(t) \/ TeardownSucceeds(t)
    \/ \E c \in Changes : Keep(t, c) \/ DestroyFails(t, c) \/ Destroy(t, c) \/ Release(t, c)

Next ==
    \/ Apply \/ ResumeRun \/ RunStep \/ Restart
    \/ \E c \in Changes : Land(c)
    \/ \E t \in Teardowns : StartTeardown(t) \/ ResumeTeardown(t) \/ TeardownStep(t)
    \/ \E j \in Jobs : Raise(j)

Spec == Init /\ [][Next]_vars

\* A background task runs on; the operator restarts a backend whose work stands
\* still, and resumes what was interrupted.
FairSpec ==
    /\ Spec
    /\ WF_vars(RunStep) /\ WF_vars(Restart /\ AllIdle) /\ WF_vars(ResumeRun)
    /\ \A t \in Teardowns : WF_vars(TeardownStep(t)) /\ SF_vars(ResumeTeardown(t))
----------------------------------------------------------------------------
(* What is promised.                                                         *)

\* Whatever the run has, or may still get, at Google is claimed by it, or is a
\* shared resource whose operation succeeded: the claim comes before the send
\* and goes after the removal (execution.py), across deaths anywhere. The one
\* exception is a policy edit that was still under way when it was undone.
NoOrphan ==
    \A c \in Changes \ (Reused \cup missed) :
        ext[c] # "absent" => c \in claim \/ (c \in Shared /\ op[c] = "succeeded")

\* "Retain `sending` and its active intent claim for fail-closed/manual
\* reconciliation" (google_executor.py): a policy edit that may still be carried out,
\* or was, is claimed.
EditsAreClaimed == \A c \in Policies : ext[c] # "absent" => c \in claim

\* A change is not sent while an earlier request for it may have been, or may
\* yet be, carried out, the replay of a Gateway's own request excepted.
SendsOnce == At("run", "post") => ext[worker["run"].at] = "absent"

\* A run that ends as rolled back has undone and released every operation the
\* rollback was responsible for: all but those a restart left interrupted, and but
\* for a policy edit that was still under way and is undone in name only.
RolledBackIsGone ==
    run.status = "rolled_back" =>
        \A c \in Changes \ Reused :
            op[c] # "interrupted" => c \notin claim /\ (ext[c] = "absent" \/ c \in missed)

\* A run that ends as succeeded made every change, and what it owns remains
\* there and claimed until a teardown is approved for it.
SucceededIsWhole ==
    run.status = "succeeded" =>
        \A c \in Changes \ Reused :
            \/ ext[c] = "present" /\ (c \in claim \/ c \in Shared)
            \/ \E t \in Teardowns : c \in td[t].plan

\* What a teardown reports as removed is gone and released, and what it reports
\* as skipped stays claimed if the run owned it, until a later one removes it.
RemovedIsGone ==
    \A t \in Teardowns : \A c \in td[t].plan :
        /\ td[t].ops[c] = "succeeded" => c \notin claim /\ (ext[c] = "absent" \/ c \in missed)
        /\ td[t].ops[c] = "skipped" /\ Owned(c) =>
               c \in claim \/ \E u \in Teardowns : td[u].ops[c] = "succeeded"

\* What a run and its teardowns report at their end is true, of operations that were
\* not left interrupted and of policy edits that were not under way when undone.
ReportsTrue == RolledBackIsGone /\ SucceededIsWhole /\ RemovedIsGone

\* Of the run and its teardowns one at most is worked on: an interrupted
\* teardown, which does not hold the slot, waits for the others when it resumes.
OneWorker == \A i, j \in Jobs : ~At(i, "idle") /\ ~At(j, "idle") => i = j

\* Every run and every teardown comes to an end, whatever dies on the way.
LifecycleEnds ==
    /\ run.status # "none" ~> run.status \in Final
    /\ \A t \in Teardowns : td[t].status # "none" ~> td[t].status \in {"succeeded", "failed"}

\* test_skipped_teardown_fails_and_keeps_resource_ownership: a teardown that
\* skipped something never ends as succeeded.
SkippedFails ==
    \A t \in Teardowns : td[t].status = "succeeded" =>
        \A c \in td[t].plan : td[t].ops[c] # "skipped"

\* "Keeps response-loss/timeout states visible and compensatable across a
\* process restart instead of silently finalizing an orphaned external mutation
\* as rolled back" (execution.py): nothing of a run that ends as rolled back stays.
NothingStays ==
    run.status = "rolled_back" => \A c \in Changes \ Reused : ext[c] = "absent"
=============================================================================
