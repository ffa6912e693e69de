------------------------ MODULE BackendExecutorProofs ------------------------
(* Theorems about BackendExecutor, for plans of every length, any number of  *)
(* teardowns and every bound.                                                *)
EXTENDS BackendExecutor, WellFoundedInduction, TLAPS

----------------------------------------------------------------------------
(* The invariant. Where the worker of the run stands, ...                    *)

Made == Changes \ Reused

pc == worker["run"].pc
at == worker["run"].at
failed == worker["run"].failed

\* An operation is carried out; its resource is claimed.
Holding == {"apply", "post", "replay", "created", "fail", "complete"}
Working == Holding \union {"skip", "claim"}
Reverting == {"revert", "delete", "undone"}
Unwinding == Reverting \union {"unwind"}

\* There is nothing of c at Google, or what there is was under way when c was undone.
Gone(c) == ext[c] = "absent" \/ c \in missed

Settled(c) == op[c] \in {"none", "interrupted", "rolled_back"}

PlaceInv ==
    /\ pc # "idle" => run.status = "running"
    /\ pc \in {"idle", "begin", "prepare", "operation"} \union Working \union Unwinding
    /\ pc \in {"prepare", "operation"} \union Working => run.phase = "applying"
    /\ pc \in Unwinding => run.phase = "rolling_back"
    /\ run.phase = "finalized" <=> run.status \in Final
    /\ run.status = "none" => run.phase = "applying"
    /\ pc = "operation" => at >= 1
    /\ pc = "skip" => at \in Reused
    /\ pc \in (Working \ {"skip"}) \union Reverting => at \in Made
    /\ pc \in Working => op[at] = "running"
    /\ pc \in {"operation"} \union Working =>
          \A c \in Changes : c < at => op[c] \in {"succeeded", "skipped"}
    /\ pc \in Holding => at \in claim
    /\ pc \in {"post", "replay", "created"} => sent[at] = "sending"
    /\ pc = "post" => ext[at] = "absent"
    /\ pc = "replay" => at \in Shared
    /\ pc = "created" => ext[at] = "present"
    /\ pc = "complete" => sent[at] = "applied"
    /\ pc = "unwind" => at <= N
    /\ pc \in Reverting => op[at] \in {"succeeded", "failed"}
    /\ pc = "delete" => /\ ext[at] = "present" /\ sent[at] \notin Unsent
                        /\ at \in Policies => undo[at] = "sending"
    /\ pc = "undone" => Gone(at)
    /\ pc \in Unwinding /\ ~failed => \A c \in Made : c > at => Settled(c)

\* ... what is known of each change, wherever that is, ...
CellOK(c) ==
    /\ sent[c] \in Unsent => ext[c] = "absent"
    /\ Gone(c) \/ c \in claim \/ (c \in Shared /\ op[c] = "succeeded")
    /\ ext[c] = "inflight" => sent[c] = "sending"
    /\ c \in missed => sent[c] = "sending" /\ run.phase # "applying"
    /\ op[c] = "none" => c \notin claim /\ ext[c] = "absent"
    /\ op[c] = "rolled_back" => c \notin claim /\ Gone(c)
    /\ op[c] = "failed" /\ run.status \notin Final => c \in claim
    /\ op[c] = "succeeded" /\ run.phase = "applying" =>
          ext[c] = "present" /\ (c \in claim \/ c \in Shared)
    /\ sent[c] = "applied" /\ run.phase = "applying" => ext[c] = "present"
    /\ c \in Policies /\ undo[c] = "applied" => Gone(c)
    /\ c \in Policies /\ undo[c] # "none" => run.phase # "applying"
    /\ op[c] # "skipped"

CellInv ==
    /\ \A c \in Made : CellOK(c)
    /\ \A c \in Reused : op[c] \notin {"succeeded", "failed", "rolled_back"} /\ c \notin claim
    /\ \A c \in Changes : op[c] = "running" =>
          run.status = "running" /\ (pc = "idle" \/ (pc \in Working /\ c = at))

\* ... what the end of the run has settled, ...
EndInv ==
    /\ run.status = "rolled_back" => \A c \in Made : Settled(c)
    /\ run.status = "succeeded" =>
          \A c \in Made : \/ ext[c] = "present" /\ (c \in claim \/ c \in Shared)
                          \/ \E t \in Teardowns : c \in td[t].plan

\* ... and where the teardowns stand.
Active(t) == td[t].status \in {"pending", "running"}

RemovalOK(t) ==
    /\ worker[t].pc \in {"idle", "begin", "destroy", "destroyed", "abandon"}
    /\ worker[t].pc # "idle" => Active(t)
    /\ td[t].status = "none" => td[t].plan = {} /\ \A c \in Changes : td[t].ops[c] = "pending"
    /\ td[t].status # "none" => run.status \in Final
    /\ worker[t].pc \in {"destroy", "destroyed"} =>
          worker[t].at \in td[t].plan /\ td[t].ops[worker[t].at] = "running"
    /\ worker[t].pc = "destroy" /\ Owned(worker[t].at) => worker[t].at \in claim
    /\ worker[t].pc = "destroyed" => Gone(worker[t].at)

RemovalInv ==
    /\ \A t \in Teardowns : RemovalOK(t)
    /\ \A t, u \in Teardowns : Active(t) /\ Active(u) => t = u
    /\ RemovedIsGone

IInv == PlaceInv /\ CellInv /\ EndInv /\ RemovalInv

----------------------------------------------------------------------------
(* Types.                                                                    *)

\* A finite set of changes has a last one.
LEMMA LastChange ==
    ASSUME NEW S \in SUBSET Changes, S # {}
    PROVE  \E m \in S : \A e \in S : e <= m
  <1> DEFINE T == {n \in Nat : \E d \in S : n = N - d}
             Less == OpToRel(<, Nat)
  <1>n. N \in Nat /\ Changes = 1 .. N  BY PlanAssumption DEF PlanAssumption, Changes
  <1>1. T \subseteq Nat  OBVIOUS
  <1>2. T # {}
    <2>1. PICK d \in S : TRUE  OBVIOUS
    <2>2. d \in Nat /\ d <= N  BY <1>n
    <2>3. N - d \in Nat  BY <1>n, <2>2
    <2> QED  BY <2>3
  <1>3. IsWellFoundedOn(Less, Nat)  BY NatLessThanWellFounded
  <1>4. PICK x \in T : \A y \in T : ~(<<y, x>> \in Less)
    <2> HIDE DEF T, Less
    <2> QED  BY <1>1, <1>2, <1>3, WFMin
  <1>5. \A y \in T : ~(y < x)
    <2>1. \A y \in Nat : y < x => <<y, x>> \in Less  BY <1>1, <1>4 DEF OpToRel
    <2> QED  BY <1>1, <1>4, <2>1
  <1>6. PICK m \in S : x = N - m  BY <1>4
  <1>7. ASSUME NEW e \in S PROVE e <= m
    <2>1. m \in Nat /\ e \in Nat /\ m <= N /\ e <= N  BY <1>n
    <2>2. N - e \in T  BY <1>n, <2>1
    <2>3. ~(N - e < N - m)  BY <1>5, <1>6, <2>2
    <2> QED  BY <1>n, <2>1, <2>3
  <1> QED  BY <1>7

LastRemoval(t) == CHOOSE d \in ToRemove(t) : \A e \in ToRemove(t) : e <= d

LEMMA RemovalExists ==
    ASSUME TypeOK, NEW t \in Teardowns, ToRemove(t) # {}
    PROVE  LastRemoval(t) \in ToRemove(t) /\ ToRemove(t) \subseteq Changes
           /\ ToRemove(t) \subseteq td[t].plan
  <1>1. ToRemove(t) \subseteq td[t].plan /\ td[t].plan \subseteq Changes
    BY DEF ToRemove, TypeOK, TeardownRecord
  <1>2. \E m \in ToRemove(t) : \A e \in ToRemove(t) : e <= m  BY <1>1, LastChange
  <1>3. LastRemoval(t) \in ToRemove(t)  BY <1>2 DEF LastRemoval
  <1> QED  BY <1>1, <1>3

LEMMA JobFacts ==
    /\ Jobs = {"run"} \union Teardowns /\ "run" \notin Teardowns /\ "run" \in Jobs
    /\ Teardowns \subseteq Jobs
  BY TeardownsAssumption DEF TeardownsAssumption, Jobs

LEMMA ChangeFacts ==
    /\ N \in Nat /\ \A c \in Changes : c \in Nat /\ c >= 1 /\ c <= N
    /\ \A c \in Changes : /\ c \in 0 .. N + 1 /\ c + 1 \in 0 .. N + 1 /\ c - 1 \in 0 .. N + 1
                          /\ c + 1 \in Nat /\ c - 1 \in Nat
    /\ 0 \in 0 .. N + 1 /\ 1 \in 0 .. N + 1 /\ N \in 0 .. N + 1
    /\ Policies \subseteq Changes /\ Shared \subseteq Changes /\ Reused \subseteq Changes
    /\ Reused \intersect Shared = {} /\ Reused \intersect Policies = {}
    /\ Shared \intersect Policies = {}
  BY PlanAssumption DEF PlanAssumption, Changes

LEMMA WorkerTypes ==
    ASSUME TypeOK, NEW j \in Jobs
    PROVE  /\ Stop(j) => worker' \in [Jobs -> WorkerState]
           /\ Start(j) => worker' \in [Jobs -> WorkerState]
           /\ \A p \in PCs, c \in 0 .. N + 1 : Goto(j, p, c) => worker' \in [Jobs -> WorkerState]
           /\ \A c \in Changes : RollbackFails(c) => worker' \in [Jobs -> WorkerState]
  <1>1. worker \in [Jobs -> WorkerState]  BY DEF TypeOK
  <1>2. Stop(j) => worker' \in [Jobs -> WorkerState]
    <2>1. Idle \in WorkerState  BY ChangeFacts DEF Idle, WorkerState, PCs
    <2> QED  BY <1>1, <2>1 DEF Stop
  <1>3. Start(j) => worker' \in [Jobs -> WorkerState]
    <2>1. Begun \in WorkerState  BY ChangeFacts DEF Begun, WorkerState, PCs
    <2> QED  BY <1>1, <2>1 DEF Start
  <1>4. ASSUME NEW p \in PCs, NEW c \in 0 .. N + 1, Goto(j, p, c)
        PROVE  worker' \in [Jobs -> WorkerState]
    BY <1>1, <1>4 DEF Goto, WorkerState
  <1>5. ASSUME NEW c \in Changes, RollbackFails(c) PROVE worker' \in [Jobs -> WorkerState]
    <2>1. [pc |-> "unwind", at |-> c - 1, failed |-> TRUE] \in WorkerState
      BY ChangeFacts DEF WorkerState, PCs
    <2> QED  BY <1>1, <1>5, <2>1 DEF RollbackFails
  <1> QED  BY <1>2, <1>3, <1>4, <1>5

LEMMA TypeInit == Init => TypeOK
  <1> SUFFICES ASSUME Init PROVE TypeOK
    OBVIOUS
  <1>1. worker \in [Jobs -> WorkerState]
    <2>1. Idle \in WorkerState  BY ChangeFacts DEF Idle, WorkerState, PCs
    <2> QED  BY <2>1 DEF Init
  <1>2. td \in [Teardowns -> TeardownRecord]  BY DEF Init, NoTeardown, TeardownRecord
  <1>3. run \in RunRecord  BY DEF Init, RunRecord
  <1> QED  BY <1>1, <1>2, <1>3, BoundsAssumption DEF Init, TypeOK, BoundsAssumption

LEMMA ApplyTypes ==
    ASSUME TypeOK, NEW c \in Changes, ApplyStep(c)
    PROVE  TypeOK'
  <1> USE DEF records, checkpoints, bounds
  <1>1. worker' \in [Jobs -> WorkerState]
    <2>1. \E p \in PCs, d \in 0 .. N + 1 : Goto("run", p, d)
      BY ChangeFacts
      DEF ApplyStep, StartOperation, Skip, Claim, Complete, FailOperation, Send, Replay, Adopt,
          Unclear, Accepted, Rejected, AnswerLost, Confirmed, WaitFails, BeginRollback, PCs
    <2> QED  BY <2>1, JobFacts, WorkerTypes
  <1>2. run' \in RunRecord
    <2>1. run' = run \/ run' = [run EXCEPT !.phase = "rolling_back"]
      BY DEF ApplyStep, StartOperation, Skip, Claim, Complete, FailOperation, Send, Replay, Adopt,
             Unclear, Accepted, Rejected, AnswerLost, Confirmed, WaitFails, BeginRollback
    <2> QED  BY <2>1 DEF TypeOK, RunRecord
  <1>3. /\ op' \in [Changes -> {"none", "running", "interrupted", "succeeded", "skipped",
                                "failed", "rolled_back"}]
        /\ claim' \subseteq Changes
    BY DEF ApplyStep, StartOperation, Skip, Claim, Complete, FailOperation, Send, Replay, Adopt,
           Unclear, Accepted, Rejected, AnswerLost, Confirmed, WaitFails, BeginRollback, TypeOK
  <1>4. sent' \in [Changes -> {"prepared", "sending", "applied", "rejected"}]
    BY DEF ApplyStep, StartOperation, Skip, Claim, Complete, FailOperation, Send, Replay, Adopt,
           Unclear, Accepted, Rejected, AnswerLost, Confirmed, WaitFails, BeginRollback, TypeOK
  <1>5. UNCHANGED <<undo, missed, td>>
    BY DEF ApplyStep, StartOperation, Skip, Claim, Complete, FailOperation, Send, Replay, Adopt,
           Unclear, Accepted, Rejected, AnswerLost, Confirmed, WaitFails, BeginRollback, TypeOK
  <1>6. ext' \in [Changes -> {"absent", "inflight", "present"}]
    BY DEF ApplyStep, StartOperation, Skip, Claim, Complete, FailOperation, Send, Replay, Adopt,
           Unclear, Accepted, Rejected, AnswerLost, Confirmed, WaitFails, BeginRollback, TypeOK
  <1>7. faults' \in 0 .. MaxFaults /\ crashes' \in 0 .. MaxCrashes
    <2>1. UNCHANGED bounds \/ (Fault /\ crashes' = crashes)
      BY DEF ApplyStep, StartOperation, Skip, Claim, Complete, FailOperation, Send, Replay, Adopt,
             Unclear, Accepted, Rejected, AnswerLost, Confirmed, WaitFails, BeginRollback
    <2> QED  BY <2>1, BoundsAssumption DEF BoundsAssumption, Fault, TypeOK
  <1> QED  BY <1>1, <1>2, <1>3, <1>4, <1>5, <1>6, <1>7 DEF TypeOK

LEMMA RollbackTypes ==
    ASSUME TypeOK, NEW c \in Changes, RollbackStep(c)
    PROVE  TypeOK'
  <1> USE DEF records, checkpoints, bounds
  <1>1. worker' \in [Jobs -> WorkerState]
    <2>1. (\E p \in PCs, d \in 0 .. N + 1 : Goto("run", p, d)) \/ RollbackFails(c)
      BY ChangeFacts
      DEF RollbackStep, UnwindNext, RevertUnclear, RevertNothing, RevertSend, Reverted, RevertFails,
          Undone, PCs
    <2> QED  BY <2>1, JobFacts, WorkerTypes
  <1>2. UNCHANGED <<run, sent, td>>
    BY DEF RollbackStep, UnwindNext, RevertUnclear, RevertNothing, RevertSend, Reverted, RevertFails,
           Undone
  <1>3. /\ op' \in [Changes -> {"none", "running", "interrupted", "succeeded", "skipped",
                                "failed", "rolled_back"}]
        /\ claim' \subseteq Changes
    BY DEF RollbackStep, UnwindNext, RevertUnclear, RevertNothing, RevertSend, Reverted, RevertFails,
           Undone, TypeOK
  <1>4. undo' \in [Policies -> {"none", "sending", "applied"}]
    <2>1. undo' = undo \/ \E p \in {"none", "sending", "applied"} : MarkUndo(c, p)
      BY DEF RollbackStep, UnwindNext, RevertUnclear, RevertNothing, RevertSend, Reverted, RevertFails,
             Undone
    <2> QED  BY <2>1 DEF MarkUndo, TypeOK
  <1>5. ext' \in [Changes -> {"absent", "inflight", "present"}]
    BY DEF RollbackStep, UnwindNext, RevertUnclear, RevertNothing, RevertSend, Reverted, RevertFails,
           Undone, TypeOK
  <1>6. faults' \in 0 .. MaxFaults /\ crashes' \in 0 .. MaxCrashes
    <2>1. UNCHANGED bounds \/ (Fault /\ crashes' = crashes)
      BY DEF RollbackStep, UnwindNext, RevertUnclear, RevertNothing, RevertSend, Reverted, RevertFails,
             Undone
    <2> QED  BY <2>1, BoundsAssumption DEF BoundsAssumption, Fault, TypeOK
  <1>7. missed' \subseteq Policies
    BY DEF RollbackStep, UnwindNext, RevertUnclear, RevertNothing, RevertSend, Reverted, RevertFails,
           Undone, TypeOK, NoteMissed
  <1> QED  BY <1>1, <1>2, <1>3, <1>4, <1>5, <1>6, <1>7 DEF TypeOK

RemovalStates == {"pending", "running", "succeeded", "failed", "skipped"}
TeardownStates == {"none", "pending", "running", "interrupted", "succeeded", "failed"}

LEMMA RecordTypes ==
    ASSUME NEW d \in TeardownRecord
    PROVE  /\ \A s \in TeardownStates : [d EXCEPT !.status = s] \in TeardownRecord
           /\ \A c \in Changes, s \in RemovalStates : [d EXCEPT !.ops[c] = s] \in TeardownRecord
           /\ \A s \in TeardownStates, o \in [Changes -> RemovalStates] :
                 [d EXCEPT !.status = s, !.ops = o] \in TeardownRecord
  <1>1. PICK st \in TeardownStates, p \in SUBSET Changes, os \in [Changes -> RemovalStates] :
           d = [status |-> st, plan |-> p, ops |-> os]
    BY DEF TeardownRecord, TeardownStates, RemovalStates
  <1>2. \A s \in TeardownStates, o \in [Changes -> RemovalStates] :
           [status |-> s, plan |-> p, ops |-> o] \in TeardownRecord
    BY DEF TeardownRecord, TeardownStates, RemovalStates
  <1>3. ASSUME NEW s \in TeardownStates PROVE [d EXCEPT !.status = s] \in TeardownRecord
    <2>1. [d EXCEPT !.status = s] = [status |-> s, plan |-> p, ops |-> os]  BY <1>1
    <2> QED  BY <1>2, <2>1
  <1>4. ASSUME NEW s \in TeardownStates, NEW o \in [Changes -> RemovalStates]
        PROVE  [d EXCEPT !.status = s, !.ops = o] \in TeardownRecord
    <2>0. PICK e : e = [d EXCEPT !.status = s]  OBVIOUS
    <2>1. e = [status |-> s, plan |-> p, ops |-> os]  BY <1>1, <2>0
    <2>2. [e EXCEPT !.ops = o] = [status |-> s, plan |-> p, ops |-> o]  BY <2>1
    <2>3. [d EXCEPT !.status = s, !.ops = o] = [e EXCEPT !.ops = o]  BY <2>0
    <2> QED  BY <1>2, <2>2, <2>3
  <1>5. ASSUME NEW c \in Changes, NEW s \in RemovalStates
        PROVE  [d EXCEPT !.ops[c] = s] \in TeardownRecord
    <2>1. [d EXCEPT !.ops[c] = s] = [status |-> st, plan |-> p, ops |-> [os EXCEPT ![c] = s]]
      BY <1>1
    <2>2. [os EXCEPT ![c] = s] \in [Changes -> RemovalStates]  OBVIOUS
    <2> QED  BY <1>2, <2>1, <2>2
  <1> QED  BY <1>3, <1>4, <1>5

LEMMA TdTypes ==
    ASSUME TypeOK, NEW t \in Teardowns, NEW d \in TeardownRecord, td' = [td EXCEPT ![t] = d]
    PROVE  td' \in [Teardowns -> TeardownRecord]
  BY DEF TypeOK

LEMMA TeardownTypes ==
    ASSUME TypeOK, NEW t \in Teardowns, TeardownStep(t)
    PROVE  TypeOK'
  <1> USE DEF records, checkpoints, bounds
  <1>0. LastRemoval(t) = CHOOSE d \in ToRemove(t) : \A e \in ToRemove(t) : e <= d
    BY DEF LastRemoval
  <1>1. worker' \in [Jobs -> WorkerState]
    <2>1. CASE NextRemoval(t)
      <3>1. Goto(t, "abandon", LastRemoval(t)) \/ Goto(t, "destroy", LastRemoval(t))
        BY <1>0, <2>1 DEF NextRemoval
      <3>2. LastRemoval(t) \in 0 .. N + 1  BY <2>1, RemovalExists, ChangeFacts DEF NextRemoval
      <3> QED  BY <3>1, <3>2, JobFacts, WorkerTypes DEF PCs
    <2>2. CASE ~NextRemoval(t)
      <3>1. (\E p \in PCs, d \in 0 .. N + 1 : Goto(t, p, d)) \/ Stop(t)
        BY <2>2, ChangeFacts
        DEF TeardownStep, Keep, DestroyFails, Destroy, Release, TeardownFails, TeardownSucceeds,
            FinishTeardown, PCs
      <3> QED  BY <3>1, JobFacts, WorkerTypes
    <2> QED  BY <2>1, <2>2
  <1>2. UNCHANGED <<run, op, sent, undo>>
    BY DEF TeardownStep, NextRemoval, Keep, DestroyFails, Destroy, Release, TeardownFails,
           TeardownSucceeds, FinishTeardown
  <1>3. td' \in [Teardowns -> TeardownRecord]
    <2>0. td[t] \in TeardownRecord  BY DEF TypeOK
    <2>1. ASSUME NEW c \in Changes, NEW s \in RemovalStates, td' = [td EXCEPT ![t].ops[c] = s]
          PROVE  td' \in [Teardowns -> TeardownRecord]
      <3>1. [td[t] EXCEPT !.ops[c] = s] \in TeardownRecord  BY <2>0, RecordTypes
      <3>2. td' = [td EXCEPT ![t] = [td[t] EXCEPT !.ops[c] = s]]  BY <2>1
      <3> QED  BY <3>1, <3>2, TdTypes
    <2>2. ASSUME NEW c \in Changes,
                 td' = [td EXCEPT ![t].status = "running", ![t].ops[c] = "running"]
          PROVE  td' \in [Teardowns -> TeardownRecord]
      <3>1. [td[t] EXCEPT !.status = "running"] \in TeardownRecord
        BY <2>0, RecordTypes DEF TeardownStates
      <3>2. [[td[t] EXCEPT !.status = "running"] EXCEPT !.ops[c] = "running"] \in TeardownRecord
        BY <3>1, RecordTypes DEF RemovalStates
      <3>3. td' = [td EXCEPT ![t] = [[td[t] EXCEPT !.status = "running"] EXCEPT !.ops[c] = "running"]]
        BY <2>2 DEF TypeOK
      <3> QED  BY <3>2, <3>3, TdTypes
    <2>3. ASSUME NEW s \in {"failed", "succeeded"}, td' = [td EXCEPT ![t].status = s]
          PROVE  td' \in [Teardowns -> TeardownRecord]
      <3>1. [td[t] EXCEPT !.status = s] \in TeardownRecord
        BY <2>0, RecordTypes DEF TeardownStates
      <3>2. td' = [td EXCEPT ![t] = [td[t] EXCEPT !.status = s]]  BY <2>3
      <3> QED  BY <3>1, <3>2, TdTypes
    <2>4. CASE NextRemoval(t)
      <3>1. LastRemoval(t) \in Changes  BY <2>4, RemovalExists DEF NextRemoval
      <3> QED  BY <1>0, <2>1, <2>2, <2>4, <3>1 DEF NextRemoval, RemovalStates
    <2>5. CASE TeardownFails(t) \/ TeardownSucceeds(t)
      BY <2>3, <2>5 DEF TeardownFails, TeardownSucceeds, FinishTeardown
    <2>6. ASSUME NEW c \in Changes, Keep(t, c) \/ DestroyFails(t, c) \/ Destroy(t, c) \/ Release(t, c)
          PROVE  td' \in [Teardowns -> TeardownRecord]
      BY <2>1, <2>6 DEF Keep, DestroyFails, Destroy, Release, TypeOK, RemovalStates
    <2> QED  BY <2>4, <2>5, <2>6 DEF TeardownStep
  <1>4. claim' \subseteq Changes
    BY DEF TeardownStep, NextRemoval, Keep, DestroyFails, Destroy, Release, TeardownFails,
           TeardownSucceeds, FinishTeardown, TypeOK
  <1>5. ext' \in [Changes -> {"absent", "inflight", "present"}] /\ missed' \subseteq Policies
    BY DEF TeardownStep, NextRemoval, Keep, DestroyFails, Destroy, Release, TeardownFails,
           TeardownSucceeds, FinishTeardown, TypeOK, WithoutIt, NoteMissed
  <1>6. faults' \in 0 .. MaxFaults /\ crashes' \in 0 .. MaxCrashes
    <2>1. UNCHANGED bounds \/ (Fault /\ crashes' = crashes) \/ UNCHANGED <<faults, crashes>>
      BY DEF TeardownStep, NextRemoval, Keep, DestroyFails, Destroy, Release, TeardownFails,
             TeardownSucceeds, FinishTeardown
    <2> QED  BY <2>1, BoundsAssumption DEF BoundsAssumption, Fault, TypeOK
  <1> QED  BY <1>1, <1>2, <1>3, <1>4, <1>5, <1>6 DEF TypeOK

LEMMA TypeStep ==
    ASSUME TypeOK, [Next]_vars
    PROVE  TypeOK'
  <1> USE DEF records, checkpoints, bounds
  <1>0. "run" \in Jobs /\ Teardowns \subseteq Jobs  BY JobFacts
  <1>1. CASE Apply
    <2>1. worker' \in [Jobs -> WorkerState]  BY <1>0, <1>1, WorkerTypes DEF Apply
    <2> QED  BY <1>1, <2>1 DEF Apply, TypeOK, RunRecord
  <1>2. CASE ResumeRun
    <2>1. worker' \in [Jobs -> WorkerState]  BY <1>0, <1>2, WorkerTypes DEF ResumeRun
    <2> QED  BY <1>2, <2>1 DEF ResumeRun, TypeOK, RunRecord
  <1>3. CASE RunStep
    <2>1. ASSUME NEW c \in Changes, ApplyStep(c) \/ RollbackStep(c) PROVE TypeOK'
      BY <2>1, ApplyTypes, RollbackTypes
    <2>2. CASE Begin \/ Prepared
      <3>1. worker' \in [Jobs -> WorkerState]
        BY <1>0, <2>2, WorkerTypes, ChangeFacts DEF Begin, Prepared, PCs
      <3> QED  BY <2>2, <3>1 DEF Begin, Prepared, TypeOK
    <2>3. CASE PrepareFails \/ FinishSucceeded \/ FinishRollback
      <3>1. worker' \in [Jobs -> WorkerState]
        BY <1>0, <2>3, WorkerTypes, ChangeFacts
        DEF PrepareFails, FinishSucceeded, FinishRollback, BeginRollback, FinishRun, PCs
      <3>2. run' \in RunRecord
        BY <2>3
        DEF PrepareFails, FinishSucceeded, FinishRollback, BeginRollback, FinishRun, TypeOK,
            RunRecord, Final
      <3>3. UNCHANGED bounds \/ (Fault /\ crashes' = crashes)
        BY <2>3 DEF PrepareFails, FinishSucceeded, FinishRollback
      <3>4. faults' \in 0 .. MaxFaults /\ crashes' \in 0 .. MaxCrashes
        BY <3>3, BoundsAssumption DEF BoundsAssumption, Fault, TypeOK
      <3> QED
        BY <2>3, <3>1, <3>2, <3>4 DEF PrepareFails, FinishSucceeded, FinishRollback, TypeOK
    <2> QED  BY <1>3, <2>1, <2>2, <2>3 DEF RunStep
  <1>4. CASE Restart
    <2>1. worker' \in [Jobs -> WorkerState]
      <3>1. Idle \in WorkerState  BY ChangeFacts DEF Idle, WorkerState, PCs
      <3> QED  BY <1>4, <3>1 DEF Restart
    <2>2. td' \in [Teardowns -> TeardownRecord]
      <3>1. ASSUME NEW t \in Teardowns PROVE Recovered(td[t]) \in TeardownRecord
        <4>1. td[t] \in TeardownRecord  BY DEF TypeOK
        <4>2. [c \in Changes |-> IF td[t].ops[c] = "running" THEN "pending" ELSE td[t].ops[c]]
              \in [Changes -> RemovalStates]
          BY <4>1 DEF TeardownRecord, RemovalStates
        <4> QED  BY <4>1, <4>2, RecordTypes DEF Recovered, TeardownStates
      <3> QED  BY <1>4, <3>1 DEF Restart
    <2>3. /\ run' \in RunRecord
          /\ op' \in [Changes -> {"none", "running", "interrupted", "succeeded", "skipped",
                                  "failed", "rolled_back"}]
      BY <1>4 DEF Restart, RecoverRun, InterruptedOps, TypeOK, RunRecord
    <2>4. crashes' \in 0 .. MaxCrashes
      BY <1>4, BoundsAssumption DEF Restart, BoundsAssumption, TypeOK
    <2> QED  BY <1>4, <2>1, <2>2, <2>3, <2>4 DEF Restart, TypeOK
  <1>5. ASSUME NEW c \in Changes, Land(c) PROVE TypeOK'
    BY <1>5 DEF Land, TypeOK
  <1>6. ASSUME NEW t \in Teardowns, StartTeardown(t) \/ ResumeTeardown(t) PROVE TypeOK'
    <2>1. worker' \in [Jobs -> WorkerState]
      BY <1>0, <1>6, WorkerTypes DEF StartTeardown, ResumeTeardown
    <2>2. td' \in [Teardowns -> TeardownRecord]
      <3>1. CASE ResumeTeardown(t)
        <4>1. [td[t] EXCEPT !.status = "running"] \in TeardownRecord
          BY RecordTypes DEF TeardownStates, TypeOK
        <4>2. td' = [td EXCEPT ![t] = [td[t] EXCEPT !.status = "running"]]
          BY <3>1 DEF ResumeTeardown
        <4> QED  BY <4>1, <4>2, TdTypes
      <3>2. CASE StartTeardown(t)
        <4>1. TeardownPlan \subseteq Changes  BY ChangeFacts DEF TeardownPlan, TypeOK
        <4>2. [NoTeardown EXCEPT !.status = "pending", !.plan = TeardownPlan] \in TeardownRecord
          BY <4>1 DEF NoTeardown, TeardownRecord
        <4> QED  BY <3>2, <4>2 DEF StartTeardown, TypeOK
      <3> QED  BY <1>6, <3>1, <3>2
    <2> QED  BY <1>6, <2>1, <2>2 DEF StartTeardown, ResumeTeardown, TypeOK
  <1>7. ASSUME NEW t \in Teardowns, TeardownStep(t) PROVE TypeOK'  BY <1>7, TeardownTypes
  <1>8. ASSUME NEW j \in Jobs, Raise(j) PROVE TypeOK'
    <2>1. worker' \in [Jobs -> WorkerState]  BY <1>8, WorkerTypes DEF Raise
    <2>2. crashes' \in 0 .. MaxCrashes  BY <1>8, BoundsAssumption DEF Raise, BoundsAssumption, TypeOK
    <2> QED  BY <1>8, <2>1, <2>2 DEF Raise, TypeOK
  <1>9. CASE UNCHANGED vars  BY <1>9 DEF vars, TypeOK
  <1> QED  BY <1>1, <1>2, <1>3, <1>4, <1>5, <1>6, <1>7, <1>8, <1>9 DEF Next

\* The records and the checkpoints stay well-formed, and no worker leaves the plan.
THEOREM TypeCorrect == Spec => []TypeOK
  <1>1. TypeOK /\ [Next]_vars => TypeOK'  BY TypeStep
  <1> QED  BY <1>1, TypeInit, PTL DEF Spec

----------------------------------------------------------------------------
(* What a move of a worker changes.                                          *)

\* The other workers stay where they are.
Aside(j) == \A i \in Jobs : i # j => worker'[i] = worker[i]

LEMMA RunMoves ==
    ASSUME TypeOK
    PROVE  /\ \A p, d : Goto("run", p, d) =>
                 pc' = p /\ at' = d /\ failed' = failed /\ Aside("run")
           /\ Start("run") => pc' = "begin" /\ at' = 0 /\ failed' = FALSE /\ Aside("run")
           /\ Stop("run") => pc' = "idle" /\ Aside("run")
           /\ \A c : RollbackFails(c) =>
                 pc' = "unwind" /\ at' = c - 1 /\ failed' = TRUE /\ Aside("run")
  <1>1. worker \in [Jobs -> WorkerState] /\ "run" \in Jobs  BY JobFacts DEF TypeOK
  <1>2. ASSUME NEW p, NEW d, Goto("run", p, d)
        PROVE  pc' = p /\ at' = d /\ failed' = failed /\ Aside("run")
    BY <1>1, <1>2 DEF Goto, pc, at, failed, Aside, WorkerState
  <1>3. ASSUME Start("run")
        PROVE  pc' = "begin" /\ at' = 0 /\ failed' = FALSE /\ Aside("run")
    BY <1>1, <1>3 DEF Start, Begun, pc, at, failed, Aside, WorkerState
  <1>4. ASSUME Stop("run") PROVE pc' = "idle" /\ Aside("run")
    BY <1>1, <1>4 DEF Stop, Idle, pc, Aside, WorkerState
  <1>5. ASSUME NEW c, RollbackFails(c)
        PROVE  pc' = "unwind" /\ at' = c - 1 /\ failed' = TRUE /\ Aside("run")
    BY <1>1, <1>5 DEF RollbackFails, pc, at, failed, Aside, WorkerState
  <1> QED  BY <1>2, <1>3, <1>4, <1>5

LEMMA TeardownMoves ==
    ASSUME TypeOK, NEW t \in Teardowns
    PROVE  /\ \A p, d : Goto(t, p, d) => worker'[t].pc = p /\ worker'[t].at = d /\ Aside(t)
           /\ Start(t) => worker'[t].pc = "begin" /\ Aside(t)
           /\ Stop(t) => worker'[t].pc = "idle" /\ Aside(t)
           /\ Aside(t) => pc' = pc /\ at' = at /\ failed' = failed
  <1>1. worker \in [Jobs -> WorkerState] /\ t \in Jobs /\ "run" \in Jobs /\ t # "run"
    BY JobFacts DEF TypeOK
  <1>2. ASSUME NEW p, NEW d, Goto(t, p, d)
        PROVE  worker'[t].pc = p /\ worker'[t].at = d /\ Aside(t)
    BY <1>1, <1>2 DEF Goto, Aside, WorkerState
  <1>3. ASSUME Start(t) PROVE worker'[t].pc = "begin" /\ Aside(t)
    BY <1>1, <1>3 DEF Start, Begun, Aside, WorkerState
  <1>4. ASSUME Stop(t) PROVE worker'[t].pc = "idle" /\ Aside(t)
    BY <1>1, <1>4 DEF Stop, Idle, Aside, WorkerState
  <1>5. ASSUME Aside(t) PROVE pc' = pc /\ at' = at /\ failed' = failed
    BY <1>1, <1>5 DEF pc, at, failed, Aside
  <1> QED  BY <1>2, <1>3, <1>4, <1>5

----------------------------------------------------------------------------
(* What a step leaves as it was, for each part of the invariant.             *)

\* A run that is not at its end has no teardown.
LEMMA NoTeardownYet ==
    ASSUME RemovalInv, run.status \notin Final, NEW t \in Teardowns
    PROVE  /\ td[t].status = "none" /\ td[t].plan = {} /\ worker[t].pc = "idle"
           /\ \A c \in Changes : td[t].ops[c] = "pending"
  <1>1. RemovalOK(t)  BY DEF RemovalInv
  <1> QED  BY <1>1 DEF RemovalOK, Active

\* A teardown means that the run is over, and its worker gone.
LEMMA RunIsOver ==
    ASSUME PlaceInv, RemovalInv, NEW t \in Teardowns, td[t].status # "none"
    PROVE  pc = "idle" /\ run.status \in Final
  <1>1. RemovalOK(t)  BY DEF RemovalInv
  <1>2. run.status \in Final  BY <1>1 DEF RemovalOK
  <1> QED  BY <1>2 DEF PlaceInv, Final

LEMMA RemovalsUntouched ==
    ASSUME RemovalInv, run.status \notin Final, td' = td, Aside("run")
    PROVE  RemovalInv'
  <1>1. ASSUME NEW t \in Teardowns
        PROVE  /\ td'[t].status = "none" /\ td'[t].plan = {} /\ worker'[t].pc = "idle"
               /\ \A c \in Changes : td'[t].ops[c] = "pending"
    BY NoTeardownYet, JobFacts DEF Aside
  <1>2. \A t \in Teardowns : RemovalOK(t)'  BY <1>1 DEF RemovalOK
  <1>3. RemovedIsGone'  BY <1>1 DEF RemovedIsGone
  <1>4. \A t \in Teardowns : ~Active(t)'  BY <1>1 DEF Active
  <1> QED  BY <1>2, <1>3, <1>4 DEF RemovalInv

\* A worker that is gone asks nothing of the rest.
LEMMA GoneIsPlaced ==
    ASSUME pc' = "idle", run'.phase = "finalized" <=> run'.status \in Final,
           run'.status = "none" => run'.phase = "applying"
    PROVE  PlaceInv'
  BY DEF PlaceInv, Working, Unwinding, Reverting, Holding

\* The records of the other changes stay.
Only(c) ==
    \A d \in Changes : d # c =>
        /\ op'[d] = op[d] /\ sent'[d] = sent[d] /\ ext'[d] = ext[d]
        /\ d \in claim' <=> d \in claim
        /\ d \in Policies => undo'[d] = undo[d]
        /\ d \in missed' <=> d \in missed

\* The run goes on, not back.
Forward ==
    /\ run'.status \notin Final => run.status \notin Final
    /\ run'.phase = "applying" => run.phase = "applying"

LEMMA CellKept ==
    ASSUME Forward, NEW d \in Changes, CellOK(d),
           op'[d] = op[d], sent'[d] = sent[d], ext'[d] = ext[d], d \in claim' <=> d \in claim,
           d \in Policies => undo'[d] = undo[d], d \in missed' <=> d \in missed
    PROVE  CellOK(d)'
  BY DEF CellOK, Forward, Gone

\* An operation that runs is the one its worker is at.
RunsHere == \A d \in Changes : op[d] = "running" =>
               run.status = "running" /\ (pc = "idle" \/ (pc \in Working /\ d = at))

LEMMA OthersKept ==
    ASSUME CellInv, Forward, NEW c \in Changes, Only(c), RunsHere',
           c \in Made => CellOK(c)',
           c \in Reused => op'[c] \notin {"succeeded", "failed", "rolled_back"} /\ c \notin claim'
    PROVE  CellInv'
  <1>1. ASSUME NEW d \in Made PROVE CellOK(d)'
    BY <1>1, CellKept DEF Only, CellInv, Made
  <1>2. \A d \in Reused : op'[d] \notin {"succeeded", "failed", "rolled_back"} /\ d \notin claim'
    BY ChangeFacts DEF CellInv, Only
  <1> QED  BY <1>1, <1>2 DEF CellInv, RunsHere

\* No record of a change is written.
LEMMA CellsUntouched ==
    ASSUME CellInv, Forward, UNCHANGED <<op, sent, undo, missed, claim, ext>>, RunsHere'
    PROVE  CellInv'
  <1>1. ASSUME NEW d \in Made PROVE CellOK(d)'
    BY <1>1, CellKept DEF CellInv, Made
  <1> QED  BY <1>1 DEF CellInv, RunsHere

----------------------------------------------------------------------------
(* Apply keeps the invariant.                                                *)

\* The worker of the run is at work: the run is running, and no teardown is.
LEMMA AtWork ==
    ASSUME TypeOK, PlaceInv, pc # "idle"
    PROVE  /\ run.status = "running" /\ run.phase \in {"applying", "rolling_back"}
           /\ run.status \notin Final
  BY DEF PlaceInv, TypeOK, RunRecord, Final

\* A step of the run's worker at the change c.
Local(c) ==
    /\ td' = td /\ Aside("run") /\ run'.status = "running" /\ Forward /\ Only(c)

Kept(c) ==
    /\ PlaceInv' /\ RunsHere'
    /\ c \in Made => CellOK(c)'
    /\ c \in Reused => op'[c] \notin {"succeeded", "failed", "rolled_back"} /\ c \notin claim'

LEMMA LocalKept ==
    ASSUME TypeOK, IInv, NEW c \in Changes, pc # "idle", Local(c), Kept(c)
    PROVE  IInv'
  <1>1. run.status \notin Final  BY AtWork DEF IInv
  <1>2. RemovalInv'  BY <1>1, RemovalsUntouched DEF IInv, Local
  <1>3. CellInv'  BY OthersKept DEF IInv, Local, Kept
  <1>4. EndInv'  BY DEF EndInv, Local
  <1> QED  BY <1>2, <1>3, <1>4 DEF IInv, Kept

LEMMA IntentSteps ==
    ASSUME TypeOK, IInv, NEW c \in Changes,
           StartOperation(c) \/ Skip(c) \/ Claim(c) \/ Complete(c)
    PROVE  IInv'
  <1> USE DEF records, checkpoints, bounds
  <1>0. /\ pc # "idle" /\ at = c
        /\ UNCHANGED <<run, td, sent, undo, missed, ext>>
    BY DEF StartOperation, Skip, Claim, Complete, pc, at, At
  <1>1. /\ run.status = "running" /\ run.phase \in {"applying", "rolling_back"}
        /\ run.status \notin Final
    BY <1>0, AtWork DEF IInv
  <1>2. Forward  BY <1>0 DEF Forward
  <1>3. PlaceInv /\ CellInv /\ RunsHere /\ (c \in Made => CellOK(c))
    BY DEF IInv, CellInv, RunsHere
  <1>4. c \in Nat /\ c >= 1 /\ c + 1 >= 1 /\ \A d \in Changes : d < c + 1 => d = c \/ d < c
    BY ChangeFacts
  <1>5. c \in Made \/ c \in Reused  BY DEF Made
  <1>6. op \in [Changes -> {"none", "running", "interrupted", "succeeded", "skipped",
                            "failed", "rolled_back"}]
    BY DEF TypeOK
  <1>7. CASE StartOperation(c)
    <2>1. pc = "operation"  BY <1>7 DEF StartOperation, At, pc
    <2>2. CASE op[c] \in {"none", "running", "interrupted"}
      <3>1. /\ op' = [op EXCEPT ![c] = "running"] /\ claim' = claim /\ at' = c
            /\ pc' = IF c \in Reused THEN "skip" ELSE "claim"
            /\ Aside("run")
        BY <1>7, <2>2, RunMoves DEF StartOperation
      <3>2. PlaceInv'
        BY <1>0, <1>1, <1>3, <1>4, <1>5, <1>6, <2>1, <3>1
        DEF PlaceInv, Working, Holding, Unwinding, Reverting
      <3>3. RunsHere'
        BY <1>0, <1>1, <1>3, <1>6, <2>1, <3>1 DEF RunsHere, Working, Holding
      <3>4. c \in Made => CellOK(c)'
        BY <1>0, <1>1, <1>3, <1>6, <2>2, <3>1 DEF CellOK, Gone
      <3>5. Local(c) /\ Kept(c)
        BY <1>0, <1>1, <1>2, <1>3, <1>6, <3>1, <3>2, <3>3, <3>4 DEF Local, Kept, Only, CellInv
      <3> QED  BY <1>0, <3>5, LocalKept
    <2>3. CASE op[c] \in {"succeeded", "skipped"}
      <3>1. /\ op' = op /\ claim' = claim /\ at' = c + 1 /\ pc' = "operation"
            /\ Aside("run")
        BY <1>7, <2>3, RunMoves DEF StartOperation
      <3>2. PlaceInv'
        BY <1>0, <1>1, <1>3, <1>4, <2>1, <2>3, <3>1
        DEF PlaceInv, Working, Holding, Unwinding, Reverting
      <3>3. RunsHere'
        BY <1>0, <1>1, <1>3, <2>1, <3>1 DEF RunsHere, Working, Holding
      <3>4. CellInv'  BY <1>0, <1>2, <1>3, <3>1, <3>3, CellsUntouched
      <3>5. RemovalInv' /\ EndInv'
        BY <1>0, <1>1, <3>1, RemovalsUntouched DEF EndInv, IInv
      <3> QED  BY <3>2, <3>4, <3>5 DEF IInv
    <2> QED  BY <1>7, <2>2, <2>3 DEF StartOperation
  <1>8. CASE Skip(c)
    <2>1. pc = "skip"  BY <1>8 DEF Skip, At, pc
    <2>2. /\ op' = [op EXCEPT ![c] = "skipped"] /\ claim' = claim /\ at' = c + 1
          /\ pc' = "operation" /\ Aside("run") /\ c \in Reused /\ c \notin Made
      BY <1>0, <1>3, <1>8, <2>1, RunMoves DEF Skip, PlaceInv, Made
    <2>3. PlaceInv'
      BY <1>0, <1>1, <1>3, <1>4, <1>6, <2>1, <2>2
      DEF PlaceInv, Working, Holding, Unwinding, Reverting
    <2>4. RunsHere'
      BY <1>0, <1>1, <1>3, <1>6, <2>1, <2>2 DEF RunsHere, Working, Holding
    <2>5. Local(c) /\ Kept(c)
      BY <1>0, <1>1, <1>2, <1>3, <1>6, <2>2, <2>3, <2>4 DEF Local, Kept, Only, CellInv
    <2> QED  BY <1>0, <2>5, LocalKept
  <1>9. CASE Claim(c)
    <2>1. pc = "claim"  BY <1>9 DEF Claim, At, pc
    <2>2. /\ op' = op /\ claim' = claim \union {c} /\ at' = c
          /\ pc' = "apply" /\ Aside("run") /\ c \in Made /\ c \notin Reused
      BY <1>0, <1>3, <1>9, <2>1, RunMoves DEF Claim, PlaceInv, Made, Working
    <2>3. PlaceInv'
      BY <1>0, <1>1, <1>3, <2>1, <2>2 DEF PlaceInv, Working, Holding, Unwinding, Reverting
    <2>4. RunsHere'
      BY <1>0, <1>1, <1>3, <2>1, <2>2 DEF RunsHere, Working, Holding
    <2>5. op[c] = "running"  BY <1>0, <1>3, <2>1 DEF PlaceInv, Working
    <2>6. CellOK(c)'
      BY <1>0, <1>1, <1>3, <2>2, <2>5 DEF CellOK, Gone
    <2>7. Local(c) /\ Kept(c)
      BY <1>0, <1>1, <1>2, <2>2, <2>3, <2>4, <2>6 DEF Local, Kept, Only
    <2> QED  BY <1>0, <2>7, LocalKept
  <1>10. CASE Complete(c)
    <2>1. pc = "complete"  BY <1>10 DEF Complete, At, pc
    <2>2. /\ op' = [op EXCEPT ![c] = "succeeded"] /\ at' = c + 1
          /\ claim' = IF c \in Shared THEN claim \ {c} ELSE claim \union {c}
          /\ pc' = "operation" /\ Aside("run") /\ c \in Made /\ c \notin Reused
      BY <1>0, <1>3, <1>10, <2>1, RunMoves DEF Complete, PlaceInv, Made, Working, Holding
    <2>3. PlaceInv'
      BY <1>0, <1>1, <1>3, <1>4, <1>6, <2>1, <2>2
      DEF PlaceInv, Working, Holding, Unwinding, Reverting
    <2>4. RunsHere'
      BY <1>0, <1>1, <1>3, <1>6, <2>1, <2>2 DEF RunsHere, Working, Holding
    <2>5. sent[c] = "applied" /\ run.phase = "applying"
      BY <1>0, <1>3, <2>1 DEF PlaceInv, Working, Holding
    <2>6. CellOK(c)'
      BY <1>0, <1>1, <1>3, <1>6, <2>2, <2>5 DEF CellOK
    <2>7. Local(c) /\ Kept(c)
      BY <1>0, <1>1, <1>2, <1>6, <2>2, <2>3, <2>4, <2>6 DEF Local, Kept, Only
    <2> QED  BY <1>0, <2>7, LocalKept
  <1> QED  BY <1>7, <1>8, <1>9, <1>10

\* The request of an operation, its checkpoint and its answers.
LEMMA SendSteps ==
    ASSUME TypeOK, IInv, NEW c \in Changes,
           Send(c) \/ Replay(c) \/ Adopt(c) \/ Unclear(c) \/ Confirmed(c)
    PROVE  IInv'
  <1> USE DEF records, checkpoints, bounds
  <1>0. /\ pc # "idle" /\ at = c
        /\ UNCHANGED <<run, op, claim, td, undo, missed, ext>>
    BY DEF Send, Replay, Adopt, Unclear, Confirmed, Applies, pc, at, At
  <1>1. /\ run.status = "running" /\ run.phase \in {"applying", "rolling_back"}
        /\ run.status \notin Final
    BY <1>0, AtWork DEF IInv
  <1>2. Forward  BY <1>0 DEF Forward
  <1>3. PlaceInv /\ CellInv /\ RunsHere /\ (c \in Made => CellOK(c))
    BY DEF IInv, CellInv, RunsHere
  <1>4. pc \in {"apply", "created"}
    BY DEF Send, Replay, Adopt, Unclear, Confirmed, Applies, pc, At
  <1>5. /\ c \in Made /\ c \notin Reused /\ c \in claim /\ op[c] = "running"
        /\ run.phase = "applying"
    BY <1>0, <1>3, <1>4 DEF PlaceInv, Working, Holding, Made
  <1>6. sent \in [Changes -> {"prepared", "sending", "applied", "rejected"}]  BY DEF TypeOK
  <1>7. Shared \subseteq Changes  BY ChangeFacts
  <1>8. at' = c /\ Aside("run") /\ pc' \in {"post", "replay", "complete", "fail"}
    BY RunMoves DEF Send, Replay, Adopt, Unclear, Confirmed
  <1>9. RunsHere'
    BY <1>0, <1>1, <1>3, <1>4, <1>8 DEF RunsHere, Working, Holding
  <1>10. Local(c)
    <2>1. Only(c)
      BY <1>0, <1>6 DEF Send, Replay, Adopt, Unclear, Confirmed, Only
    <2> QED  BY <1>0, <1>1, <1>2, <1>8, <2>1 DEF Local
  <1>11. PlaceInv' /\ CellOK(c)'
    <2>1. CASE Send(c)
      <3>1. pc = "apply" /\ pc' = "post" /\ sent' = [sent EXCEPT ![c] = "sending"]
            /\ sent[c] \in Unsent
        BY <2>1, RunMoves DEF Send, Applies, At, pc
      <3>2. CellOK(c)'
        BY <1>0, <1>1, <1>3, <1>5, <1>6, <3>1 DEF CellOK, Unsent
      <3>3. ext[c] = "absent"  BY <1>3, <1>5, <3>1 DEF CellOK
      <3>4. PlaceInv'
        BY <1>0, <1>1, <1>3, <1>5, <1>6, <1>8, <3>1, <3>3
        DEF PlaceInv, Working, Holding, Unwinding, Reverting
      <3> QED  BY <3>2, <3>4
    <2>2. CASE Replay(c)
      <3>1. pc = "apply" /\ pc' = "replay" /\ sent' = sent /\ sent[c] = "sending" /\ c \in Shared
        BY <2>2, RunMoves DEF Replay, Applies, At, pc
      <3>2. CellOK(c)'  BY <1>0, <1>3, <1>5, <3>1 DEF CellOK
      <3>3. PlaceInv'
        BY <1>0, <1>1, <1>3, <1>5, <1>8, <3>1
        DEF PlaceInv, Working, Holding, Unwinding, Reverting
      <3> QED  BY <3>2, <3>3
    <2>3. CASE Adopt(c) \/ Confirmed(c)
      <3>1. pc' = "complete" /\ sent' = [sent EXCEPT ![c] = "applied"]
        BY <2>3, RunMoves DEF Adopt, Confirmed
      <3>2. ext[c] = "present"
        BY <1>0, <1>3, <1>5, <2>3 DEF Adopt, Confirmed, Applies, At, pc, PlaceInv, CellOK
      <3>3. CellOK(c)'
        BY <1>0, <1>1, <1>3, <1>5, <1>6, <3>1, <3>2 DEF CellOK, Unsent
      <3>4. PlaceInv'
        BY <1>0, <1>1, <1>3, <1>4, <1>5, <1>6, <1>8, <3>1
        DEF PlaceInv, Working, Holding, Unwinding, Reverting
      <3> QED  BY <3>3, <3>4
    <2>4. CASE Unclear(c)
      <3>1. pc = "apply" /\ pc' = "fail" /\ sent' = sent
        BY <2>4, RunMoves DEF Unclear, Applies, At, pc
      <3>2. CellOK(c)'  BY <1>0, <1>3, <1>5, <3>1 DEF CellOK
      <3>3. PlaceInv'
        BY <1>0, <1>1, <1>3, <1>5, <1>8, <3>1
        DEF PlaceInv, Working, Holding, Unwinding, Reverting
      <3> QED  BY <3>2, <3>3
    <2> QED  BY <2>1, <2>2, <2>3, <2>4
  <1>12. Kept(c)  BY <1>5, <1>9, <1>11 DEF Kept
  <1> QED  BY <1>0, <1>10, <1>12, LocalKept

LEMMA AnswerSteps ==
    ASSUME TypeOK, IInv, NEW c \in Changes,
           Accepted(c) \/ Rejected(c) \/ AnswerLost(c) \/ WaitFails(c)
    PROVE  IInv'
  <1> USE DEF records, checkpoints, bounds
  <1>0. /\ pc # "idle" /\ at = c
        /\ UNCHANGED <<run, op, claim, td, undo, missed>>
    BY DEF Accepted, Rejected, AnswerLost, WaitFails, Posts, pc, at, At
  <1>1. /\ run.status = "running" /\ run.phase \in {"applying", "rolling_back"}
        /\ run.status \notin Final
    BY <1>0, AtWork DEF IInv
  <1>2. Forward  BY <1>0 DEF Forward
  <1>3. PlaceInv /\ CellInv /\ RunsHere /\ (c \in Made => CellOK(c))
    BY DEF IInv, CellInv, RunsHere
  <1>4. pc \in {"post", "replay", "created"}
    BY DEF Accepted, Rejected, AnswerLost, WaitFails, Posts, pc, At
  <1>5. /\ c \in Made /\ c \notin Reused /\ c \in claim /\ op[c] = "running"
        /\ run.phase = "applying" /\ sent[c] = "sending"
    BY <1>0, <1>3, <1>4 DEF PlaceInv, Working, Holding, Made
  <1>6. /\ sent \in [Changes -> {"prepared", "sending", "applied", "rejected"}]
        /\ ext \in [Changes -> {"absent", "inflight", "present"}]
        /\ undo \in [Policies -> {"none", "sending", "applied"}]
    BY DEF TypeOK
  <1>7. c \in Policies => undo[c] = "none"  BY <1>3, <1>5 DEF CellOK
  <1>8. /\ at' = c /\ Aside("run") /\ pc' = IF Accepted(c) THEN "created" ELSE "fail"
    BY RunMoves DEF Accepted, Rejected, AnswerLost, WaitFails
  <1>9. RunsHere'
    BY <1>0, <1>1, <1>3, <1>4, <1>8 DEF RunsHere, Working, Holding
  <1>10. Local(c)
    <2>1. Only(c)
      BY <1>0, <1>6 DEF Accepted, Rejected, AnswerLost, WaitFails, Only
    <2> QED  BY <1>0, <1>1, <1>2, <1>8, <2>1 DEF Local
  <1>11. PlaceInv' /\ CellOK(c)'
    <2>1. CASE Accepted(c)
      <3>1. ext' = [ext EXCEPT ![c] = "present"] /\ sent' = sent /\ pc' = "created"
        BY <1>8, <2>1 DEF Accepted
      <3>2. CellOK(c)'
        BY <1>0, <1>1, <1>3, <1>5, <1>6, <1>7, <3>1 DEF CellOK, Unsent
      <3>3. PlaceInv'
        BY <1>0, <1>1, <1>3, <1>4, <1>5, <1>6, <1>8, <3>1
        DEF PlaceInv, Working, Holding, Unwinding, Reverting
      <3> QED  BY <3>2, <3>3
    <2>2. CASE ~Accepted(c)
      <3>1. pc' = "fail"  BY <1>8, <2>2
      <3>2. PlaceInv'
        BY <1>0, <1>1, <1>3, <1>4, <1>5, <1>8, <3>1
        DEF PlaceInv, Working, Holding, Unwinding, Reverting
      <3>3. CASE Rejected(c)
        <4>1. /\ ext' = ext /\ ext[c] = "absent"
              /\ sent' = [sent EXCEPT ![c] = IF At("run", "post") THEN "rejected" ELSE @]
          BY <3>3 DEF Rejected
        <4>2. sent'[c] \in {"rejected", "sending"}  BY <1>5, <1>6, <4>1
        <4> QED  BY <1>0, <1>1, <1>3, <1>5, <1>7, <3>2, <4>1, <4>2 DEF CellOK, Unsent
      <3>4. CASE AnswerLost(c) \/ WaitFails(c)
        <4>1. /\ sent' = sent
              /\ ext'[c] \in {"present", "absent", "inflight"}
          BY <1>6, <3>4 DEF AnswerLost, WaitFails
        <4> QED  BY <1>0, <1>1, <1>3, <1>5, <1>7, <3>2, <4>1 DEF CellOK, Unsent
      <3> QED  BY <2>2, <3>3, <3>4
    <2> QED  BY <2>1, <2>2
  <1>12. Kept(c)  BY <1>5, <1>9, <1>11 DEF Kept
  <1> QED  BY <1>0, <1>10, <1>12, LocalKept

\* The failed operation keeps its claim, and the rollback begins at the last one.
LEMMA FailStep ==
    ASSUME TypeOK, IInv, NEW c \in Changes, FailOperation(c)
    PROVE  IInv'
  <1> USE DEF records, checkpoints, bounds
  <1>0. pc = "fail" /\ at = c /\ UNCHANGED <<claim, td, sent, undo, missed, ext>>
    BY DEF FailOperation, pc, at, At
  <1>1. run.status = "running" /\ run.status \notin Final
    BY <1>0, AtWork DEF IInv
  <1>2. run'.status = "running" /\ run'.phase = "rolling_back"
    BY <1>1 DEF FailOperation, BeginRollback, TypeOK, RunRecord
  <1>3. PlaceInv /\ CellInv /\ RunsHere /\ (c \in Made => CellOK(c))
    BY DEF IInv, CellInv, RunsHere
  <1>4. /\ c \in Made /\ c \notin Reused /\ c \in claim
    BY <1>0, <1>3 DEF PlaceInv, Working, Holding, Made
  <1>5. op \in [Changes -> {"none", "running", "interrupted", "succeeded", "skipped",
                            "failed", "rolled_back"}]
    BY DEF TypeOK
  <1>6. op' = [op EXCEPT ![c] = "failed"]  BY DEF FailOperation
  <1>7. pc' = "unwind" /\ at' = N /\ failed' = failed /\ Aside("run")
    BY RunMoves DEF FailOperation, BeginRollback
  <1>8. N \in Nat /\ \A d \in Changes : ~(d > N) /\ d \in Nat  BY ChangeFacts
  <1>9. Local(c)
    BY <1>0, <1>1, <1>2, <1>5, <1>6, <1>7 DEF Local, Forward, Only
  <1>10. PlaceInv'
    BY <1>2, <1>7, <1>8 DEF PlaceInv, Working, Holding, Unwinding, Reverting, Made, Final
  <1>11. RunsHere'
    BY <1>0, <1>2, <1>3, <1>5, <1>6, <1>7 DEF RunsHere, Working, Holding
  <1>12. CellOK(c)'
    BY <1>0, <1>2, <1>3, <1>4, <1>5, <1>6 DEF CellOK, Gone
  <1>13. Kept(c)  BY <1>4, <1>10, <1>11, <1>12 DEF Kept
  <1> QED  BY <1>0, <1>9, <1>13, LocalKept

----------------------------------------------------------------------------
(* The rollback keeps the invariant.                                         *)

\* A step that writes no record of any change, and leaves the run as it is.
LEMMA MoveKept ==
    ASSUME TypeOK, IInv, pc # "idle", UNCHANGED <<run, op, claim, td, sent, undo, missed, ext>>,
           Aside("run"), PlaceInv', RunsHere'
    PROVE  IInv'
  <1>1. run.status = "running" /\ run.status \notin Final  BY AtWork DEF IInv
  <1>2. Forward  BY DEF Forward
  <1>3. CellInv'  BY <1>2, CellsUntouched DEF IInv
  <1>4. RemovalInv'  BY <1>1, RemovalsUntouched DEF IInv
  <1>5. EndInv'  BY <1>1 DEF EndInv
  <1> QED  BY <1>3, <1>4, <1>5 DEF IInv

LEMMA UnwindSteps ==
    ASSUME TypeOK, IInv, NEW c \in Changes,
           UnwindNext(c) \/ RevertUnclear(c)
    PROVE  IInv'
  <1> USE DEF records, checkpoints, bounds
  <1>0. /\ pc \in {"unwind", "revert"} /\ at = c
        /\ UNCHANGED <<run, op, claim, td, sent, undo, missed, ext>>
    BY DEF UnwindNext, RevertUnclear, Unwinds, Reverts, pc, at, At
  <1>1. /\ run.status = "running" /\ run.phase = "rolling_back" /\ run.status \notin Final
    BY <1>0, AtWork DEF IInv, PlaceInv, Unwinding, Reverting
  <1>2. PlaceInv /\ CellInv /\ RunsHere /\ (c \in Made => CellOK(c))
    BY DEF IInv, CellInv, RunsHere
  <1>3. /\ N \in Nat /\ c \in Nat /\ c - 1 <= N
        /\ \A d \in Changes : d \in Nat /\ (d > c - 1 => d = c \/ d > c)
    BY ChangeFacts
  <1>4. op \in [Changes -> {"none", "running", "interrupted", "succeeded", "skipped",
                            "failed", "rolled_back"}]
    BY DEF TypeOK
  <1>5. \A d \in Changes : op[d] # "running"
    BY <1>0, <1>2 DEF RunsHere, Working, Holding
  <1>6. RunsHere'  BY <1>0, <1>5 DEF RunsHere
  <1>7. CASE UnwindNext(c)
    <2>1. pc = "unwind" /\ Aside("run") /\ failed' = failed
      BY <1>7, RunMoves DEF UnwindNext, Unwinds, At, pc
    <2>2. CASE Compensated(c)
      <3>1. pc' = "revert" /\ at' = c  BY <1>7, <2>2, RunMoves DEF UnwindNext
      <3>2. op[c] \in {"succeeded", "failed"} /\ c \in Made
        BY <1>2, <2>2 DEF Compensated, CellInv, Made
      <3>3. PlaceInv'
        BY <1>0, <1>1, <1>2, <2>1, <3>1, <3>2
        DEF PlaceInv, Working, Holding, Unwinding, Reverting, Settled
      <3> QED  BY <1>0, <1>6, <2>1, <3>3, MoveKept
    <2>3. CASE ~Compensated(c)
      <3>1. pc' = "unwind" /\ at' = c - 1  BY <1>7, <2>3, RunMoves DEF UnwindNext
      <3>2. c \in Made => Settled(c)
        BY <1>1, <1>2, <1>4, <1>5, <2>3 DEF Compensated, CellOK, Settled
      <3>3. PlaceInv'
        BY <1>0, <1>1, <1>2, <1>3, <2>1, <3>1, <3>2
        DEF PlaceInv, Working, Holding, Unwinding, Reverting, Settled, Made
      <3> QED  BY <1>0, <1>6, <2>1, <3>3, MoveKept
    <2> QED  BY <2>2, <2>3
  <1>8. CASE RevertUnclear(c)
    <2>1. pc' = "unwind" /\ at' = c - 1 /\ failed' = TRUE /\ Aside("run")
      BY <1>8, RunMoves DEF RevertUnclear
    <2>2. PlaceInv'
      BY <1>0, <1>1, <1>2, <1>3, <2>1
      DEF PlaceInv, Working, Holding, Unwinding, Reverting
    <2> QED  BY <1>0, <1>6, <2>1, <2>2, MoveKept
  <1> QED  BY <1>7, <1>8

LEMMA RevertSteps ==
    ASSUME TypeOK, IInv, NEW c \in Changes,
           RevertNothing(c) \/ RevertSend(c) \/ Reverted(c) \/ RevertFails(c) \/ Undone(c)
    PROVE  IInv'
  <1> USE DEF records, checkpoints, bounds
  <1>0. /\ pc \in Reverting /\ pc # "idle" /\ at = c
        /\ UNCHANGED <<run, td, sent>>
    BY DEF RevertNothing, RevertSend, Reverted, RevertFails, Undone, Reverts, Reverting, pc, at, At
  <1>1. /\ run.status = "running" /\ run.phase = "rolling_back" /\ run.status \notin Final
    BY <1>0, AtWork DEF IInv, PlaceInv, Unwinding, Reverting
  <1>2. PlaceInv /\ CellInv /\ RunsHere /\ (c \in Made => CellOK(c))
    BY DEF IInv, CellInv, RunsHere
  <1>3. /\ N \in Nat /\ c \in Nat /\ c - 1 <= N
        /\ \A d \in Changes : d \in Nat /\ (d > c - 1 => d = c \/ d > c)
    BY ChangeFacts
  <1>4. /\ op \in [Changes -> {"none", "running", "interrupted", "succeeded", "skipped",
                               "failed", "rolled_back"}]
        /\ ext \in [Changes -> {"absent", "inflight", "present"}]
        /\ undo \in [Policies -> {"none", "sending", "applied"}]
        /\ sent \in [Changes -> {"prepared", "sending", "applied", "rejected"}]
    BY DEF TypeOK
  <1>5. \A d \in Changes : op[d] # "running"
    BY <1>0, <1>2 DEF RunsHere, Working, Holding, Reverting
  <1>6. c \in Made /\ c \notin Reused /\ op[c] \in {"succeeded", "failed"}
    BY <1>0, <1>2 DEF PlaceInv, Made
  <1>7. Forward  BY <1>0 DEF Forward
  <1>8. CASE RevertSend(c)
    <2>1. /\ pc = "revert" /\ pc' = "delete" /\ at' = c /\ failed' = failed /\ Aside("run")
          /\ UNCHANGED <<op, claim, ext, missed>> /\ ext[c] = "present" /\ sent[c] \notin Unsent
          /\ undo' = IF c \in Policies THEN [undo EXCEPT ![c] = "sending"] ELSE undo
      BY <1>8, RunMoves DEF RevertSend, Reverts, At, pc, NothingToUndo, MarkUndo
    <2>2. /\ c \in Policies => undo'[c] = "sending"
          /\ \A d \in Policies : d # c => undo'[d] = undo[d]
      BY <1>4, <2>1
    <2>3. PlaceInv'
      BY <1>0, <1>1, <1>2, <1>6, <2>1, <2>2
      DEF PlaceInv, Working, Holding, Unwinding, Reverting, Settled
    <2>4. RunsHere'  BY <1>5, <2>1 DEF RunsHere
    <2>5. CellOK(c)'
      BY <1>0, <1>1, <1>2, <1>6, <2>1, <2>2 DEF CellOK, Gone
    <2>6. Local(c) /\ Kept(c)
      BY <1>0, <1>1, <1>6, <1>7, <2>1, <2>2, <2>3, <2>4, <2>5 DEF Local, Kept, Only
    <2> QED  BY <1>0, <2>6, LocalKept
  <1>9. CASE Reverted(c)
    <2>1. /\ pc = "delete" /\ pc' = "undone" /\ at' = c /\ failed' = failed /\ Aside("run")
          /\ UNCHANGED <<op, claim, missed>> /\ ext' = [ext EXCEPT ![c] = "absent"]
          /\ undo' = IF c \in Policies THEN [undo EXCEPT ![c] = "applied"] ELSE undo
      BY <1>9, RunMoves DEF Reverted, At, pc, MarkUndo
    <2>2. /\ c \in Policies => undo'[c] = "applied"
          /\ \A d \in Policies : d # c => undo'[d] = undo[d]
          /\ ext'[c] = "absent" /\ \A d \in Changes : d # c => ext'[d] = ext[d]
      BY <1>4, <2>1
    <2>3. PlaceInv'
      BY <1>0, <1>1, <1>2, <1>6, <2>1, <2>2
      DEF PlaceInv, Working, Holding, Unwinding, Reverting, Settled, Gone
    <2>4. RunsHere'  BY <1>5, <2>1 DEF RunsHere
    <2>5. CellOK(c)'
      BY <1>0, <1>1, <1>2, <1>6, <2>1, <2>2 DEF CellOK, Gone
    <2>6. Local(c) /\ Kept(c)
      BY <1>0, <1>1, <1>6, <1>7, <2>1, <2>2, <2>3, <2>4, <2>5 DEF Local, Kept, Only
    <2> QED  BY <1>0, <2>6, LocalKept
  <1>10. CASE RevertFails(c)
    <2>1. /\ pc = "delete" /\ pc' = "unwind" /\ at' = c - 1 /\ failed' = TRUE /\ Aside("run")
          /\ UNCHANGED <<op, claim, missed>>
      BY <1>10, RunMoves DEF RevertFails, At, pc
    <2>2. /\ c \in Policies => undo'[c] \in {"none", "sending"}
          /\ \A d \in Policies : d # c => undo'[d] = undo[d]
          /\ ext'[c] \in {"present", "absent"} /\ \A d \in Changes : d # c => ext'[d] = ext[d]
      <3>1. ext[c] = "present" /\ (c \in Policies => undo[c] = "sending")
        BY <1>0, <1>2, <2>1 DEF PlaceInv
      <3>2. \/ ext' = ext /\ undo' = IF c \in Policies THEN [undo EXCEPT ![c] = "none"] ELSE undo
            \/ undo' = undo /\ \E e \in {"present", "absent"} : ext' = [ext EXCEPT ![c] = e]
        BY <1>10 DEF RevertFails, MarkUndo
      <3> QED  BY <1>4, <3>1, <3>2
    <2>3. PlaceInv'
      BY <1>0, <1>1, <1>2, <1>3, <2>1 DEF PlaceInv, Working, Holding, Unwinding, Reverting
    <2>4. RunsHere'  BY <1>5, <2>1 DEF RunsHere
    <2>5. sent[c] \notin Unsent /\ ext[c] = "present"
      BY <1>0, <1>2, <2>1 DEF PlaceInv
    <2>6. CellOK(c)'
      BY <1>0, <1>1, <1>2, <1>6, <2>1, <2>2, <2>5 DEF CellOK, Gone
    <2>7. Local(c) /\ Kept(c)
      BY <1>0, <1>1, <1>6, <1>7, <2>1, <2>2, <2>3, <2>4, <2>6 DEF Local, Kept, Only
    <2> QED  BY <1>0, <2>7, LocalKept
  <1>11. CASE Undone(c)
    <2>1. /\ pc = "undone" /\ pc' = "unwind" /\ at' = c - 1 /\ failed' = failed /\ Aside("run")
          /\ UNCHANGED <<undo, missed, ext>> /\ claim' = claim \ {c}
          /\ op' = [op EXCEPT ![c] = "rolled_back"]
      BY <1>11, RunMoves DEF Undone, At, pc
    <2>2. op'[c] = "rolled_back" /\ \A d \in Changes : d # c => op'[d] = op[d]
      BY <1>4, <2>1
    <2>3. Gone(c)  BY <1>0, <1>2, <2>1 DEF PlaceInv
    <2>4. PlaceInv'
      BY <1>0, <1>1, <1>2, <1>3, <1>6, <2>1, <2>2
      DEF PlaceInv, Working, Holding, Unwinding, Reverting, Settled, Made
    <2>5. RunsHere'  BY <1>5, <2>2 DEF RunsHere
    <2>6. CellOK(c)'
      BY <1>0, <1>1, <1>2, <1>6, <2>1, <2>2, <2>3 DEF CellOK, Gone
    <2>7. Local(c) /\ Kept(c)
      BY <1>0, <1>1, <1>6, <1>7, <2>1, <2>2, <2>4, <2>5, <2>6 DEF Local, Kept, Only
    <2> QED  BY <1>0, <2>7, LocalKept
  <1>12. CASE RevertNothing(c)
    <2>1. /\ pc = "revert" /\ pc' = "undone" /\ at' = c /\ failed' = failed /\ Aside("run")
          /\ UNCHANGED <<op, claim, ext>> /\ ~Ambiguous(c) /\ NothingToUndo(c)
      BY <1>12, RunMoves DEF RevertNothing, Reverts, At, pc
    <2>2. /\ undo' = undo \/ (c \in Policies /\ undo' = [undo EXCEPT ![c] = "applied"])
          /\ missed' = IF c \in Policies /\ ext[c] = "inflight" THEN missed \cup {c} ELSE missed
      BY <1>12 DEF RevertNothing, MarkUndo, NoteMissed
    <2>3. /\ c \in Policies => undo'[c] \in {undo[c], "applied"}
          /\ \A d \in Policies : d # c => undo'[d] = undo[d]
          /\ \A d \in Changes : d # c => (d \in missed' <=> d \in missed)
          /\ Gone(c) => Gone(c)'
      BY <1>4, <2>1, <2>2 DEF Gone
    <2>4. Gone(c)' /\ (c \in missed' => c \in missed \/ sent[c] = "sending")
      <3>1. c \in Generic \/ c \in Shared \/ c \in Policies  BY <1>6 DEF Made, Generic
      <3>2. ext[c] \in {"absent", "inflight", "present"}  BY <1>4, <1>6 DEF Made
      <3>3. /\ sent[c] \in Unsent => ext[c] = "absent"
            /\ ext[c] = "inflight" => sent[c] = "sending"
            /\ c \in Policies /\ undo[c] = "applied" => Gone(c)
        BY <1>2, <1>6 DEF CellOK
      <3>4. ext[c] = "inflight" => c \in Policies
        BY <2>1, <3>1, <3>3 DEF Ambiguous
      <3>5. CASE ext[c] = "inflight"
        BY <2>2, <3>3, <3>4, <3>5 DEF Gone
      <3>6. CASE ext[c] # "inflight"
        BY <2>1, <2>2, <2>3, <3>2, <3>3, <3>6 DEF NothingToUndo, Gone
      <3> QED  BY <3>5, <3>6
    <2>5. PlaceInv'
      BY <1>0, <1>1, <1>2, <1>6, <2>1, <2>4
      DEF PlaceInv, Working, Holding, Unwinding, Reverting, Settled
    <2>6. RunsHere'  BY <1>5, <2>1 DEF RunsHere
    <2>7. CellOK(c)'
      BY <1>0, <1>1, <1>2, <1>6, <2>1, <2>3, <2>4 DEF CellOK
    <2>8. Local(c) /\ Kept(c)
      BY <1>0, <1>1, <1>6, <1>7, <2>1, <2>3, <2>5, <2>6, <2>7 DEF Local, Kept, Only
    <2> QED  BY <1>0, <2>8, LocalKept
  <1> QED  BY <1>8, <1>9, <1>10, <1>11, <1>12

----------------------------------------------------------------------------
(* The turns of the run, its deaths and recovery keep the invariant.         *)

\* A step of the run's worker, or for it, that writes the record of the run only.
LEMMA TurnKept ==
    ASSUME TypeOK, IInv, run.status \notin Final, UNCHANGED <<op, claim, td, sent, undo, missed, ext>>,
           Aside("run"), run'.phase = "applying" => run.phase = "applying",
           PlaceInv', RunsHere', EndInv'
    PROVE  IInv'
  <1>1. Forward  BY DEF Forward
  <1>2. CellInv'  BY <1>1, CellsUntouched DEF IInv
  <1>3. RemovalInv'  BY RemovalsUntouched DEF IInv
  <1> QED  BY <1>2, <1>3 DEF IInv

LEMMA BeginSteps ==
    ASSUME TypeOK, IInv, Begin \/ Prepared
    PROVE  IInv'
  <1> USE DEF records, checkpoints, bounds
  <1>0. pc \in {"begin", "prepare"} /\ UNCHANGED <<run, op, claim, td, sent, undo, missed, ext>>
    BY DEF Begin, Prepared, pc, At
  <1>1. /\ run.status = "running" /\ run.phase \in {"applying", "rolling_back"}
        /\ run.status \notin Final
    BY <1>0, AtWork DEF IInv
  <1>2. PlaceInv /\ CellInv /\ RunsHere  BY DEF IInv, CellInv, RunsHere
  <1>3. \A d \in Changes : op[d] # "running"
    BY <1>0, <1>2 DEF RunsHere, Working, Holding
  <1>4. RunsHere'  BY <1>0, <1>3 DEF RunsHere
  <1>5. N \in Nat /\ \A d \in Changes : d \in Nat /\ ~(d > N) /\ ~(d < 1)  BY ChangeFacts
  <1>6. CASE Prepared
    <2>1. pc = "prepare" /\ pc' = "operation" /\ at' = 1 /\ failed' = failed /\ Aside("run")
      BY <1>6, RunMoves DEF Prepared, At, pc
    <2>2. PlaceInv'
      BY <1>0, <1>1, <1>2, <1>5, <2>1 DEF PlaceInv, Working, Holding, Unwinding, Reverting
    <2> QED  BY <1>0, <1>4, <2>1, <2>2, MoveKept
  <1>7. CASE Begin /\ run.phase = "rolling_back"
    <2>1. pc' = "unwind" /\ at' = N /\ failed' = failed /\ Aside("run")
      BY <1>7, RunMoves DEF Begin
    <2>2. PlaceInv'
      BY <1>0, <1>1, <1>2, <1>5, <1>7, <2>1
      DEF PlaceInv, Working, Holding, Unwinding, Reverting, Made
    <2> QED  BY <1>0, <1>4, <2>1, <2>2, MoveKept
  <1>8. CASE Begin /\ run.phase # "rolling_back"
    <2>1. pc' = "prepare" /\ at' = 0 /\ failed' = failed /\ Aside("run")
      BY <1>8, RunMoves DEF Begin
    <2>2. PlaceInv'
      BY <1>0, <1>1, <1>2, <1>8, <2>1
      DEF PlaceInv, Working, Holding, Unwinding, Reverting, Made
    <2> QED  BY <1>0, <1>4, <2>1, <2>2, MoveKept
  <1> QED  BY <1>6, <1>7, <1>8

LEMMA PrepareFailsStep ==
    ASSUME TypeOK, IInv, PrepareFails
    PROVE  IInv'
  <1> USE DEF records, checkpoints, bounds
  <1>0. pc = "prepare" /\ UNCHANGED <<op, claim, td, sent, undo, missed, ext>>
    BY DEF PrepareFails, pc, At
  <1>1. run.status = "running" /\ run.status \notin Final  BY <1>0, AtWork DEF IInv
  <1>2. PlaceInv /\ RunsHere  BY DEF IInv, CellInv, RunsHere
  <1>3. \A d \in Changes : op[d] # "running"
    BY <1>0, <1>2 DEF RunsHere, Working, Holding
  <1>4. RunsHere'  BY <1>0, <1>3 DEF RunsHere
  <1>5. N \in Nat /\ \A d \in Changes : d \in Nat /\ ~(d > N)  BY ChangeFacts
  <1>6. CASE BeginRollback
    <2>1. run'.status = "running" /\ run'.phase = "rolling_back"
      BY <1>1, <1>6 DEF BeginRollback, TypeOK, RunRecord
    <2>2. pc' = "unwind" /\ at' = N /\ failed' = failed /\ Aside("run")
      BY <1>6, RunMoves DEF BeginRollback
    <2>3. PlaceInv'
      BY <1>5, <2>1, <2>2 DEF PlaceInv, Working, Holding, Unwinding, Reverting, Made, Final
    <2>4. EndInv'  BY <2>1 DEF EndInv
    <2> QED  BY <1>0, <1>1, <1>4, <2>1, <2>2, <2>3, <2>4, TurnKept
  <1>7. CASE FinishRun("failed")
    <2>1. run'.status = "failed" /\ run'.phase = "finalized"  BY <1>7 DEF FinishRun
    <2>2. pc' = "idle" /\ Aside("run")  BY <1>7, RunMoves DEF FinishRun
    <2>3. PlaceInv'  BY <2>1, <2>2, GoneIsPlaced DEF Final
    <2>4. EndInv'  BY <2>1 DEF EndInv
    <2> QED  BY <1>0, <1>1, <1>4, <2>1, <2>2, <2>3, <2>4, TurnKept
  <1> QED  BY <1>6, <1>7 DEF PrepareFails

LEMMA FinishSteps ==
    ASSUME TypeOK, IInv, FinishSucceeded \/ FinishRollback
    PROVE  IInv'
  <1> USE DEF records, checkpoints, bounds
  <1>0. pc \in {"operation", "unwind"} /\ UNCHANGED <<op, claim, td, sent, undo, missed, ext>>
    BY DEF FinishSucceeded, FinishRollback, pc, At
  <1>1. run.status = "running" /\ run.status \notin Final  BY <1>0, AtWork DEF IInv
  <1>2. PlaceInv /\ CellInv /\ RunsHere  BY DEF IInv, CellInv, RunsHere
  <1>3. \A d \in Changes : op[d] # "running"
    BY <1>0, <1>2 DEF RunsHere, Working, Holding
  <1>4. RunsHere'  BY <1>0, <1>3 DEF RunsHere
  <1>5. N \in Nat /\ \A d \in Changes : d \in Nat /\ d < N + 1 /\ d > 0  BY ChangeFacts
  <1>6. /\ run'.phase = "finalized" /\ pc' = "idle" /\ Aside("run")
        /\ run'.status \in {"succeeded", "rollback_failed", "rolled_back"}
    BY RunMoves DEF FinishSucceeded, FinishRollback, FinishRun
  <1>7. PlaceInv'  BY <1>6, GoneIsPlaced DEF Final
  <1>8. EndInv'
    <2>1. CASE FinishSucceeded
      <3>1. run'.status = "succeeded"  BY <2>1 DEF FinishSucceeded, FinishRun
      <3>2. pc = "operation" /\ at = N + 1  BY <2>1 DEF FinishSucceeded, At, pc, at
      <3>3. run.phase = "applying" /\ \A d \in Changes : op[d] \in {"succeeded", "skipped"}
        BY <1>2, <1>5, <3>2 DEF PlaceInv
      <3>4. \A d \in Made : ext[d] = "present" /\ (d \in claim \/ d \in Shared)
        BY <1>2, <3>3 DEF CellInv, CellOK, Made
      <3> QED  BY <1>0, <3>1, <3>4 DEF EndInv
    <2>2. CASE FinishRollback
      <3>1. pc = "unwind" /\ at = 0  BY <2>2 DEF FinishRollback, At, pc, at
      <3>2. run'.status = IF failed THEN "rollback_failed" ELSE "rolled_back"
        BY <2>2 DEF FinishRollback, FinishRun, failed
      <3>3. ~failed => \A d \in Made : Settled(d)
        BY <1>2, <1>5, <3>1 DEF PlaceInv, Unwinding, Made
      <3> QED  BY <1>0, <3>2, <3>3 DEF EndInv, Settled
    <2> QED  BY <2>1, <2>2
  <1> QED  BY <1>0, <1>1, <1>4, <1>6, <1>7, <1>8, TurnKept

\* Approved, or resumed: the run has no operation that runs yet.
LEMMA StartSteps ==
    ASSUME TypeOK, IInv, Apply \/ ResumeRun
    PROVE  IInv'
  <1> USE DEF records, checkpoints, bounds
  <1>0. run.status \in {"none", "interrupted"} /\ UNCHANGED <<op, claim, td, sent, undo, missed, ext>>
    BY DEF Apply, ResumeRun
  <1>1. PlaceInv /\ RunsHere  BY DEF IInv, CellInv, RunsHere
  <1>2. run.status \notin Final /\ run.phase # "finalized"  BY <1>0, <1>1 DEF Final, PlaceInv
  <1>3. /\ run'.status = "running" /\ run'.phase = run.phase
    <2>1. CASE Apply  BY <2>1, <1>1 DEF Apply, PlaceInv
    <2>2. CASE ResumeRun  BY <2>2 DEF ResumeRun, TypeOK, RunRecord
    <2> QED  BY <2>1, <2>2
  <1>4. pc' = "begin" /\ Aside("run")  BY RunMoves DEF Apply, ResumeRun
  <1>5. PlaceInv'
    BY <1>2, <1>3, <1>4 DEF PlaceInv, Working, Holding, Unwinding, Reverting, Final
  <1>6. RunsHere'  BY <1>0, <1>1 DEF RunsHere
  <1>7. EndInv'  BY <1>3 DEF EndInv
  <1> QED  BY <1>0, <1>2, <1>3, <1>4, <1>5, <1>6, <1>7, TurnKept

\* The request that was under way is carried out after all.
LEMMA LandStep ==
    ASSUME TypeOK, IInv, NEW c \in Changes, Land(c)
    PROVE  IInv'
  <1> USE DEF records, checkpoints, bounds
  <1>0. /\ UNCHANGED <<run, op, claim, td, sent, undo, missed, worker>>
        /\ ext[c] = "inflight" /\ ext' = [ext EXCEPT ![c] = "present"]
    BY DEF Land
  <1>1. ext'[c] = "present" /\ \A d \in Changes : d # c => ext'[d] = ext[d]
    BY <1>0 DEF TypeOK
  <1>2. pc' = pc /\ at' = at /\ failed' = failed  BY <1>0 DEF pc, at, failed
  <1>3. PlaceInv'
    <2>1. pc \in Working \union Reverting => at \in Changes
      BY ChangeFacts DEF IInv, PlaceInv, Made, Working, Holding, Reverting
    <2>2. /\ pc = "post" => ext'[at] = "absent"
          /\ pc \in {"created", "delete"} => ext'[at] = "present"
      BY <1>0, <1>1, <2>1 DEF IInv, PlaceInv, Working, Holding, Reverting
    <2>3. pc = "undone" => Gone(at) /\ (ext'[at] = "absent" \/ at \in missed')
      BY <1>0, <1>1, <2>1 DEF IInv, PlaceInv, Reverting, Gone
    <2> QED  BY <1>0, <1>2, <2>2, <2>3 DEF IInv, PlaceInv, Settled, Gone
  <1>4. CellInv'
    <2>1. Forward  BY <1>0 DEF Forward
    <2>2. Only(c)  BY <1>0, <1>1 DEF Only
    <2>3. RunsHere'  BY <1>0, <1>2 DEF IInv, CellInv, RunsHere
    <2>4. c \in Made => CellOK(c)'
      <3>1. c \in Made => CellOK(c)  BY DEF IInv, CellInv
      <3> QED  BY <1>0, <1>1, <3>1 DEF CellOK, Unsent, Gone
    <2>5. c \in Reused => op'[c] \notin {"succeeded", "failed", "rolled_back"} /\ c \notin claim'
      BY <1>0 DEF IInv, CellInv
    <2> QED  BY <2>1, <2>2, <2>3, <2>4, <2>5, OthersKept DEF IInv
  <1>5. EndInv'
    <2>1. \A d \in Changes : ext[d] = "present" => ext'[d] = "present"  BY <1>0, <1>1
    <2> QED  BY <1>0, <2>1 DEF IInv, EndInv, Settled, Made
  <1>6. RemovalInv'
    <2>1. ASSUME NEW d \in Changes, Gone(d) PROVE Gone(d)'
      BY <1>0, <1>1, <2>1 DEF Gone
    <2>2. ASSUME NEW t \in Teardowns PROVE RemovalOK(t)'
      <3>1. RemovalOK(t)  BY DEF IInv, RemovalInv
      <3>2. td[t].plan \subseteq Changes  BY DEF TypeOK, TeardownRecord
      <3>3. worker[t].pc = "destroyed" => ext'[worker[t].at] = "absent" \/ worker[t].at \in missed'
        BY <2>1, <3>1, <3>2 DEF RemovalOK, Gone
      <3> QED  BY <1>0, <3>1, <3>3 DEF RemovalOK, Owned, Active, Gone
    <2>3. RemovedIsGone'
      <3>1. \A t \in Teardowns : td[t].plan \subseteq Changes  BY DEF TypeOK, TeardownRecord
      <3> QED  BY <1>0, <2>1, <3>1 DEF IInv, RemovalInv, RemovedIsGone, Owned
    <2>4. \A t, u \in Teardowns : Active(t)' /\ Active(u)' => t = u
      BY <1>0 DEF IInv, RemovalInv, Active
    <2> QED  BY <2>2, <2>3, <2>4 DEF RemovalInv
  <1> QED  BY <1>3, <1>4, <1>5, <1>6 DEF IInv

\* A worker that dies leaves the records as they are.
LEMMA RaiseStep ==
    ASSUME TypeOK, IInv, NEW j \in Jobs, Raise(j)
    PROVE  IInv'
  <1> USE DEF records, checkpoints, bounds
  <1>0. UNCHANGED <<run, op, claim, td, sent, undo, missed, ext>>  BY DEF Raise
  <1>1. /\ worker' = [worker EXCEPT ![j] = Idle] /\ Idle.pc = "idle"
        /\ worker \in [Jobs -> WorkerState]
    BY DEF Raise, Stop, Idle, TypeOK
  <1>2. \A i \in Jobs : worker'[i] = worker[i] \/ worker'[i].pc = "idle"
    BY <1>1
  <1>3. (pc' = pc /\ at' = at /\ failed' = failed) \/ pc' = "idle"
    BY <1>2, JobFacts DEF pc, at, failed
  <1>4. PlaceInv'
    <2>1. CASE pc' = "idle"
      <3>1. /\ run'.phase = "finalized" <=> run'.status \in Final
            /\ run'.status = "none" => run'.phase = "applying"
        BY <1>0 DEF IInv, PlaceInv
      <3> QED  BY <2>1, <3>1, GoneIsPlaced
    <2>2. CASE pc' = pc /\ at' = at /\ failed' = failed
      BY <1>0, <2>2 DEF IInv, PlaceInv, Settled, Gone
    <2> QED  BY <1>3, <2>1, <2>2
  <1>5. CellInv'
    <2>1. RunsHere'  BY <1>0, <1>3 DEF IInv, CellInv, RunsHere
    <2>2. Forward  BY <1>0 DEF Forward
    <2> QED  BY <1>0, <2>1, <2>2, CellsUntouched DEF IInv
  <1>6. EndInv'  BY <1>0 DEF IInv, EndInv, Settled
  <1>7. RemovalInv'
    <2>1. ASSUME NEW t \in Teardowns PROVE RemovalOK(t)'
      <3>1. RemovalOK(t)  BY DEF IInv, RemovalInv
      <3>2. worker'[t] = worker[t] \/ worker'[t].pc = "idle"  BY <1>2, JobFacts
      <3> QED  BY <1>0, <3>1, <3>2 DEF RemovalOK, Owned, Active, Gone
    <2>2. RemovedIsGone'  BY <1>0 DEF IInv, RemovalInv, RemovedIsGone, Owned
    <2>3. \A t, u \in Teardowns : Active(t)' /\ Active(u)' => t = u
      BY <1>0 DEF IInv, RemovalInv, Active
    <2> QED  BY <2>1, <2>2, <2>3 DEF RemovalInv
  <1> QED  BY <1>4, <1>5, <1>6, <1>7 DEF IInv

LEMMA RecoveredFacts ==
    ASSUME NEW d \in TeardownRecord
    PROVE  /\ Recovered(d).plan = d.plan
           /\ Recovered(d).status \notin {"pending", "running"}
           /\ Recovered(d).status = "none" <=> d.status = "none"
           /\ d.status = "none" => Recovered(d) = d
           /\ \A c \in Changes, s \in {"succeeded", "skipped"} :
                 Recovered(d).ops[c] = s <=> d.ops[c] = s
  <1>1. CASE d.status \notin {"pending", "running"}  BY <1>1 DEF Recovered
  <1>2. CASE d.status \in {"pending", "running"}
    <2> DEFINE o == [c \in Changes |-> IF d.ops[c] = "running" THEN "pending" ELSE d.ops[c]]
    <2>1. PICK st \in TeardownStates, p \in SUBSET Changes, os \in [Changes -> RemovalStates] :
             d = [status |-> st, plan |-> p, ops |-> os]
      BY DEF TeardownRecord, TeardownStates, RemovalStates
    <2>2. PICK e : e = [d EXCEPT !.status = "interrupted"]  OBVIOUS
    <2>3. e = [status |-> "interrupted", plan |-> p, ops |-> os]  BY <2>1, <2>2
    <2>4. Recovered(d) = [e EXCEPT !.ops = o]  BY <1>2, <2>2 DEF Recovered
    <2>5. [e EXCEPT !.ops = o] = [status |-> "interrupted", plan |-> p, ops |-> o]
      <3> HIDE DEF o
      <3> QED  BY <2>3
    <2>6. Recovered(d) = [status |-> "interrupted", plan |-> p, ops |-> o]  BY <2>4, <2>5
    <2>7. \A c \in Changes, s \in {"succeeded", "skipped"} : o[c] = s <=> d.ops[c] = s
      OBVIOUS
    <2>8. /\ Recovered(d).status = "interrupted" /\ Recovered(d).plan = d.plan
          /\ Recovered(d).ops = o
      <3> HIDE DEF o
      <3> QED  BY <2>1, <2>6
    <2> HIDE DEF o
    <2> QED  BY <1>2, <2>7, <2>8
  <1> QED  BY <1>1, <1>2

\* The process starts again: what was running is interrupted.
LEMMA RestartStep ==
    ASSUME TypeOK, IInv, Restart
    PROVE  IInv'
  <1> USE DEF checkpoints
  <1>0. /\ UNCHANGED <<claim, sent, undo, missed, ext>> /\ worker' = [j \in Jobs |-> Idle]
        /\ td' = [t \in Teardowns |-> Recovered(td[t])]
    BY DEF Restart
  <1>1. pc' = "idle" /\ \A j \in Jobs : worker'[j].pc = "idle"
    BY <1>0, JobFacts DEF pc, Idle
  <1>2. PlaceInv /\ CellInv /\ RunsHere  BY DEF IInv, CellInv, RunsHere
  <1>3. op \in [Changes -> {"none", "running", "interrupted", "succeeded", "skipped",
                            "failed", "rolled_back"}]
    BY DEF TypeOK
  <1>4. \/ run' = run /\ op' = op /\ run.status # "running"
        \/ /\ run.status = "running" /\ run'.status = "interrupted" /\ run'.phase = run.phase
           /\ op' = InterruptedOps
    <2>1. CASE run.status = "running"
      BY <2>1 DEF Restart, RecoverRun, TypeOK, RunRecord
    <2>2. CASE run.status # "running"
      BY <2>2 DEF Restart, RecoverRun
    <2> QED  BY <2>1, <2>2
  <1>5. \A d \in Changes : \/ op'[d] = op[d] /\ op[d] # "running"
                           \/ op[d] = "running" /\ op'[d] = "interrupted"
    BY <1>2, <1>3, <1>4 DEF InterruptedOps, RunsHere
  <1>6. PlaceInv'
    <2>1. /\ run'.phase = "finalized" <=> run'.status \in Final
          /\ run'.status = "none" => run'.phase = "applying"
      BY <1>2, <1>4 DEF PlaceInv, Final
    <2> QED  BY <1>1, <2>1, GoneIsPlaced
  <1>7. CellInv'
    <2>1. ASSUME NEW d \in Made PROVE CellOK(d)'
      <3>1. CellOK(d) /\ d \in Changes  BY <1>2 DEF CellInv, Made
      <3>2. run'.phase = run.phase /\ (run'.status \in Final <=> run.status \in Final)
        BY <1>4 DEF Final
      <3> QED  BY <1>0, <1>5, <3>1, <3>2 DEF CellOK, Gone
    <2>2. \A d \in Reused : op'[d] \notin {"succeeded", "failed", "rolled_back"} /\ d \notin claim'
      BY <1>0, <1>2, <1>5, ChangeFacts DEF CellInv
    <2>3. \A d \in Changes : op'[d] # "running"  BY <1>5
    <2> QED  BY <2>1, <2>2, <2>3 DEF CellInv
  <1>8. ASSUME NEW t \in Teardowns
        PROVE  /\ td'[t].plan = td[t].plan /\ ~Active(t)'
               /\ td'[t].status = "none" <=> td[t].status = "none"
               /\ td[t].status = "none" => td'[t] = td[t]
               /\ \A c \in Changes, s \in {"succeeded", "skipped"} :
                     td'[t].ops[c] = s <=> td[t].ops[c] = s
               /\ td[t].plan \subseteq Changes
    <2>1. td'[t] = Recovered(td[t]) /\ td[t] \in TeardownRecord  BY <1>0 DEF TypeOK
    <2>2. td[t].plan \subseteq Changes  BY <2>1 DEF TeardownRecord
    <2> QED  BY <2>1, <2>2, RecoveredFacts DEF Active
  <1>9. EndInv'  BY <1>0, <1>4, <1>8 DEF IInv, EndInv, Settled
  <1>10. RemovalInv'
    <2>1. ASSUME NEW t \in Teardowns PROVE RemovalOK(t)'
      <3>1. RemovalOK(t)  BY DEF IInv, RemovalInv
      <3>2. worker'[t].pc = "idle"  BY <1>1, JobFacts
      <3>3. run.status \in Final => run'.status \in Final  BY <1>4 DEF Final
      <3> QED  BY <1>8, <3>1, <3>2, <3>3 DEF RemovalOK
    <2>2. RemovedIsGone'
      <3>1. ASSUME NEW t \in Teardowns, NEW c \in td'[t].plan
            PROVE  /\ td'[t].ops[c] = "succeeded" => Gone(c)' /\ c \notin claim'
                   /\ td'[t].ops[c] = "skipped" /\ Owned(c)' =>
                        c \in claim' \/ \E u \in Teardowns : td'[u].ops[c] = "succeeded"
        <4>1. c \in td[t].plan /\ c \in Changes  BY <1>8
        <4>2. /\ td[t].ops[c] = "succeeded" => Gone(c) /\ c \notin claim
              /\ td[t].ops[c] = "skipped" /\ Owned(c) =>
                   c \in claim \/ \E u \in Teardowns : td[u].ops[c] = "succeeded"
          BY <4>1 DEF IInv, RemovalInv, RemovedIsGone, Gone
        <4>3. Owned(c)' => Owned(c)  BY <1>5, <4>1 DEF Owned
        <4> QED  BY <1>0, <1>8, <4>1, <4>2, <4>3 DEF Gone
      <3> QED  BY <3>1 DEF RemovedIsGone, Gone
    <2> QED  BY <1>8, <2>1, <2>2 DEF RemovalInv
  <1> QED  BY <1>6, <1>7, <1>9, <1>10 DEF IInv

----------------------------------------------------------------------------
(* Teardowns keep the invariant.                                             *)

Elsewhere(t) == \A u \in Teardowns : u # t => td'[u] = td[u]

\* The record of one removal of t.
Marks(t, c, s) ==
    /\ Elsewhere(t) /\ td'[t].plan = td[t].plan /\ td'[t].ops[c] = s
    /\ \A d \in Changes : d # c => td'[t].ops[d] = td[t].ops[d]

LEMMA MarkFacts ==
    ASSUME TypeOK, NEW t \in Teardowns, NEW c \in Changes, NEW s
    PROVE  /\ td' = [td EXCEPT ![t].ops[c] = s] =>
                 Marks(t, c, s) /\ td'[t].status = td[t].status
           /\ td' = [td EXCEPT ![t].status = "running", ![t].ops[c] = s] =>
                 Marks(t, c, s) /\ td'[t].status = "running"
  <1>1. PICK st \in TeardownStates, p \in SUBSET Changes, os \in [Changes -> RemovalStates] :
           td[t] = [status |-> st, plan |-> p, ops |-> os]
    BY DEF TypeOK, TeardownRecord, TeardownStates, RemovalStates
  <1>2. \A d : \A u \in Teardowns : LET n == [td EXCEPT ![t] = d] IN
           n[t] = d /\ (u # t => n[u] = td[u])
    BY DEF TypeOK
  <1>3. ASSUME td' = [td EXCEPT ![t].ops[c] = s]
        PROVE  Marks(t, c, s) /\ td'[t].status = td[t].status
    <2>1. td' = [td EXCEPT ![t] = [td[t] EXCEPT !.ops[c] = s]]  BY <1>3
    <2>2. [td[t] EXCEPT !.ops[c] = s] = [status |-> st, plan |-> p, ops |-> [os EXCEPT ![c] = s]]
      BY <1>1
    <2>3. td'[t] = [status |-> st, plan |-> p, ops |-> [os EXCEPT ![c] = s]] /\ Elsewhere(t)
      BY <1>2, <2>1, <2>2 DEF Elsewhere
    <2> QED  BY <1>1, <2>3 DEF Marks
  <1>4. ASSUME td' = [td EXCEPT ![t].status = "running", ![t].ops[c] = s]
        PROVE  Marks(t, c, s) /\ td'[t].status = "running"
    <2>1. PICK e : e = [td[t] EXCEPT !.status = "running"]  OBVIOUS
    <2>2. e = [status |-> "running", plan |-> p, ops |-> os]  BY <1>1, <2>1
    <2>3. [e EXCEPT !.ops[c] = s]
          = [status |-> "running", plan |-> p, ops |-> [os EXCEPT ![c] = s]]
      BY <2>2
    <2>4. td' = [td EXCEPT ![t] = [e EXCEPT !.ops[c] = s]]
      BY <1>4, <2>1 DEF TypeOK
    <2>5. td'[t] = [status |-> "running", plan |-> p, ops |-> [os EXCEPT ![c] = s]] /\ Elsewhere(t)
      BY <1>2, <2>3, <2>4 DEF Elsewhere
    <2> QED  BY <1>1, <2>5 DEF Marks
  <1> QED  BY <1>3, <1>4

\* What a teardown's worker does to one change: at most it removes and releases it.
Removes(t, c) ==
    /\ UNCHANGED <<run, op, sent, undo>> /\ Aside(t) /\ Elsewhere(t)
    /\ missed \subseteq missed' /\ missed' \subseteq missed \cup {c}
    /\ c \in missed' => c \in missed \/ sent[c] = "sending"
    /\ td'[t].plan = td[t].plan /\ c \in td[t].plan
    /\ \A d \in Changes : d # c =>
          ext'[d] = ext[d] /\ (d \in claim' <=> d \in claim) /\ td'[t].ops[d] = td[t].ops[d]
    /\ ext'[c] \in {ext[c], "absent"}
    /\ (c \in claim' <=> c \in claim) \/ (c \notin claim' /\ Gone(c) /\ td'[t].ops[c] = "succeeded")
    /\ td[t].ops[c] # "succeeded"
    /\ td'[t].ops[c] = "succeeded" => Gone(c)' /\ c \notin claim'
    /\ td'[t].ops[c] = "skipped" /\ Owned(c) => c \in claim'

LEMMA RemovesKept ==
    ASSUME TypeOK, IInv, NEW t \in Teardowns, NEW c \in Changes, Active(t),
           Removes(t, c), RemovalOK(t)'
    PROVE  IInv'
  <1>0. /\ UNCHANGED <<run, op, sent, undo>> /\ Aside(t) /\ Elsewhere(t)
        /\ \A d \in Changes : Gone(d) => Gone(d)'
    BY DEF Removes, Gone
  <1>1. pc = "idle" /\ run.status \in Final
    <2>1. td[t].status # "none"  BY DEF Active
    <2> QED  BY <2>1, RunIsOver DEF IInv
  <1>2. run.phase = "finalized"  BY <1>1 DEF IInv, PlaceInv
  <1>3. pc' = "idle"  BY <1>0, <1>1, TeardownMoves
  <1>4. PlaceInv'
    <2>1. /\ run'.phase = "finalized" <=> run'.status \in Final
          /\ run'.status = "none" => run'.phase = "applying"
      BY <1>0 DEF IInv, PlaceInv
    <2> QED  BY <1>3, <2>1, GoneIsPlaced
  <1>5. CellInv'
    <2>1. Forward  BY <1>0 DEF Forward
    <2>2. Only(c)  BY <1>0 DEF Only, Removes
    <2>3. RunsHere'  BY <1>0, <1>1, <1>3 DEF IInv, CellInv, RunsHere, Final
    <2>4. c \in Made => CellOK(c)'
      <3>1. c \in Made => CellOK(c)  BY DEF IInv, CellInv
      <3>2. /\ ext'[c] \in {ext[c], "absent"} /\ (c \in missed' => c \in missed \/ sent[c] = "sending")
            /\ Gone(c)' \/ (ext'[c] = ext[c] /\ (c \in claim' <=> c \in claim))
        BY <1>0 DEF Removes, Gone
      <3>3. c \in claim' => c \in claim  BY DEF Removes
      <3> QED  BY <1>0, <1>1, <1>2, <3>1, <3>2, <3>3 DEF CellOK
    <2>5. c \in Reused => op'[c] \notin {"succeeded", "failed", "rolled_back"} /\ c \notin claim'
      BY <1>0 DEF IInv, CellInv, Removes
    <2> QED  BY <2>1, <2>2, <2>3, <2>4, <2>5, OthersKept DEF IInv
  <1>6. EndInv'
    <2>1. \A u \in Teardowns : td'[u].plan = td[u].plan  BY DEF Removes, Elsewhere
    <2>2. \A d \in Made : d # c => ext'[d] = ext[d] /\ (d \in claim' <=> d \in claim)
      BY DEF Removes, Made
    <2>3. c \in td'[t].plan  BY DEF Removes
    <2> QED  BY <1>0, <2>1, <2>2, <2>3 DEF IInv, EndInv, Settled
  <1>7. RemovalInv'
    <2>1. ASSUME NEW u \in Teardowns, u # t
          PROVE  td'[u] = td[u] /\ ~Active(u) /\ worker'[u] = worker[u] /\ worker[u].pc = "idle"
      <3>1. RemovalOK(u) /\ ~Active(u)  BY <2>1 DEF IInv, RemovalInv
      <3> QED  BY <1>0, <2>1, <3>1, JobFacts DEF RemovalOK, Elsewhere, Aside
    <2>2. ASSUME NEW u \in Teardowns PROVE RemovalOK(u)'
      <3>1. CASE u # t
        <4>1. RemovalOK(u)  BY DEF IInv, RemovalInv
        <4> QED  BY <1>0, <2>1, <3>1, <4>1 DEF RemovalOK
      <3> QED  BY <3>1
    <2>3. \A u, v \in Teardowns : Active(u)' /\ Active(v)' => u = v
      BY <2>1 DEF Active
    <2>4. ASSUME NEW u \in Teardowns, NEW d \in td'[u].plan
          PROVE  /\ td'[u].ops[d] = "succeeded" => Gone(d)' /\ d \notin claim'
                 /\ td'[u].ops[d] = "skipped" /\ Owned(d)' =>
                      d \in claim' \/ \E v \in Teardowns : td'[v].ops[d] = "succeeded"
      <3>1. d \in td[u].plan /\ d \in Changes
        <4>1. d \in td[u].plan  BY DEF Removes, Elsewhere
        <4> QED  BY <4>1 DEF TypeOK, TeardownRecord
      <3>2. /\ td[u].ops[d] = "succeeded" => Gone(d) /\ d \notin claim
            /\ td[u].ops[d] = "skipped" /\ Owned(d) =>
                 d \in claim \/ \E v \in Teardowns : td[v].ops[d] = "succeeded"
        BY <3>1 DEF IInv, RemovalInv, RemovedIsGone, Gone
      <3>3. Owned(d)' <=> Owned(d)  BY <1>0 DEF Owned
      <3>4. \A v \in Teardowns : td[v].ops[d] = "succeeded" => td'[v].ops[d] = "succeeded"
        <4>1. CASE d = c  BY <2>1, <4>1 DEF Removes
        <4>2. CASE d # c  BY <2>1, <3>1, <4>2 DEF Removes
        <4> QED  BY <4>1, <4>2
      <3>5. CASE u = t /\ d = c
        BY <3>2, <3>3, <3>5 DEF Removes
      <3>6. CASE u # t /\ d = c
        <4>1. td'[u].ops[d] = td[u].ops[d]  BY <2>1, <3>6
        <4>2. (d \in claim' <=> d \in claim) \/ (d \notin claim' /\ td'[t].ops[d] = "succeeded")
          BY <3>6 DEF Removes
        <4>3. Gone(d) => Gone(d)'  BY <1>0, <3>1
        <4>4. d \in claim' => d \in claim  BY <4>2
        <4> QED  BY <3>2, <3>3, <3>4, <4>1, <4>2, <4>3, <4>4
      <3>7. CASE d # c
        <4>1. td'[u].ops[d] = td[u].ops[d] /\ ext'[d] = ext[d] /\ (d \in claim' <=> d \in claim)
          BY <2>1, <3>1, <3>7 DEF Removes
        <4>2. Gone(d) => Gone(d)'  BY <1>0, <3>1
        <4> QED  BY <3>2, <3>3, <3>4, <4>1, <4>2
      <3> QED  BY <3>5, <3>6, <3>7
    <2>5. RemovedIsGone'  BY <2>4 DEF RemovedIsGone, Gone
    <2> QED  BY <2>2, <2>3, <2>5 DEF RemovalInv
  <1> QED  BY <1>4, <1>5, <1>6, <1>7 DEF IInv

LEMMA NextRemovalStep ==
    ASSUME TypeOK, IInv, NEW t \in Teardowns, NextRemoval(t)
    PROVE  IInv'
  <1> DEFINE c == LastRemoval(t)
  <1>0. /\ worker[t].pc = "begin" /\ UNCHANGED <<run, op, claim, sent, undo, missed, ext>>
        /\ ToRemove(t) # {}
    BY DEF NextRemoval, At, checkpoints, bounds
  <1>1. RemovalOK(t) /\ Active(t)  BY <1>0 DEF IInv, RemovalInv, RemovalOK
  <1>2. c \in Changes /\ c \in td[t].plan /\ td[t].ops[c] \notin {"succeeded", "skipped"}
    BY <1>0, RemovalExists DEF ToRemove
  <1>3. run.status \in Final
    <2>1. td[t].status # "none"  BY <1>1 DEF Active
    <2> QED  BY <2>1, RunIsOver DEF IInv
  <1>4. \/ /\ td' = [td EXCEPT ![t].ops[c] = "failed"]
           /\ Goto(t, "abandon", c)
        \/ /\ ~(Owned(c) /\ c \notin claim)
           /\ td' = [td EXCEPT ![t].status = "running", ![t].ops[c] = "running"]
           /\ Goto(t, "destroy", c)
    BY DEF NextRemoval, LastRemoval
  <1> HIDE DEF c
  <1>5. CASE td' = [td EXCEPT ![t].ops[c] = "failed"] /\ Goto(t, "abandon", c)
    <2>1. Marks(t, c, "failed") /\ td'[t].status = td[t].status  BY <1>2, <1>5, MarkFacts
    <2>2. worker'[t].pc = "abandon" /\ Aside(t)  BY <1>5, TeardownMoves
    <2>3. RemovalOK(t)'  BY <1>0, <1>1, <1>3, <2>1, <2>2 DEF RemovalOK, Active
    <2>4. Removes(t, c)  BY <1>0, <1>2, <2>1, <2>2 DEF Removes, Marks
    <2> QED  BY <1>1, <1>2, <2>3, <2>4, RemovesKept
  <1>6. CASE /\ ~(Owned(c) /\ c \notin claim)
             /\ td' = [td EXCEPT ![t].status = "running", ![t].ops[c] = "running"]
             /\ Goto(t, "destroy", c)
    <2>1. Marks(t, c, "running") /\ td'[t].status = "running"  BY <1>2, <1>6, MarkFacts
    <2>2. worker'[t].pc = "destroy" /\ worker'[t].at = c /\ Aside(t)  BY <1>6, TeardownMoves
    <2>3. RemovalOK(t)'
      BY <1>0, <1>2, <1>3, <1>6, <2>1, <2>2 DEF RemovalOK, Active, Marks, Owned
    <2>4. Removes(t, c)  BY <1>0, <1>2, <2>1, <2>2 DEF Removes, Marks
    <2> QED  BY <1>1, <1>2, <2>3, <2>4, RemovesKept
  <1> QED  BY <1>4, <1>5, <1>6

LEMMA RemovalSteps ==
    ASSUME TypeOK, IInv, NEW t \in Teardowns, NEW c \in Changes,
           Keep(t, c) \/ DestroyFails(t, c) \/ Destroy(t, c) \/ Release(t, c)
    PROVE  IInv'
  <1> USE DEF records, checkpoints, bounds
  <1>0. /\ worker[t].pc \in {"destroy", "destroyed"} /\ worker[t].at = c
        /\ UNCHANGED <<run, op, sent, undo>>
    BY DEF Keep, DestroyFails, Destroy, Release, Works, At
  <1>1. RemovalOK(t) /\ Active(t)  BY <1>0 DEF IInv, RemovalInv, RemovalOK
  <1>2. c \in td[t].plan /\ td[t].ops[c] = "running"  BY <1>0, <1>1 DEF RemovalOK
  <1>3. run.status \in Final
    <2>1. td[t].status # "none"  BY <1>1 DEF Active
    <2> QED  BY <2>1, RunIsOver DEF IInv
  <1>4. ext \in [Changes -> {"absent", "inflight", "present"}]  BY DEF TypeOK
  <1>9. worker[t].pc = "destroy" => c \in Made /\ CellOK(c)
    <2>1. worker[t].pc = "destroy" => (Owned(c) => c \in claim)  BY <1>0, <1>1 DEF RemovalOK
    <2>2. c \in Changes /\ (~Owned(c) => c \in Shared) /\ Shared \cap Reused = {}
      BY PlanAssumption DEF PlanAssumption, Owned
    <2> QED  BY <2>1, <2>2 DEF IInv, CellInv, Made
  <1>5. CASE Keep(t, c)
    <2>0. worker[t].pc = "destroy" /\ UNCHANGED <<claim, missed, ext>>  BY <1>5 DEF Keep, Works, At
    <2>1. Marks(t, c, "skipped") /\ td'[t].status = td[t].status  BY <1>5, MarkFacts DEF Keep
    <2>2. worker'[t].pc = "abandon" /\ Aside(t)  BY <1>5, TeardownMoves DEF Keep
    <2>3. RemovalOK(t)'  BY <1>0, <1>1, <1>3, <2>1, <2>2 DEF RemovalOK, Active
    <2>4. Owned(c) => c \in claim  BY <1>0, <1>1, <2>0 DEF RemovalOK
    <2>5. Removes(t, c)  BY <1>0, <1>2, <2>0, <2>1, <2>2, <2>4 DEF Removes, Marks
    <2> QED  BY <1>1, <2>3, <2>5, RemovesKept
  <1>6. CASE DestroyFails(t, c)
    <2>1. Marks(t, c, "failed") /\ td'[t].status = td[t].status
      BY <1>6, MarkFacts DEF DestroyFails
    <2>2. worker'[t].pc = "abandon" /\ Aside(t)  BY <1>6, TeardownMoves DEF DestroyFails
    <2>3. RemovalOK(t)'  BY <1>0, <1>1, <1>3, <2>1, <2>2 DEF RemovalOK, Active
    <2>4. /\ UNCHANGED <<claim, missed>> /\ ext'[c] \in {ext[c], "absent"}
          /\ \A d \in Changes : d # c => ext'[d] = ext[d]
      BY <1>4, <1>6 DEF DestroyFails, WithoutIt
    <2>5. Removes(t, c)  BY <1>0, <1>2, <2>1, <2>2, <2>4 DEF Removes, Marks
    <2> QED  BY <1>1, <2>3, <2>5, RemovesKept
  <1>7. CASE Destroy(t, c)
    <2>0. /\ UNCHANGED <<claim, td>> /\ ext' = [ext EXCEPT ![c] = WithoutIt(c)]
          /\ missed' = IF c \in Policies /\ ext[c] = "inflight" THEN missed \cup {c} ELSE missed
      BY <1>7 DEF Destroy, NoteMissed
    <2>1. /\ UNCHANGED <<claim, td>> /\ ext'[c] \in {ext[c], "absent"}
          /\ \A d \in Changes : d # c => ext'[d] = ext[d]
          /\ missed \subseteq missed' /\ missed' \subseteq missed \cup {c}
      BY <1>4, <2>0 DEF WithoutIt
    <2>5. Gone(c)' /\ (c \in missed' => c \in missed \/ sent[c] = "sending")
      <3>1. CASE ext[c] = "inflight"
        <4>1. sent[c] = "sending"  BY <1>7, <1>9, <3>1 DEF CellOK, Destroy, Works, At
        <4>2. c \in Policies  BY <1>7, <4>1 DEF Destroy, Skips
        <4> QED  BY <2>0, <3>1, <4>1, <4>2 DEF Gone
      <3>2. CASE ext[c] # "inflight"
        BY <1>4, <2>0, <3>2 DEF Gone, WithoutIt
      <3> QED  BY <3>1, <3>2
    <2>2. worker'[t].pc = "destroyed" /\ worker'[t].at = c /\ Aside(t)
      BY <1>7, TeardownMoves DEF Destroy
    <2>3. RemovalOK(t)'  BY <1>0, <1>1, <1>2, <1>3, <2>1, <2>2, <2>5 DEF RemovalOK, Active
    <2>4. Removes(t, c)  BY <1>0, <1>2, <2>1, <2>2, <2>5 DEF Removes, Elsewhere
    <2> QED  BY <1>1, <2>3, <2>4, RemovesKept
  <1>8. CASE Release(t, c)
    <2>0. worker[t].pc = "destroyed" /\ UNCHANGED <<ext, missed>> /\ claim' = claim \ {c}
      BY <1>8 DEF Release, Works, At
    <2>1. Marks(t, c, "succeeded") /\ td'[t].status = td[t].status  BY <1>8, MarkFacts DEF Release
    <2>2. worker'[t].pc = "begin" /\ Aside(t)  BY <1>8, TeardownMoves DEF Release
    <2>3. RemovalOK(t)'  BY <1>0, <1>1, <1>3, <2>1, <2>2 DEF RemovalOK, Active
    <2>4. Gone(c) /\ Gone(c)'  BY <1>0, <1>1, <2>0 DEF RemovalOK, Gone
    <2>5. Removes(t, c)  BY <1>0, <1>2, <2>0, <2>1, <2>2, <2>4 DEF Removes, Marks
    <2> QED  BY <1>1, <2>3, <2>5, RemovesKept
  <1> QED  BY <1>5, <1>6, <1>7, <1>8

\* A step that writes the status of a teardown only.
LEMMA StatusKept ==
    ASSUME TypeOK, IInv, NEW t \in Teardowns, run.status \in Final,
           UNCHANGED <<run, op, claim, sent, undo, missed, ext>>, Aside(t), Elsewhere(t),
           td'[t].ops = td[t].ops,
           td'[t].plan = td[t].plan \/ (td[t].plan = {} /\ \A c \in Changes : td[t].ops[c] = "pending"),
           td'[t].plan \subseteq Changes, td'[t].status # "none",
           worker'[t].pc \in {"idle", "begin"}, worker'[t].pc # "idle" => Active(t)',
           Active(t)' => \A u \in Teardowns : u # t => ~Active(u)
    PROVE  IInv'
  <1>1. pc = "idle"  BY DEF IInv, PlaceInv, Final
  <1>2. pc' = "idle"  BY <1>1, TeardownMoves
  <1>3. PlaceInv'
    <2>1. /\ run'.phase = "finalized" <=> run'.status \in Final
          /\ run'.status = "none" => run'.phase = "applying"
      BY DEF IInv, PlaceInv
    <2> QED  BY <1>2, <2>1, GoneIsPlaced
  <1>4. CellInv'
    <2>1. RunsHere'  BY <1>2 DEF IInv, CellInv, RunsHere
    <2>2. Forward  BY DEF Forward
    <2> QED  BY <2>1, <2>2, CellsUntouched DEF IInv
  <1>5. EndInv'
    <2>1. \A u \in Teardowns : td[u].plan \subseteq td'[u].plan  BY DEF Elsewhere
    <2> QED  BY <2>1 DEF IInv, EndInv, Settled
  <1>6. RemovalInv'
    <2>1. ASSUME NEW u \in Teardowns PROVE RemovalOK(u)'
      <3>1. RemovalOK(u)  BY DEF IInv, RemovalInv
      <3>2. CASE u = t  BY <3>1, <3>2 DEF RemovalOK
      <3>3. CASE u # t
        <4>1. td'[u] = td[u] /\ worker'[u] = worker[u]  BY <3>3, JobFacts DEF Elsewhere, Aside
        <4> QED  BY <3>1, <4>1 DEF RemovalOK, Active, Owned, Gone
      <3> QED  BY <3>2, <3>3
    <2>2. \A u, v \in Teardowns : Active(u)' /\ Active(v)' => u = v
      <3>1. \A u \in Teardowns : u # t => (Active(u)' <=> Active(u))  BY DEF Active, Elsewhere
      <3> QED  BY <3>1 DEF IInv, RemovalInv
    <2>3. ASSUME NEW u \in Teardowns, NEW d \in td'[u].plan
          PROVE  /\ td'[u].ops[d] = "succeeded" => Gone(d)' /\ d \notin claim'
                 /\ td'[u].ops[d] = "skipped" /\ Owned(d)' =>
                      d \in claim' \/ \E v \in Teardowns : td'[v].ops[d] = "succeeded"
      <3>1. \A v \in Teardowns : td'[v].ops = td[v].ops  BY DEF Elsewhere
      <3>2. Owned(d)' <=> Owned(d)  BY DEF Owned
      <3>3. CASE d \in td[u].plan
        BY <3>1, <3>2, <3>3 DEF IInv, RemovalInv, RemovedIsGone, Gone
      <3>4. CASE d \notin td[u].plan
        <4>1. u = t /\ d \in Changes /\ td[t].ops[d] = "pending"  BY <3>4 DEF Elsewhere
        <4> QED  BY <3>1, <4>1
      <3> QED  BY <3>3, <3>4
    <2>4. RemovedIsGone'  BY <2>3 DEF RemovedIsGone, Gone
    <2> QED  BY <2>1, <2>2, <2>4 DEF RemovalInv
  <1> QED  BY <1>3, <1>4, <1>5, <1>6 DEF IInv

LEMMA TurnsOfTeardown ==
    ASSUME TypeOK, IInv, NEW t \in Teardowns,
           StartTeardown(t) \/ ResumeTeardown(t) \/ TeardownFails(t) \/ TeardownSucceeds(t)
    PROVE  IInv'
  <1> USE DEF records, checkpoints, bounds
  <1>0. UNCHANGED <<run, op, claim, sent, undo, missed, ext>>
    BY DEF StartTeardown, ResumeTeardown, TeardownFails, TeardownSucceeds, FinishTeardown
  <1>1. RemovalOK(t)  BY DEF IInv, RemovalInv
  <1>2. td[t] \in TeardownRecord /\ td[t].plan \subseteq Changes  BY DEF TypeOK, TeardownRecord
  <1>3. \A d : \A u \in Teardowns : LET n == [td EXCEPT ![t] = d] IN
           n[t] = d /\ (u # t => n[u] = td[u])
    BY DEF TypeOK
  <1>4. ASSUME NEW s, td' = [td EXCEPT ![t].status = s]
        PROVE  /\ Elsewhere(t) /\ td'[t].status = s /\ td'[t].plan = td[t].plan
               /\ td'[t].ops = td[t].ops
    <2>1. td' = [td EXCEPT ![t] = [td[t] EXCEPT !.status = s]]  BY <1>4
    <2>2. td'[t] = [td[t] EXCEPT !.status = s] /\ Elsewhere(t)  BY <1>3, <2>1 DEF Elsewhere
    <2> QED  BY <1>2, <2>2 DEF TeardownRecord
  <1>5. CASE StartTeardown(t)
    <2>1. /\ td[t].status = "none" /\ run.status \in Final
          /\ \A u \in Teardowns : ~Active(u)
      BY <1>5 DEF StartTeardown, TeardownActive, Active
    <2>2. TeardownPlan \subseteq Changes  BY ChangeFacts DEF TeardownPlan, TypeOK
    <2>3. td' = [td EXCEPT ![t] = [NoTeardown EXCEPT !.status = "pending", !.plan = TeardownPlan]]
      BY <1>5 DEF StartTeardown
    <2>4. PICK e : e = [NoTeardown EXCEPT !.status = "pending"]  OBVIOUS
    <2>5. e = [status |-> "pending", plan |-> {}, ops |-> [c \in Changes |-> "pending"]]
      BY <2>4 DEF NoTeardown
    <2>6. [e EXCEPT !.plan = TeardownPlan]
          = [status |-> "pending", plan |-> TeardownPlan, ops |-> [c \in Changes |-> "pending"]]
      BY <2>5
    <2>7. td' = [td EXCEPT ![t] = [e EXCEPT !.plan = TeardownPlan]]  BY <2>3, <2>4
    <2>8. /\ Elsewhere(t) /\ td'[t].status = "pending" /\ td'[t].plan = TeardownPlan
          /\ td'[t].ops = [c \in Changes |-> "pending"]
      BY <1>3, <2>6, <2>7 DEF Elsewhere
    <2>9. td[t].plan = {} /\ \A c \in Changes : td[t].ops[c] = "pending"
      BY <1>1, <2>1 DEF RemovalOK
    <2>10. td'[t].ops = td[t].ops
      <3>1. td[t].ops \in [Changes -> RemovalStates]  BY <1>2 DEF TeardownRecord, RemovalStates
      <3> QED  BY <2>8, <2>9, <3>1
    <2>11. worker'[t].pc = "begin" /\ Aside(t)  BY <1>5, TeardownMoves DEF StartTeardown
    <2>12. Active(t)'  BY <2>8 DEF Active
    <2> QED  BY <1>0, <2>1, <2>2, <2>8, <2>9, <2>10, <2>11, <2>12, StatusKept
  <1>6. CASE ResumeTeardown(t)
    <2>1. td[t].status = "interrupted" /\ \A u \in Teardowns : ~Active(u)
      BY <1>6 DEF ResumeTeardown, TeardownActive, Active
    <2>2. run.status \in Final  BY <1>1, <2>1 DEF RemovalOK
    <2>3. /\ Elsewhere(t) /\ td'[t].status = "running" /\ td'[t].plan = td[t].plan
          /\ td'[t].ops = td[t].ops
      BY <1>4, <1>6 DEF ResumeTeardown
    <2>4. worker'[t].pc = "begin" /\ Aside(t)  BY <1>6, TeardownMoves DEF ResumeTeardown
    <2>5. Active(t)'  BY <2>3 DEF Active
    <2> QED  BY <1>0, <1>2, <2>1, <2>2, <2>3, <2>4, <2>5, StatusKept
  <1>7. CASE TeardownFails(t) \/ TeardownSucceeds(t)
    <2>1. worker[t].pc # "idle" /\ \E s \in {"failed", "succeeded"} : FinishTeardown(t, s)
      BY <1>7 DEF TeardownFails, TeardownSucceeds, At
    <2>2. PICK s \in {"failed", "succeeded"} : FinishTeardown(t, s)  BY <2>1
    <2>3. Active(t)  BY <1>1, <2>1 DEF RemovalOK
    <2>4. run.status \in Final  BY <1>1, <2>3 DEF RemovalOK, Active
    <2>5. /\ Elsewhere(t) /\ td'[t].status = s /\ td'[t].plan = td[t].plan
          /\ td'[t].ops = td[t].ops
      BY <1>4, <2>2 DEF FinishTeardown
    <2>6. worker'[t].pc = "idle" /\ Aside(t)  BY <2>2, TeardownMoves DEF FinishTeardown
    <2>7. ~Active(t)'  BY <2>5 DEF Active
    <2> QED  BY <1>0, <1>2, <2>4, <2>5, <2>6, <2>7, StatusKept
  <1> QED  BY <1>5, <1>6, <1>7

----------------------------------------------------------------------------
(* The invariant holds, and what follows from it.                            *)

LEMMA InvInit == Init => IInv
  <1> SUFFICES ASSUME Init PROVE IInv
    OBVIOUS
  <1>1. \A j \in Jobs : worker[j].pc = "idle"  BY DEF Init, Idle
  <1>2. pc = "idle"  BY <1>1, JobFacts DEF pc
  <1>3. run.status = "none" /\ run.phase = "applying"  BY DEF Init
  <1>4. \A c \in Changes : op[c] = "none" /\ sent[c] = "prepared" /\ (c \in Made => ext[c] = "absent")
    BY DEF Init, Made
  <1>5. claim = {} /\ missed = {} /\ \A c \in Policies : undo[c] = "none"  BY DEF Init
  <1>6. \A t \in Teardowns : /\ td[t].status = "none" /\ td[t].plan = {}
                             /\ \A c \in Changes : td[t].ops[c] = "pending"
    BY DEF Init, NoTeardown
  <1>7. PlaceInv
    BY <1>2, <1>3 DEF PlaceInv, Working, Unwinding, Reverting, Holding, Final
  <1>8. CellInv
    <2>1. \A c \in Made : CellOK(c)  BY <1>4, <1>5 DEF CellOK, Made, Gone
    <2>2. \A c \in Reused : c \in Changes  BY ChangeFacts
    <2> QED  BY <1>4, <1>5, <2>1, <2>2 DEF CellInv
  <1>9. EndInv  BY <1>3 DEF EndInv
  <1>10. RemovalInv
    <2>1. \A t \in Teardowns : RemovalOK(t)  BY <1>1, <1>6, JobFacts DEF RemovalOK
    <2>2. RemovedIsGone  BY <1>6 DEF RemovedIsGone
    <2>3. \A t \in Teardowns : ~Active(t)  BY <1>6 DEF Active
    <2> QED  BY <2>1, <2>2, <2>3 DEF RemovalInv
  <1> QED  BY <1>7, <1>8, <1>9, <1>10 DEF IInv

LEMMA InvStutter ==
    ASSUME IInv, UNCHANGED vars
    PROVE  IInv'
  <1> USE DEF vars, records, checkpoints, bounds
  <1>1. UNCHANGED <<run, op, claim, td, sent, undo, missed, worker, ext>>  OBVIOUS
  <1>2. pc' = pc /\ at' = at /\ failed' = failed  BY <1>1 DEF pc, at, failed
  <1>3. PlaceInv'  BY <1>1, <1>2 DEF IInv, PlaceInv, Settled, Gone
  <1>4. CellInv'
    <2>1. \A c \in Made : CellOK(c)'  BY <1>1 DEF IInv, CellInv, CellOK, Gone
    <2> QED  BY <1>1, <1>2, <2>1 DEF IInv, CellInv
  <1>5. EndInv'  BY <1>1 DEF IInv, EndInv, Settled
  <1>6. RemovalInv'
    <2>1. \A t \in Teardowns : RemovalOK(t)'  BY <1>1 DEF IInv, RemovalInv, RemovalOK, Active, Owned, Gone
    <2>2. RemovedIsGone'  BY <1>1 DEF IInv, RemovalInv, RemovedIsGone, Owned
    <2>3. \A t, u \in Teardowns : Active(t)' /\ Active(u)' => t = u
      BY <1>1 DEF IInv, RemovalInv, Active
    <2> QED  BY <2>1, <2>2, <2>3 DEF RemovalInv
  <1> QED  BY <1>3, <1>4, <1>5, <1>6 DEF IInv

LEMMA InvStep ==
    ASSUME TypeOK, IInv, [Next]_vars
    PROVE  IInv'
  <1>1. CASE Apply \/ ResumeRun  BY <1>1, StartSteps
  <1>2. CASE RunStep
    <2>1. ASSUME NEW c \in Changes, ApplyStep(c) PROVE IInv'
      BY <2>1, IntentSteps, SendSteps, AnswerSteps, FailStep DEF ApplyStep
    <2>2. ASSUME NEW c \in Changes, RollbackStep(c) PROVE IInv'
      BY <2>2, UnwindSteps, RevertSteps DEF RollbackStep
    <2> QED  BY <1>2, <2>1, <2>2, BeginSteps, PrepareFailsStep, FinishSteps DEF RunStep
  <1>3. CASE Restart  BY <1>3, RestartStep
  <1>4. ASSUME NEW c \in Changes, Land(c) PROVE IInv'  BY <1>4, LandStep
  <1>5. ASSUME NEW t \in Teardowns, StartTeardown(t) \/ ResumeTeardown(t) \/ TeardownStep(t)
        PROVE  IInv'
    BY <1>5, TurnsOfTeardown, NextRemovalStep, RemovalSteps DEF TeardownStep
  <1>6. ASSUME NEW j \in Jobs, Raise(j) PROVE IInv'  BY <1>6, RaiseStep
  <1>7. CASE UNCHANGED vars  BY <1>7, InvStutter
  <1> QED  BY <1>1, <1>2, <1>3, <1>4, <1>5, <1>6, <1>7 DEF Next

THEOREM Invariant == Spec => [](TypeOK /\ IInv)
  <1>1. Init => TypeOK /\ IInv  BY TypeInit, InvInit
  <1>2. TypeOK /\ IInv /\ [Next]_vars => (TypeOK /\ IInv)'  BY TypeStep, InvStep
  <1> QED  BY <1>1, <1>2, PTL DEF Spec

\* Whatever the run has or may still get at Google is claimed by it, or is a
\* Gateway whose operation succeeded, or a policy edit that was under way when it was
\* undone, through deaths, recoveries and teardowns.
THEOREM ClaimsWhatExists == Spec => []NoOrphan
  <1>1. TypeOK /\ IInv => NoOrphan
    BY DEF IInv, CellInv, CellOK, NoOrphan, Made, Gone
  <1> QED  BY <1>1, Invariant, PTL

\* A change is sent only while no earlier request for it was, or may yet be,
\* carried out.
THEOREM NeverSentTwice == Spec => []SendsOnce
  <1>1. TypeOK /\ IInv => SendsOnce
    BY DEF IInv, PlaceInv, SendsOnce, At, pc, at
  <1> QED  BY <1>1, Invariant, PTL

\* What a run and its teardowns report at their end is true: what was rolled
\* back or removed is released, and gone unless it is a policy edit that was under
\* way; what succeeded is there. Of operations a restart left interrupted a run that
\* ends as rolled back says nothing.
THEOREM ReportsAreTrue == Spec => []ReportsTrue
  <1>1. TypeOK /\ IInv => RolledBackIsGone
    <2> SUFFICES ASSUME TypeOK, IInv, run.status = "rolled_back", NEW c \in Made,
                        op[c] # "interrupted"
                 PROVE  c \notin claim /\ Gone(c)
      BY DEF RolledBackIsGone, Made, Gone
    <2>1. op[c] \in {"none", "rolled_back"}  BY DEF IInv, EndInv, Settled
    <2> QED  BY <2>1 DEF IInv, CellInv, CellOK
  <1>2. TypeOK /\ IInv => SucceededIsWhole
    BY DEF IInv, EndInv, SucceededIsWhole, Made
  <1>3. TypeOK /\ IInv => RemovedIsGone  BY DEF IInv, RemovalInv
  <1>4. TypeOK /\ IInv => ReportsTrue  BY <1>1, <1>2, <1>3 DEF ReportsTrue
  <1> QED  BY <1>4, Invariant, PTL

\* Of the run and its teardowns one at most is worked on.
THEOREM WorkersAlone == Spec => []OneWorker
  <1>1. TypeOK /\ IInv => OneWorker
    <2> SUFFICES ASSUME TypeOK, IInv, NEW i \in Jobs, NEW j \in Jobs, ~At(i, "idle"), ~At(j, "idle")
                 PROVE  i = j
      BY DEF OneWorker
    <2>1. ASSUME NEW t \in Teardowns, ~At(t, "idle") PROVE Active(t) /\ pc = "idle"
      <3>1. RemovalOK(t)  BY DEF IInv, RemovalInv
      <3>2. Active(t)  BY <2>1, <3>1 DEF RemovalOK, At
      <3>3. td[t].status # "none"  BY <3>2 DEF Active
      <3> QED  BY <3>2, <3>3, RunIsOver DEF IInv
    <2>2. At("run", "idle") <=> pc = "idle"  BY DEF At, pc
    <2>3. \A t, u \in Teardowns : Active(t) /\ Active(u) => t = u  BY DEF IInv, RemovalInv
    <2> QED  BY <2>1, <2>2, <2>3, JobFacts
  <1> QED  BY <1>1, Invariant, PTL
=============================================================================
