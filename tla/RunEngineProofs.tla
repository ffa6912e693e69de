-------------------------- MODULE RunEngineProofs --------------------------
(* Theorems about RunEngine, for every plan and every bound.                 *)
EXTENDS RunEngine, TLAPS

\* An interrupted record knows where it stopped: without this Resume could
\* write a state that no record has.
RecordInv(r) == r \in RunRecord /\ (r.state = "interrupted" => r.from # "none")

TypeInv ==
    /\ TypeOK
    /\ RecordInv(disk)
    /\ RecordInv(mem)
    /\ pc = "interruptSave" => isActive(mem.state)

\* Updating one step of a record, or its state, gives a record.
LEMMA StepUpdate ==
    ASSUME NEW r, RecordInv(r), NEW s \in Steps, NEW st \in StepStatus,
           NEW n \in Nat, NEW ph \in Phase
    PROVE  /\ RecordInv([r EXCEPT !.status[s] = st])
           /\ RecordInv([r EXCEPT !.image[s] = ph])
           /\ RecordInv([r EXCEPT !.status[s] = st, !.attempts[s] = n])
  BY DEF RecordInv, RunRecord

LEMMA StateUpdate ==
    ASSUME NEW r, RecordInv(r), NEW st \in RunState \ {"interrupted"}, NEW f \in BOOLEAN
    PROVE  /\ RecordInv([r EXCEPT !.state = st])
           /\ RecordInv([r EXCEPT !.state = st, !.fin = f])
           /\ RecordInv([r EXCEPT !.fin = f])
  BY DEF RecordInv, RunRecord

LEMMA ResumedRecord ==
    ASSUME NEW r, RecordInv(r)
    PROVE  RecordInv(Resumed(r)) /\ RecordInv(Sealed(r))
  BY DEF RecordInv, RunRecord, Resumed, Sealed, RunState, StepStatus

LEMMA PlannedRecord == RecordInv(PlannedRun)
  BY DEF RecordInv, RunRecord, PlannedRun, RunState, StepStatus, Phase

----------------------------------------------------------------------------

LEMMA TypeInit == Init => TypeInv
  <1> SUFFICES ASSUME Init PROVE TypeInv
    OBVIOUS
  <1>1. RecordInv(disk) /\ RecordInv(mem)  BY PlannedRecord DEF Init
  <1>2. step \in Steps  BY NAssumption DEF NAssumption, Steps, Init
  <1>3. cloud \in [Steps -> {"absent", "ours", "foreign"}]  BY DEF Init
  <1>4. sent \in [Steps -> {"no", "flight", "landed", "refused"}]  BY DEF Init
  <1> QED
    BY <1>1, <1>2, <1>3, <1>4 DEF Init, TypeInv, TypeOK, RecordInv, PCs

LEMMA TypeStep == TypeInv /\ [Next]_vars => TypeInv'
  <1> SUFFICES ASSUME TypeInv, [Next]_vars PROVE TypeInv'
    OBVIOUS
  <1> USE DEF TypeInv, TypeOK, PCs, isActive
  <1>0. 1 \in Steps /\ RecordInv(PlannedRun) /\ PlannedRun.state = "running"
    BY PlannedRecord, NAssumption DEF NAssumption, Steps, PlannedRun
  <1>a. ASSUME Tick PROVE TypeInv'
    <2> USE DEF store, driver, world, counters, Goto, Save, Stop
    <2>1. CASE Load  BY <2>1, <1>0 DEF Load, RecordInv
    <2>2. CASE Engine  BY <2>2 DEF Engine
    <2>3. CASE TickLoad  BY <2>3 DEF TickLoad, RecordInv
    <2>4. CASE TickInactive
      BY <2>4 DEF TickInactive, RecordInv, RunRecord
    <2>5. CASE TickSucceed
      <3>1. RecordInv([mem EXCEPT !.state = "succeeded", !.fin = TRUE])
        BY StateUpdate DEF RunState
      <3> QED  BY <2>5, <3>1 DEF TickSucceed, RecordInv
    <2>6. CASE TickIntent
      <3>1. ASSUME NEW s \in Steps
            PROVE  RecordInv([mem EXCEPT !.status[s] = "running", !.attempts[s] = @ + 1])
        <4>1. mem.attempts[s] + 1 \in Nat  BY DEF RecordInv, RunRecord
        <4> QED  BY <4>1, StepUpdate DEF StepStatus, Phase
      <3> QED  BY <2>6, <3>1 DEF TickIntent, RecordInv
    <2>7. CASE TickDone
      <3>1. RecordInv([mem EXCEPT !.status[step] = "done"])
        BY StepUpdate DEF StepStatus, Phase
      <3> QED  BY <2>7, <3>1 DEF TickDone, RecordInv
    <2>8. CASE TickFail
      <3>1. RecordInv([mem EXCEPT !.status[step] = "pending"])
        BY StepUpdate DEF StepStatus, Phase
      <3>2. RecordInv([mem EXCEPT !.status[step] = "failed", !.state = "rolling_back"])
        BY DEF RecordInv, RunRecord, RunState, StepStatus
      <3> QED  BY <2>8, <3>1, <3>2 DEF TickFail, RecordInv
    <2>9. CASE TickAuth
      <3>1. RecordInv([mem EXCEPT !.status[step] = "pending",
                                  !.attempts[step] = IF @ = 0 THEN 0 ELSE @ - 1])
        <4>1. (IF mem.attempts[step] = 0 THEN 0 ELSE mem.attempts[step] - 1) \in Nat
          BY DEF RecordInv, RunRecord
        <4> QED  BY <4>1, StepUpdate DEF StepStatus, Phase
      <3> QED  BY <2>9, <3>1 DEF TickAuth, RecordInv
    <2>10. CASE Reschedule  BY <2>10, <1>0 DEF Reschedule, RecordInv
    <2> QED
      BY <1>a, <2>1, <2>2, <2>3, <2>4, <2>5, <2>6, <2>7, <2>8, <2>9, <2>10 DEF Tick
  <1>b. ASSUME Executor PROVE TypeInv'
    <2> USE DEF store, driver, world, counters, Goto, Save, Checkpoint
    <2>0. \A ph \in Phase : RecordInv([mem EXCEPT !.image[step] = ph])
      BY StepUpdate DEF StepStatus
    <2>1. CASE ApplyPrepare  BY <2>0, <2>1 DEF ApplyPrepare, RecordInv, Phase
    <2>2. CASE ApplySending  BY <2>0, <2>2 DEF ApplySending, RecordInv, Phase
    <2>3. CASE ApplyReconcile  BY <2>0, <2>3 DEF ApplyReconcile, RecordInv, Phase
    <2>4. CASE ApplyAlreadyApplied  BY <2>4 DEF ApplyAlreadyApplied
    <2>5. CASE Post  BY <2>5 DEF Post
    <2>6. CASE PostConfirmed  BY <2>0, <2>6 DEF PostConfirmed, RecordInv, Phase
    <2>7. CASE PostRejected  BY <2>0, <2>7 DEF PostRejected, RecordInv, Phase
    <2>8. CASE ApplyFails  BY <2>8 DEF ApplyFails
    <2> QED
      BY <1>b, <2>1, <2>2, <2>3, <2>4, <2>5, <2>6, <2>7, <2>8 DEF Executor
  <1>c. ASSUME Rollback PROVE TypeInv'
    <2> USE DEF store, driver, world, counters, Goto, Save
    <2>0. \A st \in StepStatus : RecordInv([mem EXCEPT !.status[step] = st])
      BY StepUpdate DEF Phase
    <2>1. CASE UndoStart  BY <2>1 DEF UndoStart
    <2>2. CASE UndoFinish
      <3>1. \A st \in {"rollback_failed", "rolled_back"} :
                RecordInv([mem EXCEPT !.fin = TRUE, !.state = st])
        BY DEF RecordInv, RunRecord, RunState
      <3> QED  BY <2>2, <3>1 DEF UndoFinish, RecordInv
    <2>3. CASE UndoProve  BY <2>3 DEF UndoProve
    <2>4. CASE UndoDelete  BY <2>4 DEF UndoDelete
    <2>5. CASE UndoDone  BY <2>0, <2>5 DEF UndoDone, RecordInv, StepStatus
    <2>6. CASE UndoFails  BY <2>0, <2>6 DEF UndoFails, RecordInv, StepStatus
    <2> QED  BY <1>c, <2>1, <2>2, <2>3, <2>4, <2>5, <2>6 DEF Rollback
  <1>d. ASSUME Settle PROVE TypeInv'
    <2> USE DEF store, driver, world, counters, Goto, Save, Stop
    <2>1. CASE Finalize
      <3>1. RecordInv([disk EXCEPT !.fin = FALSE])  BY DEF RecordInv, RunRecord
      <3>2. inventoryOf(mem) \subseteq Steps  BY DEF inventoryOf, residualResourceRecords
      <3> QED  BY <2>1, <3>1, <3>2 DEF Finalize, CommitInventory, RecordInv
    <2>2. CASE FinalizeRefused  BY <2>2 DEF FinalizeRefused
    <2>3. CASE CancelAlarm  BY <2>3, <1>0 DEF CancelAlarm, RecordInv
    <2>4. CASE Interrupt  BY <2>4 DEF Interrupt, RecordInv
    <2>5. CASE InterruptSave
      <3>1. RecordInv([mem EXCEPT !.from = mem.state, !.state = "interrupted"])
        BY <2>5 DEF InterruptSave, RecordInv, RunRecord, RunState
      <3> QED  BY <2>5, <3>1 DEF InterruptSave, RecordInv
    <2>6. CASE Fatal  BY <2>6, <1>0 DEF Fatal, RecordInv
    <2>7. CASE FatalSave
      <3>1. RecordInv([mem EXCEPT !.state = "rollback_failed", !.fin = TRUE])
        BY StateUpdate DEF RunState
      <3>2. RecordInv([mem EXCEPT !.state = "rolling_back",
                         !.status = [s \in Steps |-> IF FirstOpen(mem, s) THEN "failed"
                                                     ELSE mem.status[s]]])
        BY DEF RecordInv, RunRecord, RunState, StepStatus
      <3> QED  BY <2>7, <3>1, <3>2 DEF FatalSave, RecordInv
    <2>8. CASE FatalSched  BY <2>8, <1>0 DEF FatalSched, RecordInv
    <2> QED
      BY <1>d, <2>1, <2>2, <2>3, <2>4, <2>5, <2>6, <2>7, <2>8 DEF Settle
  <1>e. ASSUME Handler \/ Resume \/ AlarmFires \/ ColdStart \/ Crash \/ IdleKill
        PROVE  TypeInv'
    <2> USE DEF store, driver, world, counters, Goto, Stop
    <2>1. CASE HandlerSchedule  BY <2>1 DEF HandlerSchedule
    <2>2. CASE HandlerDrive  BY <2>2 DEF HandlerDrive
    <2>3. CASE HandlerSeal
      <3>1. RecordInv([disk EXCEPT !.fin = FALSE])  BY DEF RecordInv, RunRecord
      <3>2. inventoryOf(disk) \subseteq Steps  BY DEF inventoryOf, residualResourceRecords
      <3>3. CASE UNCHANGED store
        BY <2>3, <3>3 DEF HandlerSeal
      <3>4. CASE inv' = inventoryOf(disk) /\ disk' = [disk EXCEPT !.fin = FALSE]
        BY <2>3, <3>1, <3>2, <3>4 DEF HandlerSeal, RecordInv
      <3> QED  BY <2>3, <3>3, <3>4 DEF HandlerSeal, CommitInventory
    <2>4. CASE HandlerCancel  BY <2>4 DEF HandlerCancel
    <2>5. CASE Resume  BY <2>5, ResumedRecord DEF Resume, RecordInv
    <2>6. CASE AlarmFires  BY <2>6 DEF AlarmFires
    <2>7. CASE ColdStart
      <3>1. alarm' \in BOOLEAN  BY <2>7, Zenon DEF ColdStart
      <3> QED  BY <2>7, <3>1 DEF ColdStart, RecordInv
    <2>8. CASE Crash
      <3>1. crashes' \in Nat  BY <2>8 DEF Crash
      <3> QED  BY <2>8, <3>1, <1>0 DEF Crash, Die, RecordInv
    <2>9. CASE IdleKill  BY <2>9, <1>0 DEF IdleKill, Die, RecordInv
    <2> QED
      BY <1>e, <2>1, <2>2, <2>3, <2>4, <2>5, <2>6, <2>7, <2>8, <2>9 DEF Handler
  <1>f. ASSUME NEW s \in Steps, Land(s) \/ Refuse(s) \/ ForeignCreate(s)
        PROVE  TypeInv'
    BY <1>f DEF Land, Refuse, ForeignCreate, store, driver, world, counters
  <1>g. ASSUME UNCHANGED vars PROVE TypeInv'
    BY <1>g DEF vars
  <1> QED
    BY <1>a, <1>b, <1>c, <1>d, <1>e, <1>f, <1>g DEF Next, Driver

\* Every reachable record, copy of a record and program point is well formed:
\* in particular no stored state is the phase of an interruption never recorded.
THEOREM TypeCorrect == Spec => []TypeOK
  <1>1. TypeInv => TypeOK  BY DEF TypeInv
  <1> QED  BY <1>1, TypeInit, TypeStep, PTL DEF Spec

----------------------------------------------------------------------------
(* The record is ahead of the provider.                                      *)

Sending == {"post", "repost", "await", "reawait"}

\* A driver's copy can be stale in its state (Resume writes the record under
\* it), never in its images: only the driver writes those.
ImagesInStep == pc \notin {"idle", "load"} => mem.image = disk.image

SendingIsRecorded == pc \in Sending => mem.image[step] = "sending"

\* Only a policy write is ever tried again after it was rejected.
AbortedIsIam == \A s \in Steps : disk.image[s] = "aborted" => Kind[s] = "iam"

IntentInv ==
    TypeInv /\ ImagesInStep /\ SendingIsRecorded /\ AbortedIsIam /\ IntentBeforeSend

LEMMA IntentInit == Init => IntentInv
  <1> SUFFICES ASSUME Init PROVE IntentInv
    OBVIOUS
  <1>1. TypeInv  BY TypeInit
  <1>2. \A s \in Steps : disk.image[s] = "none" /\ sent[s] = "no"
    BY DEF Init, PlannedRun
  <1> QED
    BY <1>1, <1>2 DEF Init, IntentInv, ImagesInStep, SendingIsRecorded, AbortedIsIam,
                      IntentBeforeSend, Sending

\* What a record update leaves of the images.
LEMMA ResumedImage ==
    ASSUME NEW r, RecordInv(r)
    PROVE  Resumed(r).image = r.image /\ Sealed(r).image = r.image
  BY DEF RecordInv, RunRecord, Resumed, Sealed

LEMMA CheckpointImage ==
    ASSUME NEW r, RecordInv(r), NEW s \in Steps, NEW ph \in Phase
    PROVE  LET q == [r EXCEPT !.image[s] = ph]
           IN  q.image[s] = ph /\ \A t \in Steps \ {s} : q.image[t] = r.image[t]
  BY DEF RecordInv, RunRecord

\* A step that touches neither the committed images nor any request.
LEMMA QuietStep ==
    ASSUME IntentInv, TypeInv', disk'.image = disk.image, sent' = sent,
           ImagesInStep', SendingIsRecorded'
    PROVE  IntentInv'
  BY DEF IntentInv, AbortedIsIam, IntentBeforeSend

\* A checkpoint of the driver that moves its step to phase ph.
LEMMA CheckpointStep ==
    ASSUME IntentInv, TypeInv', NEW ph \in {"prepared", "sending", "rejected", "aborted", "applied"},
           pc \notin {"idle", "load"}, Checkpoint(ph), UNCHANGED <<sent, step>>,
           pc' \in Sending => ph = "sending",
           ph = "aborted" => Kind[step] = "iam",
           ph = "prepared" => mem.image[step] \in {"none", "aborted"}
    PROVE  IntentInv'
  <1> USE DEF IntentInv
  <1>1. step \in Steps /\ RecordInv(mem) /\ mem.image = disk.image
    BY DEF TypeInv, TypeOK, ImagesInStep
  <1>2. ph \in Phase  BY DEF Phase
  <1>3. /\ disk' = mem'
        /\ mem'.image[step] = ph
        /\ \A t \in Steps \ {step} : mem'.image[t] = disk.image[t]
    BY <1>1, <1>2, CheckpointImage DEF Checkpoint, Save
  <1>4. ImagesInStep' /\ SendingIsRecorded'
    BY <1>3 DEF ImagesInStep, SendingIsRecorded
  <1>5. AbortedIsIam'  BY <1>3 DEF AbortedIsIam
  <1>6. IntentBeforeSend'
    <2> SUFFICES ASSUME NEW s \in Steps, sent[s] # "no"
                 PROVE  \/ disk'.image[s] \in {"sending", "aborted", "rejected", "applied"}
                        \/ Kind[s] = "iam" /\ disk'.image[s] = "prepared"
      BY DEF IntentBeforeSend
    <2>1. CASE s # step  BY <2>1, <1>3 DEF IntentBeforeSend
    <2>2. CASE s = step /\ ph # "prepared"  BY <2>2, <1>3
    <2>3. CASE s = step /\ ph = "prepared"
      BY <2>3, <1>1, <1>3 DEF IntentBeforeSend, AbortedIsIam
    <2> QED  BY <2>1, <2>2, <2>3
  <1> QED  BY <1>4, <1>5, <1>6

LEMMA IntentStep == IntentInv /\ [Next]_vars => IntentInv'
  <1> SUFFICES ASSUME IntentInv, [Next]_vars PROVE IntentInv'
    OBVIOUS
  <1>0. TypeInv /\ TypeInv'  BY TypeStep DEF IntentInv
  <1>r. RecordInv(disk) /\ RecordInv(mem) /\ step \in Steps  BY <1>0 DEF TypeInv, TypeOK
  <1> USE DEF ImagesInStep, SendingIsRecorded, Sending
  <1>i. (pc \notin {"idle", "load"} => mem.image = disk.image)
        /\ (pc \in Sending => mem.image[step] = "sending")
    BY DEF IntentInv
  <1>a. ASSUME Tick PROVE IntentInv'
    <2> SUFFICES disk'.image = disk.image /\ sent' = sent /\ ImagesInStep' /\ SendingIsRecorded'
      BY <1>0, QuietStep
    <2> USE DEF store, driver, world, counters, Goto, Save, Stop, RecordInv, RunRecord
    <2>1. CASE Load  BY <2>1 DEF Load
    <2>2. CASE Engine  BY <1>i, <2>2 DEF Engine
    <2>3. CASE TickLoad  BY <2>3 DEF TickLoad
    <2>4. CASE TickInactive  BY <1>i, <2>4 DEF TickInactive
    <2>5. CASE TickSucceed  BY <1>i, <1>r, <2>5 DEF TickSucceed
    <2>6. CASE TickIntent  BY <1>i, <1>r, <2>6 DEF TickIntent
    <2>7. CASE TickDone  BY <1>i, <1>r, <2>7 DEF TickDone
    <2>8. CASE TickFail  BY <1>i, <1>r, <2>8 DEF TickFail
    <2>9. CASE TickAuth  BY <1>i, <1>r, <2>9 DEF TickAuth
    <2>10. CASE Reschedule  BY <1>i, <2>10 DEF Reschedule
    <2> QED
      BY <1>a, <2>1, <2>2, <2>3, <2>4, <2>5, <2>6, <2>7, <2>8, <2>9, <2>10 DEF Tick
  <1>b. ASSUME Executor PROVE IntentInv'
    <2> USE DEF Goto, world, store
    <2>1. CASE ApplyPrepare
      <3>1. CASE mem.image[step] \in {"none", "aborted"} /\ Checkpoint("prepared")
        BY <1>0, <2>1, <3>1, CheckpointStep DEF ApplyPrepare
      <3>2. CASE UNCHANGED <<store, mem>>
        BY <1>0, <1>i, <2>1, <3>2, QuietStep DEF ApplyPrepare
      <3> QED  BY <2>1, <3>1, <3>2 DEF ApplyPrepare
    <2>2. CASE ApplySending
      BY <1>0, <2>2, CheckpointStep DEF ApplySending
    <2>3. CASE ApplyReconcile
      <3>1. CASE Checkpoint("applied") /\ Goto("applied")
        BY <1>0, <2>3, <3>1, CheckpointStep DEF ApplyReconcile
      <3>2. CASE Goto("repost") /\ UNCHANGED <<store, mem>>
        BY <1>0, <1>i, <2>3, <3>2, QuietStep DEF ApplyReconcile
      <3> QED  BY <2>3, <3>1, <3>2 DEF ApplyReconcile
    <2>4. CASE ApplyAlreadyApplied
      BY <1>0, <1>i, <2>4, QuietStep DEF ApplyAlreadyApplied
    <2>5. CASE Post
      <3>1. ImagesInStep' /\ SendingIsRecorded' /\ disk' = disk
        BY <1>i, <2>5 DEF Post
      <3>2. disk.image[step] = "sending"
        BY <1>i, <2>5 DEF Post
      <3>3. \A s \in Steps \ {step} : sent'[s] = sent[s]
        BY <1>0, <2>5 DEF Post, TypeInv, TypeOK
      <3> QED
        BY <1>0, <3>1, <3>2, <3>3 DEF IntentInv, IntentBeforeSend, AbortedIsIam
    <2>6. CASE PostConfirmed
      BY <1>0, <2>6, CheckpointStep DEF PostConfirmed
    <2>7. CASE PostRejected
      <3>1. CASE Checkpoint("rejected") /\ Goto("failed")
        BY <1>0, <2>7, <3>1, CheckpointStep DEF PostRejected
      <3>2. CASE Kind[step] = "iam" /\ Checkpoint("aborted") /\ (Goto("apply") \/ Goto("failed"))
        BY <1>0, <2>7, <3>2, CheckpointStep DEF PostRejected
      <3> QED  BY <2>7, <3>1, <3>2 DEF PostRejected
    <2>8. CASE ApplyFails
      BY <1>0, <1>i, <2>8, QuietStep DEF ApplyFails
    <2> QED
      BY <1>b, <2>1, <2>2, <2>3, <2>4, <2>5, <2>6, <2>7, <2>8 DEF Executor
  <1>c. ASSUME Rollback \/ Settle PROVE IntentInv'
    <2> SUFFICES disk'.image = disk.image /\ sent' = sent /\ ImagesInStep' /\ SendingIsRecorded'
      BY <1>0, QuietStep
    <2> USE DEF store, driver, world, counters, Goto, Save, Stop, RecordInv, RunRecord
    <2>1. CASE UndoStart  BY <1>i, <2>1 DEF UndoStart
    <2>2. CASE UndoFinish  BY <1>i, <1>r, <2>2 DEF UndoFinish
    <2>3. CASE UndoProve  BY <1>i, <2>3 DEF UndoProve
    <2>4. CASE UndoDelete  BY <1>i, <2>4 DEF UndoDelete
    <2>5. CASE UndoDone  BY <1>i, <1>r, <2>5 DEF UndoDone
    <2>6. CASE UndoFails  BY <1>i, <1>r, <2>6 DEF UndoFails
    <2>7. CASE Finalize  BY <1>i, <1>r, <2>7 DEF Finalize, CommitInventory
    <2>8. CASE FinalizeRefused  BY <1>i, <2>8 DEF FinalizeRefused
    <2>9. CASE CancelAlarm  BY <2>9 DEF CancelAlarm
    <2>10. CASE Interrupt  BY <2>10 DEF Interrupt
    <2>11. CASE InterruptSave  BY <1>i, <1>r, <2>11 DEF InterruptSave
    <2>12. CASE Fatal  BY <2>12 DEF Fatal
    <2>13. CASE FatalSave  BY <1>i, <1>r, <2>13 DEF FatalSave
    <2>14. CASE FatalSched  BY <2>14 DEF FatalSched
    <2> QED
      BY <1>c, <2>1, <2>2, <2>3, <2>4, <2>5, <2>6, <2>7, <2>8, <2>9, <2>10, <2>11, <2>12,
         <2>13, <2>14 DEF Rollback, Settle
  <1>d. ASSUME Handler \/ Resume \/ AlarmFires \/ ColdStart \/ Crash \/ IdleKill
        PROVE  IntentInv'
    <2> SUFFICES disk'.image = disk.image /\ sent' = sent /\ ImagesInStep' /\ SendingIsRecorded'
      BY <1>0, QuietStep
    <2> USE DEF store, driver, world, counters, Goto, Stop
    <2>1. CASE HandlerSchedule  BY <1>i, <2>1 DEF HandlerSchedule
    <2>2. CASE HandlerDrive  BY <1>i, <2>2 DEF HandlerDrive
    <2>3. CASE HandlerSeal
      BY <1>i, <1>r, <2>3 DEF HandlerSeal, CommitInventory, RecordInv, RunRecord
    <2>4. CASE HandlerCancel  BY <1>i, <2>4 DEF HandlerCancel
    <2>5. CASE Resume  BY <1>i, <1>r, <2>5, ResumedImage DEF Resume
    <2>6. CASE AlarmFires  BY <1>i, <2>6 DEF AlarmFires
    <2>7. CASE ColdStart  BY <1>i, <2>7 DEF ColdStart
    <2>8. CASE Crash  BY <2>8 DEF Crash, Die
    <2>9. CASE IdleKill  BY <2>9 DEF IdleKill, Die
    <2> QED
      BY <1>d, <2>1, <2>2, <2>3, <2>4, <2>5, <2>6, <2>7, <2>8, <2>9 DEF Handler
  <1>e. ASSUME NEW s \in Steps, Land(s) \/ Refuse(s) \/ ForeignCreate(s)
        PROVE  IntentInv'
    <2>1. UNCHANGED <<disk, mem, pc, step>>
      BY <1>e DEF Land, Refuse, ForeignCreate, store, driver
    <2>2. \A t \in Steps : sent'[t] # "no" => sent[t] # "no"
      BY <1>0, <1>e DEF Land, Refuse, ForeignCreate, TypeInv, TypeOK
    <2> QED  BY <1>0, <2>1, <2>2 DEF IntentInv, IntentBeforeSend, AbortedIsIam
  <1>f. ASSUME UNCHANGED vars PROVE IntentInv'
    BY <1>0, <1>i, <1>f, QuietStep DEF vars
  <1> QED
    BY <1>a, <1>b, <1>c, <1>d, <1>e, <1>f DEF Next, Driver

\* Whatever the provider may have been asked to create, the committed record
\* already says so: a crash at any point leaves a trace for the rollback.
THEOREM IntentRecorded == Spec => []IntentBeforeSend
  <1>1. IntentInv => IntentBeforeSend  BY DEF IntentInv
  <1> QED  BY <1>1, IntentInit, IntentStep, PTL DEF Spec

----------------------------------------------------------------------------
(* The deletes are exact.                                                    *)

\* Between the read that proves an object ours and its deletion nobody else can
\* take the name: the provider refuses a second object under it.
DeleteProven == pc = "delete" => Kind[step] = "iam" \/ cloud[step] = "ours"

ProvenInv == TypeOK /\ DeleteProven

LEMMA ProvenInit == Init /\ TypeOK => ProvenInv
  BY DEF Init, ProvenInv, DeleteProven

\* Every step but UndoDelete leaves what exists where it is.
LEMMA CloudStep ==
    ASSUME TypeOK, [Next]_vars, ~UndoDelete
    PROVE  \A s \in Steps : cloud[s] # "absent" => cloud'[s] = cloud[s]
  <1> USE DEF world
  <1>1. CASE Tick
    BY <1>1 DEF Tick, Load, Engine, TickLoad, TickInactive, TickSucceed,
                TickIntent, TickDone, TickFail, TickAuth, Reschedule
  <1>2. CASE Executor
    BY <1>2 DEF Executor, ApplyPrepare, ApplySending, ApplyReconcile, ApplyAlreadyApplied,
                Post, PostConfirmed, PostRejected, ApplyFails
  <1>3. CASE Rollback
    BY <1>3 DEF Rollback, UndoStart, UndoFinish, UndoProve, UndoDone, UndoFails
  <1>4. CASE Settle
    BY <1>4 DEF Settle, Finalize, FinalizeRefused, CancelAlarm, Interrupt, InterruptSave,
                Fatal, FatalSave, FatalSched
  <1>5. CASE Handler \/ Resume \/ AlarmFires \/ ColdStart \/ Crash \/ IdleKill
    BY <1>5 DEF Handler, HandlerSchedule, HandlerDrive, HandlerSeal, HandlerCancel, Resume,
                AlarmFires, ColdStart, Crash, IdleKill, Die
  <1>6. CASE \E t \in Steps : Land(t) \/ Refuse(t) \/ ForeignCreate(t)
    BY <1>6 DEF Land, Refuse, ForeignCreate, TypeOK
  <1>7. CASE UNCHANGED vars  BY <1>7 DEF vars
  <1> QED  BY <1>1, <1>2, <1>3, <1>4, <1>5, <1>6, <1>7 DEF Next, Driver

\* Only UndoProve brings the driver to a deletion, and nothing moves its step there.
LEMMA DeleteEntry ==
    ASSUME TypeOK, [Next]_vars, pc' = "delete"
    PROVE  UndoProve \/ (pc = "delete" /\ step' = step /\ ~UndoDelete)
  <1> USE DEF Goto, driver
  <1>1. CASE Tick
    BY <1>1 DEF Tick, Load, Engine, TickLoad, TickInactive, TickSucceed,
                TickIntent, TickDone, TickFail, TickAuth, Reschedule, Stop
  <1>2. CASE Executor
    BY <1>2 DEF Executor, ApplyPrepare, ApplySending, ApplyReconcile, ApplyAlreadyApplied,
                Post, PostConfirmed, PostRejected, ApplyFails
  <1>3. CASE Rollback
    BY <1>3 DEF Rollback, UndoStart, UndoFinish, UndoProve, UndoDone, UndoFails, UndoDelete
  <1>4. CASE Settle
    BY <1>4 DEF Settle, Finalize, FinalizeRefused, CancelAlarm, Interrupt, InterruptSave,
                Fatal, FatalSave, FatalSched, Stop
  <1>5. CASE Handler \/ Resume \/ AlarmFires \/ ColdStart \/ Crash \/ IdleKill
    BY <1>5 DEF Handler, HandlerSchedule, HandlerDrive, HandlerSeal, HandlerCancel, Resume,
                AlarmFires, ColdStart, Crash, IdleKill, Die, Stop, UndoDelete
  <1>6. CASE \E t \in Steps : Land(t) \/ Refuse(t) \/ ForeignCreate(t)
    BY <1>6 DEF Land, Refuse, ForeignCreate, UndoDelete
  <1>7. CASE UNCHANGED vars  BY <1>7 DEF vars, UndoDelete
  <1> QED  BY <1>1, <1>2, <1>3, <1>4, <1>5, <1>6, <1>7 DEF Next, Driver

LEMMA ProvenStep ==
    ASSUME ProvenInv, TypeOK', [Next]_vars
    PROVE  ProvenInv' /\ \A s \in Steps : cloud[s] = "foreign" /\ (Kind[s] = "iam" => sent[s] # "landed")
                                             => cloud'[s] = "foreign"
  <1> USE DEF ProvenInv, DeleteProven
  <1>1. ASSUME pc' = "delete" PROVE Kind[step'] = "iam" \/ cloud'[step'] = "ours"
    <2>1. CASE UndoProve
      BY <2>1 DEF UndoProve, ProvenOurs, world
    <2>2. CASE pc = "delete" /\ step' = step /\ ~UndoDelete
      BY <2>2, CloudStep DEF TypeOK
    <2> QED  BY <1>1, <2>1, <2>2, DeleteEntry
  <1>2. CASE UndoDelete
    BY <1>1, <1>2 DEF UndoDelete, TypeOK
  <1>3. CASE ~UndoDelete
    BY <1>1, <1>3, CloudStep
  <1> QED  BY <1>2, <1>3

\* An object that another administrator created under a planned name, or a role
\* granted before this run's own write, is never removed by a rollback.
THEOREM ForeignSafe == Spec => ForeignUntouched
  <1>1. ProvenInv /\ TypeOK' /\ [Next]_vars =>
            [\A s \in Steps : cloud[s] = "foreign" /\ (Kind[s] = "iam" => sent[s] # "landed")
                                   => cloud'[s] = "foreign"]_vars
    BY ProvenStep
  <1>2. ProvenInv /\ TypeOK' /\ [Next]_vars => ProvenInv'
    BY ProvenStep
  <1> QED  BY <1>1, <1>2, ProvenInit, TypeCorrect, PTL DEF Spec, ForeignUntouched

----------------------------------------------------------------------------
(* The record, the driver's copy of it and the provider.                     *)

Applying == {"apply", "send", "applied", "failed"} \cup Sending
Undoing == {"undo", "delete", "deleted"}
Writing == Applying \cup Undoing \cup {"interruptSave", "fatalSave"}

\* The driver is about to write what it has loaded.
Live == pc \in Writing \/ (pc = "decide" /\ isActive(mem.state))

\* A run that has only gone forward: nothing has been deleted for it.
Forward(r) == r.state \in {"running", "succeeded"} \/ (r.state = "interrupted" /\ r.from = "running")

ExposedIn(cl, se, s) == cl[s] = "ours" \/ se[s] = "flight"
Exposed(s) == ExposedIn(cloud, sent, s)

\* A driver that writes has the record as it is, unless a Resume has sealed the
\* run under it.
SyncInv ==
    Live =>
      /\ isActive(mem.state)
      /\ mem = disk \/ disk.state = "rollback_unavailable"
      /\ \A s \in Steps : mem.status[s] = "rollback_failed" => disk.status[s] = "rollback_failed"
      /\ pc \in Applying => mem.state = "running"
      /\ pc \in Undoing => mem.state = "rolling_back"

\* What exists or may still land, was sent for, and the record says so.
WorldInv ==
    \A s \in Steps :
      /\ cloud[s] = "ours" => sent[s] = "landed"
      /\ disk.image[s] = "applied" => sent[s] \in {"landed", "merged"}
      /\ Exposed(s) => disk.image[s] \in {"sending", "applied"}

\* What a record means for the provider: steps are done in their order, with their
\* evidence; and once the run turns back, whatever is exposed is still owed.
RecordIn(r, cl, se) ==
    /\ isActive(r.state) \/ r.state = "interrupted" => ~r.fin
    /\ isActive(r.state) => r.from = "none"
    /\ r.state = "succeeded" => \A s \in Steps : r.status[s] = "done"
    /\ r.state = "rolled_back" => \A s \in Steps : ~ExposedIn(cl, se, s)
    /\ Forward(r) => \A s \in Steps :
         /\ r.status[s] = "done" => r.image[s] = "applied"
         /\ r.status[s] \notin {"failed", "rollback_failed"}
         /\ r.image[s] # "none" => r.status[s] = "done" \/ FirstOpen(r, s)
         /\ se[s] \in {"landed", "merged"} => cl[s] # "absent"
    /\ ~Forward(r) => \A s \in Steps :
         ExposedIn(cl, se, s) => r.status[s] \in {"done", "failed", "rollback_failed"}

MeaningInv == RecordIn(disk, cloud, sent) /\ (Live => RecordIn(mem, cloud, sent))

\* Where the driver stands in a step.
PlaceInv ==
    /\ pc \in Applying =>
         /\ FirstOpen(mem, step) /\ mem.status[step] = "running"
         /\ disk.state = "rollback_unavailable" => disk.status[step] = "rollback_failed"
    /\ pc = "applied" => mem.image[step] = "applied"
    /\ pc = "delete" /\ Kind[step] = "iam" => mem.image[step] = "applied"
    /\ pc = "deleted" => ~Exposed(step)
    /\ pc \in Undoing => \A t \in Steps : t > step /\ Exposed(t) => disk.status[t] = "rollback_failed"

\* Once a run is over and finalized, the inventory has what it should.
ListedInv ==
    ~disk.fin =>
      /\ disk.state = "succeeded" => inv = Steps
      /\ disk.state \in {"rollback_failed", "rollback_unavailable"} => residualResourceRecords(disk) \subseteq inv

\* Every try is paid for by the limit or by a crash; the step in hand may use the last.
TriesIn(r, busy, top) ==
    /\ \A s \in Steps : r.attempts[s] <= top
    /\ Forward(r) => \A s \in Steps : r.status[s] = "done" \/ r.attempts[s] < top \/ s \in busy

Busy == IF pc \in Applying THEN {step} ELSE {}

TriesInv ==
    /\ TriesIn(disk, Busy, MAX_ATTEMPTS + crashes)
    /\ Live => TriesIn(mem, Busy, MAX_ATTEMPTS + crashes)

----------------------------------------------------------------------------
(* The shapes a step can have.                                               *)

\* A new worker has no driver and no handler until it has reconciled.
ColdInv == ~cold => pc = "idle" /\ req = "none"

LEMMA ColdStep == ColdInv /\ [Next]_vars => ColdInv'
  <1> SUFFICES ASSUME ColdInv, [Next]_vars, ~cold' PROVE pc' = "idle" /\ req' = "none"
    BY DEF ColdInv
  <1> USE DEF ColdInv
  <1>1. CASE Driver
    <2>1. pc # "idle" /\ cold' = cold
      BY <1>1 DEF Driver, Tick, Load, Engine, TickLoad, TickInactive, TickSucceed, TickIntent,
                  TickDone, TickFail, TickAuth, Reschedule,
                  Executor, ApplyPrepare, ApplySending, ApplyReconcile, ApplyAlreadyApplied,
                  Post, PostConfirmed, PostRejected, ApplyFails,
                  Rollback, UndoStart, UndoFinish, UndoProve, UndoDelete, UndoDone, UndoFails,
                  Settle, Finalize, FinalizeRefused, CancelAlarm, Interrupt, InterruptSave,
                  Fatal, FatalSave, FatalSched
    <2> QED  BY <2>1
  <1>2. CASE Handler \/ Resume \/ AlarmFires \/ ColdStart
    BY <1>2 DEF Handler, HandlerSchedule, HandlerDrive, HandlerSeal, HandlerCancel, Resume,
                AlarmFires, ColdStart
  <1>3. CASE Crash \/ IdleKill
    BY <1>3 DEF Crash, IdleKill, Die, Stop
  <1>4. CASE \E s \in Steps : Land(s) \/ Refuse(s) \/ ForeignCreate(s)
    BY <1>4 DEF Land, Refuse, ForeignCreate, driver
  <1>5. CASE UNCHANGED vars
    BY <1>5 DEF vars
  <1> QED  BY <1>1, <1>2, <1>3, <1>4, <1>5 DEF Next

\* The driver goes where it writes nothing: only a death takes it there from a step.
Retreats ==
    /\ UNCHANGED <<store, world>> /\ pc' \notin Writing \cup {"decide"}
    /\ IF pc \in Applying THEN crashes' = crashes + 1 ELSE crashes' \in {crashes, crashes + 1}

Stays == UNCHANGED <<store, driver, world, crashes>>

Reloads ==
    /\ UNCHANGED <<store, world, crashes>> /\ mem' = disk /\ pc \notin Applying
    /\ pc' = "decide" \/ (pc' \in {"interruptSave", "fatalSave"} /\ isActive(disk.state))

Saves ==
    \/ TickSucceed \/ TickIntent \/ TickDone \/ TickFail \/ TickAuth
    \/ UndoFinish \/ UndoDone \/ UndoFails \/ InterruptSave \/ FatalSave

Turns == UndoStart \/ UndoProve \/ UndoDelete

Commits == Finalize \/ HandlerSeal

Outside == \E s \in Steps : Land(s) \/ Refuse(s) \/ ForeignCreate(s)

LEMMA Shapes ==
    ASSUME ColdInv, [Next]_vars
    PROVE  Retreats \/ Stays \/ Reloads \/ Saves \/ Executor \/ Turns \/ Commits \/ Resume \/ Outside
  <1> USE DEF store, driver, world, counters, Goto, Stop, Writing, Applying, Undoing, Sending
  <1>1. ASSUME Tick \/ Rollback PROVE Retreats \/ Reloads \/ Saves \/ Turns
    <2>1. CASE Load \/ Engine \/ TickInactive \/ Reschedule
      BY <2>1 DEF Retreats, Load, Engine, TickInactive, Reschedule, Stays
    <2>2. CASE TickLoad
      BY <2>2 DEF TickLoad, Reloads
    <2> QED  BY <1>1, <2>1, <2>2 DEF Tick, Rollback, Saves, Turns
  <1>2. ASSUME Settle PROVE Retreats \/ Reloads \/ Saves \/ Commits
    <2>1. CASE FinalizeRefused \/ CancelAlarm \/ FatalSched
      BY <2>1 DEF Retreats, FinalizeRefused, CancelAlarm, FatalSched
    <2>2. CASE Interrupt
      BY <2>2 DEF Interrupt, Retreats, Reloads
    <2>3. CASE Fatal
      BY <2>3 DEF Fatal, Retreats, Reloads
    <2> QED  BY <1>2, <2>1, <2>2, <2>3 DEF Settle, Saves, Commits
  <1>3. ASSUME Handler \/ AlarmFires \/ ColdStart PROVE Retreats \/ Stays \/ Commits
    <2>1. CASE HandlerSchedule \/ HandlerCancel
      BY <2>1 DEF HandlerSchedule, HandlerCancel, Stays
    <2>2. CASE HandlerDrive
      BY <2>2 DEF HandlerDrive, Retreats, Stays
    <2>3. CASE AlarmFires \/ ColdStart
      BY <2>3 DEF AlarmFires, ColdStart, Retreats, Stays, ColdInv
    <2> QED  BY <1>3, <2>1, <2>2, <2>3 DEF Handler, Commits
  <1>4. ASSUME Crash \/ IdleKill PROVE Retreats
    BY <1>4 DEF Crash, IdleKill, Die, Retreats
  <1>5. ASSUME UNCHANGED vars PROVE Stays
    BY <1>5 DEF vars, Stays
  <1> QED  BY <1>1, <1>2, <1>3, <1>4, <1>5 DEF Next, Driver, Outside

\* Whatever is committed by a save is what the driver holds.
LEMMA SavesBoth ==
    ASSUME Saves
    PROVE  /\ Live /\ disk' = mem' /\ inv' = inv /\ UNCHANGED <<world, crashes>>
           /\ pc' = "apply" \/ pc' \notin Writing \cup {"decide"}
  BY DEF Saves, TickSucceed, TickIntent, TickDone, TickFail, TickAuth, UndoFinish, UndoDone,
         UndoFails, InterruptSave, FatalSave, Save, Goto, world, counters, Live, Writing, Applying,
         Undoing, Sending, isActive

\* A checkpoint of the executor changes the image of its step and nothing else.
LEMMA ExecutorMoves ==
    ASSUME TypeInv, Executor
    PROVE  /\ pc \in Applying /\ pc' \in Applying /\ UNCHANGED <<step, inv, cloud, crashes>>
           /\ \/ disk' = disk /\ mem' = mem
              \/ disk' = mem' /\ \E ph \in Phase : mem' = [mem EXCEPT !.image[step] = ph]
  <1> USE DEF Goto, store, world, counters, Applying, Sending
  <1>1. ASSUME NEW ph \in Phase, Checkpoint(ph)
        PROVE  inv' = inv /\ disk' = mem' /\ mem' = [mem EXCEPT !.image[step] = ph]
    BY <1>1 DEF Checkpoint, Save
  <1>2. CASE ApplyPrepare \/ ApplySending \/ ApplyReconcile
    BY <1>1, <1>2 DEF ApplyPrepare, ApplySending, ApplyReconcile, Phase
  <1>3. CASE PostConfirmed \/ PostRejected
    BY <1>1, <1>3 DEF PostConfirmed, PostRejected, Phase
  <1>4. CASE ApplyAlreadyApplied \/ Post \/ ApplyFails
    BY <1>4 DEF ApplyAlreadyApplied, Post, ApplyFails
  <1> QED  BY <1>2, <1>3, <1>4 DEF Executor

\* Resuming an active run changes nothing.
LEMMA ResumedActive ==
    ASSUME NEW r, RecordInv(r), isActive(r.state), ~r.fin, r.from = "none"
    PROVE  Resumed(r) = r
  BY DEF RecordInv, RunRecord, Resumed, isActive

LEMMA SyncStep ==
    ASSUME TypeInv, ColdInv, SyncInv, MeaningInv, [Next]_vars
    PROVE  SyncInv'
  <1> USE DEF store, driver, world
  <1>r. RecordInv(disk) /\ RecordInv(mem) /\ step \in Steps
    BY DEF TypeInv, TypeOK
  <1>1. CASE Retreats
    BY <1>1 DEF Retreats, SyncInv, Live
  <1>2. CASE Stays
    BY <1>2 DEF Stays, SyncInv, Live
  <1>3. CASE Reloads
    BY <1>3 DEF Reloads, SyncInv, Live, Writing, Applying, Undoing, Sending
  <1>4. CASE Saves
    <2>1. CASE TickIntent
      <3>1. mem'.state = "running"
        BY <1>r, <2>1 DEF TickIntent, Save, RecordInv, RunRecord
      <3> QED  BY <1>4, <2>1, <3>1, SavesBoth DEF TickIntent, Goto, SyncInv, Live, Applying, Undoing, Sending, isActive
    <2>2. CASE ~TickIntent
      <3>1. pc' \notin Writing \cup {"decide"}
        BY <1>4, <2>2 DEF Saves, TickSucceed, TickDone, TickFail, TickAuth, UndoFinish, UndoDone,
             UndoFails, InterruptSave, FatalSave, Goto, Writing, Applying, Undoing, Sending
      <3> QED  BY <3>1 DEF SyncInv, Live
    <2> QED  BY <2>1, <2>2
  <1>5. CASE Executor
    <2>1. Live /\ Live'
      BY <1>5, ExecutorMoves DEF Live, Writing
    <2>2. mem'.state = mem.state
      BY <1>r, <1>5, ExecutorMoves DEF RecordInv, RunRecord
    <2>3. pc' \notin Undoing
      BY <1>5, ExecutorMoves DEF Applying, Undoing, Sending
    <2> QED  BY <1>5, <2>1, <2>2, <2>3, ExecutorMoves DEF SyncInv
  <1>6. CASE Turns
    <2>1. Live /\ mem.state = "rolling_back" /\ UNCHANGED <<disk, mem>> /\ pc' \in Undoing \cup {"deleted"}
      BY <1>6 DEF Turns, UndoStart, UndoProve, UndoDelete, Goto, Live, Writing, Undoing, SyncInv, isActive
    <2> QED  BY <2>1 DEF SyncInv, Live, Writing, Applying, Undoing, Sending
  <1>7. CASE Finalize
    BY <1>7 DEF Finalize, Goto, SyncInv, Live, Writing, Applying, Undoing, Sending
  <1>8. CASE HandlerSeal
    <2>1. UNCHANGED <<mem, pc>> /\ disk'.status = disk.status /\ disk'.state = disk.state
          /\ (disk' = disk \/ disk.state = "rollback_unavailable")
      BY <1>r, <1>8 DEF HandlerSeal, CommitInventory, RecordInv, RunRecord
    <2> QED  BY <2>1 DEF SyncInv, Live, isActive
  <1>9. CASE Resume
    <2>1. UNCHANGED <<mem, pc>> /\ disk.state \in ResumableStates
          /\ (disk' = Resumed(disk) \/ disk' = Sealed(disk))
      BY <1>9 DEF Resume
    <2> SUFFICES ASSUME Live PROVE SyncInv'
      BY <2>1 DEF SyncInv, Live
    <2>2. mem = disk /\ isActive(disk.state)
      BY <2>1 DEF SyncInv, ResumableStates, isActive
    <2>3. CASE disk' = Resumed(disk)
      <3>1. disk' = disk
        BY <1>r, <2>2, <2>3, ResumedActive DEF MeaningInv, RecordIn
      <3> QED  BY <2>1, <3>1 DEF SyncInv, Live
    <2>4. CASE disk' = Sealed(disk)
      <3>1. /\ disk'.state = "rollback_unavailable"
            /\ \A s \in Steps : disk.status[s] = "rollback_failed" => disk'.status[s] = "rollback_failed"
        BY <1>r, <2>4 DEF Sealed, RecordInv, RunRecord
      <3> QED  BY <2>1, <2>2, <3>1 DEF SyncInv, Live
    <2> QED  BY <2>1, <2>3, <2>4
  <1>10. CASE Outside
    BY <1>10 DEF Outside, Land, Refuse, ForeignCreate, SyncInv, Live
  <1> QED  BY <1>1, <1>2, <1>3, <1>4, <1>5, <1>6, <1>7, <1>8, <1>9, <1>10, Shapes DEF Commits

LEMMA WorldStep ==
    ASSUME IntentInv, TypeInv', ColdInv, WorldInv, [Next]_vars, DeleteProven
    PROVE  WorldInv'
  <1> USE DEF store, driver, world, Exposed, ExposedIn
  <1>r. RecordInv(disk) /\ RecordInv(mem) /\ step \in Steps /\ TypeInv
        /\ cloud \in [Steps -> {"absent", "ours", "foreign"}]
        /\ sent \in [Steps -> {"no", "flight", "landed", "merged", "refused"}]
    BY DEF IntentInv, TypeInv, TypeOK
  <1>1. ASSUME disk'.image = disk.image, UNCHANGED world PROVE WorldInv'
    BY <1>1 DEF WorldInv
  <1>2. CASE Retreats \/ Stays \/ Reloads
    BY <1>1, <1>2 DEF Retreats, Stays, Reloads
  <1>3. CASE Saves
    <2>1. mem'.image = mem.image
      BY <1>r, <1>3 DEF Saves, TickSucceed, TickIntent, TickDone, TickFail, TickAuth, UndoFinish,
             UndoDone, UndoFails, InterruptSave, FatalSave, Save, RecordInv, RunRecord
    <2>2. mem.image = disk.image
      BY <1>3, SavesBoth DEF IntentInv, ImagesInStep, Live, Writing, Applying, Undoing, Sending
    <2> QED  BY <1>1, <1>3, <2>1, <2>2, SavesBoth
  <1>4. CASE Executor
    <2>0. mem.image = disk.image
      BY <1>r, <1>4, ExecutorMoves DEF IntentInv, ImagesInStep, Applying, Sending
    <2>1. ASSUME NEW ph \in Phase, Checkpoint(ph), UNCHANGED world,
                 ph = "applied" => sent[step] \in {"landed", "merged"},
                 ph \in {"sending", "applied"} \/ ~Exposed(step)
          PROVE  WorldInv'
      <3>1. /\ disk'.image[step] = ph
            /\ \A t \in Steps \ {step} : disk'.image[t] = disk.image[t]
        BY <1>r, <2>0, <2>1, CheckpointImage DEF Checkpoint, Save
      <3> QED  BY <2>1, <3>1 DEF WorldInv
    <2>2. CASE ApplyPrepare
      <3>1. CASE mem.image[step] \in {"none", "aborted"} /\ Checkpoint("prepared")
        BY <1>r, <2>0, <2>1, <2>2, <3>1 DEF ApplyPrepare, WorldInv, Phase
      <3> QED  BY <1>1, <2>2, <3>1 DEF ApplyPrepare
    <2>3. CASE ApplySending
      BY <2>1, <2>3 DEF ApplySending, Phase
    <2>4. CASE ApplyReconcile
      <3>1. CASE cloud[step] = "ours" /\ Checkpoint("applied")
        BY <1>r, <2>1, <2>4, <3>1 DEF ApplyReconcile, WorldInv, Phase
      <3> QED  BY <1>1, <2>4, <3>1 DEF ApplyReconcile
    <2>5. CASE ApplyAlreadyApplied \/ ApplyFails
      BY <1>1, <2>5 DEF ApplyAlreadyApplied, ApplyFails
    <2>6. CASE Post
      <3>1. disk.image[step] = "sending"
        BY <1>r, <2>0, <2>6 DEF Post, IntentInv, SendingIsRecorded, Sending
      <3>2. /\ sent'[step] = (IF sent[step] = "landed" THEN "landed" ELSE "flight")
            /\ \A t \in Steps \ {step} : sent'[t] = sent[t]
            /\ UNCHANGED <<disk, cloud>>
        BY <1>r, <2>6 DEF Post
      <3> QED  BY <3>1, <3>2 DEF WorldInv
    <2>7. CASE PostConfirmed
      BY <2>1, <2>7 DEF PostConfirmed, Phase
    <2>8. CASE PostRejected
      BY <1>r, <2>1, <2>8 DEF PostRejected, WorldInv, Phase
    <2> QED  BY <1>4, <2>2, <2>3, <2>4, <2>5, <2>6, <2>7, <2>8 DEF Executor
  <1>5. CASE Turns
    <2>1. CASE UndoDelete
      <3>1. /\ cloud'[step] \in {cloud[step], "absent"} /\ UNCHANGED <<disk, sent>>
            /\ \A t \in Steps \ {step} : cloud'[t] = cloud[t]
        BY <1>r, <2>1 DEF UndoDelete
      <3> QED  BY <3>1 DEF WorldInv
    <2> QED  BY <1>1, <1>5, <2>1 DEF Turns, UndoStart, UndoProve
  <1>6. CASE Commits
    <2>1. disk'.image = disk.image /\ UNCHANGED world
      BY <1>r, <1>6 DEF Commits, Finalize, HandlerSeal, CommitInventory, RecordInv, RunRecord
    <2> QED  BY <1>1, <2>1
  <1>7. CASE Resume
    BY <1>1, <1>r, <1>7, ResumedImage DEF Resume
  <1>8. CASE Outside
    BY <1>r, <1>8 DEF Outside, Land, Refuse, ForeignCreate, WorldInv
  <1> QED  BY <1>2, <1>3, <1>4, <1>5, <1>6, <1>7, <1>8, Shapes

----------------------------------------------------------------------------
(* What each update of a record leaves of its meaning.                       *)

LEMMA FirstUnique ==
    ASSUME NEW r, NEW s \in Steps, NEW t \in Steps, FirstOpen(r, s), FirstOpen(r, t)
    PROVE  s = t
  BY NAssumption DEF NAssumption, FirstOpen, Steps

\* All that is exposed was sent for.
TracedIn(r, cl, se) == \A s \in Steps : ExposedIn(cl, se, s) => r.image[s] \in {"sending", "applied"}

\* The record stays and the provider moves, exposing nothing.
LEMMA Elsewhere ==
    ASSUME NEW r, NEW cl, NEW se, NEW cl2, NEW se2, RecordIn(r, cl, se),
           \A s \in Steps : ExposedIn(cl2, se2, s) => ExposedIn(cl, se, s),
           Forward(r) => \A s \in Steps : se2[s] \in {"landed", "merged"} => cl2[s] # "absent"
    PROVE  RecordIn(r, cl2, se2)
  BY DEF RecordIn

\* The first step that is not done is tried, put back or done.
LEMMA StepMarked ==
    ASSUME NEW r, RecordInv(r), NEW cl, NEW se, RecordIn(r, cl, se), r.state = "running",
           NEW s \in Steps, FirstOpen(r, s), NEW st \in {"pending", "running", "done"},
           st = "done" => r.image[s] = "applied",
           NEW q, q.state = "running", q.fin = r.fin, q.from = r.from, q.image = r.image,
           q.status = [r.status EXCEPT ![s] = st]
    PROVE  RecordIn(q, cl, se)
  <1>1. /\ q.status[s] = st /\ r.status[s] # "done"
        /\ \A t \in Steps \ {s} : q.status[t] = r.status[t]
    BY DEF RecordInv, RunRecord, FirstOpen
  <1>2. ASSUME NEW t \in Steps, FirstOpen(r, t) PROVE q.status[t] = "done" \/ FirstOpen(q, t)
    <2>1. t = s
      BY <1>2, FirstUnique
    <2> QED  BY <1>1, <1>2, <2>1, NAssumption DEF FirstOpen, Steps, NAssumption
  <1> QED  BY <1>1, <1>2 DEF RecordIn, Forward, isActive

LEMMA ImageMarked ==
    ASSUME NEW r, RecordInv(r), NEW cl, NEW se, RecordIn(r, cl, se), r.state = "running",
           NEW s \in Steps, FirstOpen(r, s), NEW ph \in Phase
    PROVE  RecordIn([r EXCEPT !.image[s] = ph], cl, se)
  <1> DEFINE q == [r EXCEPT !.image[s] = ph]
  <1>1. /\ q.state = "running" /\ q.fin = r.fin /\ q.from = r.from /\ q.status = r.status
        /\ \A t \in Steps \ {s} : q.image[t] = r.image[t]
    BY DEF RecordInv, RunRecord
  <1>2. r.status[s] # "done" /\ \A t \in Steps : FirstOpen(r, t) => FirstOpen(q, t)
    BY <1>1 DEF FirstOpen
  <1> HIDE DEF q
  <1>3. RecordIn(q, cl, se)
    BY <1>1, <1>2 DEF RecordIn, Forward, isActive
  <1> QED  BY <1>3 DEF q

\* The run turns back with its first open step failed.
LEMMA TurnedBack ==
    ASSUME NEW r, NEW cl, NEW se, RecordIn(r, cl, se), TracedIn(r, cl, se), r.state = "running",
           NEW q, q.state = "rolling_back", q.fin = r.fin, q.from = r.from,
           \A t \in Steps : q.status[t] = IF FirstOpen(r, t) THEN "failed" ELSE r.status[t]
    PROVE  RecordIn(q, cl, se)
  BY DEF RecordIn, Forward, isActive, TracedIn

\* One step is compensated, or recorded as one that cannot be.
LEMMA StepUndone ==
    ASSUME NEW r, RecordInv(r), NEW cl, NEW se, RecordIn(r, cl, se), r.state = "rolling_back",
           NEW s \in Steps, NEW st \in {"pending", "rollback_failed"},
           st = "pending" => ~ExposedIn(cl, se, s)
    PROVE  RecordIn([r EXCEPT !.status[s] = st], cl, se)
  <1> DEFINE q == [r EXCEPT !.status[s] = st]
  <1>1. /\ q.state = "rolling_back" /\ q.fin = r.fin /\ q.from = r.from
        /\ q.status[s] = st /\ \A t \in Steps \ {s} : q.status[t] = r.status[t]
    BY DEF RecordInv, RunRecord
  <1> HIDE DEF q
  <1> QED  BY <1>1 DEF RecordIn, Forward, isActive

LEMMA Undone ==
    ASSUME NEW r, RecordInv(r), NEW cl, NEW se, RecordIn(r, cl, se), TracedIn(r, cl, se),
           r.state = "rolling_back", \A s \in Steps : ~undoable(r, s)
    PROVE  RecordIn([r EXCEPT !.fin = TRUE,
                              !.state = IF \E s \in Steps : r.status[s] = "rollback_failed"
                                        THEN "rollback_failed" ELSE "rolled_back"], cl, se)
  <1> DEFINE q == [r EXCEPT !.fin = TRUE,
                            !.state = IF \E s \in Steps : r.status[s] = "rollback_failed"
                                      THEN "rollback_failed" ELSE "rolled_back"]
  <1>1. /\ q.status = r.status
        /\ q.state = IF \E s \in Steps : r.status[s] = "rollback_failed"
                     THEN "rollback_failed" ELSE "rolled_back"
    BY DEF RecordInv, RunRecord
  <1>2. \A s \in Steps : ExposedIn(cl, se, s) => r.status[s] = "rollback_failed"
    BY DEF RecordIn, Forward, TracedIn, undoable
  <1> HIDE DEF q
  <1> QED  BY <1>1, <1>2 DEF RecordIn, Forward, isActive

LEMMA Stopped ==
    ASSUME NEW r, RecordInv(r), NEW cl, NEW se, RecordIn(r, cl, se)
    PROVE  /\ isActive(r.state) =>
                RecordIn([r EXCEPT !.from = r.state, !.state = "interrupted"], cl, se)
           /\ r.state = "rolling_back" =>
                RecordIn([r EXCEPT !.state = "rollback_failed", !.fin = TRUE], cl, se)
           /\ r.state = "running" /\ (\A s \in Steps : r.status[s] = "done") =>
                RecordIn([r EXCEPT !.state = "succeeded", !.fin = TRUE], cl, se)
           /\ ~isActive(r.state) => RecordIn([r EXCEPT !.fin = FALSE], cl, se)
  <1>1. ASSUME isActive(r.state)
        PROVE  RecordIn([r EXCEPT !.from = r.state, !.state = "interrupted"], cl, se)
    BY <1>1 DEF RecordIn, Forward, isActive, FirstOpen, RecordInv, RunRecord
  <1>2. ASSUME r.state = "rolling_back"
        PROVE  RecordIn([r EXCEPT !.state = "rollback_failed", !.fin = TRUE], cl, se)
    BY <1>2 DEF RecordIn, Forward, isActive, FirstOpen, RecordInv, RunRecord
  <1>3. ASSUME r.state = "running", \A s \in Steps : r.status[s] = "done"
        PROVE  RecordIn([r EXCEPT !.state = "succeeded", !.fin = TRUE], cl, se)
    BY <1>3 DEF RecordIn, Forward, isActive, FirstOpen, RecordInv, RunRecord
  <1>4. ASSUME ~isActive(r.state) PROVE RecordIn([r EXCEPT !.fin = FALSE], cl, se)
    BY <1>4 DEF RecordIn, Forward, isActive, FirstOpen, RecordInv, RunRecord
  <1> QED  BY <1>1, <1>2, <1>3, <1>4

LEMMA ResumedMeans ==
    ASSUME NEW r, RecordInv(r), NEW cl, NEW se, RecordIn(r, cl, se),
           r.state \in {"interrupted", "rollback_failed", "running", "rolling_back"}
    PROVE  RecordIn(Resumed(r), cl, se)
  <1>1. CASE isActive(r.state)
    BY <1>1, ResumedActive DEF RecordIn
  <1>2. CASE r.state = "interrupted"
    <2>1. r.from \in {"running", "rolling_back"}
      BY <1>2 DEF RecordInv, RunRecord
    <2>2. Resumed(r) = [r EXCEPT !.state = r.from, !.fin = FALSE, !.from = "none"]
      BY <1>2 DEF Resumed
    <2> DEFINE q == [r EXCEPT !.state = r.from, !.fin = FALSE, !.from = "none"]
    <2>3. q.state = r.from /\ ~q.fin /\ q.from = "none" /\ q.status = r.status /\ q.image = r.image
      BY DEF RecordInv, RunRecord
    <2> HIDE DEF q
    <2>4. \A s \in Steps : FirstOpen(r, s) => FirstOpen(q, s)
      BY <2>3 DEF FirstOpen
    <2> QED  BY <1>2, <2>1, <2>2, <2>3, <2>4 DEF RecordIn, Forward, isActive, q
  <1>3. CASE r.state = "rollback_failed"
    <2>1. /\ Resumed(r).state = "rolling_back" /\ ~Resumed(r).fin /\ Resumed(r).from = "none"
          /\ \A s \in Steps : Resumed(r).status[s] = IF r.status[s] = "rollback_failed" THEN "done" ELSE r.status[s]
      BY <1>3 DEF Resumed, RecordInv, RunRecord
    <2> QED  BY <1>3, <2>1 DEF RecordIn, Forward, isActive
  <1> QED  BY <1>1, <1>2, <1>3 DEF isActive

\* A run that only went forward is sealed for its first open step and no other.
LEMMA IssueIsFirst ==
    ASSUME NEW r, NEW cl, NEW se, RecordIn(r, cl, se), Forward(r), NEW s \in preflightIssues(r)
    PROVE  FirstOpen(r, s)
  <1>1. s \in Steps /\ (rollbackCandidate(r, s) \/ r.image[s] # "none") /\ ~compensationAvailable(r, s)
    BY DEF preflightIssues
  <1>2. r.status[s] # "done"
    BY <1>1 DEF RecordIn, compensationAvailable
  <1>3. ~rollbackCandidate(r, s)
    BY <1>1, <1>2 DEF RecordIn, rollbackCandidate
  <1> QED  BY <1>1, <1>2, <1>3 DEF RecordIn

LEMMA SealedMeans ==
    ASSUME NEW r, RecordInv(r), NEW cl, NEW se, RecordIn(r, cl, se), TracedIn(r, cl, se),
           preflightIssues(r) # {}
    PROVE  /\ RecordIn(Sealed(r), cl, se)
           /\ Forward(r) => \A s \in Steps : FirstOpen(r, s) => Sealed(r).status[s] = "rollback_failed"
  <1>1. /\ Sealed(r).state = "rollback_unavailable"
        /\ \A s \in Steps : Sealed(r).status[s] = IF s \in preflightIssues(r) THEN "rollback_failed"
                                                  ELSE r.status[s]
    BY DEF Sealed, RecordInv, RunRecord
  <1>2. ASSUME Forward(r), NEW s \in Steps, FirstOpen(r, s) PROVE s \in preflightIssues(r)
    <2>1. PICK t \in preflightIssues(r) : TRUE
      OBVIOUS
    <2>2. t \in Steps
      BY DEF preflightIssues
    <2> QED  BY <1>2, <2>1, <2>2, IssueIsFirst, FirstUnique
  <1>3. \A s \in Steps : ExposedIn(cl, se, s) => Sealed(r).status[s] \in {"done", "failed", "rollback_failed"}
    BY <1>1, <1>2 DEF RecordIn, TracedIn
  <1> QED  BY <1>1, <1>2, <1>3 DEF RecordIn, Forward, isActive

----------------------------------------------------------------------------
(* What each step of the engine leaves of it.                                *)

\* What a driver that writes knows of the record it holds.
LEMMA LiveFacts ==
    ASSUME IntentInv, SyncInv, WorldInv, MeaningInv, Live
    PROVE  /\ RecordInv(mem) /\ RecordInv(disk) /\ step \in Steps /\ mem.image = disk.image
           /\ RecordIn(mem, cloud, sent) /\ TracedIn(mem, cloud, sent) /\ isActive(mem.state)
           /\ ~Forward(disk) \/ disk = mem
  BY DEF IntentInv, TypeInv, TypeOK, ImagesInStep, Live, Writing, Applying, Undoing, Sending,
         MeaningInv, WorldInv, TracedIn, Exposed, SyncInv, Forward

LEMMA SaveMeans ==
    ASSUME IntentInv, SyncInv, WorldInv, MeaningInv, PlaceInv, Saves
    PROVE  RecordIn(mem', cloud, sent)
  <1>0. Live
    BY SavesBoth
  <1>f. /\ RecordInv(mem) /\ step \in Steps /\ RecordIn(mem, cloud, sent) /\ TracedIn(mem, cloud, sent)
    BY <1>0, LiveFacts
  <1>a. pc \in Applying => mem.state = "running" /\ FirstOpen(mem, step)
    BY <1>0 DEF SyncInv, PlaceInv
  <1>u. pc \in Undoing => mem.state = "rolling_back"
    BY <1>0 DEF SyncInv
  <1>1. CASE TickSucceed
    BY <1>1, <1>f, Stopped DEF TickSucceed, Save
  <1>2. CASE TickIntent
    <2>1. PICK s \in Steps :
             /\ FirstOpen(mem, s)
             /\ mem' = [mem EXCEPT !.status[s] = "running", !.attempts[s] = @ + 1]
      BY <1>2 DEF TickIntent, Save
    <2>2. /\ mem'.state = "running" /\ mem.state = "running" /\ mem'.fin = mem.fin /\ mem'.from = mem.from
          /\ mem'.image = mem.image /\ mem'.status = [mem.status EXCEPT ![s] = "running"]
      BY <1>2, <1>f, <2>1 DEF TickIntent, RecordInv, RunRecord
    <2> QED  BY <1>f, <2>1, <2>2, StepMarked
  <1>3. CASE TickDone
    <2>1. /\ mem' = [mem EXCEPT !.status[step] = "done"] /\ mem.image[step] = "applied" /\ pc \in Applying
      BY <1>3 DEF TickDone, Save, PlaceInv, Applying
    <2>2. /\ mem'.state = mem.state /\ mem'.fin = mem.fin /\ mem'.from = mem.from
          /\ mem'.image = mem.image /\ mem'.status = [mem.status EXCEPT ![step] = "done"]
      BY <1>f, <2>1 DEF RecordInv, RunRecord
    <2>3. mem.state = "running" /\ mem'.state = "running" /\ FirstOpen(mem, step)
      BY <1>a, <2>1, <2>2
    <2>4. mem.image[step] = "applied"
      BY <2>1
    <2> QED  BY <1>f, <2>2, <2>3, <2>4, StepMarked
  <1>4. CASE TickFail
    <2>0. pc \in Applying
      BY <1>4 DEF TickFail, Applying
    <2>1. CASE mem' = [mem EXCEPT !.status[step] = "failed", !.state = "rolling_back"]
      <3>1. /\ mem'.state = "rolling_back" /\ mem'.fin = mem.fin /\ mem'.from = mem.from
            /\ \A t \in Steps : mem'.status[t] = IF t = step THEN "failed" ELSE mem.status[t]
        BY <1>f, <2>1 DEF RecordInv, RunRecord
      <3>2. \A t \in Steps : FirstOpen(mem, t) <=> t = step
        BY <1>f, <1>a, <2>0, FirstUnique
      <3> QED  BY <1>f, <1>a, <2>0, <3>1, <3>2, TurnedBack
    <2>2. CASE mem' = [mem EXCEPT !.status[step] = "pending"]
      <3>1. /\ mem'.state = mem.state /\ mem'.fin = mem.fin /\ mem'.from = mem.from
            /\ mem'.image = mem.image /\ mem'.status = [mem.status EXCEPT ![step] = "pending"]
        BY <1>f, <2>2 DEF RecordInv, RunRecord
      <3> QED  BY <1>f, <1>a, <2>0, <3>1, StepMarked
    <2> QED  BY <1>4, <2>1, <2>2 DEF TickFail, Save
  <1>5. CASE TickAuth
    <2>1. /\ mem' = [mem EXCEPT !.status[step] = "pending",
                                !.attempts[step] = IF @ = 0 THEN 0 ELSE @ - 1]
          /\ pc \in Applying
      BY <1>5 DEF TickAuth, Save, Applying, Sending
    <2>2. /\ mem'.state = mem.state /\ mem'.fin = mem.fin /\ mem'.from = mem.from
          /\ mem'.image = mem.image /\ mem'.status = [mem.status EXCEPT ![step] = "pending"]
      BY <1>f, <2>1 DEF RecordInv, RunRecord
    <2>3. mem.state = "running" /\ mem'.state = "running" /\ FirstOpen(mem, step)
      BY <1>a, <2>1, <2>2
    <2> QED  BY <1>f, <2>2, <2>3, StepMarked
  <1>6. CASE UndoFinish
    BY <1>6, <1>f, Undone DEF UndoFinish, Save
  <1>7. CASE UndoDone
    <2>1. mem' = [mem EXCEPT !.status[step] = "pending"] /\ pc \in Undoing
      BY <1>7 DEF UndoDone, Save, Undoing
    <2>2. ~ExposedIn(cloud, sent, step)
      <3>1. CASE pc = "deleted"
        BY <3>1 DEF PlaceInv, Exposed
      <3>2. CASE NothingToUndo(step)
        <4>1. mem.image[step] = disk.image[step]
          BY <1>0, LiveFacts
        <4> QED  BY <1>f, <3>2, <4>1 DEF NothingToUndo, TracedIn, WorldInv, ExposedIn
      <3> QED  BY <1>7, <3>1, <3>2 DEF UndoDone
    <2> QED  BY <1>f, <1>u, <2>1, <2>2, StepUndone
  <1>8. CASE UndoFails
    <2>1. mem' = [mem EXCEPT !.status[step] = "rollback_failed"] /\ pc \in Undoing
      BY <1>8 DEF UndoFails, Save, Undoing
    <2> QED  BY <1>f, <1>u, <2>1, StepUndone
  <1>9. CASE InterruptSave
    <2>1. isActive(mem.state)
      BY <1>0 DEF SyncInv
    <2> QED  BY <1>9, <1>f, <2>1, Stopped DEF InterruptSave, Save
  <1>10. CASE FatalSave
    <2>1. CASE mem' = [mem EXCEPT !.state = "rollback_failed", !.fin = TRUE] /\ mem.state = "rolling_back"
      BY <1>f, <2>1, Stopped
    <2>2. CASE /\ mem' = [mem EXCEPT !.state = "rolling_back",
                              !.status = [s \in Steps |-> IF FirstOpen(mem, s) THEN "failed"
                                                          ELSE mem.status[s]]]
               /\ mem.state = "running"
      <3>1. /\ mem'.state = "rolling_back" /\ mem'.fin = mem.fin /\ mem'.from = mem.from
            /\ \A t \in Steps : mem'.status[t] = IF FirstOpen(mem, t) THEN "failed" ELSE mem.status[t]
        BY <1>f, <2>2 DEF RecordInv, RunRecord
      <3> QED  BY <1>f, <2>2, <3>1, TurnedBack
    <2> QED  BY <1>10, <2>1, <2>2 DEF FatalSave, Save
  <1> QED  BY <1>1, <1>2, <1>3, <1>4, <1>5, <1>6, <1>7, <1>8, <1>9, <1>10 DEF Saves

LEMMA MeaningStep ==
    ASSUME IntentInv, ColdInv, SyncInv, WorldInv, MeaningInv, PlaceInv, [Next]_vars
    PROVE  MeaningInv'
  <1> USE DEF store, driver, world
  <1>r. /\ RecordInv(disk) /\ RecordInv(mem) /\ step \in Steps /\ TypeInv
        /\ cloud \in [Steps -> {"absent", "ours", "foreign"}]
        /\ sent \in [Steps -> {"no", "flight", "landed", "merged", "refused"}]
    BY DEF IntentInv, TypeInv, TypeOK
  <1>1. CASE Retreats
    BY <1>1 DEF Retreats, MeaningInv, Live
  <1>2. CASE Stays
    BY <1>2 DEF Stays, MeaningInv, Live
  <1>3. CASE Reloads
    BY <1>3 DEF Reloads, MeaningInv
  <1>4. CASE Saves
    BY <1>4, SaveMeans, SavesBoth DEF MeaningInv
  <1>5. CASE Executor
    <2>0. Live /\ mem.state = "running" /\ FirstOpen(mem, step)
      BY <1>r, <1>5, ExecutorMoves DEF Live, Writing, SyncInv, PlaceInv
    <2>1. /\ RecordIn(mem, cloud, sent) /\ RecordIn(disk, cloud, sent)
      BY <2>0, LiveFacts DEF MeaningInv
    <2>2. CASE Post
      <3>1. /\ sent'[step] = (IF sent[step] = "landed" THEN "landed" ELSE "flight")
            /\ \A t \in Steps \ {step} : sent'[t] = sent[t]
            /\ UNCHANGED <<disk, cloud, mem>>
        BY <1>r, <2>2 DEF Post
      <3>2. Forward(mem) /\ mem.state \notin {"succeeded", "rolled_back"}
        BY <2>0 DEF Forward
      <3>3. RecordIn(mem, cloud, sent')
        BY <2>1, <3>1, <3>2 DEF RecordIn
      <3>4. CASE mem = disk
        BY <3>1, <3>3, <3>4 DEF MeaningInv
      <3>5. CASE disk.state = "rollback_unavailable"
        <4>1. disk.status[step] = "rollback_failed"
          BY <1>r, <1>5, <3>5, ExecutorMoves DEF PlaceInv
        <4>2. RecordIn(disk, cloud, sent')
          BY <2>1, <3>1, <3>5, <4>1 DEF RecordIn, Forward, isActive, ExposedIn
        <4> QED  BY <3>1, <3>3, <4>2 DEF MeaningInv
      <3> QED  BY <2>0, <3>4, <3>5 DEF SyncInv
    <2>3. CASE ~Post
      <3>1. UNCHANGED <<cloud, sent>>
        BY <1>5, <2>3 DEF Executor, ApplyPrepare, ApplySending, ApplyReconcile, ApplyAlreadyApplied,
                          PostConfirmed, PostRejected, ApplyFails
      <3>2. CASE disk' = disk /\ mem' = mem
        BY <2>1, <3>1, <3>2 DEF MeaningInv
      <3>3. ASSUME NEW ph \in Phase, disk' = mem', mem' = [mem EXCEPT !.image[step] = ph]
            PROVE  MeaningInv'
        <4>1. RecordIn(mem', cloud, sent)
          BY <1>r, <2>0, <2>1, <3>3, ImageMarked
        <4> QED  BY <3>1, <3>3, <4>1 DEF MeaningInv
      <3> QED  BY <1>r, <1>5, <3>2, <3>3, ExecutorMoves
    <2> QED  BY <2>2, <2>3
  <1>6. CASE Turns
    <2>0. Live /\ Live' /\ mem.state = "rolling_back" /\ UNCHANGED <<disk, mem, sent>>
      BY <1>6 DEF Turns, UndoStart, UndoProve, UndoDelete, Goto, Live, Writing, Undoing, SyncInv, isActive
    <2>1. RecordIn(mem, cloud, sent) /\ RecordIn(disk, cloud, sent)
      BY <2>0, LiveFacts DEF MeaningInv
    <2>2. CASE UndoDelete
      <3>1. \A t \in Steps : cloud'[t] \in {cloud[t], "absent"}
        BY <1>r, <2>2 DEF UndoDelete
      <3>2. ~Forward(mem) /\ ~Forward(disk)
        BY <2>0 DEF SyncInv, Forward
      <3>3. \A t \in Steps : ExposedIn(cloud', sent', t) => ExposedIn(cloud, sent, t)
        BY <2>0, <3>1 DEF ExposedIn
      <3> QED  BY <2>0, <2>1, <3>2, <3>3, Elsewhere DEF MeaningInv
    <2>3. CASE UNCHANGED cloud
      BY <2>0, <2>1, <2>3 DEF MeaningInv
    <2> QED  BY <1>6, <2>2, <2>3 DEF Turns, UndoStart, UndoProve
  <1>7. CASE Commits
    <2>1. UNCHANGED <<mem, pc, cloud, sent>> \/ (UNCHANGED <<mem, cloud, sent>> /\ pc' = "cancel")
      BY <1>7 DEF Commits, Finalize, HandlerSeal, Goto
    <2>2. disk' = disk \/ (disk' = [disk EXCEPT !.fin = FALSE] /\ disk.fin)
      BY <1>7 DEF Commits, Finalize, HandlerSeal, CommitInventory
    <2>3. disk.fin => ~isActive(disk.state)
      BY DEF MeaningInv, RecordIn
    <2>4. RecordIn(disk', cloud, sent)
      <3>1. RecordIn(disk, cloud, sent)
        BY DEF MeaningInv
      <3>2. ~isActive(disk.state) => RecordIn([disk EXCEPT !.fin = FALSE], cloud, sent)
        BY <1>r, <3>1, Stopped
      <3> QED  BY <2>2, <2>3, <3>1, <3>2
    <2>5. Live' => Live
      BY <2>1 DEF Live, Writing, Applying, Undoing, Sending
    <2> QED  BY <2>1, <2>4, <2>5 DEF MeaningInv
  <1>8. CASE Resume
    <2>1. /\ UNCHANGED <<mem, pc, cloud, sent>> /\ disk.state \in ResumableStates
          /\ \/ disk' = Resumed(disk)
             \/ disk' = Sealed(disk) /\ preflightIssues(disk) # {}
      BY <1>8 DEF Resume
    <2>2. RecordIn(disk, cloud, sent) /\ TracedIn(disk, cloud, sent)
      BY DEF MeaningInv, WorldInv, TracedIn, Exposed
    <2>3. RecordIn(disk', cloud, sent)
      BY <1>r, <2>1, <2>2, ResumedMeans, SealedMeans DEF ResumableStates
    <2> QED  BY <2>1, <2>3 DEF MeaningInv, Live
  <1>9. CASE Outside
    <2>0. UNCHANGED <<disk, mem, pc>>
      BY <1>9 DEF Outside, Land, Refuse, ForeignCreate
    <2>1. \A t \in Steps : ExposedIn(cloud', sent', t) => ExposedIn(cloud, sent, t)
      BY <1>r, <1>9 DEF Outside, Land, Refuse, ForeignCreate, ExposedIn
    <2>2. \A t \in Steps : sent'[t] \in {"landed", "merged"} =>
             cloud'[t] # "absent" \/ (cloud'[t] = cloud[t] /\ sent'[t] = sent[t])
      BY <1>r, <1>9 DEF Outside, Land, Refuse, ForeignCreate
    <2>3. ASSUME NEW r, RecordIn(r, cloud, sent) PROVE RecordIn(r, cloud', sent')
      <3>1. Forward(r) => \A t \in Steps : sent'[t] \in {"landed", "merged"} => cloud'[t] # "absent"
        BY <2>2, <2>3 DEF RecordIn
      <3> QED  BY <2>1, <2>3, <3>1, Elsewhere
    <2> QED  BY <2>0, <2>3 DEF MeaningInv, Live
  <1> QED  BY <1>1, <1>2, <1>3, <1>4, <1>5, <1>6, <1>7, <1>8, <1>9, Shapes

LEMMA PlaceStep ==
    ASSUME IntentInv, ColdInv, SyncInv, WorldInv, MeaningInv, PlaceInv, DeleteProven, [Next]_vars
    PROVE  PlaceInv'
  <1> USE DEF store, driver, world
  <1>r. /\ RecordInv(disk) /\ RecordInv(mem) /\ step \in Steps /\ TypeInv
        /\ cloud \in [Steps -> {"absent", "ours", "foreign"}]
        /\ sent \in [Steps -> {"no", "flight", "landed", "merged", "refused"}]
    BY DEF IntentInv, TypeInv, TypeOK
  <1>q. ASSUME pc' \notin Applying \cup Undoing PROVE PlaceInv'
    BY <1>q DEF PlaceInv, Applying, Undoing
  <1>1. CASE Retreats \/ Reloads
    <2>1. pc' \notin Applying \cup Undoing
      BY <1>1 DEF Retreats, Reloads, Writing, Applying, Undoing, Sending
    <2> QED  BY <1>q, <2>1
  <1>2. CASE Stays
    BY <1>2 DEF Stays, PlaceInv, Exposed
  <1>3. CASE Saves
    <2>1. CASE TickIntent
      <3>1. PICK s \in Steps :
               /\ FirstOpen(mem, s) /\ step' = s
               /\ mem' = [mem EXCEPT !.status[s] = "running", !.attempts[s] = @ + 1]
        BY <2>1 DEF TickIntent, Save
      <3>2. mem'.status[s] = "running" /\ \A t \in Steps \ {s} : mem'.status[t] = mem.status[t]
        BY <1>r, <3>1 DEF RecordInv, RunRecord
      <3>3. FirstOpen(mem', s)
        BY <3>1, <3>2, NAssumption DEF FirstOpen, Steps, NAssumption
      <3>4. disk'.state = "running" /\ pc' = "apply"
        BY <1>r, <2>1, <3>1 DEF TickIntent, Save, Goto, RecordInv, RunRecord
      <3> QED  BY <3>1, <3>2, <3>3, <3>4 DEF PlaceInv, Undoing
    <2>2. CASE ~TickIntent
      <3>1. pc' \notin Writing
        BY <1>3, <2>2 DEF Saves, TickSucceed, TickDone, TickFail, TickAuth, UndoFinish, UndoDone,
             UndoFails, InterruptSave, FatalSave, Goto, Writing, Applying, Undoing, Sending
      <3> QED  BY <1>q, <3>1 DEF Writing
    <2> QED  BY <2>1, <2>2
  <1>4. CASE Executor
    <2>0. /\ pc \in Applying /\ pc' \in Applying /\ step' = step /\ Live /\ mem.state = "running"
      BY <1>r, <1>4, ExecutorMoves DEF Live, Writing, SyncInv
    <2>1. mem'.status = mem.status /\ mem'.state = "running" /\ (disk' = disk \/ disk' = mem')
      BY <1>r, <1>4, <2>0, ExecutorMoves DEF RecordInv, RunRecord
    <2>2. FirstOpen(mem', step)
      BY <2>0, <2>1 DEF PlaceInv, FirstOpen
    <2>3. disk'.state = "rollback_unavailable" => disk'.status[step] = "rollback_failed"
      BY <2>0, <2>1 DEF PlaceInv
    <2>4. pc' = "applied" => mem'.image[step] = "applied"
      <3>1. Checkpoint("applied") => mem'.image[step] = "applied"
        BY <1>r DEF Checkpoint, Save, RecordInv, RunRecord
      <3> QED
        BY <1>4, <3>1 DEF Executor, ApplyPrepare, ApplySending, ApplyReconcile, ApplyAlreadyApplied,
                          Post, PostConfirmed, PostRejected, ApplyFails, Goto
    <2>5. pc' \notin Undoing
      BY <2>0 DEF Applying, Undoing, Sending
    <2> QED  BY <2>0, <2>1, <2>2, <2>3, <2>4, <2>5 DEF PlaceInv, Undoing
  <1>5. CASE Turns
    <2>0. Live /\ mem.state = "rolling_back" /\ UNCHANGED <<disk, mem, sent>>
      BY <1>5 DEF Turns, UndoStart, UndoProve, UndoDelete, Goto, Live, Writing, Undoing, SyncInv, isActive
    <2>1. CASE UndoStart
      <3>1. LastUndoable(mem, step') /\ pc' = "undo" /\ UNCHANGED <<cloud, disk>> /\ step' \in Steps
        BY <2>1 DEF UndoStart, Goto
      <3>2. ASSUME NEW t \in Steps, t > step', Exposed(t) PROVE disk.status[t] = "rollback_failed"
        <4>1. ~undoable(mem, t)
          BY <3>1, <3>2 DEF LastUndoable
        <4>2. mem.status[t] \in {"done", "failed", "rollback_failed"} /\ mem.image[t] # "none"
          BY <2>0, <3>2, LiveFacts DEF RecordIn, Forward, TracedIn, Exposed
        <4>3. mem.status[t] = "rollback_failed"
          BY <4>1, <4>2 DEF undoable
        <4> QED  BY <2>0, <4>3 DEF SyncInv
      <3> QED  BY <2>0, <3>1, <3>2 DEF PlaceInv, Exposed, ExposedIn, Applying, Sending
    <2>2. CASE UndoProve
      <3>1. pc = "undo" /\ pc' = "delete" /\ UNCHANGED <<step, cloud>>
            /\ (Kind[step] = "iam" => mem.image[step] = "applied")
        BY <2>2 DEF UndoProve, Goto, ProvenOurs
      <3> QED  BY <2>0, <3>1 DEF PlaceInv, Exposed, Applying, Undoing, Sending
    <2>3. CASE UndoDelete
      <3>1. pc = "delete" /\ pc' = "deleted" /\ UNCHANGED step
            /\ cloud' = [cloud EXCEPT ![step] = IF Kind[step] = "iam" /\ sent[step] # "landed" THEN @ ELSE "absent"]
        BY <2>3 DEF UndoDelete, Goto
      <3>2. \A t \in Steps : Exposed(t)' => Exposed(t)
        BY <1>r, <2>0, <3>1 DEF Exposed, ExposedIn
      <3>3. ~Exposed(step)'
        <4>1. CASE Kind[step] = "iam"
          <5>1. sent[step] \in {"landed", "merged"}
            BY <2>0, <3>1, <1>r, <4>1, LiveFacts DEF PlaceInv, WorldInv
          <5> QED  BY <1>r, <2>0, <3>1, <5>1 DEF WorldInv, Exposed, ExposedIn
        <4>2. CASE Kind[step] # "iam"
          <5>1. sent[step] = "landed"
            BY <1>r, <3>1, <4>2 DEF DeleteProven, WorldInv
          <5> QED  BY <1>r, <2>0, <3>1, <5>1 DEF Exposed, ExposedIn
        <4> QED  BY <4>1, <4>2
      <3> QED  BY <1>r, <2>0, <3>1, <3>2, <3>3 DEF PlaceInv, Applying, Undoing, Sending
    <2> QED  BY <1>5, <2>1, <2>2, <2>3 DEF Turns
  <1>6. CASE Finalize
    <2>1. pc' \notin Applying \cup Undoing
      BY <1>6 DEF Finalize, Goto, Applying, Undoing, Sending
    <2> QED  BY <1>q, <2>1
  <1>7. CASE HandlerSeal
    <2>1. UNCHANGED <<mem, pc, step, world>> /\ disk'.status = disk.status /\ disk'.state = disk.state
      BY <1>r, <1>7 DEF HandlerSeal, CommitInventory, RecordInv, RunRecord
    <2> QED  BY <2>1 DEF PlaceInv, Exposed
  <1>8. CASE Resume
    <2>1. /\ UNCHANGED <<mem, pc, step, cloud, sent>> /\ disk.state \in ResumableStates
          /\ \/ disk' = Resumed(disk)
             \/ disk' = Sealed(disk) /\ preflightIssues(disk) # {}
      BY <1>8 DEF Resume
    <2>2. CASE pc \in Applying \cup Undoing
      <3>1. Live /\ mem = disk /\ isActive(disk.state)
        BY <2>1, <2>2 DEF Live, Writing, SyncInv, ResumableStates, isActive
      <3>2. RecordIn(disk, cloud, sent) /\ TracedIn(disk, cloud, sent)
        BY DEF MeaningInv, WorldInv, TracedIn, Exposed
      <3>3. CASE disk' = Resumed(disk)
        <4>1. disk' = disk
          BY <1>r, <3>1, <3>2, <3>3, ResumedActive DEF RecordIn
        <4> QED  BY <2>1, <4>1 DEF PlaceInv, Exposed
      <3>4. CASE disk' = Sealed(disk) /\ preflightIssues(disk) # {}
        <4>1. \A t \in Steps : disk.status[t] = "rollback_failed" => disk'.status[t] = "rollback_failed"
          BY <1>r, <3>4 DEF Sealed, RecordInv, RunRecord
        <4>2. pc \in Applying => disk'.status[step] = "rollback_failed"
          BY <1>r, <3>1, <3>2, <3>4, SealedMeans DEF PlaceInv, SyncInv, Forward
        <4> QED  BY <1>r, <2>1, <4>1, <4>2 DEF PlaceInv, Exposed
      <3> QED  BY <2>1, <3>3, <3>4
    <2> QED  BY <1>q, <2>1, <2>2
  <1>9. CASE Outside
    <2>0. UNCHANGED <<disk, mem, pc, step>>
      BY <1>9 DEF Outside, Land, Refuse, ForeignCreate
    <2>1. \A t \in Steps : Exposed(t)' => Exposed(t)
      BY <1>r, <1>9 DEF Outside, Land, Refuse, ForeignCreate, Exposed, ExposedIn
    <2> QED  BY <1>r, <2>0, <2>1 DEF PlaceInv
  <1> QED  BY <1>1, <1>2, <1>3, <1>4, <1>5, <1>6, <1>7, <1>8, <1>9, Shapes DEF Commits

LEMMA ListedStep ==
    ASSUME TypeInv, ColdInv, SyncInv, MeaningInv, ListedInv, [Next]_vars
    PROVE  ListedInv'
  <1> USE DEF store, driver, world
  <1>r. RecordInv(disk) /\ RecordInv(mem) /\ step \in Steps
    BY DEF TypeInv, TypeOK
  <1>1. CASE UNCHANGED <<disk, inv>>
    BY <1>1 DEF ListedInv, residualResourceRecords, rollbackCandidate
  <1>2. CASE Saves
    <2>1. isActive(mem.state) /\ disk' = mem'
      BY <1>2, SavesBoth DEF SyncInv
    <2>2. mem'.state \in {"running", "rolling_back", "interrupted"} \/ mem'.fin
      BY <1>r, <1>2, <2>1 DEF Saves, TickSucceed, TickIntent, TickDone, TickFail, TickAuth, UndoFinish,
             UndoDone, UndoFails, InterruptSave, FatalSave, Save, RecordInv, RunRecord, isActive
    <2> QED  BY <2>1, <2>2 DEF ListedInv
  <1>3. CASE Executor
    <2>1. CASE disk' = disk
      BY <1>1, <1>3, <2>1, ExecutorMoves
    <2>2. CASE disk' # disk
      <3>1. disk' = mem' /\ mem.state = "running"
        BY <1>3, <2>2, ExecutorMoves DEF SyncInv, Live, Writing
      <3>2. mem'.state = "running"
        BY <1>3, <1>r, <3>1, ExecutorMoves DEF RecordInv, RunRecord
      <3> QED  BY <3>1, <3>2 DEF ListedInv
    <2> QED  BY <2>1, <2>2
  <1>4. CASE Commits
    <2>a. UNCHANGED store => ListedInv'
      BY <1>1
    <2>0. ASSUME NEW r, r.state = disk.state, r.status = disk.status, r.image = disk.image,
                 CommitInventory(r)
          PROVE  ListedInv'
      <3>2. inventoryOf(r) = inventoryOf(disk)
        BY <2>0 DEF inventoryOf, residualResourceRecords, rollbackCandidate
      <3>3. CASE disk' = [disk EXCEPT !.fin = FALSE] /\ inv' = inventoryOf(disk)
        <4>1. disk'.state = disk.state /\ disk'.status = disk.status /\ disk'.image = disk.image
          BY <1>r, <3>3 DEF RecordInv, RunRecord
        <4> QED  BY <3>3, <4>1 DEF ListedInv, inventoryOf, residualResourceRecords, rollbackCandidate
      <3> QED  BY <2>a, <2>0, <3>2, <3>3 DEF CommitInventory
    <2>1. CASE Finalize
      BY <2>0, <2>1 DEF Finalize, sameCheckpoint
    <2>2. CASE HandlerSeal
      BY <2>a, <2>0, <2>2 DEF HandlerSeal
    <2> QED  BY <1>4, <2>1, <2>2 DEF Commits
  <1>5. CASE Resume
    <2>1. CASE disk' = Sealed(disk)
      <3>1. disk'.fin
        BY <1>r, <2>1 DEF Sealed, RecordInv, RunRecord
      <3> QED  BY <3>1 DEF ListedInv
    <2>2. CASE disk' = Resumed(disk)
      <3>1. disk.state \in {"interrupted", "rollback_failed", "running", "rolling_back"}
        BY <1>5 DEF Resume, ResumableStates
      <3>2. disk'.state \in {"running", "rolling_back"}
        BY <1>r, <2>2, <3>1 DEF Resumed, RecordInv, RunRecord
      <3> QED  BY <3>2 DEF ListedInv
    <2> QED  BY <1>5, <2>1, <2>2 DEF Resume
  <1>6. CASE Retreats \/ Stays \/ Reloads \/ Turns \/ Outside
    BY <1>1, <1>6 DEF Retreats, Stays, Reloads, Turns, UndoStart, UndoProve, UndoDelete,
                      Outside, Land, Refuse, ForeignCreate
  <1> QED  BY <1>2, <1>3, <1>4, <1>5, <1>6, Shapes

\* The same tries in a record that goes no further forward.
LEMMA TriesKept ==
    ASSUME NEW r, NEW q, NEW busy, NEW top, TriesIn(r, busy, top), q.attempts = r.attempts,
           Forward(q) => Forward(r) /\ q.status = r.status
    PROVE  TriesIn(q, busy, top)
  BY DEF TriesIn

LEMMA TriesStep ==
    ASSUME TypeInv, ColdInv, SyncInv, MeaningInv, TriesInv, [Next]_vars
    PROVE  TriesInv'
  <1> USE DEF store, driver, world, counters
  <1> DEFINE top == MAX_ATTEMPTS + crashes
  <1>r. /\ RecordInv(disk) /\ RecordInv(mem) /\ step \in Steps /\ top \in Nat /\ MAX_ATTEMPTS <= top
        /\ MAX_ATTEMPTS \in Nat \ {0} /\ crashes \in Nat
        /\ disk.attempts \in [Steps -> Nat] /\ mem.attempts \in [Steps -> Nat]
    BY AttemptsAssumption DEF AttemptsAssumption, TypeInv, TypeOK, RecordInv, RunRecord
  <1>1. CASE Retreats
    <2>1. crashes' = crashes \/ crashes' = crashes + 1
      BY <1>1 DEF Retreats
    <2>2. ~Live' /\ Busy' = {} /\ disk' = disk
      BY <1>1 DEF Retreats, Live, Busy, Writing
    <2>3. TriesIn(disk, {}, MAX_ATTEMPTS + crashes')
      <3>1. CASE pc \in Applying
        BY <1>1, <1>r, <3>1 DEF Retreats, TriesInv, TriesIn
      <3>2. CASE pc \notin Applying
        BY <1>r, <2>1, <3>2 DEF TriesInv, TriesIn, Busy
      <3> QED  BY <3>1, <3>2
    <2> QED  BY <2>2, <2>3 DEF TriesInv
  <1>2. CASE Stays
    BY <1>2 DEF Stays, TriesInv, Live, Busy
  <1>3. CASE Reloads
    <2>1. Busy = {} /\ Busy' = {} /\ disk' = disk /\ mem' = disk /\ crashes' = crashes
      BY <1>3 DEF Reloads, Busy, Applying, Sending
    <2> QED  BY <2>1 DEF TriesInv
  <1>4. CASE Saves
    <2>0. /\ Live /\ TriesIn(mem, Busy, top) /\ disk' = mem' /\ crashes' = crashes
      BY <1>4, SavesBoth DEF TriesInv, world
    <2> SUFFICES TriesIn(mem', Busy', top)
      BY <2>0 DEF TriesInv
    <2>1. CASE TickIntent
      <3>1. PICK s \in Steps :
               /\ FirstOpen(mem, s) /\ step' = s
               /\ mem' = [mem EXCEPT !.status[s] = "running", !.attempts[s] = @ + 1]
        BY <2>1 DEF TickIntent, Save
      <3>2. Busy = {} /\ Busy' = {s} /\ mem.state = "running" /\ mem.status[s] # "done"
        BY <2>1, <3>1 DEF TickIntent, Goto, Busy, Applying, Sending, FirstOpen
      <3>3. /\ mem'.attempts[s] = mem.attempts[s] + 1 /\ mem'.state = "running"
            /\ \A t \in Steps \ {s} : mem'.attempts[t] = mem.attempts[t] /\ mem'.status[t] = mem.status[t]
        BY <1>r, <3>1, <3>2 DEF RecordInv, RunRecord
      <3>4. mem.attempts[s] < top
        BY <2>0, <3>2 DEF TriesIn, Forward
      <3> QED  BY <1>r, <2>0, <3>2, <3>3, <3>4 DEF TriesIn, Forward
    <2>2. CASE TickDone \/ TickFail \/ TickAuth
      <3>0. Busy = {step} /\ Busy' = {} /\ mem.state = "running"
        BY <2>0, <2>2 DEF TickDone, TickFail, TickAuth, Goto, Busy, SyncInv, Applying, Sending
      <3>1. CASE TickDone
        <4>1. /\ mem'.attempts = mem.attempts /\ mem'.status[step] = "done"
              /\ \A t \in Steps \ {step} : mem'.status[t] = mem.status[t]
          BY <1>r, <3>1 DEF TickDone, Save, RecordInv, RunRecord
        <4> QED  BY <2>0, <3>0, <4>1 DEF TriesIn, Forward
      <3>2. CASE TickFail
        <4>1. /\ mem'.attempts = mem.attempts
              /\ \A t \in Steps \ {step} : mem'.status[t] = mem.status[t]
              /\ mem'.state = "rolling_back" \/ mem.attempts[step] < MAX_ATTEMPTS
          BY <1>r, <3>2 DEF TickFail, Save, RecordInv, RunRecord
        <4> QED  BY <1>r, <2>0, <3>0, <4>1 DEF TriesIn, Forward
      <3>3. CASE TickAuth
        <4>1. /\ mem'.attempts[step] = IF mem.attempts[step] = 0 THEN 0 ELSE mem.attempts[step] - 1
              /\ \A t \in Steps \ {step} : mem'.attempts[t] = mem.attempts[t] /\ mem'.status[t] = mem.status[t]
          BY <1>r, <3>3 DEF TickAuth, Save, RecordInv, RunRecord
        <4>2. mem'.attempts[step] < top
          BY <1>r, <2>0, <4>1 DEF TriesIn
        <4> QED  BY <1>r, <2>0, <3>0, <4>1, <4>2 DEF TriesIn, Forward
      <3> QED  BY <2>2, <3>1, <3>2, <3>3
    <2>3. CASE TickSucceed
      <3>1. mem'.attempts = mem.attempts /\ \A t \in Steps : mem'.status[t] = "done"
        BY <1>r, <2>3 DEF TickSucceed, Save, RecordInv, RunRecord
      <3> QED  BY <2>0, <3>1 DEF TriesIn
    <2>4. CASE UndoFinish \/ UndoDone \/ UndoFails \/ InterruptSave \/ FatalSave
      <3>1. Busy = {} /\ Busy' = {}
        BY <2>4 DEF UndoFinish, UndoDone, UndoFails, InterruptSave, FatalSave, Goto, Busy, Applying, Sending
      <3>2. pc \in Undoing => mem.state = "rolling_back"
        BY <2>0 DEF SyncInv
      <3>3. CASE UndoFinish \/ UndoDone \/ UndoFails
        <4>1. mem'.attempts = mem.attempts /\ ~Forward(mem')
          BY <1>r, <3>2, <3>3 DEF UndoFinish, UndoDone, UndoFails, Undoing, Save, Forward, RecordInv, RunRecord
        <4> QED  BY <2>0, <3>1, <4>1, TriesKept
      <3>4. CASE InterruptSave
        <4>1. mem'.attempts = mem.attempts /\ mem'.status = mem.status /\ mem'.from = mem.state /\ mem'.state = "interrupted"
          BY <1>r, <3>4 DEF InterruptSave, Save, RecordInv, RunRecord
        <4> QED  BY <2>0, <3>1, <4>1, TriesKept DEF Forward
      <3>5. CASE FatalSave
        <4>1. mem'.attempts = mem.attempts /\ mem'.state \in {"rolling_back", "rollback_failed"}
          BY <1>r, <3>5 DEF FatalSave, Save, RecordInv, RunRecord
        <4> QED  BY <2>0, <3>1, <4>1, TriesKept DEF Forward
      <3> QED  BY <2>4, <3>3, <3>4, <3>5
    <2> QED  BY <1>4, <2>1, <2>2, <2>3, <2>4 DEF Saves
  <1>5. CASE Executor
    <2>1. Live /\ Busy' = Busy /\ crashes' = crashes /\ (disk' = disk \/ disk' = mem')
      BY <1>5, ExecutorMoves DEF Live, Writing, Busy
    <2>2. mem'.attempts = mem.attempts /\ mem'.status = mem.status /\ mem'.state = mem.state /\ mem'.from = mem.from
      BY <1>5, <1>r, ExecutorMoves DEF RecordInv, RunRecord
    <2>3. TriesIn(mem', Busy, top)
      BY <2>1, <2>2, TriesKept DEF TriesInv, Forward
    <2> QED  BY <2>1, <2>3 DEF TriesInv
  <1>6. CASE Turns
    BY <1>6 DEF Turns, UndoStart, UndoProve, UndoDelete, Goto, TriesInv, Live, Busy, Writing, Applying,
                Undoing, Sending, SyncInv, isActive
  <1>7. CASE Commits
    <2>1. /\ Live' => Live /\ mem' = mem
          /\ Busy' = Busy /\ crashes' = crashes
      BY <1>7 DEF Commits, Finalize, HandlerSeal, Goto, Live, Busy, Writing, Applying, Undoing, Sending
    <2>2. disk'.attempts = disk.attempts /\ disk'.status = disk.status /\ disk'.state = disk.state /\ disk'.from = disk.from
      BY <1>7, <1>r DEF Commits, Finalize, HandlerSeal, CommitInventory, RecordInv, RunRecord
    <2>3. TriesIn(disk', Busy, top)
      BY <2>2, TriesKept DEF TriesInv, Forward
    <2> QED  BY <2>1, <2>3 DEF TriesInv
  <1>8. CASE Resume
    <2>1. /\ UNCHANGED <<mem, pc, step, crashes>> /\ disk.state \in ResumableStates
          /\ disk' = Resumed(disk) \/ disk' = Sealed(disk)
      BY <1>8 DEF Resume
    <2>2. disk'.attempts = disk.attempts /\ (Forward(disk') => Forward(disk) /\ disk'.status = disk.status)
      BY <2>1, <1>r DEF Resumed, Sealed, ResumableStates, Forward, RecordInv, RunRecord
    <2>3. TriesIn(disk', Busy, top)
      BY <2>2, TriesKept DEF TriesInv
    <2> QED  BY <2>1, <2>3 DEF TriesInv, Live, Busy
  <1>9. CASE Outside
    BY <1>9 DEF Outside, Land, Refuse, ForeignCreate, TriesInv, Live, Busy
  <1> QED  BY <1>1, <1>2, <1>3, <1>4, <1>5, <1>6, <1>7, <1>8, <1>9, Shapes

----------------------------------------------------------------------------

\* All that is known of a reachable state.
RunInv ==
    /\ IntentInv /\ ColdInv /\ DeleteProven
    /\ SyncInv /\ WorldInv /\ MeaningInv /\ PlaceInv /\ ListedInv /\ TriesInv

LEMMA RunInit == Init => RunInv
  <1> SUFFICES ASSUME Init PROVE RunInv
    OBVIOUS
  <1>1. IntentInv /\ ColdInv /\ DeleteProven
    BY IntentInit DEF Init, ColdInv, DeleteProven
  <1>2. ~Live /\ Busy = {}
    BY DEF Init, Live, Busy, Writing, Applying, Undoing, Sending
  <1>3. /\ disk.state = "running" /\ ~disk.fin /\ disk.from = "none"
        /\ \A s \in Steps : /\ disk.status[s] = "pending" /\ disk.image[s] = "none" /\ disk.attempts[s] = 0
                            /\ cloud[s] = "absent" /\ sent[s] = "no"
    BY DEF Init, PlannedRun
  <1>4. WorldInv /\ MeaningInv /\ SyncInv /\ ListedInv
    BY <1>2, <1>3 DEF WorldInv, MeaningInv, RecordIn, Forward, isActive, Exposed, ExposedIn, SyncInv, ListedInv
  <1>5. PlaceInv
    BY DEF Init, PlaceInv, Applying, Undoing, Sending
  <1>6. TriesInv
    BY <1>2, <1>3, AttemptsAssumption DEF Init, TriesInv, TriesIn, AttemptsAssumption
  <1> QED  BY <1>1, <1>4, <1>5, <1>6 DEF RunInv

LEMMA RunStep == RunInv /\ [Next]_vars => RunInv'
  <1> SUFFICES ASSUME RunInv, [Next]_vars PROVE RunInv'
    OBVIOUS
  <1> USE DEF RunInv
  <1>1. IntentInv' /\ ColdInv'
    BY IntentStep, ColdStep
  <1>2. TypeInv /\ TypeInv'
    BY <1>1 DEF IntentInv
  <1>3. DeleteProven'
    BY <1>2, ProvenStep DEF ProvenInv, TypeInv
  <1>4. SyncInv' /\ WorldInv' /\ MeaningInv' /\ PlaceInv' /\ ListedInv' /\ TriesInv'
    BY <1>2, SyncStep, WorldStep, MeaningStep, PlaceStep, ListedStep, TriesStep
  <1> QED  BY <1>1, <1>3, <1>4

LEMMA RunAlways == Spec => []RunInv
  BY RunInit, RunStep, PTL DEF Spec

\* Whatever a run that is over has created, or may still create by a request that
\* was accepted and not answered, is in the ownership inventory (finalizeRunInventory):
\* for every plan, crash, retry and Resume, those the page does not offer included.
THEOREM NothingOrphaned == Spec => []NoOrphan
  <1>1. RunInv => NoOrphan
    <2> SUFFICES ASSUME RunInv, Settled, disk.state # "interrupted", NEW s \in Steps, Exposed(s)
                 PROVE  s \in inv
      BY DEF NoOrphan, Exposed, ExposedIn
    <2>1. RecordIn(disk, cloud, sent) /\ ListedInv /\ disk.image[s] # "none" /\ disk.state \in RunState
      BY DEF RunInv, MeaningInv, WorldInv, IntentInv, TypeInv, TypeOK, RunRecord
    <2>2. disk.state \in {"succeeded", "rolled_back", "rollback_failed", "rollback_unavailable"} /\ ~disk.fin
      BY <2>1 DEF Settled, RunState, isActive
    <2>3. CASE disk.state = "succeeded"
      BY <2>1, <2>2, <2>3 DEF ListedInv
    <2>4. CASE disk.state = "rolled_back"
      BY <2>1, <2>4 DEF RecordIn, Exposed
    <2>5. CASE disk.state \in {"rollback_failed", "rollback_unavailable"}
      <3>1. disk.status[s] \in {"done", "failed", "rollback_failed"}
        BY <2>1, <2>5 DEF RecordIn, Forward, Exposed
      <3>2. s \in residualResourceRecords(disk)
        BY <2>1, <2>5, <3>1 DEF residualResourceRecords, rollbackCandidate
      <3> QED  BY <2>1, <2>2, <2>5, <3>2 DEF ListedInv
    <2> QED  BY <2>2, <2>3, <2>4, <2>5
  <1> QED  BY <1>1, RunAlways, PTL

\* A run reports success only when each of its objects exists and its record proves
\* it: no retry, replay or late answer lets tick count a step that did nothing.
THEOREM SuccessIsReal == Spec => []SucceededMeansPresent
  <1>1. RunInv => SucceededMeansPresent
    BY DEF RunInv, MeaningInv, WorldInv, RecordIn, Forward, SucceededMeansPresent
  <1> QED  BY <1>1, RunAlways, PTL

\* The limit on the attempts of a step, and the save that fails a step for good and
\* turns its run back at once.
THEOREM FailuresAreHandled == Spec => []FailuresHandled
  <1>1. RunInv => FailuresHandled
    <2> SUFFICES ASSUME RunInv PROVE FailuresHandled
      OBVIOUS
    <2>1. AttemptsBounded
      BY DEF RunInv, TriesInv, TriesIn, AttemptsBounded
    <2>2. FailureStartsRollback
      BY DEF RunInv, MeaningInv, RecordIn, Forward, FailureStartsRollback
    <2> QED  BY <2>1, <2>2 DEF FailuresHandled
  <1> QED  BY <1>1, RunAlways, PTL

\* rollbackStep takes the steps from the last to the first: an object goes only
\* when every later one is gone or recorded as one that could not be removed.
THEOREM RollsBackInReverse == Spec => ReverseOrder
  <1>1. RunInv /\ [Next]_vars =>
           [\A s \in Steps : cloud[s] = "ours" /\ cloud'[s] = "absent" =>
               \A t \in Steps : t > s /\ cloud[t] = "ours" => disk.status[t] = "rollback_failed"]_vars
    <2> SUFFICES ASSUME RunInv, [Next]_vars, NEW s \in Steps, cloud[s] = "ours", cloud'[s] = "absent",
                        NEW t \in Steps, t > s, cloud[t] = "ours"
                 PROVE  disk.status[t] = "rollback_failed"
      OBVIOUS
    <2>1. TypeOK
      BY DEF RunInv, IntentInv, TypeInv
    <2>2. UndoDelete
      BY <2>1, CloudStep
    <2>3. s = step
      BY <2>1, <2>2 DEF UndoDelete, TypeOK
    <2> QED  BY <2>2, <2>3 DEF UndoDelete, RunInv, PlaceInv, Undoing, Exposed, ExposedIn
  <1> QED  BY <1>1, RunAlways, PTL DEF Spec, ReverseOrder

\* The provider is called only while the record holds the slot (runHasActiveWork),
\* or after a Resume that sealed the run under its driver: nothing else that a
\* handler, an alarm or a new worker does takes the slot away in mid-call.
THEOREM SlotIsHeld == Spec => []SlotHeldDuringCalls
  <1>1. RunInv => SlotHeldDuringCalls
    BY DEF RunInv, SyncInv, Live, Writing, Applying, Undoing, Sending, SlotHeldDuringCalls, Calling
  <1> QED  BY <1>1, RunAlways, PTL

\* Success and complete rollback are never taken back, and a sealed run only by a
\* driver that had loaded it before it was sealed: whoever else writes has the
\* record as it is.
THEOREM OutcomeStays == Spec => OutcomeIsFinal
  <1>1. RunInv /\ [Next]_vars =>
           [disk.state \in {"succeeded", "rolled_back", "rollback_unavailable"} =>
               \/ disk'.state = disk.state
               \/ disk.state = "rollback_unavailable" /\ pc # "idle" /\ isActive(mem.state)]_vars
    <2> SUFFICES ASSUME RunInv, [Next]_vars, disk.state \in {"succeeded", "rolled_back", "rollback_unavailable"},
                        ~(disk.state = "rollback_unavailable" /\ pc # "idle" /\ isActive(mem.state))
                 PROVE  disk'.state = disk.state
      OBVIOUS
    <2>0. ~Live /\ ColdInv /\ TypeInv /\ RecordInv(disk)
      BY DEF RunInv, SyncInv, isActive, IntentInv, TypeInv, Live, Writing, Applying, Undoing, Sending
    <2>1. ~Saves /\ ~Executor
      BY <2>0, SavesBoth, ExecutorMoves DEF Live, Writing
    <2>2. ~Resume
      BY DEF Resume, ResumableStates
    <2>3. CASE Commits
      BY <2>0, <2>3 DEF Commits, Finalize, HandlerSeal, CommitInventory, store, RecordInv, RunRecord
    <2>4. CASE Retreats \/ Stays \/ Reloads \/ Turns \/ Outside
      BY <2>4 DEF Retreats, Stays, Reloads, Turns, UndoStart, UndoProve, UndoDelete,
                  Outside, Land, Refuse, ForeignCreate, store
    <2> QED  BY <2>0, <2>1, <2>2, <2>3, <2>4, Shapes
  <1> QED  BY <1>1, RunAlways, PTL DEF Spec, OutcomeIsFinal

=============================================================================
