----------------------------- MODULE Teardown ------------------------------
(* Dismantling a finished deployment: the teardown records of one source     *)
(* run, the message handlers that drive them in background/router.ts, their  *)
(* transactions in storage/repository.ts, and the reconciliation by which a  *)
(* new worker, or a restored deployer identity, settles what was left over.  *)
EXTENDS Naturals

CONSTANTS
    Resources,      \* rows of the source run's ownership inventory
    Retained,       \* rows that a teardown keeps: reused or local artifacts
    Rank,           \* where the store returns a row when the inventory is read
    Needs,          \* <<a, b>>: the provider keeps b while a exists
    Handlers,       \* message handlers of the worker
    MaxRequests,    \* bound: teardown and resume requests
    MaxCrashes,     \* bound: worker deaths while a handler is at work
    MaxRestores     \* bound: bootstraps that restore the deployer

ASSUME RetainedAssumption == Retained \subseteq Resources
ASSUME RankAssumption == Rank \in [Resources -> Nat]
ASSUME NeedsAssumption == Needs \subseteq Resources \X Resources
ASSUME ResourcesAssumption == Resources # {}
ASSUME BoundsAssumption == /\ MaxRequests \in Nat \ {0}
                           /\ MaxCrashes \in Nat
                           /\ MaxRestores \in Nat

VARIABLES
    rec,        \* the teardown records, in the order they were started
    inv,        \* resources that have a row in the inventory
    run,        \* the source run, as settled or "deleted"
    other,      \* does another run or CEP operation hold the lifecycle slot?
    cloud,      \* resources that exist at the provider
    pc,         \* where each handler stands
    mode,       \* which driver it runs: see "start" and "resume"
    job,        \* the teardown it drives
    todo,       \* instructions it has not reached yet
    cur,        \* the resource it works on
    copy,       \* its copy of the record
    cold,       \* has this worker reconciled durable state yet?
    requests, crashes, restores

durable == <<rec, inv, run>>
handler == <<pc, mode, job, todo, cur, copy>>
counters == <<requests, crashes, restores>>
vars == <<rec, inv, run, other, cloud, pc, mode, job, todo, cur, copy, cold,
          requests, crashes, restores>>

Ids == 1..MaxRequests
Status == {"none", "running", "interrupted", "failed", "succeeded"}
OpStatus == {"out", "pending", "running", "failed", "succeeded"}
Record == [status : Status, ops : [Resources -> OpStatus]]
PCs == {"idle", "admit", "next", "mark", "call", "commit", "failed", "auth", "put"}

NoRecord == [status |-> "none", ops |-> [r \in Resources |-> "out"]]

\* The immutable instructions of a record: everything it has an operation for.
instructions(r) == {k \in Resources : r.ops[k] # "out"}

TypeOK ==
    /\ rec \in [Ids -> Record]
    /\ inv \subseteq Resources /\ cloud \subseteq Resources
    /\ run \in {"settled", "deleted"}
    /\ other \in BOOLEAN /\ cold \in BOOLEAN
    /\ pc \in [Handlers -> PCs]
    /\ mode \in [Handlers -> {"start", "resume"}]
    /\ job \in [Handlers -> Ids]
    /\ todo \in [Handlers -> SUBSET Resources]
    /\ cur \in [Handlers -> Resources]
    /\ copy \in [Handlers -> Record]
    /\ requests \in Nat /\ crashes \in Nat /\ restores \in Nat

----------------------------------------------------------------------------
\* teardownHasActiveWork, and the transactions' test that the slot is free.
HasActiveWork(t) == rec[t].status = "running"

SlotFree(t) == ~other /\ \A u \in Ids \ {t} : ~HasActiveWork(u)

\* The snapshot is executed against the order in which the rows were read.
First(r, S) == r \in S /\ \A q \in S : Rank[q] <= Rank[r]

Goto(h, p) == pc' = [pc EXCEPT ![h] = p]

SetCopy(h, r) == copy' = [copy EXCEPT ![h] = r]

Put(h, r) == rec' = [rec EXCEPT ![job[h]] = r]

\* A handler that returns or throws leaves nothing in memory.
Return(h) == Goto(h, "idle") /\ SetCopy(h, NoRecord) /\ todo' = [todo EXCEPT ![h] = {}]

----------------------------------------------------------------------------
(* POST /runs/{}/teardowns: read the inventory, then one transaction.        *)

\* Whatever is retained is filtered out; with nothing left the request is refused.
StartRead(h) ==
    /\ cold /\ pc[h] = "idle" /\ requests < MaxRequests
    /\ inv \ Retained # {}
    /\ requests' = requests + 1
    /\ todo' = [todo EXCEPT ![h] = inv \ Retained]
    /\ mode' = [mode EXCEPT ![h] = "start"]
    /\ Goto(h, "admit")
    /\ UNCHANGED <<durable, other, cloud, job, cur, copy, cold, crashes, restores>>

\* Bug: a state that nobody looks for.
PlannedMutant(S) == [status |-> "pending",
                     ops |-> [r \in Resources |-> IF r \in S THEN "pending" ELSE "out"]]

Planned(S) == [status |-> "running",
               ops |-> [r \in Resources |-> IF r \in S THEN "pending" ELSE "out"]]

Fresh(t) == rec[t].status = "none" /\ \A u \in Ids : u < t => rec[u].status # "none"

\* startTeardown: the slot is taken and the record added in one transaction.
StartAdmit(h) ==
    /\ pc[h] = "admit"
    /\ \/ \E t \in Ids :
             /\ Fresh(t) /\ SlotFree(t)
             /\ rec' = [rec EXCEPT ![t] = Planned(todo[h])]
             /\ job' = [job EXCEPT ![h] = t]
             /\ SetCopy(h, Planned(todo[h]))
             /\ Goto(h, "next")
             /\ UNCHANGED todo
       \/ (other \/ \E t \in Ids : HasActiveWork(t)) /\ Return(h) /\ UNCHANGED <<rec, job>>
    /\ UNCHANGED <<inv, run, other, cloud, mode, cur, cold, counters>>

\* The first driver saves its whole copy, and never looks at the stored status.
StartMark(h) ==
    /\ pc[h] = "next" /\ mode[h] = "start"
    /\ \E r \in todo[h] :
          LET running == [copy[h] EXCEPT !.ops[r] = "running"] IN
          /\ First(r, todo[h])
          /\ cur' = [cur EXCEPT ![h] = r]
          /\ todo' = [todo EXCEPT ![h] = @ \ {r}]
          /\ SetCopy(h, running) /\ Put(h, running)
    /\ Goto(h, "call")
    /\ UNCHANGED <<inv, run, other, cloud, mode, job, cold, counters>>

\* Bug: a failed operation does not end the loop.
StartFailsMutant(h) ==
    /\ pc[h] \in {"failed", "auth"} /\ mode[h] = "start"
    /\ Put(h, [copy[h] EXCEPT !.ops[cur[h]] = "failed"])
    /\ SetCopy(h, [copy[h] EXCEPT !.ops[cur[h]] = "failed"])
    /\ Goto(h, "next")
    /\ UNCHANGED <<inv, run, other, cloud, mode, job, todo, cur, cold, counters>>

\* Any error, a lost authentication included, fails the whole teardown.
StartFails(h) ==
    /\ pc[h] \in {"failed", "auth"} /\ mode[h] = "start"
    /\ Put(h, [copy[h] EXCEPT !.ops[cur[h]] = "failed", !.status = "failed"])
    /\ Return(h)
    /\ UNCHANGED <<inv, run, other, cloud, mode, job, cur, cold, counters>>

----------------------------------------------------------------------------
(* POST /teardowns/{}/resume: one transaction, then executeDurableTeardown.  *)

\* Bug: whatever did not succeed may be resumed.
ResumableMutant == {"interrupted", "failed"}

Resumable == {"interrupted"}

Resume(h, t) ==
    /\ cold /\ pc[h] = "idle" /\ requests < MaxRequests
    /\ rec[t].status \in Resumable
    /\ SlotFree(t)
    /\ requests' = requests + 1
    /\ rec' = [rec EXCEPT ![t].status = "running"]
    /\ job' = [job EXCEPT ![h] = t]
    /\ mode' = [mode EXCEPT ![h] = "resume"]
    /\ todo' = [todo EXCEPT ![h] = instructions(rec[t])]
    /\ Goto(h, "next")
    /\ UNCHANGED <<inv, run, other, cloud, cur, copy, cold, crashes, restores>>

\* The resuming driver reads the record again before every operation and
\* goes on only while it is running.
ResumeRead(h) ==
    /\ pc[h] = "next" /\ mode[h] = "resume"
    /\ \E r \in todo[h] :
          /\ First(r, todo[h])
          /\ \/ ~HasActiveWork(job[h]) /\ Return(h) /\ UNCHANGED cur
             \/ /\ HasActiveWork(job[h])
                /\ todo' = [todo EXCEPT ![h] = @ \ {r}]
                /\ IF rec[job[h]].ops[r] = "succeeded" THEN UNCHANGED <<pc, cur, copy>>
                   ELSE /\ cur' = [cur EXCEPT ![h] = r]
                        /\ SetCopy(h, [rec[job[h]] EXCEPT !.ops[r] = "running"])
                        /\ Goto(h, "mark")
    /\ UNCHANGED <<durable, other, cloud, mode, job, cold, counters>>

\* On an error it reads the record once more; a lost authentication interrupts
\* the teardown, anything else fails it.
ResumeFails(h) ==
    /\ mode[h] = "resume"
    /\ \/ pc[h] = "auth" /\ SetCopy(h, [rec[job[h]] EXCEPT !.status = "interrupted"])
       \/ /\ pc[h] = "failed"
          /\ SetCopy(h, [rec[job[h]] EXCEPT !.ops[cur[h]] = "failed", !.status = "failed"])
    /\ Goto(h, "put")
    /\ UNCHANGED <<durable, other, cloud, mode, job, todo, cur, cold, counters>>

\* updateTeardownProgress puts what it is given, whatever the stored status is.
Write(h) ==
    /\ pc[h] \in {"mark", "put"}
    /\ Put(h, copy[h])
    /\ \/ pc[h] = "put" /\ Return(h)
       \/ pc[h] = "mark" /\ Goto(h, "call") /\ SetCopy(h, NoRecord) /\ UNCHANGED todo
    /\ UNCHANGED <<inv, run, other, cloud, mode, job, cur, cold, counters>>

----------------------------------------------------------------------------
(* What both drivers do for each instruction.                                *)

Free(r) == \A q \in cloud : <<q, r>> \notin Needs

\* executor.destroy: an absent object counts as deleted.
Destroy(h) ==
    /\ pc[h] = "call"
    /\ Free(cur[h]) \/ cur[h] \notin cloud
    /\ cloud' = cloud \ {cur[h]}
    /\ Goto(h, "commit")
    /\ UNCHANGED <<durable, other, mode, job, todo, cur, copy, cold, counters>>

\* Bug: "skipped" taken for done.
DestroyFailsMutant(h) ==
    /\ pc[h] = "call"
    /\ Goto(h, "commit")
    /\ UNCHANGED <<durable, other, cloud, mode, job, todo, cur, copy, cold, counters>>

\* It may fail before or after the provider has obeyed.
DestroyFails(h) ==
    /\ pc[h] = "call"
    /\ cloud' = cloud \/ (Free(cur[h]) /\ cloud' = cloud \ {cur[h]})
    /\ Goto(h, "failed") \/ Goto(h, "auth")
    /\ UNCHANGED <<durable, other, mode, job, todo, cur, copy, cold, counters>>

allCompleted(r) == \A k \in instructions(r) : r.ops[k] = "succeeded"

\* commitTeardownResourceSuccess: operation, row and, with the last one, the
\* teardown and its source run in one transaction; a no-op once it was done.
Commit(h) ==
    LET t == job[h]
        r == cur[h]
        done == [rec[t] EXCEPT !.ops[r] = "succeeded"]
    IN
    /\ pc[h] = "commit"
    /\ \/ rec[t].ops[r] = "succeeded" /\ r \notin inv /\ UNCHANGED durable
       \/ /\ rec[t].ops[r] = "running"
          /\ inv' = inv \ {r}
          /\ \/ ~allCompleted(done) /\ rec' = [rec EXCEPT ![t] = done] /\ UNCHANGED run
             \/ /\ allCompleted(done)
                /\ instructions(done) \intersect inv' = {}
                /\ rec' = [rec EXCEPT ![t] = [done EXCEPT !.status = "succeeded"]]
                /\ run' = "deleted"
    /\ IF mode[h] = "resume" THEN UNCHANGED copy
       ELSE SetCopy(h, [copy[h] EXCEPT !.ops[r] = "succeeded", !.status = rec'[t].status])
    /\ Goto(h, "next")
    /\ UNCHANGED <<other, cloud, mode, job, todo, cur, cold, counters>>

\* The transaction aborts when the record is not as its driver left it.
CommitRefused(h) ==
    LET r == cur[h]
        done == [rec[job[h]] EXCEPT !.ops[r] = "succeeded"]
    IN
    /\ pc[h] = "commit"
    /\ \/ rec[job[h]].ops[r] \notin {"running", "succeeded"}
       \/ rec[job[h]].ops[r] = "succeeded" /\ r \in inv
       \/ /\ rec[job[h]].ops[r] = "running" /\ allCompleted(done)
          /\ instructions(done) \intersect (inv \ {r}) # {}
    /\ Goto(h, "failed")
    /\ UNCHANGED <<durable, other, cloud, mode, job, todo, cur, copy, cold, counters>>

\* After its last instruction a driver only reports.
Finish(h) ==
    /\ pc[h] = "next" /\ todo[h] = {}
    /\ Return(h)
    /\ UNCHANGED <<durable, other, cloud, mode, job, cur, cold, counters>>

----------------------------------------------------------------------------
(* The rest of the worker.                                                   *)

\* reconcileInterruptedTeardowns, for one record: a missing row proves that its
\* operation was done; a teardown with no row left is finished.
Recovered(r) ==
    [r EXCEPT !.ops = [k \in Resources |-> IF k \in instructions(r) \ inv THEN "succeeded"
                                           ELSE r.ops[k]]]

\* Bug: one missing row taken for all.
allReleasedMutant(r) == \E k \in instructions(r) : k \notin inv

allReleased(r) == instructions(r) \intersect inv = {}

Reconcile ==
    /\ rec' = [t \in Ids |->
                 IF ~HasActiveWork(t) THEN rec[t]
                 ELSE [Recovered(rec[t]) EXCEPT
                         !.status = IF allReleased(rec[t]) THEN "succeeded" ELSE "interrupted"]]
    /\ run' = IF \E t \in Ids : HasActiveWork(t) /\ allReleased(rec[t]) THEN "deleted" ELSE run
    /\ UNCHANGED inv

\* Bug: a new worker leaves the records as they are.
ColdStartMutant ==
    /\ ~cold
    /\ cold' = TRUE
    /\ UNCHANGED <<durable, other, cloud, handler, counters>>

ColdStart ==
    /\ ~cold
    /\ cold' = TRUE
    /\ Reconcile
    /\ UNCHANGED <<other, cloud, handler, counters>>

\* rememberDeployer runs the same reconciliation in the middle of a worker's
\* life, whatever its other handlers are doing.
RestoreDeployer ==
    /\ cold /\ restores < MaxRestores
    /\ restores' = restores + 1
    /\ Reconcile
    /\ UNCHANGED <<other, cloud, handler, cold, requests, crashes>>

\* Bug: the consumption of an approval overlooks teardowns.
OtherStartsMutant ==
    /\ cold /\ ~other
    /\ other' = TRUE
    /\ UNCHANGED <<durable, cloud, handler, cold, counters>>

\* Another Apply, Resume or CEP operation takes the slot, and gives it back.
OtherStarts ==
    /\ cold /\ ~other
    /\ \A t \in Ids : ~HasActiveWork(t)
    /\ other' = TRUE
    /\ UNCHANGED <<durable, cloud, handler, cold, counters>>

OtherEnds == other /\ other' = FALSE /\ UNCHANGED <<durable, cloud, handler, cold, counters>>

\* The browser ends the worker.
Die ==
    /\ pc' = [h \in Handlers |-> "idle"]
    /\ copy' = [h \in Handlers |-> NoRecord]
    /\ todo' = [h \in Handlers |-> {}]
    /\ cold' = FALSE
    /\ UNCHANGED <<durable, other, cloud, mode, job, cur, requests, restores>>

Idle == \A h \in Handlers : pc[h] = "idle"

Crash == ~Idle /\ crashes < MaxCrashes /\ crashes' = crashes + 1 /\ Die

IdleKill == cold /\ Idle /\ Die /\ UNCHANGED crashes

----------------------------------------------------------------------------

\* The run was finalized: each resource has its row. No teardown exists yet.
Init ==
    /\ rec = [t \in Ids |-> NoRecord]
    /\ inv = Resources /\ cloud = Resources /\ run = "settled"
    /\ other = FALSE /\ cold = TRUE
    /\ pc = [h \in Handlers |-> "idle"]
    /\ mode = [h \in Handlers |-> "start"]
    /\ job = [h \in Handlers |-> 1]
    /\ todo = [h \in Handlers |-> {}]
    /\ cur = [h \in Handlers |-> CHOOSE r \in Resources : TRUE]
    /\ copy = [h \in Handlers |-> NoRecord]
    /\ requests = 0 /\ crashes = 0 /\ restores = 0

Driver(h) ==
    \/ StartAdmit(h) \/ StartMark(h) \/ StartFails(h)
    \/ ResumeRead(h) \/ ResumeFails(h) \/ Write(h)
    \/ Destroy(h) \/ DestroyFails(h) \/ Commit(h) \/ CommitRefused(h) \/ Finish(h)

Next ==
    \/ \E h \in Handlers : StartRead(h) \/ Driver(h) \/ \E t \in Ids : Resume(h, t)
    \/ ColdStart \/ RestoreDeployer \/ OtherStarts \/ OtherEnds \/ Crash \/ IdleKill

Spec == Init /\ [][Next]_vars

----------------------------------------------------------------------------
(* What a teardown must guarantee.                                           *)

Calling(h) == pc[h] \in {"call", "commit"}

\* A driver that calls the provider holds the lifecycle slot, alone: its record
\* is running, no other work holds the slot and no second driver is calling.
CallerHoldsSlot ==
    \A h \in Handlers : Calling(h) =>
        /\ HasActiveWork(job[h]) /\ SlotFree(job[h])
        /\ \A g \in Handlers : Calling(g) => g = h

\* The slot has one holder, at any time: a teardown or something else.
OneHolder ==
    /\ \A t, u \in Ids : HasActiveWork(t) /\ HasActiveWork(u) => t = u
    /\ other => \A t \in Ids : ~HasActiveWork(t)

\* Both, until a deployer is restored: that interrupts a live teardown.
SlotExclusive == restores = 0 => CallerHoldsSlot /\ OneHolder

\* No row is lost: whatever still exists can be torn down later.
RowUntilGone == cloud \subseteq inv

\* A run is deleted only when everything but the retained rows has gone, and
\* those have stayed.
DeletedMeansReleased == run = "deleted" => inv = Retained /\ cloud = Retained

\* A teardown reports success only when all it was approved for has gone.
SucceededMeansGone ==
    \A t \in Ids : rec[t].status = "succeeded" =>
        instructions(rec[t]) \intersect (inv \union cloud) = {}

\* "In reverse dependency order": no delete is sent for a resource that
\* something else, still there, depends on.
DependencyOrder == \A h \in Handlers : pc[h] = "call" /\ cur[h] \in cloud => Free(cur[h])

\* Whatever the order of the rows, a driver never goes past a resource that has
\* not gone: the first delete that fails, or is refused because something else
\* needs the resource, is the last of its teardown.
NothingSkipped ==
    \A h \in Handlers : pc[h] = "call" =>
        \A q \in instructions(rec[job[h]]) \intersect cloud : Rank[q] <= Rank[cur[h]]

\* A teardown that reported success or failure never reports anything else, as
\* long as no deployer was restored in between (see bootstrap).
OutcomeIsFinal ==
    [][restores = 0 => \A t \in Ids : rec[t].status \in {"succeeded", "failed"} =>
          rec'[t].status = rec[t].status]_vars

\* The teardown keeps the promise of module Release.
Promise == INSTANCE Release
KeepsPromise == Promise!Spec

\* No teardown stays running: it ends, or is interrupted for its operator.
TeardownSettles == \A t \in Ids : HasActiveWork(t) ~> ~HasActiveWork(t)

\* The event loop runs each handler to its end; Chrome stops an idle worker and
\* some later event starts a new one.
FairSpec ==
    /\ Spec
    /\ \A h \in Handlers : WF_vars(Driver(h))
    /\ WF_vars(IdleKill) /\ WF_vars(ColdStart)
=============================================================================
