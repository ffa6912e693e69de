-------------------------- MODULE TeardownProofs ---------------------------
(* Theorems about Teardown, for every inventory, every order of its rows,    *)
(* any number of handlers and every bound.                                   *)
EXTENDS Teardown, TLAPS

LEMMA RecordUpdate ==
    ASSUME NEW r \in Record, NEW k \in Resources, NEW op \in OpStatus, NEW st \in Status
    PROVE  /\ [r EXCEPT !.ops[k] = op] \in Record
           /\ [r EXCEPT !.status = st] \in Record
           /\ [r EXCEPT !.ops[k] = op, !.status = st] \in Record
  BY DEF Record

LEMMA RecordsBuilt ==
    ASSUME NEW S
    PROVE  NoRecord \in Record /\ Planned(S) \in Record
  BY DEF Record, NoRecord, Planned, Status, OpStatus

LEMMA RecoveredRecord ==
    ASSUME NEW r \in Record, NEW st \in Status
    PROVE  [Recovered(r) EXCEPT !.status = st] \in Record
  BY DEF Record, Recovered, OpStatus

LEMMA TypeInit == Init => TypeOK
  <1> SUFFICES ASSUME Init PROVE TypeOK
    OBVIOUS
  <1>1. NoRecord \in Record  BY RecordsBuilt
  <1>2. (CHOOSE r \in Resources : TRUE) \in Resources
    BY ResourcesAssumption DEF ResourcesAssumption
  <1>3. 1 \in Ids  BY BoundsAssumption DEF BoundsAssumption, Ids
  <1> QED  BY <1>1, <1>2, <1>3 DEF Init, TypeOK, PCs

LEMMA TypeStep == TypeOK /\ [Next]_vars => TypeOK'
  <1> SUFFICES ASSUME TypeOK, [Next]_vars PROVE TypeOK'
    OBVIOUS
  <1> USE DEF TypeOK, PCs, durable, handler, counters, Goto, SetCopy, Put, Return
  <1>0. NoRecord \in Record  BY RecordsBuilt
  <1>1. ASSUME NEW h \in Handlers, StartRead(h) PROVE TypeOK'
    BY <1>1 DEF StartRead
  <1>2. ASSUME NEW h \in Handlers, StartAdmit(h) PROVE TypeOK'
    <2>1. Planned(todo[h]) \in Record  BY RecordsBuilt
    <2> QED  BY <1>0, <1>2, <2>1 DEF StartAdmit
  <1>3. ASSUME NEW h \in Handlers, StartMark(h) PROVE TypeOK'
    <2>1. \A r \in Resources : [copy[h] EXCEPT !.ops[r] = "running"] \in Record
      BY RecordUpdate DEF OpStatus, Status
    <2>2. PICK r \in Resources :
             /\ cur' = [cur EXCEPT ![h] = r]
             /\ todo' = [todo EXCEPT ![h] = @ \ {r}]
             /\ copy' = [copy EXCEPT ![h] = [copy[h] EXCEPT !.ops[r] = "running"]]
             /\ rec' = [rec EXCEPT ![job[h]] = [copy[h] EXCEPT !.ops[r] = "running"]]
      BY <1>3 DEF StartMark
    <2>3. todo' \in [Handlers -> SUBSET Resources]  BY <2>2
    <2>4. rec' \in [Ids -> Record] /\ copy' \in [Handlers -> Record]  BY <2>1, <2>2
    <2> QED  BY <1>3, <2>2, <2>3, <2>4 DEF StartMark
  <1>4. ASSUME NEW h \in Handlers, StartFails(h) PROVE TypeOK'
    <2>1. [copy[h] EXCEPT !.ops[cur[h]] = "failed", !.status = "failed"] \in Record
      BY RecordUpdate DEF OpStatus, Status
    <2> QED  BY <1>0, <1>4, <2>1 DEF StartFails
  <1>5. ASSUME NEW h \in Handlers, NEW t \in Ids, Resume(h, t) PROVE TypeOK'
    <2>1. [rec[t] EXCEPT !.status = "running"] \in Record
      BY RecordUpdate DEF OpStatus, Status
    <2>2. rec' = [rec EXCEPT ![t] = [rec[t] EXCEPT !.status = "running"]]
      BY <1>5 DEF Resume
    <2>3. rec' \in [Ids -> Record]  BY <2>1, <2>2
    <2> QED  BY <1>5, <2>3 DEF Resume, instructions
  <1>6. ASSUME NEW h \in Handlers, ResumeRead(h) PROVE TypeOK'
    <2>1. \A r \in Resources : [rec[job[h]] EXCEPT !.ops[r] = "running"] \in Record
      BY RecordUpdate DEF OpStatus, Status
    <2>2. PICK r \in Resources :
             \/ Return(h) /\ UNCHANGED cur
             \/ /\ todo' = [todo EXCEPT ![h] = @ \ {r}]
                /\ \/ UNCHANGED <<pc, cur, copy>>
                   \/ /\ cur' = [cur EXCEPT ![h] = r]
                      /\ copy' = [copy EXCEPT ![h] = [rec[job[h]] EXCEPT !.ops[r] = "running"]]
                      /\ Goto(h, "mark")
      BY <1>6 DEF ResumeRead
    <2>3. todo' \in [Handlers -> SUBSET Resources]  BY <2>2
    <2>4. copy' \in [Handlers -> Record]  BY <1>0, <2>1, <2>2
    <2>5. pc' \in [Handlers -> PCs] /\ cur' \in [Handlers -> Resources]  BY <2>2
    <2> QED  BY <1>6, <2>3, <2>4, <2>5 DEF ResumeRead
  <1>7. ASSUME NEW h \in Handlers, ResumeFails(h) PROVE TypeOK'
    <2>1. [rec[job[h]] EXCEPT !.status = "interrupted"] \in Record
      BY RecordUpdate DEF OpStatus, Status
    <2>2. [rec[job[h]] EXCEPT !.ops[cur[h]] = "failed", !.status = "failed"] \in Record
      BY RecordUpdate DEF OpStatus, Status
    <2> QED  BY <1>7, <2>1, <2>2 DEF ResumeFails
  <1>8. ASSUME NEW h \in Handlers, Write(h) PROVE TypeOK'
    BY <1>0, <1>8 DEF Write
  <1>9. ASSUME NEW h \in Handlers, Destroy(h) \/ DestroyFails(h) PROVE TypeOK'
    BY <1>9 DEF Destroy, DestroyFails
  <1>10. ASSUME NEW h \in Handlers, Commit(h) PROVE TypeOK'
    <2> DEFINE done == [rec[job[h]] EXCEPT !.ops[cur[h]] = "succeeded"]
    <2>1. done \in Record /\ [done EXCEPT !.status = "succeeded"] \in Record
      <3>1. done \in Record  BY RecordUpdate DEF OpStatus, Status
      <3> QED  BY <3>1, RecordUpdate DEF OpStatus, Status
    <2>2. rec' \in [Ids -> Record] /\ inv' \subseteq Resources /\ run' \in {"settled", "deleted"}
      BY <1>10, <2>1 DEF Commit
    <2>3. copy' \in [Handlers -> Record]
      <3>1. rec'[job[h]].status \in Status  BY <2>2 DEF Record
      <3>2. [copy[h] EXCEPT !.ops[cur[h]] = "succeeded", !.status = rec'[job[h]].status] \in Record
        BY <3>1, RecordUpdate DEF OpStatus
      <3> QED  BY <1>10, <3>2 DEF Commit
    <2> QED  BY <1>10, <2>2, <2>3 DEF Commit
  <1>11. ASSUME NEW h \in Handlers, CommitRefused(h) \/ Finish(h) PROVE TypeOK'
    BY <1>0, <1>11 DEF CommitRefused, Finish
  <1>12. ASSUME Reconcile PROVE rec' \in [Ids -> Record] /\ run' \in {"settled", "deleted"}
    <2>1. ASSUME NEW t \in Ids, NEW st \in {"succeeded", "interrupted"}
          PROVE  [Recovered(rec[t]) EXCEPT !.status = st] \in Record
      BY RecoveredRecord DEF Status
    <2>2. rec' \in [Ids -> Record]  BY <1>12, <2>1 DEF Reconcile
    <2>3. run' \in {"settled", "deleted"}  BY <1>12 DEF Reconcile
    <2> QED  BY <2>2, <2>3
  <1>13. ASSUME ColdStart \/ RestoreDeployer PROVE TypeOK'
    <2>1. Reconcile  BY <1>13 DEF ColdStart, RestoreDeployer
    <2>2. inv' = inv  BY <2>1 DEF Reconcile
    <2>3. rec' \in [Ids -> Record] /\ run' \in {"settled", "deleted"}  BY <1>12, <2>1
    <2>4. CASE ColdStart  BY <2>2, <2>3, <2>4 DEF ColdStart
    <2>5. CASE RestoreDeployer  BY <2>2, <2>3, <2>5 DEF RestoreDeployer
    <2> QED  BY <1>13, <2>4, <2>5
  <1>14. ASSUME OtherStarts \/ OtherEnds PROVE TypeOK'
    BY <1>14 DEF OtherStarts, OtherEnds
  <1>15. ASSUME Crash \/ IdleKill PROVE TypeOK'
    <2>1. Die  BY <1>15 DEF Crash, IdleKill
    <2>2. crashes' \in Nat  BY <1>15 DEF Crash, IdleKill
    <2>3. copy' \in [Handlers -> Record]  BY <1>0, <2>1 DEF Die
    <2>4. pc' \in [Handlers -> PCs] /\ todo' \in [Handlers -> SUBSET Resources]
      BY <2>1 DEF Die
    <2> QED  BY <2>1, <2>2, <2>3, <2>4 DEF Die
  <1>16. ASSUME UNCHANGED vars PROVE TypeOK'
    BY <1>16 DEF vars
  <1> QED
    BY <1>1, <1>2, <1>3, <1>4, <1>5, <1>6, <1>7, <1>8, <1>9, <1>10, <1>11, <1>13,
       <1>14, <1>15, <1>16 DEF Next, Driver

\* The records, the handlers and their copies stay well-formed.
THEOREM TypeCorrect == Spec => []TypeOK
  <1>1. Init => TypeOK  BY TypeInit
  <1>2. TypeOK /\ [Next]_vars => TypeOK'  BY TypeStep
  <1> QED  BY <1>1, <1>2, PTL DEF Spec

----------------------------------------------------------------------------
(* The refinement of Release. A record's instructions never change, and cover *)
(* every row that may go; so do the copies that drivers save.                *)

Working == {"mark", "call", "commit", "failed", "auth", "put"}

HasCopy(h) == pc[h] \in {"mark", "put"} \/ (mode[h] = "start" /\ pc[h] \notin {"idle", "admit"})

HandlerInv(h) ==
    /\ pc[h] = "admit" => inv \ Retained \subseteq todo[h] /\ todo[h] \intersect Retained = {}
    /\ pc[h] \notin {"idle", "admit"} => /\ rec[job[h]].status # "none"
                                        /\ todo[h] \subseteq instructions(rec[job[h]])
    /\ pc[h] \in Working => cur[h] \in instructions(rec[job[h]])
    /\ pc[h] \in {"mark", "put"} => mode[h] = "resume"
    /\ HasCopy(h) => /\ copy[h].status # "none"
                     /\ instructions(copy[h]) = instructions(rec[job[h]])

Approved ==
    \A t \in Ids :
        /\ instructions(rec[t]) \intersect Retained = {}
        /\ rec[t].status # "none" => inv \ Retained \subseteq instructions(rec[t])

CommitProven == \A h \in Handlers : pc[h] = "commit" => cur[h] \notin cloud

ReleaseInv ==
    /\ Retained \subseteq cloud /\ cloud \subseteq inv
    /\ run = "deleted" => inv = Retained
    /\ Approved
    /\ CommitProven
    /\ \A h \in Handlers : HandlerInv(h)

LEMMA OpUpdate ==
    ASSUME NEW r \in Record, NEW k \in instructions(r), NEW op \in OpStatus \ {"out"}
    PROVE  /\ instructions([r EXCEPT !.ops[k] = op]) = instructions(r)
           /\ [r EXCEPT !.ops[k] = op].status = r.status
  BY DEF Record, instructions

LEMMA StatusUpdate ==
    ASSUME NEW r \in Record, NEW st
    PROVE  /\ instructions([r EXCEPT !.status = st]) = instructions(r)
           /\ [r EXCEPT !.status = st].status = st
  BY DEF Record, instructions

LEMMA FailedUpdate ==
    ASSUME NEW r \in Record, NEW k \in instructions(r)
    PROVE  /\ instructions([r EXCEPT !.ops[k] = "failed", !.status = "failed"]) = instructions(r)
           /\ [r EXCEPT !.ops[k] = "failed", !.status = "failed"].status = "failed"
  BY DEF Record, instructions

\* A step keeps the instructions of every record that was started.
Kept ==
    \A t \in Ids :
        rec[t].status # "none" => /\ rec'[t].status # "none"
                                  /\ instructions(rec'[t]) = instructions(rec[t])

\* It starts no record either.
NoneStarted ==
    \A t \in Ids : /\ rec[t].status # "none" <=> rec'[t].status # "none"
                   /\ instructions(rec'[t]) = instructions(rec[t])

LEMMA Frame ==
    ASSUME ReleaseInv, TypeOK, Kept, inv' \subseteq inv, NEW g \in Handlers,
           pc'[g] = pc[g], mode'[g] = mode[g], job'[g] = job[g],
           todo'[g] = todo[g], cur'[g] = cur[g], copy'[g] = copy[g]
    PROVE  HandlerInv(g)'
  <1>1. HandlerInv(g)  BY DEF ReleaseInv
  <1>2. job[g] \in Ids  BY DEF TypeOK
  <1>3. pc[g] \notin {"idle", "admit"} =>
          /\ rec'[job[g]].status # "none"
          /\ instructions(rec'[job[g]]) = instructions(rec[job[g]])
    BY <1>1, <1>2 DEF HandlerInv, Kept
  <1>4. HasCopy(g)' <=> HasCopy(g)  BY DEF HasCopy
  <1>5. HasCopy(g) => pc[g] \notin {"idle", "admit"}  BY DEF HasCopy
  <1>6. pc[g] \in Working => pc[g] \notin {"idle", "admit"}  BY DEF Working
  <1>7. instructions(copy[g])' = instructions(copy[g])  BY DEF instructions
  <1>8. instructions(rec[job[g]])' = instructions(rec'[job[g]])  BY DEF instructions
  <1> QED
    BY <1>1, <1>3, <1>4, <1>5, <1>6, <1>7, <1>8 DEF HandlerInv, Working

LEMMA ApprovedKept ==
    ASSUME ReleaseInv, NoneStarted, inv' \subseteq inv
    PROVE  Approved' /\ Kept
  <1>1. ASSUME NEW t \in Ids PROVE instructions(rec[t])' = instructions(rec'[t])
    BY DEF instructions
  <1>2. Kept  BY DEF NoneStarted, Kept
  <1>3. ASSUME NEW t \in Ids
        PROVE  /\ instructions(rec'[t]) \intersect Retained = {}
               /\ rec'[t].status # "none" => inv' \ Retained \subseteq instructions(rec'[t])
    <2>1. /\ instructions(rec[t]) \intersect Retained = {}
          /\ rec[t].status # "none" => inv \ Retained \subseteq instructions(rec[t])
      BY DEF ReleaseInv, Approved
    <2>2. /\ rec[t].status # "none" <=> rec'[t].status # "none"
          /\ instructions(rec'[t]) = instructions(rec[t])
      BY DEF NoneStarted
    <2> QED  BY <2>1, <2>2
  <1> QED  BY <1>1, <1>2, <1>3 DEF Approved

LEMMA SameRecords == UNCHANGED rec => NoneStarted
  BY DEF NoneStarted, instructions

\* The step of one handler that puts a record with the same instructions.
LEMMA PutKeeps ==
    ASSUME TypeOK, NEW t \in Ids, NEW r, rec' = [rec EXCEPT ![t] = r],
           instructions(r) = instructions(rec[t]),
           r.status # "none", rec[t].status # "none"
    PROVE  NoneStarted
  BY DEF NoneStarted, TypeOK

LEMMA ReleaseInit == Init => ReleaseInv
  BY RetainedAssumption
  DEF RetainedAssumption, Init, ReleaseInv, Approved, CommitProven, HandlerInv, HasCopy,
      Working, NoRecord, instructions

LEMMA ReleaseStep == TypeOK /\ TypeOK' /\ ReleaseInv /\ [Next]_vars => ReleaseInv'
  <1> SUFFICES ASSUME TypeOK, TypeOK', ReleaseInv, [Next]_vars PROVE ReleaseInv'
    OBVIOUS
  <1> USE DEF durable, handler, counters
  <1>0. ASSUME NEW h \in Handlers, UNCHANGED <<inv, run>>, NoneStarted,
               cloud' \subseteq cloud, Retained \subseteq cloud',
               pc'[h] = "commit" => cur'[h] \notin cloud',
               \A g \in Handlers \ {h} :
                   /\ pc'[g] = pc[g] /\ mode'[g] = mode[g] /\ job'[g] = job[g]
                   /\ todo'[g] = todo[g] /\ cur'[g] = cur[g] /\ copy'[g] = copy[g],
               HandlerInv(h)'
        PROVE  ReleaseInv'
    <2>1. Approved' /\ Kept  BY <1>0, ApprovedKept
    <2>2. \A g \in Handlers \ {h} : HandlerInv(g)'  BY <1>0, <2>1, Frame
    <2>3. CommitProven'  BY <1>0 DEF ReleaseInv, CommitProven
    <2> QED  BY <1>0, <2>1, <2>2, <2>3 DEF ReleaseInv
  <1>1. ASSUME NEW h \in Handlers, StartRead(h) PROVE ReleaseInv'
    <2>1. NoneStarted  BY <1>1, SameRecords DEF StartRead
    <2>2. HandlerInv(h)'  BY <1>1 DEF StartRead, Goto, TypeOK, HandlerInv, HasCopy, Working
    <2> QED  BY <1>0, <1>1, <2>1, <2>2 DEF StartRead, Goto, TypeOK, ReleaseInv
  <1>2. ASSUME NEW h \in Handlers, StartAdmit(h) PROVE ReleaseInv'
    <2>1. CASE Return(h) /\ UNCHANGED <<rec, job>>
      <3>1. NoneStarted  BY <2>1, SameRecords
      <3>2. HandlerInv(h)'
        BY <1>2, <2>1 DEF StartAdmit, Return, Goto, SetCopy, TypeOK, HandlerInv, HasCopy, Working
      <3> QED
        BY <1>0, <1>2, <2>1, <3>1, <3>2 DEF StartAdmit, Return, Goto, SetCopy, TypeOK, ReleaseInv
    <2>2. ASSUME NEW t \in Ids, Fresh(t),
                 rec' = [rec EXCEPT ![t] = Planned(todo[h])],
                 job' = [job EXCEPT ![h] = t],
                 SetCopy(h, Planned(todo[h])), Goto(h, "next"), UNCHANGED todo
          PROVE  ReleaseInv'
      <3>1. instructions(Planned(todo[h])) = todo[h] /\ Planned(todo[h]).status = "running"
        BY DEF instructions, Planned, TypeOK
      <3>2. inv \ Retained \subseteq todo[h] /\ todo[h] \intersect Retained = {}
        BY <1>2 DEF StartAdmit, ReleaseInv, HandlerInv
      <3>3. rec'[t] = Planned(todo[h]) /\ \A u \in Ids \ {t} : rec'[u] = rec[u]
        BY <2>2 DEF TypeOK
      <3>4. Kept  BY <2>2, <3>3 DEF Kept, Fresh
      <3>5. Approved'
        <4>1. ASSUME NEW u \in Ids
              PROVE  /\ instructions(rec'[u]) \intersect Retained = {}
                     /\ rec'[u].status # "none" => inv \ Retained \subseteq instructions(rec'[u])
          BY <3>1, <3>2, <3>3 DEF ReleaseInv, Approved
        <4>2. \A u \in Ids : instructions(rec[u])' = instructions(rec'[u])
          BY DEF instructions
        <4> QED  BY <1>2, <4>1, <4>2 DEF Approved, StartAdmit
      <3>6. HandlerInv(h)'
        <4>1. copy'[h] = Planned(todo[h]) /\ job'[h] = t /\ pc'[h] = "next" /\ todo'[h] = todo[h]
          BY <2>2 DEF SetCopy, Goto, TypeOK
        <4>2. /\ instructions(rec[job[h]])' = instructions(rec'[t])
              /\ instructions(copy[h])' = instructions(Planned(todo[h]))
          BY <4>1 DEF instructions
        <4> QED  BY <3>1, <3>3, <4>1, <4>2 DEF HandlerInv, Working
      <3>7. \A g \in Handlers \ {h} : HandlerInv(g)'
        BY <1>2, <2>2, <3>4, Frame DEF StartAdmit, SetCopy, Goto, TypeOK
      <3>8. CommitProven'  BY <1>2, <2>2 DEF StartAdmit, Goto, TypeOK, ReleaseInv, CommitProven
      <3> QED  BY <1>2, <3>5, <3>6, <3>7, <3>8 DEF StartAdmit, ReleaseInv
    <2>3. \/ \E t \in Ids : /\ Fresh(t) /\ rec' = [rec EXCEPT ![t] = Planned(todo[h])]
                            /\ job' = [job EXCEPT ![h] = t]
                            /\ SetCopy(h, Planned(todo[h])) /\ Goto(h, "next") /\ UNCHANGED todo
          \/ Return(h) /\ UNCHANGED <<rec, job>>
      BY <1>2, Zenon DEF StartAdmit
    <2> QED  BY <2>1, <2>2, <2>3, Zenon
  <1>3. ASSUME NEW h \in Handlers, StartMark(h) PROVE ReleaseInv'
    <2>1. PICK r \in todo[h] :
             /\ cur' = [cur EXCEPT ![h] = r]
             /\ todo' = [todo EXCEPT ![h] = @ \ {r}]
             /\ copy' = [copy EXCEPT ![h] = [copy[h] EXCEPT !.ops[r] = "running"]]
             /\ rec' = [rec EXCEPT ![job[h]] = [copy[h] EXCEPT !.ops[r] = "running"]]
      BY <1>3, Zenon DEF StartMark, SetCopy, Put
    <2> DEFINE running == [copy[h] EXCEPT !.ops[r] = "running"]
    <2>2. /\ pc[h] = "next" /\ mode[h] = "start" /\ pc' = [pc EXCEPT ![h] = "call"]
          /\ UNCHANGED <<inv, run, cloud, mode, job>>
      BY <1>3 DEF StartMark, Goto
    <2>3. /\ rec[job[h]].status # "none" /\ copy[h].status # "none"
          /\ instructions(copy[h]) = instructions(rec[job[h]])
          /\ todo[h] \subseteq instructions(rec[job[h]])
      BY <2>2 DEF ReleaseInv, HandlerInv, HasCopy
    <2>4. instructions(running) = instructions(copy[h]) /\ running.status = copy[h].status
      <3>1. copy[h] \in Record /\ r \in instructions(copy[h])  BY <2>3 DEF TypeOK
      <3> QED  BY <3>1, OpUpdate DEF OpStatus
    <2>5. job[h] \in Ids  BY DEF TypeOK
    <2>6. NoneStarted
      <3> HIDE DEF running
      <3>1. rec' = [rec EXCEPT ![job[h]] = running]  BY <2>1 DEF running
      <3> QED  BY <3>1, <2>3, <2>4, <2>5, PutKeeps
    <2>7. HandlerInv(h)'
      <3>1. /\ copy'[h] = running /\ rec'[job[h]] = running /\ cur'[h] = r /\ pc'[h] = "call"
            /\ todo'[h] = todo[h] \ {r}
        BY <2>1, <2>2, <2>5 DEF TypeOK
      <3>2. instructions(rec[job[h]])' = instructions(running)
        BY <3>1, <2>2 DEF instructions
      <3>3. instructions(copy[h])' = instructions(running)  BY <3>1 DEF instructions
      <3> HIDE DEF running
      <3> QED  BY <2>2, <2>3, <2>4, <3>1, <3>2, <3>3 DEF HandlerInv
    <2> QED  BY <1>0, <2>1, <2>2, <2>6, <2>7 DEF TypeOK, ReleaseInv
  <1>4. ASSUME NEW h \in Handlers, StartFails(h) PROVE ReleaseInv'
    <2> DEFINE failed == [copy[h] EXCEPT !.ops[cur[h]] = "failed", !.status = "failed"]
    <2>1. /\ pc[h] \in {"failed", "auth"} /\ mode[h] = "start" /\ pc' = [pc EXCEPT ![h] = "idle"]
          /\ copy' = [copy EXCEPT ![h] = NoRecord] /\ todo' = [todo EXCEPT ![h] = {}]
          /\ rec' = [rec EXCEPT ![job[h]] = failed]
          /\ UNCHANGED <<inv, run, cloud, mode, job, cur>>
      BY <1>4 DEF StartFails, Goto, Return, SetCopy, Put
    <2>2. /\ rec[job[h]].status # "none" /\ copy[h].status # "none"
          /\ instructions(copy[h]) = instructions(rec[job[h]])
          /\ cur[h] \in instructions(rec[job[h]])
      BY <2>1 DEF ReleaseInv, HandlerInv, HasCopy, Working
    <2>3. instructions(failed) = instructions(copy[h]) /\ failed.status = "failed"
      <3>1. copy[h] \in Record /\ cur[h] \in instructions(copy[h])  BY <2>2 DEF TypeOK
      <3> QED  BY <3>1, FailedUpdate
    <2>4. NoneStarted
      <3> HIDE DEF failed
      <3> QED  BY <2>1, <2>2, <2>3, PutKeeps DEF TypeOK
    <2>5. HandlerInv(h)'  BY <2>1 DEF TypeOK, HandlerInv, HasCopy, Working
    <2> QED  BY <1>0, <2>1, <2>4, <2>5 DEF TypeOK, ReleaseInv
  <1>5. ASSUME NEW h \in Handlers, NEW t \in Ids, Resume(h, t) PROVE ReleaseInv'
    <2> DEFINE resumed == [rec[t] EXCEPT !.status = "running"]
    <2>1. /\ pc' = [pc EXCEPT ![h] = "next"] /\ job' = [job EXCEPT ![h] = t]
          /\ mode' = [mode EXCEPT ![h] = "resume"]
          /\ todo' = [todo EXCEPT ![h] = instructions(rec[t])]
          /\ rec' = [rec EXCEPT ![t] = resumed]
          /\ rec[t].status = "interrupted"
          /\ UNCHANGED <<inv, run, cloud, cur, copy>>
      BY <1>5 DEF Resume, Goto, Resumable
    <2>2. rec[t] \in Record  BY DEF TypeOK
    <2>3. instructions(resumed) = instructions(rec[t]) /\ resumed.status = "running"
      BY <2>2 DEF Record, instructions
    <2>4. NoneStarted
      <3> HIDE DEF resumed
      <3> QED  BY <2>1, <2>3, PutKeeps
    <2>5. HandlerInv(h)'
      <3>1. /\ job'[h] = t /\ pc'[h] = "next" /\ mode'[h] = "resume"
            /\ todo'[h] = instructions(rec[t]) /\ rec'[t] = resumed
        BY <2>1 DEF TypeOK
      <3>2. instructions(rec[job[h]])' = instructions(resumed)  BY <3>1 DEF instructions
      <3> HIDE DEF resumed
      <3> QED  BY <2>3, <3>1, <3>2 DEF HandlerInv, HasCopy, Working
    <2>6. \A g \in Handlers \ {h} :
             /\ pc'[g] = pc[g] /\ mode'[g] = mode[g] /\ job'[g] = job[g]
             /\ todo'[g] = todo[g] /\ cur'[g] = cur[g] /\ copy'[g] = copy[g]
      BY <2>1 DEF TypeOK
    <2>7. pc'[h] = "next"  BY <2>1 DEF TypeOK
    <2> QED  BY <1>0, <2>1, <2>4, <2>5, <2>6, <2>7 DEF ReleaseInv
  <1>6. ASSUME NEW h \in Handlers, ResumeRead(h) PROVE ReleaseInv'
    <2>1. PICK r \in todo[h] :
             \/ Return(h) /\ UNCHANGED cur
             \/ /\ todo' = [todo EXCEPT ![h] = @ \ {r}]
                /\ \/ UNCHANGED <<pc, cur, copy>>
                   \/ /\ cur' = [cur EXCEPT ![h] = r]
                      /\ copy' = [copy EXCEPT ![h] = [rec[job[h]] EXCEPT !.ops[r] = "running"]]
                      /\ pc' = [pc EXCEPT ![h] = "mark"]
      BY <1>6 DEF ResumeRead, SetCopy, Goto
    <2>2. pc[h] = "next" /\ mode[h] = "resume" /\ UNCHANGED <<rec, inv, run, cloud, mode, job>>
      BY <1>6 DEF ResumeRead
    <2>3. NoneStarted  BY <2>2, SameRecords
    <2>4. rec[job[h]].status # "none" /\ todo[h] \subseteq instructions(rec[job[h]])
      BY <2>2 DEF ReleaseInv, HandlerInv
    <2>5. instructions(rec[job[h]])' = instructions(rec[job[h]])  BY <2>2 DEF instructions
    <2>6. CASE Return(h) /\ UNCHANGED cur
      <3>1. HandlerInv(h)'
        BY <2>6 DEF Return, Goto, SetCopy, TypeOK, HandlerInv, HasCopy, Working
      <3> QED  BY <1>0, <2>2, <2>3, <2>6, <3>1 DEF Return, Goto, SetCopy, TypeOK, ReleaseInv
    <2>7. CASE todo' = [todo EXCEPT ![h] = @ \ {r}] /\ UNCHANGED <<pc, cur, copy>>
      <3>1. HandlerInv(h)'
        BY <2>2, <2>4, <2>5, <2>7 DEF TypeOK, HandlerInv, HasCopy, Working
      <3> QED  BY <1>0, <2>2, <2>3, <2>7, <3>1 DEF TypeOK, ReleaseInv
    <2>8. CASE /\ todo' = [todo EXCEPT ![h] = @ \ {r}]
               /\ cur' = [cur EXCEPT ![h] = r]
               /\ copy' = [copy EXCEPT ![h] = [rec[job[h]] EXCEPT !.ops[r] = "running"]]
               /\ pc' = [pc EXCEPT ![h] = "mark"]
      <3> DEFINE running == [rec[job[h]] EXCEPT !.ops[r] = "running"]
      <3>1. /\ instructions(running) = instructions(rec[job[h]])
            /\ running.status = rec[job[h]].status
        <4>1. rec[job[h]] \in Record /\ r \in instructions(rec[job[h]])  BY <2>4 DEF TypeOK
        <4> QED  BY <4>1, OpUpdate DEF OpStatus
      <3>2. /\ todo'[h] = todo[h] \ {r} /\ cur'[h] = r /\ copy'[h] = running /\ pc'[h] = "mark"
        BY <2>8 DEF TypeOK
      <3>3. instructions(copy[h])' = instructions(running)  BY <3>2 DEF instructions
      <3>4. HandlerInv(h)'
        <4> HIDE DEF running
        <4> QED  BY <2>2, <2>4, <2>5, <3>1, <3>2, <3>3 DEF HandlerInv, HasCopy, Working
      <3> QED  BY <1>0, <2>2, <2>3, <2>8, <3>2, <3>4 DEF TypeOK, ReleaseInv
    <2> QED  BY <2>1, <2>6, <2>7, <2>8
  <1>7. ASSUME NEW h \in Handlers, ResumeFails(h) PROVE ReleaseInv'
    <2>1. PICK r \in Record :
             /\ mode[h] = "resume" /\ pc[h] \in {"failed", "auth"}
             /\ pc' = [pc EXCEPT ![h] = "put"]
             /\ copy' = [copy EXCEPT ![h] = r]
             /\ r.status # "none" /\ instructions(r) = instructions(rec[job[h]])
             /\ UNCHANGED <<rec, inv, run, cloud, mode, job, todo, cur>>
      <3>1. rec[job[h]] \in Record  BY DEF TypeOK
      <3>2. pc[h] \in {"failed", "auth"}  BY <1>7 DEF ResumeFails
      <3>3. cur[h] \in instructions(rec[job[h]])
        BY <3>2 DEF ReleaseInv, HandlerInv, Working
      <3>4. CASE pc[h] = "auth" /\ SetCopy(h, [rec[job[h]] EXCEPT !.status = "interrupted"])
        <4> DEFINE interrupted == [rec[job[h]] EXCEPT !.status = "interrupted"]
        <4>1. /\ interrupted \in Record /\ interrupted.status = "interrupted"
              /\ instructions(interrupted) = instructions(rec[job[h]])
          BY <3>1, StatusUpdate, RecordUpdate, ResourcesAssumption
          DEF OpStatus, Status, ResourcesAssumption
        <4> QED  BY <1>7, <3>4, <4>1 DEF ResumeFails, SetCopy, Goto
      <3>5. CASE SetCopy(h, [rec[job[h]] EXCEPT !.ops[cur[h]] = "failed", !.status = "failed"])
        <4> DEFINE failed == [rec[job[h]] EXCEPT !.ops[cur[h]] = "failed", !.status = "failed"]
        <4>1. cur[h] \in Resources  BY DEF TypeOK
        <4>2. /\ failed \in Record /\ failed.status = "failed"
              /\ instructions(failed) = instructions(rec[job[h]])
          BY <3>1, <3>3, <4>1, FailedUpdate, RecordUpdate DEF OpStatus, Status
        <4> QED  BY <1>7, <3>2, <3>5, <4>2 DEF ResumeFails, SetCopy, Goto
      <3> QED  BY <1>7, <3>4, <3>5 DEF ResumeFails
    <2>2. NoneStarted  BY <2>1, SameRecords
    <2>3. HandlerInv(h)'
      <3>1. /\ instructions(rec[job[h]])' = instructions(rec[job[h]])
            /\ instructions(copy[h])' = instructions(r)
            /\ pc'[h] = "put"
        BY <2>1 DEF instructions, TypeOK
      <3>2. HandlerInv(h)  BY DEF ReleaseInv
      <3>3. copy'[h] = r  BY <2>1 DEF TypeOK
      <3> QED  BY <2>1, <3>1, <3>2, <3>3 DEF HandlerInv, HasCopy, Working
    <2> QED  BY <1>0, <2>1, <2>2, <2>3 DEF TypeOK, ReleaseInv
  <1>8. ASSUME NEW h \in Handlers, Write(h) PROVE ReleaseInv'
    <2>1. /\ pc[h] \in {"mark", "put"} /\ rec' = [rec EXCEPT ![job[h]] = copy[h]]
          /\ UNCHANGED <<inv, run, cloud, mode, job, cur>>
          /\ \/ /\ pc' = [pc EXCEPT ![h] = "idle"] /\ todo' = [todo EXCEPT ![h] = {}]
             \/ pc[h] = "mark" /\ pc' = [pc EXCEPT ![h] = "call"] /\ UNCHANGED todo
          /\ copy' = [copy EXCEPT ![h] = NoRecord]
      BY <1>8 DEF Write, Put, Return, Goto, SetCopy
    <2>2. /\ rec[job[h]].status # "none" /\ copy[h].status # "none"
          /\ instructions(copy[h]) = instructions(rec[job[h]])
          /\ cur[h] \in instructions(rec[job[h]]) /\ todo[h] \subseteq instructions(rec[job[h]])
          /\ mode[h] = "resume"
      BY <2>1 DEF ReleaseInv, HandlerInv, HasCopy, Working
    <2>3. job[h] \in Ids  BY DEF TypeOK
    <2>4. NoneStarted  BY <2>1, <2>2, <2>3, PutKeeps
    <2>5. HandlerInv(h)'
      <3>1. rec'[job[h]] = copy[h]  BY <2>1, <2>3 DEF TypeOK
      <3>2. instructions(rec[job[h]])' = instructions(copy[h])
        BY <2>1, <3>1 DEF instructions
      <3> QED  BY <2>1, <2>2, <3>1, <3>2 DEF TypeOK, HandlerInv, HasCopy, Working
    <2> QED  BY <1>0, <2>1, <2>4, <2>5 DEF TypeOK, ReleaseInv
  <1>9. ASSUME NEW h \in Handlers, Destroy(h) \/ DestroyFails(h) PROVE ReleaseInv'
    <2>1. /\ pc[h] = "call"
          /\ \/ pc' = [pc EXCEPT ![h] = "commit"] /\ cloud' = cloud \ {cur[h]}
             \/ /\ pc' = [pc EXCEPT ![h] = "failed"] \/ pc' = [pc EXCEPT ![h] = "auth"]
                /\ cloud' = cloud \/ cloud' = cloud \ {cur[h]}
          /\ UNCHANGED <<rec, inv, run, mode, job, todo, cur, copy>>
      BY <1>9 DEF Destroy, DestroyFails, Goto
    <2>2. NoneStarted  BY <2>1, SameRecords
    <2>3. HandlerInv(h)  BY DEF ReleaseInv
    <2>4. cur[h] \in instructions(rec[job[h]])  BY <2>1, <2>3 DEF HandlerInv, Working
    <2>5. cur[h] \notin Retained
      BY <2>4 DEF ReleaseInv, Approved, TypeOK
    <2>6. HandlerInv(h)'
      <3>1. /\ instructions(rec[job[h]])' = instructions(rec[job[h]])
            /\ instructions(copy[h])' = instructions(copy[h])
        BY <2>1 DEF instructions
      <3>2. pc'[h] \in {"commit", "failed", "auth"}  BY <2>1 DEF TypeOK
      <3> QED  BY <2>1, <2>3, <3>1, <3>2 DEF HandlerInv, HasCopy, Working
    <2>7. pc'[h] = "commit" => cur'[h] \notin cloud'  BY <2>1 DEF TypeOK
    <2>8. cloud' \subseteq cloud /\ Retained \subseteq cloud'
      BY <2>1, <2>5 DEF ReleaseInv
    <2> QED  BY <1>0, <2>1, <2>2, <2>6, <2>7, <2>8 DEF TypeOK
  <1>10. ASSUME NEW h \in Handlers, Commit(h) PROVE ReleaseInv'
    <2> DEFINE done == [rec[job[h]] EXCEPT !.ops[cur[h]] = "succeeded"]
    <2>1. /\ pc[h] = "commit" /\ pc' = [pc EXCEPT ![h] = "next"]
          /\ UNCHANGED <<cloud, mode, job, todo, cur>>
      BY <1>10 DEF Commit, Goto
    <2>2. job[h] \in Ids /\ cur[h] \in Resources  BY DEF TypeOK
    <2>3. HandlerInv(h)  BY DEF ReleaseInv
    <2>4. /\ cur[h] \in instructions(rec[job[h]]) /\ rec[job[h]].status # "none"
          /\ todo[h] \subseteq instructions(rec[job[h]])
      BY <2>1, <2>3 DEF HandlerInv, Working
    <2>5. cur[h] \notin Retained /\ cur[h] \notin cloud
      BY <2>1, <2>2, <2>4 DEF ReleaseInv, Approved, CommitProven
    <2>6. /\ instructions(done) = instructions(rec[job[h]])
          /\ done.status = rec[job[h]].status /\ done \in Record
      <3>1. rec[job[h]] \in Record  BY <2>2 DEF TypeOK
      <3> QED  BY <2>2, <2>4, <3>1, OpUpdate, RecordUpdate DEF OpStatus, Status
    <2>7. /\ NoneStarted /\ inv' \in {inv, inv \ {cur[h]}}
          /\ run' = run \/ instructions(rec[job[h]]) \intersect inv' = {}
      <3> HIDE DEF done
      <3>1. CASE UNCHANGED <<rec, inv, run>>
        BY <3>1, SameRecords
      <3>2. CASE inv' = inv \ {cur[h]} /\ rec' = [rec EXCEPT ![job[h]] = done] /\ UNCHANGED run
        BY <2>2, <2>4, <2>6, <3>2, PutKeeps
      <3>3. CASE /\ inv' = inv \ {cur[h]} /\ instructions(done) \intersect inv' = {}
                 /\ rec' = [rec EXCEPT ![job[h]] = [done EXCEPT !.status = "succeeded"]]
        <4>1. /\ instructions([done EXCEPT !.status = "succeeded"]) = instructions(done)
              /\ [done EXCEPT !.status = "succeeded"].status # "none"
          BY <2>6, StatusUpdate
        <4> QED  BY <2>2, <2>4, <2>6, <3>3, <4>1, PutKeeps
      <3> QED  BY <1>10, <3>1, <3>2, <3>3 DEF Commit, done
    <2>8. Approved' /\ Kept  BY <2>7, ApprovedKept
    <2>9. \A g \in Handlers \ {h} :
             /\ pc'[g] = pc[g] /\ mode'[g] = mode[g] /\ job'[g] = job[g]
             /\ todo'[g] = todo[g] /\ cur'[g] = cur[g] /\ copy'[g] = copy[g]
      BY <1>10, <2>1 DEF Commit, SetCopy, TypeOK
    <2>10. \A g \in Handlers \ {h} : HandlerInv(g)'  BY <2>7, <2>8, <2>9, Frame
    <2>11. HandlerInv(h)'
      <3>1. instructions(rec[job[h]])' = instructions(rec[job[h]])
        <4>1. instructions(rec'[job[h]]) = instructions(rec[job[h]])
          BY <2>2, <2>7 DEF NoneStarted
        <4> QED  BY <2>1, <4>1 DEF instructions
      <3>2. rec'[job[h]].status # "none"  BY <2>2, <2>4, <2>7 DEF NoneStarted
      <3>3. ASSUME mode[h] = "start"
            PROVE  copy'[h].status # "none" /\ instructions(copy'[h]) = instructions(rec[job[h]])
        <4> DEFINE st == rec'[job[h]].status
                   marked == [copy[h] EXCEPT !.ops[cur[h]] = "succeeded"]
        <4>1. copy' = [copy EXCEPT ![h] = [copy[h] EXCEPT !.ops[cur[h]] = "succeeded", !.status = st]]
          BY <1>10, <3>3 DEF Commit, SetCopy
        <4>2. copy[h] \in Record /\ cur[h] \in instructions(copy[h])
              /\ instructions(copy[h]) = instructions(rec[job[h]])
          BY <2>1, <2>3, <2>4, <3>3 DEF HandlerInv, HasCopy, TypeOK
        <4>3. marked \in Record /\ instructions(marked) = instructions(copy[h])
          BY <2>2, <4>2, OpUpdate, RecordUpdate DEF OpStatus, Status
        <4>4. [marked EXCEPT !.status = st] = [copy[h] EXCEPT !.ops[cur[h]] = "succeeded", !.status = st]
          BY <4>2 DEF Record
        <4>5. /\ instructions([marked EXCEPT !.status = st]) = instructions(marked)
              /\ [marked EXCEPT !.status = st].status = st
          <5> HIDE DEF marked, st
          <5> QED  BY <4>3, StatusUpdate
        <4>6. copy'[h] = [marked EXCEPT !.status = st]  BY <4>1, <4>4 DEF TypeOK
        <4> QED  BY <3>2, <4>2, <4>3, <4>5, <4>6
      <3>4. instructions(copy[h])' = instructions(copy'[h])  BY DEF instructions
      <3>5. pc'[h] = "next"  BY <2>1 DEF TypeOK
      <3> QED  BY <2>1, <2>4, <3>1, <3>2, <3>3, <3>4, <3>5 DEF HandlerInv, HasCopy, Working
    <2>12. CommitProven'  BY <2>1 DEF TypeOK, ReleaseInv, CommitProven
    <2>13. run' = "deleted" => inv' = Retained
      <3>1. Retained \subseteq inv'  BY <2>5, <2>7 DEF ReleaseInv
      <3>2. inv' \subseteq inv  BY <2>7
      <3>3. inv \ Retained \subseteq instructions(rec[job[h]])
        BY <2>2, <2>4 DEF ReleaseInv, Approved
      <3> QED  BY <2>7, <3>1, <3>2, <3>3 DEF ReleaseInv
    <2>14. cloud' \subseteq inv' /\ Retained \subseteq cloud'
      BY <2>1, <2>5, <2>7 DEF ReleaseInv
    <2> QED  BY <2>8, <2>10, <2>11, <2>12, <2>13, <2>14 DEF ReleaseInv
  <1>11. ASSUME NEW h \in Handlers, CommitRefused(h) \/ Finish(h) PROVE ReleaseInv'
    <2>1. /\ UNCHANGED <<rec, inv, run, cloud, mode, job, cur>>
          /\ \/ pc[h] = "commit" /\ pc' = [pc EXCEPT ![h] = "failed"] /\ UNCHANGED <<todo, copy>>
             \/ /\ pc' = [pc EXCEPT ![h] = "idle"] /\ copy' = [copy EXCEPT ![h] = NoRecord]
                /\ todo' = [todo EXCEPT ![h] = {}]
      BY <1>11 DEF CommitRefused, Finish, Return, Goto, SetCopy
    <2>2. NoneStarted  BY <2>1, SameRecords
    <2>3. HandlerInv(h)'
      <3>1. HandlerInv(h)  BY DEF ReleaseInv
      <3>2. /\ instructions(rec[job[h]])' = instructions(rec[job[h]])
            /\ copy' = copy => instructions(copy[h])' = instructions(copy[h])
        BY <2>1 DEF instructions
      <3> QED  BY <2>1, <3>1, <3>2 DEF TypeOK, HandlerInv, HasCopy, Working
    <2> QED  BY <1>0, <2>1, <2>2, <2>3 DEF TypeOK, ReleaseInv
  <1>12. ASSUME UNCHANGED <<rec, inv, run, cloud, pc, mode, job, todo, cur, copy>>
         PROVE  ReleaseInv'
    <2>1. NoneStarted  BY <1>12, SameRecords
    <2>2. Approved' /\ Kept  BY <1>12, <2>1, ApprovedKept
    <2>3. \A g \in Handlers : HandlerInv(g)'  BY <1>12, <2>2, Frame
    <2> QED  BY <1>12, <2>2, <2>3 DEF ReleaseInv, CommitProven
  <1>13. ASSUME ColdStart \/ RestoreDeployer PROVE ReleaseInv'
    <2>1. /\ Reconcile
          /\ UNCHANGED <<cloud, pc, mode, job, todo, cur, copy>>
      BY <1>13 DEF ColdStart, RestoreDeployer
    <2>2. ASSUME NEW t \in Ids, NEW st
          PROVE  /\ instructions([Recovered(rec[t]) EXCEPT !.status = st]) = instructions(rec[t])
                 /\ [Recovered(rec[t]) EXCEPT !.status = st].status = st
      <3>1. rec[t] \in Record  BY DEF TypeOK
      <3> QED  BY <3>1 DEF Record, Recovered, instructions
    <2>3. NoneStarted
      <3>1. ASSUME NEW t \in Ids
            PROVE  /\ rec[t].status # "none" <=> rec'[t].status # "none"
                   /\ instructions(rec'[t]) = instructions(rec[t])
        <4>1. CASE ~HasActiveWork(t)  BY <2>1, <4>1 DEF Reconcile
        <4>2. CASE HasActiveWork(t)
          <5>1. \E st \in {"succeeded", "interrupted"} :
                   rec'[t] = [Recovered(rec[t]) EXCEPT !.status = st]
            BY <2>1, <4>2 DEF Reconcile
          <5> QED  BY <2>2, <4>2, <5>1 DEF HasActiveWork
        <4> QED  BY <4>1, <4>2
      <3> QED  BY <3>1 DEF NoneStarted
    <2>4. inv' = inv  BY <2>1 DEF Reconcile
    <2>5. Approved' /\ Kept  BY <2>3, <2>4, ApprovedKept
    <2>6. \A g \in Handlers : HandlerInv(g)'  BY <2>1, <2>4, <2>5, Frame
    <2>7. CommitProven'  BY <2>1 DEF ReleaseInv, CommitProven
    <2>8. run' = "deleted" => inv' = Retained
      <3>1. ASSUME NEW t \in Ids, HasActiveWork(t), allReleased(rec[t]) PROVE inv = Retained
        <4>1. inv \ Retained \subseteq instructions(rec[t])
          BY <3>1 DEF HasActiveWork, ReleaseInv, Approved
        <4> QED  BY <3>1, <4>1 DEF allReleased, ReleaseInv
      <3> QED  BY <2>1, <2>4, <3>1 DEF Reconcile, ReleaseInv
    <2> QED  BY <2>1, <2>4, <2>5, <2>6, <2>7, <2>8 DEF ReleaseInv
  <1>14. ASSUME OtherStarts \/ OtherEnds PROVE ReleaseInv'
    BY <1>12, <1>14 DEF OtherStarts, OtherEnds
  <1>15. ASSUME Crash \/ IdleKill PROVE ReleaseInv'
    <2>1. Die  BY <1>15 DEF Crash, IdleKill
    <2>2. NoneStarted  BY <2>1, SameRecords DEF Die
    <2>3. Approved' /\ Kept  BY <2>1, <2>2, ApprovedKept DEF Die
    <2>4. \A g \in Handlers : pc'[g] = "idle"  BY <2>1 DEF Die
    <2>5. \A g \in Handlers : HandlerInv(g)'  BY <2>4 DEF HandlerInv, HasCopy, Working
    <2> QED  BY <2>1, <2>3, <2>4, <2>5 DEF Die, ReleaseInv, CommitProven
  <1>16. ASSUME UNCHANGED vars PROVE ReleaseInv'
    BY <1>12, <1>16 DEF vars
  <1> QED
    BY <1>1, <1>2, <1>3, <1>4, <1>5, <1>6, <1>7, <1>8, <1>9, <1>10, <1>11, <1>13,
       <1>14, <1>15, <1>16 DEF Next, Driver

----------------------------------------------------------------------------

LEMMA Invariant == Spec => [](TypeOK /\ ReleaseInv)
  <1>1. Init => TypeOK /\ ReleaseInv  BY TypeInit, ReleaseInit
  <1>2. TypeOK /\ ReleaseInv /\ [Next]_vars => (TypeOK /\ ReleaseInv)'
    BY TypeStep, ReleaseStep
  <1> QED  BY <1>1, <1>2, PTL DEF Spec

\* What still exists can be torn down later: however often a teardown fails, is
\* interrupted or overtaken by a second driver, its row is there.
THEOREM RowsOutliveResources == Spec => []RowUntilGone
  <1>1. ReleaseInv => RowUntilGone  BY DEF ReleaseInv, RowUntilGone
  <1> QED  BY <1>1, Invariant, PTL

\* A run is reported deleted only when nothing of it is left but what it retains.
THEOREM DeletionIsComplete == Spec => []DeletedMeansReleased
  <1>1. ReleaseInv => DeletedMeansReleased  BY DEF ReleaseInv, DeletedMeansReleased
  <1> QED  BY <1>1, Invariant, PTL

LEMMA StepKeepsPromise ==
    ASSUME TypeOK, ReleaseInv, ReleaseInv', [Next]_vars
    PROVE  [Promise!Next]_<<cloud, inv, run>>
  <1> USE DEF durable, handler, counters
  <1>1. ASSUME NEW r \in Resources, cloud' = cloud \ {r}, UNCHANGED <<inv, run>>
        PROVE  Promise!Next \/ UNCHANGED <<cloud, inv, run>>
    <2>1. r \in cloud => r \notin Retained  BY <1>1 DEF ReleaseInv
    <2> QED  BY <1>1, <2>1 DEF Promise!Next, Promise!Vanish
  <1>2. ASSUME NEW h \in Handlers, Commit(h)
        PROVE  Promise!Next \/ UNCHANGED <<cloud, inv, run>>
    <2>1. cur[h] \in Resources /\ cur[h] \notin cloud
      BY <1>2 DEF Commit, TypeOK, ReleaseInv, CommitProven
    <2>2. /\ cloud' = cloud /\ inv' \in {inv, inv \ {cur[h]}}
          /\ run' = run \/ run' = "deleted"
      BY <1>2 DEF Commit
    <2>3. run' = "deleted" => inv' = Retained  BY DEF ReleaseInv
    <2>4. Retained \subseteq inv'  BY DEF ReleaseInv
    <2> QED  BY <2>1, <2>2, <2>3, <2>4 DEF Promise!Next, Promise!Drop, Promise!Finish
  <1>3. ASSUME Reconcile, UNCHANGED cloud
        PROVE  Promise!Next \/ UNCHANGED <<cloud, inv, run>>
    <2>1. inv' = inv /\ (run' = run \/ run' = "deleted")  BY <1>3 DEF Reconcile
    <2>2. run' = "deleted" => inv' = Retained  BY DEF ReleaseInv
    <2> QED  BY <1>3, <2>1, <2>2 DEF Promise!Next, Promise!Finish
  <1>4. ASSUME NEW h \in Handlers, Destroy(h) \/ DestroyFails(h)
        PROVE  Promise!Next \/ UNCHANGED <<cloud, inv, run>>
    <2>1. cur[h] \in Resources /\ UNCHANGED <<inv, run>>
      BY <1>4 DEF Destroy, DestroyFails, TypeOK
    <2>2. cloud' = cloud \/ cloud' = cloud \ {cur[h]}
      BY <1>4 DEF Destroy, DestroyFails
    <2> QED  BY <1>1, <2>1, <2>2
  <1>5. ASSUME NEW h \in Handlers,
               \/ StartRead(h) \/ StartAdmit(h) \/ StartMark(h) \/ StartFails(h)
               \/ ResumeRead(h) \/ ResumeFails(h) \/ Write(h) \/ CommitRefused(h) \/ Finish(h)
        PROVE  UNCHANGED <<cloud, inv, run>>
    BY <1>5 DEF StartRead, StartAdmit, StartMark, StartFails, ResumeRead, ResumeFails, Write,
                CommitRefused, Finish
  <1>6. ASSUME NEW h \in Handlers, NEW t \in Ids, Resume(h, t) PROVE UNCHANGED <<cloud, inv, run>>
    BY <1>6 DEF Resume
  <1>7. ASSUME ColdStart \/ RestoreDeployer PROVE Reconcile /\ UNCHANGED cloud
    BY <1>7 DEF ColdStart, RestoreDeployer
  <1>8. ASSUME OtherStarts \/ OtherEnds \/ Crash \/ IdleKill PROVE UNCHANGED <<cloud, inv, run>>
    BY <1>8 DEF OtherStarts, OtherEnds, Crash, IdleKill, Die
  <1>9. ASSUME UNCHANGED vars PROVE UNCHANGED <<cloud, inv, run>>
    BY <1>9 DEF vars
  <1> QED
    BY <1>2, <1>3, <1>4, <1>5, <1>6, <1>7, <1>8, <1>9 DEF Next, Driver

\* Every teardown, under every interleaving, is a Release: resources vanish
\* before their rows, the run ends with its last row, and nothing comes back.
THEOREM TeardownReleases == Spec => KeepsPromise
  <1>1. Init => Promise!Init  BY DEF Init, Promise!Init
  <1>2. /\ TypeOK /\ ReleaseInv
        /\ (TypeOK /\ ReleaseInv)'
        /\ [Next]_vars
        => [Promise!Next]_<<cloud, inv, run>>
    BY StepKeepsPromise
  <1> QED  BY <1>1, <1>2, Invariant, PTL DEF Spec, KeepsPromise, Promise!Spec
----------------------------------------------------------------------------
(* What each step of a handler does to the records, field by field: the next *)
(* invariants rest on these facts and on no update of a nested record.       *)

\* A record with one operation and its status replaced; with its status alone.
Altered(q, r, k, op, st) ==
    /\ q \in Record /\ q.status = st /\ q.ops[k] = op
    /\ \A j \in Resources \ {k} : q.ops[j] = r.ops[j]

Restated(q, r, st) == q \in Record /\ q.status = st /\ q.ops = r.ops

Others(h) ==
    \A g \in Handlers \ {h} :
        /\ pc'[g] = pc[g] /\ mode'[g] = mode[g] /\ job'[g] = job[g]
        /\ todo'[g] = todo[g] /\ cur'[g] = cur[g] /\ copy'[g] = copy[g]

World == <<inv, other, cloud, cold, restores>>

Own(h) == mode'[h] = mode[h] /\ job'[h] = job[h]

Leaves(h) == pc'[h] = "idle" /\ copy'[h] = NoRecord /\ todo'[h] = {} /\ cur'[h] = cur[h]

\* A handler that reads the inventory, is refused, waits, or reports.
Idles(h) ==
    /\ Others(h) /\ UNCHANGED World /\ UNCHANGED rec
    /\ \/ pc'[h] = "admit" /\ copy'[h] = copy[h] /\ cold
       \/ Leaves(h)
       \/ /\ Own(h) /\ cur'[h] = cur[h] /\ copy'[h] = copy[h] /\ todo'[h] = todo[h]
          /\ pc[h] = "commit" /\ pc'[h] = "failed"

Begins(h) ==
    /\ Others(h) /\ UNCHANGED World
    /\ \E t \in Ids, q \in Record :
          /\ rec' = [rec EXCEPT ![t] = q] /\ job'[h] = t /\ pc'[h] = "next"
          /\ q.status = "running" /\ SlotFree(t)
          /\ \/ /\ pc[h] = "admit" /\ Fresh(t) /\ q = Planned(todo[h])
                /\ copy'[h] = q /\ todo'[h] = todo[h]
             \/ /\ pc[h] = "idle" /\ cold /\ rec[t].status = "interrupted"
                /\ Restated(q, rec[t], "running") /\ mode'[h] = "resume"
                /\ copy'[h] = copy[h] /\ todo'[h] = instructions(rec[t])

\* It goes on to its next instruction: marks it, skips it, or has it to save.
Advances(h) ==
    /\ Others(h) /\ UNCHANGED World /\ Own(h) /\ pc[h] = "next"
    /\ \E r \in todo[h] :
          /\ First(r, todo[h]) /\ todo'[h] = todo[h] \ {r}
          /\ \/ /\ mode[h] = "start" /\ cur'[h] = r /\ pc'[h] = "call"
                /\ Altered(copy'[h], copy[h], r, "running", copy[h].status)
                /\ rec' = [rec EXCEPT ![job[h]] = copy'[h]]
             \/ /\ mode[h] = "resume" /\ UNCHANGED rec /\ rec[job[h]].ops[r] = "succeeded"
                /\ HasActiveWork(job[h])
                /\ pc'[h] = pc[h] /\ cur'[h] = cur[h] /\ copy'[h] = copy[h]
             \/ /\ mode[h] = "resume" /\ UNCHANGED rec /\ HasActiveWork(job[h])
                /\ cur'[h] = r /\ pc'[h] = "mark"
                /\ Altered(copy'[h], rec[job[h]], r, "running", "running")

\* It gives up, in one step or after one more save.
Fails(h) ==
    /\ Others(h) /\ UNCHANGED World /\ Own(h) /\ pc[h] \in {"failed", "auth"}
    /\ \/ \E q \in Record :
             /\ mode[h] = "start" /\ rec' = [rec EXCEPT ![job[h]] = q]
             /\ Altered(q, copy[h], cur[h], "failed", "failed")
             /\ Leaves(h)
       \/ /\ mode[h] = "resume" /\ UNCHANGED rec /\ pc'[h] = "put"
          /\ todo'[h] = todo[h] /\ cur'[h] = cur[h]
          /\ \/ Restated(copy'[h], rec[job[h]], "interrupted")
             \/ Altered(copy'[h], rec[job[h]], cur[h], "failed", "failed")

Saves(h) ==
    /\ Others(h) /\ UNCHANGED World /\ Own(h) /\ pc[h] \in {"mark", "put"}
    /\ rec' = [rec EXCEPT ![job[h]] = copy[h]]
    /\ \/ pc[h] = "put" /\ Leaves(h)
       \/ /\ pc[h] = "mark" /\ pc'[h] = "call" /\ copy'[h] = NoRecord
          /\ todo'[h] = todo[h] /\ cur'[h] = cur[h]

Calls(h) ==
    /\ Others(h) /\ Own(h) /\ UNCHANGED <<rec, inv, other, cold, restores>>
    /\ cloud' \subseteq cloud
    /\ pc[h] = "call" /\ pc'[h] \in {"commit", "failed", "auth"}
    /\ todo'[h] = todo[h] /\ cur'[h] = cur[h] /\ copy'[h] = copy[h]

Commits(h) ==
    /\ Others(h) /\ Own(h) /\ UNCHANGED <<other, cloud, cold, restores>>
    /\ pc[h] = "commit" /\ pc'[h] = "next" /\ todo'[h] = todo[h] /\ cur'[h] = cur[h]
    /\ \/ UNCHANGED <<rec, inv>> /\ rec[job[h]].ops[cur[h]] = "succeeded"
       \/ \E q \in Record, st \in {rec[job[h]].status, "succeeded"} :
             /\ Altered(q, rec[job[h]], cur[h], "succeeded", st)
             /\ rec' = [rec EXCEPT ![job[h]] = q] /\ inv' = inv \ {cur[h]}
             /\ rec[job[h]].ops[cur[h]] = "running"
             /\ \/ st = rec[job[h]].status
                \/ st = "succeeded" /\ instructions(q) \intersect inv' = {} /\ allCompleted(q)
    /\ \/ mode[h] = "resume" /\ copy'[h] = copy[h]
       \/ mode[h] = "start" /\ Altered(copy'[h], copy[h], cur[h], "succeeded", rec'[job[h]].status)

HandlerStep(h) ==
    \/ Idles(h) \/ Begins(h) \/ Advances(h) \/ Fails(h) \/ Saves(h) \/ Calls(h) \/ Commits(h)

Settles ==
    /\ UNCHANGED <<inv, cloud, other, pc, mode, job, todo, cur, copy>>
    /\ cold' /\ restores' = IF cold THEN restores + 1 ELSE restores
    /\ \A t \in Ids :
          \/ ~HasActiveWork(t) /\ rec'[t] = rec[t]
          \/ /\ HasActiveWork(t) /\ rec'[t] \in Record
             /\ \/ rec'[t].status = "interrupted"
                \/ rec'[t].status = "succeeded" /\ allReleased(rec[t])
             /\ \A k \in Resources :
                   rec'[t].ops[k] = IF k \in instructions(rec[t]) \ inv THEN "succeeded"
                                    ELSE rec[t].ops[k]

Elsewhere ==
    /\ UNCHANGED <<rec, inv, cloud, pc, mode, job, todo, cur, copy, cold, restores>>
    /\ other' => other \/ \A t \in Ids : ~HasActiveWork(t)

Dies ==
    /\ UNCHANGED <<rec, inv, cloud, other, mode, job, cur, restores>> /\ ~cold'
    /\ \A h \in Handlers : pc'[h] = "idle" /\ copy'[h] = NoRecord /\ todo'[h] = {}

Shape == (\E h \in Handlers : HandlerStep(h)) \/ Settles \/ Elsewhere \/ Dies

LEMMA Changes ==
    ASSUME NEW r \in Record, NEW k \in Resources, NEW op \in OpStatus, NEW st \in Status
    PROVE  /\ Altered([r EXCEPT !.ops[k] = op], r, k, op, r.status)
           /\ Altered([r EXCEPT !.ops[k] = op, !.status = st], r, k, op, st)
           /\ Altered([[r EXCEPT !.ops[k] = op] EXCEPT !.status = st], r, k, op, st)
           /\ Restated([r EXCEPT !.status = st], r, st)
  BY DEF Record, Altered, Restated

LEMMA ShapeOfStep == TypeOK /\ [Next]_vars => Shape
  <1> SUFFICES ASSUME TypeOK, [Next]_vars PROVE Shape
    OBVIOUS
  <1> USE DEF durable, handler, counters
  <1>r. \A h \in Handlers : job[h] \in Ids /\ rec[job[h]] \in Record /\ copy[h] \in Record
                            /\ cur[h] \in Resources
    BY DEF TypeOK
  <1>1. ASSUME NEW h \in Handlers, StartRead(h) PROVE HandlerStep(h)
    BY <1>1 DEF StartRead, Goto, TypeOK, HandlerStep, Idles, Others, World
  <1>2. ASSUME NEW h \in Handlers, StartAdmit(h) PROVE HandlerStep(h)
    <2>1. CASE Return(h) /\ UNCHANGED <<rec, job>>
      BY <1>2, <2>1 DEF StartAdmit, Return, Goto, SetCopy, TypeOK, HandlerStep, Idles, Others,
                        World, Leaves
    <2>2. ASSUME NEW t \in Ids, Fresh(t), SlotFree(t),
                 rec' = [rec EXCEPT ![t] = Planned(todo[h])],
                 job' = [job EXCEPT ![h] = t],
                 SetCopy(h, Planned(todo[h])), Goto(h, "next"), UNCHANGED todo
          PROVE  HandlerStep(h)
      <3> DEFINE q == Planned(todo[h])
      <3>1. q \in Record  BY RecordsBuilt
      <3>2. q.status = "running"  BY DEF Planned
      <3>3. /\ pc[h] = "admit" /\ pc'[h] = "next" /\ copy'[h] = q /\ todo'[h] = todo[h]
            /\ job'[h] = t
        BY <1>2, <2>2 DEF StartAdmit, SetCopy, Goto, TypeOK
      <3>4. Others(h) /\ UNCHANGED World
        BY <1>2, <2>2 DEF StartAdmit, SetCopy, Goto, TypeOK, Others, World
      <3>5. rec' = [rec EXCEPT ![t] = q] /\ Fresh(t) /\ SlotFree(t)  BY <2>2
      <3> HIDE DEF q
      <3> QED  BY <3>1, <3>2, <3>3, <3>4, <3>5 DEF HandlerStep, Begins, q
    <2>3. \/ \E t \in Ids : /\ Fresh(t) /\ SlotFree(t)
                            /\ rec' = [rec EXCEPT ![t] = Planned(todo[h])]
                            /\ job' = [job EXCEPT ![h] = t]
                            /\ SetCopy(h, Planned(todo[h])) /\ Goto(h, "next") /\ UNCHANGED todo
          \/ Return(h) /\ UNCHANGED <<rec, job>>
      BY <1>2, Zenon DEF StartAdmit
    <2> QED  BY <2>1, <2>2, <2>3, Zenon
  <1>3. ASSUME NEW h \in Handlers, StartMark(h) PROVE HandlerStep(h)
    <2>1. PICK r \in todo[h] :
             /\ First(r, todo[h])
             /\ cur' = [cur EXCEPT ![h] = r]
             /\ todo' = [todo EXCEPT ![h] = @ \ {r}]
             /\ copy' = [copy EXCEPT ![h] = [copy[h] EXCEPT !.ops[r] = "running"]]
             /\ rec' = [rec EXCEPT ![job[h]] = [copy[h] EXCEPT !.ops[r] = "running"]]
      BY <1>3, Zenon DEF StartMark, SetCopy, Put
    <2> DEFINE q == [copy[h] EXCEPT !.ops[r] = "running"]
    <2>2. r \in Resources  BY DEF TypeOK
    <2>3. copy[h].status \in Status  BY <1>r DEF Record
    <2>4. Altered(q, copy[h], r, "running", copy[h].status)
      BY <1>r, <2>2, <2>3, Changes DEF OpStatus
    <2>5. /\ pc[h] = "next" /\ mode[h] = "start" /\ pc' = [pc EXCEPT ![h] = "call"]
          /\ UNCHANGED <<inv, other, cloud, mode, job, cold, restores>>
      BY <1>3 DEF StartMark, Goto
    <2>6. copy'[h] = q /\ rec' = [rec EXCEPT ![job[h]] = q]  BY <2>1 DEF TypeOK
    <2>7. todo'[h] = todo[h] \ {r} /\ cur'[h] = r /\ pc'[h] = "call" /\ Own(h)
      BY <2>1, <2>5 DEF TypeOK, Own
    <2>8. Others(h) /\ UNCHANGED World  BY <2>1, <2>5 DEF TypeOK, Others, World
    <2> HIDE DEF q
    <2> QED  BY <2>1, <2>4, <2>5, <2>6, <2>7, <2>8 DEF HandlerStep, Advances
  <1>4. ASSUME NEW h \in Handlers, StartFails(h) PROVE HandlerStep(h)
    <2> DEFINE q == [copy[h] EXCEPT !.ops[cur[h]] = "failed", !.status = "failed"]
    <2>1. Altered(q, copy[h], cur[h], "failed", "failed")
      BY <1>r, Changes DEF OpStatus, Status
    <2>2. q \in Record  BY <2>1 DEF Altered
    <2>3. /\ pc[h] \in {"failed", "auth"} /\ mode[h] = "start" /\ pc' = [pc EXCEPT ![h] = "idle"]
          /\ copy' = [copy EXCEPT ![h] = NoRecord] /\ todo' = [todo EXCEPT ![h] = {}]
          /\ rec' = [rec EXCEPT ![job[h]] = q]
          /\ UNCHANGED <<inv, other, cloud, mode, job, cur, cold, restores>>
      BY <1>4 DEF StartFails, Goto, Return, SetCopy, Put
    <2>4. Leaves(h) /\ Own(h)  BY <2>3 DEF TypeOK, Leaves, Own
    <2>5. Others(h) /\ UNCHANGED World  BY <2>3 DEF TypeOK, Others, World
    <2> HIDE DEF q
    <2> QED  BY <2>1, <2>2, <2>3, <2>4, <2>5 DEF HandlerStep, Fails
  <1>5. ASSUME NEW h \in Handlers, NEW t \in Ids, Resume(h, t) PROVE HandlerStep(h)
    <2> DEFINE q == [rec[t] EXCEPT !.status = "running"]
    <2>1. Restated(q, rec[t], "running") /\ q \in Record /\ q.status = "running"
      <3>1. rec[t] \in Record  BY DEF TypeOK
      <3> QED  BY <3>1 DEF Record, Restated, Status
    <2>2. /\ cold /\ pc[h] = "idle" /\ rec[t].status = "interrupted" /\ SlotFree(t)
          /\ pc' = [pc EXCEPT ![h] = "next"] /\ job' = [job EXCEPT ![h] = t]
          /\ mode' = [mode EXCEPT ![h] = "resume"]
          /\ todo' = [todo EXCEPT ![h] = instructions(rec[t])]
          /\ rec' = [rec EXCEPT ![t] = q]
          /\ UNCHANGED <<inv, other, cloud, cur, copy, cold, restores>>
      BY <1>5 DEF Resume, Goto, Resumable
    <2>3. /\ pc'[h] = "next" /\ job'[h] = t /\ mode'[h] = "resume"
          /\ todo'[h] = instructions(rec[t]) /\ copy'[h] = copy[h]
      BY <2>2 DEF TypeOK
    <2>4. Others(h) /\ UNCHANGED World  BY <2>2 DEF TypeOK, Others, World
    <2> HIDE DEF q
    <2> QED  BY <2>1, <2>2, <2>3, <2>4 DEF HandlerStep, Begins
  <1>6. ASSUME NEW h \in Handlers, ResumeRead(h) PROVE HandlerStep(h)
    <2>1. PICK r \in todo[h] :
             /\ First(r, todo[h])
             /\ \/ Return(h) /\ UNCHANGED cur
                \/ /\ HasActiveWork(job[h])
                   /\ todo' = [todo EXCEPT ![h] = @ \ {r}]
                   /\ \/ rec[job[h]].ops[r] = "succeeded" /\ UNCHANGED <<pc, cur, copy>>
                      \/ /\ cur' = [cur EXCEPT ![h] = r]
                         /\ copy' = [copy EXCEPT ![h] = [rec[job[h]] EXCEPT !.ops[r] = "running"]]
                         /\ pc' = [pc EXCEPT ![h] = "mark"]
      BY <1>6 DEF ResumeRead, SetCopy, Goto
    <2>2. /\ pc[h] = "next" /\ mode[h] = "resume"
          /\ UNCHANGED <<rec, inv, cloud, other, mode, job, cold, restores>>
      BY <1>6 DEF ResumeRead
    <2>3. CASE Return(h) /\ UNCHANGED cur
      BY <2>2, <2>3 DEF Return, Goto, SetCopy, TypeOK, HandlerStep, Idles, Others, World, Leaves
    <2>4. CASE /\ HasActiveWork(job[h]) /\ todo' = [todo EXCEPT ![h] = @ \ {r}]
               /\ rec[job[h]].ops[r] = "succeeded" /\ UNCHANGED <<pc, cur, copy>>
      <3>1. todo'[h] = todo[h] \ {r} /\ Others(h)  BY <2>2, <2>4 DEF TypeOK, Others
      <3> QED  BY <2>1, <2>2, <2>4, <3>1 DEF HandlerStep, Advances, World, Own
    <2>5. CASE /\ HasActiveWork(job[h]) /\ todo' = [todo EXCEPT ![h] = @ \ {r}]
               /\ cur' = [cur EXCEPT ![h] = r]
               /\ copy' = [copy EXCEPT ![h] = [rec[job[h]] EXCEPT !.ops[r] = "running"]]
               /\ pc' = [pc EXCEPT ![h] = "mark"]
      <3> DEFINE q == [rec[job[h]] EXCEPT !.ops[r] = "running"]
      <3>1. r \in Resources  BY DEF TypeOK
      <3>2. Altered(q, rec[job[h]], r, "running", rec[job[h]].status)
        BY <1>r, <3>1, Changes DEF OpStatus, Status
      <3>3. Altered(q, rec[job[h]], r, "running", "running")  BY <2>5, <3>2 DEF HasActiveWork
      <3>4. copy'[h] = q /\ todo'[h] = todo[h] \ {r} /\ cur'[h] = r /\ pc'[h] = "mark"
        BY <2>5 DEF TypeOK
      <3>5. Others(h) /\ UNCHANGED World /\ Own(h)  BY <2>2, <2>5 DEF TypeOK, Others, World, Own
      <3> HIDE DEF q
      <3> QED  BY <2>1, <2>2, <2>5, <3>3, <3>4, <3>5 DEF HandlerStep, Advances
    <2> QED  BY <2>1, <2>3, <2>4, <2>5
  <1>7. ASSUME NEW h \in Handlers, ResumeFails(h) PROVE HandlerStep(h)
    <2>1. /\ mode[h] = "resume" /\ pc[h] \in {"failed", "auth"}
          /\ pc' = [pc EXCEPT ![h] = "put"]
          /\ UNCHANGED <<rec, inv, cloud, other, mode, job, todo, cur, cold, restores>>
      BY <1>7 DEF ResumeFails, Goto
    <2>2. Restated([rec[job[h]] EXCEPT !.status = "interrupted"], rec[job[h]], "interrupted")
      BY <1>r, Changes DEF OpStatus, Status
    <2>3. Altered([rec[job[h]] EXCEPT !.ops[cur[h]] = "failed", !.status = "failed"],
                  rec[job[h]], cur[h], "failed", "failed")
      BY <1>r, Changes DEF OpStatus, Status
    <2>4. \/ Restated(copy'[h], rec[job[h]], "interrupted")
          \/ Altered(copy'[h], rec[job[h]], cur[h], "failed", "failed")
      <3>1. CASE SetCopy(h, [rec[job[h]] EXCEPT !.status = "interrupted"])
        <4>1. copy'[h] = [rec[job[h]] EXCEPT !.status = "interrupted"]
          BY <3>1 DEF SetCopy, TypeOK
        <4> QED  BY <2>2, <4>1
      <3>2. CASE SetCopy(h, [rec[job[h]] EXCEPT !.ops[cur[h]] = "failed", !.status = "failed"])
        <4>1. copy'[h] = [rec[job[h]] EXCEPT !.ops[cur[h]] = "failed", !.status = "failed"]
          BY <3>2 DEF SetCopy, TypeOK
        <4> QED  BY <2>3, <4>1
      <3> QED  BY <1>7, <3>1, <3>2, Zenon DEF ResumeFails
    <2>5. Others(h)
      <3>1. \E q : copy' = [copy EXCEPT ![h] = q]  BY <1>7 DEF ResumeFails, SetCopy
      <3> QED  BY <2>1, <3>1 DEF TypeOK, Others
    <2>6. pc'[h] = "put" /\ Own(h) /\ UNCHANGED World  BY <2>1 DEF TypeOK, Own, World
    <2> QED  BY <2>1, <2>4, <2>5, <2>6 DEF HandlerStep, Fails
  <1>8. ASSUME NEW h \in Handlers, Write(h) PROVE HandlerStep(h)
    <2>1. /\ pc[h] \in {"mark", "put"} /\ rec' = [rec EXCEPT ![job[h]] = copy[h]]
          /\ copy' = [copy EXCEPT ![h] = NoRecord]
          /\ \/ /\ pc[h] = "put" /\ pc' = [pc EXCEPT ![h] = "idle"]
                /\ todo' = [todo EXCEPT ![h] = {}]
             \/ pc[h] = "mark" /\ pc' = [pc EXCEPT ![h] = "call"] /\ UNCHANGED todo
          /\ UNCHANGED <<inv, cloud, other, mode, job, cur, cold, restores>>
      BY <1>8 DEF Write, Put, Return, Goto, SetCopy
    <2>2. Others(h) /\ UNCHANGED World /\ Own(h)  BY <2>1 DEF TypeOK, Others, World, Own
    <2> QED  BY <2>1, <2>2 DEF TypeOK, HandlerStep, Saves, Leaves
  <1>9. ASSUME NEW h \in Handlers, Destroy(h) \/ DestroyFails(h) PROVE HandlerStep(h)
    BY <1>9 DEF Destroy, DestroyFails, Goto, TypeOK, HandlerStep, Calls, Others, Own
  <1>10. ASSUME NEW h \in Handlers, Commit(h) PROVE HandlerStep(h)
    <2> DEFINE r == rec[job[h]]
               done == [r EXCEPT !.ops[cur[h]] = "succeeded"]
    <2>1. /\ pc[h] = "commit" /\ pc' = [pc EXCEPT ![h] = "next"]
          /\ UNCHANGED <<cloud, other, mode, job, todo, cur, cold, restores>>
      BY <1>10 DEF Commit, Goto
    <2>2. r \in Record /\ r.status \in Status  BY <1>r DEF Record
    <2>3. /\ Altered(done, r, cur[h], "succeeded", r.status)
          /\ Altered([done EXCEPT !.status = "succeeded"], r, cur[h], "succeeded", "succeeded")
      BY <1>r, <2>2, Changes DEF OpStatus, Status
    <2>4. \/ UNCHANGED <<rec, inv>> /\ r.ops[cur[h]] = "succeeded"
          \/ \E q \in Record, st \in {r.status, "succeeded"} :
                /\ Altered(q, r, cur[h], "succeeded", st)
                /\ rec' = [rec EXCEPT ![job[h]] = q] /\ inv' = inv \ {cur[h]}
                /\ r.ops[cur[h]] = "running"
                /\ \/ st = r.status
                   \/ st = "succeeded" /\ instructions(q) \intersect inv' = {} /\ allCompleted(q)
      <3> HIDE DEF r, done
      <3>1. CASE UNCHANGED <<rec, inv, run>> /\ r.ops[cur[h]] = "succeeded"
        BY <3>1
      <3>2. CASE /\ r.ops[cur[h]] = "running" /\ inv' = inv \ {cur[h]}
                 /\ rec' = [rec EXCEPT ![job[h]] = done]
        <4>1. done \in Record  BY <2>3 DEF Altered
        <4> QED  BY <2>3, <3>2, <4>1
      <3>3. CASE /\ r.ops[cur[h]] = "running" /\ inv' = inv \ {cur[h]}
                 /\ allCompleted(done) /\ instructions(done) \intersect inv' = {}
                 /\ rec' = [rec EXCEPT ![job[h]] = [done EXCEPT !.status = "succeeded"]]
        <4> DEFINE q == [done EXCEPT !.status = "succeeded"]
        <4>1. done \in Record /\ q \in Record  BY <2>3 DEF Altered
        <4>2. q.ops = done.ops  BY <4>1 DEF Record
        <4>3. allCompleted(q) /\ instructions(q) \intersect inv' = {}
          <5> HIDE DEF q
          <5> QED  BY <3>3, <4>2 DEF allCompleted, instructions
        <4> HIDE DEF q
        <4> QED  BY <2>3, <3>3, <4>1, <4>3 DEF q
      <3> QED  BY <1>10, <3>1, <3>2, <3>3 DEF Commit, r, done
    <2>5. /\ mode[h] = "resume" => copy' = copy
          /\ mode[h] = "start" =>
                copy' = [copy EXCEPT ![h] =
                          [copy[h] EXCEPT !.ops[cur[h]] = "succeeded", !.status = rec'[job[h]].status]]
      BY <1>10 DEF Commit, SetCopy
    <2>6. rec'[job[h]].status \in Status
      <3>1. rec' \in [Ids -> Record]  BY TypeStep DEF TypeOK
      <3> QED  BY <1>r, <3>1 DEF Record
    <2>7. \/ mode[h] = "resume" /\ copy'[h] = copy[h]
          \/ mode[h] = "start" /\ Altered(copy'[h], copy[h], cur[h], "succeeded", rec'[job[h]].status)
      <3> DEFINE st == rec'[job[h]].status
                 q == [copy[h] EXCEPT !.ops[cur[h]] = "succeeded", !.status = st]
      <3>1. Altered(q, copy[h], cur[h], "succeeded", st)  BY <1>r, <2>6, Changes DEF OpStatus
      <3>2. mode[h] = "start" => copy'[h] = q  BY <2>5 DEF TypeOK
      <3>3. mode[h] \in {"start", "resume"}  BY DEF TypeOK
      <3> HIDE DEF q
      <3> QED  BY <2>5, <3>1, <3>2, <3>3
    <2>8. Others(h)
      <3>1. copy' = copy \/ \E q : copy' = [copy EXCEPT ![h] = q]
        BY <2>5 DEF TypeOK
      <3> QED  BY <2>1, <3>1 DEF TypeOK, Others
    <2>9. /\ pc'[h] = "next" /\ todo'[h] = todo[h] /\ cur'[h] = cur[h] /\ Own(h)
      BY <2>1 DEF TypeOK, Own
    <2> HIDE DEF done
    <2> QED  BY <2>1, <2>4, <2>7, <2>8, <2>9 DEF HandlerStep, Commits
  <1>11. ASSUME NEW h \in Handlers, CommitRefused(h) PROVE HandlerStep(h)
    BY <1>11 DEF CommitRefused, Goto, TypeOK, HandlerStep, Idles, Others, World, Own
  <1>12. ASSUME NEW h \in Handlers, Finish(h) PROVE HandlerStep(h)
    BY <1>12 DEF Finish, Return, Goto, SetCopy, TypeOK, HandlerStep, Idles, Others, World, Leaves
  <1>13. ASSUME ColdStart \/ RestoreDeployer PROVE Settles
    <2>1. /\ Reconcile
          /\ UNCHANGED <<cloud, other, pc, mode, job, todo, cur, copy>>
          /\ cold' /\ restores' = IF cold THEN restores + 1 ELSE restores
      BY <1>13 DEF ColdStart, RestoreDeployer
    <2>2. ASSUME NEW t \in Ids, HasActiveWork(t)
          PROVE  /\ rec'[t] \in Record
                 /\ \/ rec'[t].status = "interrupted"
                    \/ rec'[t].status = "succeeded" /\ allReleased(rec[t])
                 /\ \A k \in Resources :
                       rec'[t].ops[k] = IF k \in instructions(rec[t]) \ inv THEN "succeeded"
                                        ELSE rec[t].ops[k]
      <3> DEFINE st == IF allReleased(rec[t]) THEN "succeeded" ELSE "interrupted"
                 q == [Recovered(rec[t]) EXCEPT !.status = st]
      <3>1. rec'[t] = q  BY <2>1, <2>2 DEF Reconcile
      <3>2. rec[t] \in Record  BY DEF TypeOK
      <3>3. q \in Record  BY <3>2, RecoveredRecord DEF Status
      <3>4. q.status = st  BY <3>2 DEF Record, Recovered
      <3>5. \A k \in Resources :
               q.ops[k] = IF k \in instructions(rec[t]) \ inv THEN "succeeded" ELSE rec[t].ops[k]
        BY <3>2 DEF Record, Recovered
      <3> HIDE DEF q
      <3> QED  BY <3>1, <3>3, <3>4, <3>5
    <2>3. \A t \in Ids : ~HasActiveWork(t) => rec'[t] = rec[t]  BY <2>1 DEF Reconcile
    <2>4. inv' = inv  BY <2>1 DEF Reconcile
    <2> QED  BY <2>1, <2>2, <2>3, <2>4 DEF Settles
  <1>14. ASSUME OtherStarts \/ OtherEnds PROVE Elsewhere
    BY <1>14 DEF OtherStarts, OtherEnds, Elsewhere
  <1>15. ASSUME Crash \/ IdleKill PROVE Dies
    BY <1>15 DEF Crash, IdleKill, Die, Dies
  <1>16. ASSUME UNCHANGED vars PROVE Elsewhere
    BY <1>16 DEF vars, Elsewhere
  <1> QED
    BY <1>1, <1>2, <1>3, <1>4, <1>5, <1>6, <1>7, <1>8, <1>9, <1>10, <1>11, <1>12, <1>13,
       <1>14, <1>15, <1>16 DEF Next, Driver, Shape

\* Every step but the first save of a record keeps what it was approved for.
LEMMA SameInstructions ==
    ASSUME NEW r, NEW q, NEW k \in instructions(r), NEW op, op # "out", NEW st,
           Altered(q, r, k, op, st)
    PROVE  instructions(q) = instructions(r) /\ q.status = st
  BY DEF Altered, instructions

LEMMA StepKeeps ==
    ASSUME TypeOK, ReleaseInv, Shape
    PROVE  Kept /\ inv' \subseteq inv /\ cloud' \subseteq cloud
  <1>1. ASSUME NEW h \in Handlers, HandlerStep(h) PROVE inv' \subseteq inv /\ cloud' \subseteq cloud
    BY <1>1 DEF HandlerStep, Idles, Begins, Advances, Fails, Saves, Calls, Commits, World
  <1>2. ASSUME NEW t \in Ids, NEW q \in Record, rec' = [rec EXCEPT ![t] = q],
               rec[t].status # "none" => /\ q.status # "none"
                                         /\ instructions(q) = instructions(rec[t])
        PROVE  Kept
    BY <1>2 DEF Kept, TypeOK
  <1>3. ASSUME NEW h \in Handlers, HandlerStep(h) PROVE Kept
    <2> DEFINE r == rec[job[h]]
    <2>1. job[h] \in Ids /\ r \in Record /\ copy[h] \in Record  BY DEF TypeOK
    <2>2. HandlerInv(h)  BY DEF ReleaseInv
    <2>3. CASE Idles(h) \/ Calls(h)  BY <2>3 DEF Idles, Calls, Kept
    <2>4. CASE Begins(h)
      <3>1. PICK t \in Ids, q \in Record :
               /\ rec' = [rec EXCEPT ![t] = q] /\ q.status = "running"
               /\ rec[t].status = "none" \/ Restated(q, rec[t], "running")
        BY <2>4 DEF Begins, Fresh
      <3>2. Restated(q, rec[t], "running") => instructions(q) = instructions(rec[t])
        BY DEF Restated, instructions
      <3> QED  BY <1>2, <3>1, <3>2
    <2>5. CASE Advances(h)
      <3>1. CASE UNCHANGED rec  BY <3>1 DEF Kept
      <3>2. ASSUME NEW i \in todo[h], mode[h] = "start", rec' = [rec EXCEPT ![job[h]] = copy'[h]],
                   Altered(copy'[h], copy[h], i, "running", copy[h].status)
            PROVE  Kept
        <4>1. /\ copy[h].status # "none" /\ instructions(copy[h]) = instructions(r)
              /\ i \in instructions(copy[h])
          BY <2>2, <2>5, <3>2 DEF Advances, HandlerInv, HasCopy
        <4>2. /\ instructions(copy'[h]) = instructions(copy[h])
              /\ copy'[h].status = copy[h].status
          BY <2>1, <3>2, <4>1, SameInstructions
        <4>3. copy'[h] \in Record  BY <3>2 DEF Altered
        <4> QED  BY <1>2, <2>1, <3>2, <4>1, <4>2, <4>3
      <3> QED  BY <2>5, <3>1, <3>2 DEF Advances
    <2>6. CASE Fails(h)
      <3>1. CASE UNCHANGED rec  BY <3>1 DEF Kept
      <3>2. ASSUME NEW q \in Record, mode[h] = "start", rec' = [rec EXCEPT ![job[h]] = q],
                   Altered(q, copy[h], cur[h], "failed", "failed")
            PROVE  Kept
        <4>1. instructions(copy[h]) = instructions(r) /\ cur[h] \in instructions(copy[h])
          BY <2>2, <2>6, <3>2 DEF Fails, HandlerInv, HasCopy, Working
        <4>2. instructions(q) = instructions(copy[h]) /\ q.status = "failed"
          BY <2>1, <3>2, <4>1, SameInstructions
        <4> QED  BY <1>2, <2>1, <3>2, <4>1, <4>2
      <3> QED  BY <2>6, <3>1, <3>2 DEF Fails
    <2>7. CASE Saves(h)
      <3>1. copy[h].status # "none" /\ instructions(copy[h]) = instructions(r)
        BY <2>2, <2>7 DEF Saves, HandlerInv, HasCopy
      <3> QED  BY <1>2, <2>1, <2>7, <3>1 DEF Saves
    <2>8. CASE Commits(h)
      <3>1. CASE UNCHANGED rec  BY <3>1 DEF Kept
      <3>2. ASSUME NEW q \in Record, NEW st, st = r.status \/ st = "succeeded",
                   Altered(q, r, cur[h], "succeeded", st), rec' = [rec EXCEPT ![job[h]] = q]
            PROVE  Kept
        <4>1. r.status # "none" /\ cur[h] \in instructions(r)
          BY <2>2, <2>8 DEF Commits, HandlerInv, Working
        <4>2. instructions(q) = instructions(r) /\ q.status = st
          BY <2>1, <3>2, <4>1, SameInstructions
        <4> QED  BY <1>2, <2>1, <3>2, <4>1, <4>2
      <3> QED  BY <2>8, <3>1, <3>2 DEF Commits
    <2> QED  BY <1>3, <2>3, <2>4, <2>5, <2>6, <2>7, <2>8 DEF HandlerStep
  <1>4. CASE Settles
    <2>1. ASSUME NEW t \in Ids, rec[t].status # "none"
          PROVE  rec'[t].status # "none" /\ instructions(rec'[t]) = instructions(rec[t])
      <3>1. CASE rec'[t] = rec[t]  BY <2>1, <3>1
      <3>2. CASE /\ rec'[t].status # "none"
                 /\ \A k \in Resources :
                       rec'[t].ops[k] = IF k \in instructions(rec[t]) \ inv THEN "succeeded"
                                        ELSE rec[t].ops[k]
        BY <3>2 DEF instructions
      <3> QED  BY <1>4, <3>1, <3>2 DEF Settles
    <2> QED  BY <1>4, <2>1 DEF Settles, Kept
  <1>5. CASE Elsewhere \/ Dies  BY <1>5 DEF Elsewhere, Dies, Kept
  <1>6. Settles => inv' \subseteq inv /\ cloud' \subseteq cloud  BY DEF Settles
  <1>7. Elsewhere \/ Dies => inv' \subseteq inv /\ cloud' \subseteq cloud  BY DEF Elsewhere, Dies
  <1> QED  BY <1>1, <1>3, <1>4, <1>5, <1>6, <1>7 DEF Shape

----------------------------------------------------------------------------
(* Success. What a record, or a copy of one that a driver may yet save, calls *)
(* done has gone from the provider; a finished one has no row left either.    *)

Sound(r, rows, there) ==
    /\ r.status = "succeeded" => instructions(r) \intersect rows = {}
    /\ \A k \in Resources : r.ops[k] = "succeeded" => k \notin there

SoundInv ==
    /\ \A t \in Ids : Sound(rec[t], inv, cloud)
    /\ \A h \in Handlers : Sound(copy[h], inv, cloud)

LEMMA SoundStays ==
    ASSUME NEW r, NEW i, NEW j, NEW c, NEW d, Sound(r, i, c), j \subseteq i, d \subseteq c
    PROVE  Sound(r, j, d)
  BY DEF Sound

LEMMA SoundAltered ==
    ASSUME NEW r \in Record, NEW q, NEW k \in instructions(r), NEW op, NEW st, NEW i, NEW c,
           Sound(r, i, c),
           \/ Altered(q, r, k, op, st) /\ op # "out" /\ (op = "succeeded" => k \notin c)
           \/ Restated(q, r, st),
           st = "succeeded" => instructions(r) \intersect i = {}
    PROVE  Sound(q, i, c)
  <1>1. instructions(q) = instructions(r) /\ q.status = st
    BY SameInstructions DEF Restated, instructions
  <1>2. \A j \in Resources : q.ops[j] = "succeeded" => j \notin c
    BY DEF Altered, Restated, Sound, instructions
  <1> QED  BY <1>1, <1>2 DEF Sound

LEMMA SoundBlank == \A S, i, c : Sound(NoRecord, i, c) /\ Sound(Planned(S), i, c)
  BY DEF Sound, NoRecord, Planned

LEMMA SoundInit == Init => SoundInv
  BY SoundBlank DEF Init, SoundInv

LEMMA SoundStep ==
    ASSUME TypeOK, ReleaseInv, SoundInv, Shape
    PROVE  SoundInv'
  <1>0. Kept /\ inv' \subseteq inv /\ cloud' \subseteq cloud  BY StepKeeps
  <1>1. /\ \A t \in Ids : Sound(rec[t], inv', cloud')
        /\ \A h \in Handlers : Sound(copy[h], inv', cloud')
    BY <1>0, SoundStays DEF SoundInv
  <1>2. ASSUME \A t \in Ids : Sound(rec'[t], inv', cloud'),
               \A h \in Handlers : Sound(copy'[h], inv', cloud')
        PROVE  SoundInv'
    <2>1. \A r : Sound(r, inv, cloud)' <=> Sound(r', inv', cloud')  BY DEF Sound, instructions
    <2> QED  BY <1>2, <2>1 DEF SoundInv, Sound, instructions
  <1>3. ASSUME NEW h \in Handlers, Others(h), Sound(copy'[h], inv', cloud'),
               \/ UNCHANGED rec
               \/ \E t \in Ids : \E q : rec' = [rec EXCEPT ![t] = q] /\ Sound(q, inv', cloud')
        PROVE  SoundInv'
    <2>1. \A g \in Handlers : Sound(copy'[g], inv', cloud')  BY <1>1, <1>3 DEF Others
    <2>2. \A t \in Ids : Sound(rec'[t], inv', cloud')  BY <1>1, <1>3 DEF TypeOK
    <2> QED  BY <1>2, <2>1, <2>2
  <1>4. ASSUME NEW h \in Handlers, HandlerStep(h) PROVE SoundInv'
    <2> DEFINE r == rec[job[h]]
    <2>1. job[h] \in Ids /\ r \in Record /\ copy[h] \in Record  BY DEF TypeOK
    <2>2. HandlerInv(h)  BY DEF ReleaseInv
    <2>3. Sound(r, inv', cloud') /\ Sound(copy[h], inv', cloud')  BY <1>1, <2>1
    <2>4. pc[h] \in Working => cur[h] \in instructions(r)  BY <2>2 DEF HandlerInv
    <2>5. HasCopy(h) => instructions(copy[h]) = instructions(r)  BY <2>2 DEF HandlerInv
    <2>6. Sound(NoRecord, inv', cloud')  BY SoundBlank
    <2>7. ASSUME copy'[h] \in {copy[h], NoRecord} PROVE Sound(copy'[h], inv', cloud')
      BY <2>3, <2>6, <2>7
    <2> HIDE DEF r
    <2>8. CASE Idles(h) \/ Calls(h)
      BY <1>3, <2>7, <2>8 DEF Idles, Calls, Leaves
    <2>9. CASE Begins(h)
      <3>1. PICK t \in Ids, q \in Record :
               /\ rec' = [rec EXCEPT ![t] = q]
               /\ \/ q = Planned(todo[h]) /\ copy'[h] = q
                  \/ Restated(q, rec[t], "running") /\ copy'[h] = copy[h]
        BY <2>9, Zenon DEF Begins
      <3>2. Sound(rec[t], inv', cloud')  BY <1>1
      <3>3. Restated(q, rec[t], "running") => Sound(q, inv', cloud')
        BY <3>2 DEF Restated, Sound
      <3>4. Sound(Planned(todo[h]), inv', cloud')  BY SoundBlank
      <3>5. Others(h)  BY <2>9 DEF Begins
      <3> QED  BY <1>3, <2>3, <3>1, <3>3, <3>4, <3>5
    <2>10. CASE Advances(h)
      <3>0. Others(h) /\ pc[h] = "next" /\ todo[h] \subseteq instructions(r)
        BY <2>2, <2>10 DEF Advances, HandlerInv, r
      <3>1. CASE UNCHANGED rec /\ copy'[h] = copy[h]  BY <1>3, <2>7, <3>0, <3>1
      <3>2. ASSUME NEW i \in todo[h], mode[h] = "start", rec' = [rec EXCEPT ![job[h]] = copy'[h]],
                   Altered(copy'[h], copy[h], i, "running", copy[h].status)
            PROVE  SoundInv'
        <4>1. i \in instructions(copy[h])  BY <2>5, <3>0, <3>2 DEF HasCopy
        <4>2. copy[h].status = "succeeded" => instructions(copy[h]) \intersect inv' = {}
          BY <2>3 DEF Sound
        <4>3. Sound(copy'[h], inv', cloud')  BY <2>1, <2>3, <3>2, <4>1, <4>2, SoundAltered
        <4> QED  BY <1>3, <2>1, <3>0, <3>2, <4>3
      <3>3. ASSUME NEW i \in todo[h], UNCHANGED rec,
                   Altered(copy'[h], r, i, "running", "running")
            PROVE  SoundInv'
        <4>1. Sound(copy'[h], inv', cloud')  BY <2>1, <2>3, <3>0, <3>3, SoundAltered
        <4> QED  BY <1>3, <3>0, <3>3, <4>1
      <3> QED  BY <2>10, <3>1, <3>2, <3>3 DEF Advances, r
    <2>11. CASE Fails(h)
      <3>0. Others(h) /\ pc[h] \in {"failed", "auth"} /\ cur[h] \in instructions(r)
        BY <2>4, <2>11 DEF Fails, Working
      <3>1. ASSUME NEW q \in Record, mode[h] = "start", rec' = [rec EXCEPT ![job[h]] = q],
                   Altered(q, copy[h], cur[h], "failed", "failed"), Leaves(h)
            PROVE  SoundInv'
        <4>1. cur[h] \in instructions(copy[h])  BY <2>5, <3>0, <3>1 DEF HasCopy
        <4>2. Sound(q, inv', cloud')  BY <2>1, <2>3, <3>1, <4>1, SoundAltered
        <4>3. Sound(copy'[h], inv', cloud')  BY <2>6, <3>1 DEF Leaves
        <4> QED  BY <1>3, <2>1, <3>0, <3>1, <4>2, <4>3
      <3>2. ASSUME UNCHANGED rec, NEW st \in {"interrupted", "failed"},
                   \/ Restated(copy'[h], r, st)
                   \/ Altered(copy'[h], r, cur[h], "failed", st)
            PROVE  SoundInv'
        <4>1. Sound(copy'[h], inv', cloud')  BY <2>1, <2>3, <3>0, <3>2, SoundAltered
        <4> QED  BY <1>3, <3>0, <3>2, <4>1
      <3> QED  BY <2>11, <3>1, <3>2 DEF Fails, r
    <2>12. CASE Saves(h)
      <3>1. copy'[h] = NoRecord /\ rec' = [rec EXCEPT ![job[h]] = copy[h]] /\ Others(h)
        BY <2>12 DEF Saves, Leaves
      <3> QED  BY <1>3, <2>1, <2>3, <2>6, <3>1
    <2>13. CASE Commits(h)
      <3>0. /\ Others(h) /\ pc[h] = "commit" /\ cur[h] \in instructions(r) /\ cur[h] \notin cloud'
            /\ cloud' = cloud
        BY <2>4, <2>13 DEF Commits, Working, ReleaseInv, CommitProven
      <3>1. \/ UNCHANGED rec
            \/ \E q : rec' = [rec EXCEPT ![job[h]] = q] /\ Sound(q, inv', cloud')
        <4>1. ASSUME NEW q \in Record, NEW st, Altered(q, r, cur[h], "succeeded", st),
                     st = r.status \/ instructions(q) \intersect inv' = {}
              PROVE  Sound(q, inv', cloud')
          <5>1. instructions(q) = instructions(r)
            BY <2>1, <3>0, <4>1, SameInstructions
          <5>2. st = "succeeded" => instructions(r) \intersect inv' = {}
            BY <2>3, <4>1, <5>1 DEF Sound
          <5> QED  BY <2>1, <2>3, <3>0, <4>1, <5>2, SoundAltered
        <4> QED  BY <2>13, <4>1 DEF Commits, r
      <3>2. rec'[job[h]].status = "succeeded" => instructions(r) \intersect inv' = {}
        <4>1. Sound(rec'[job[h]], inv', cloud')
          BY <1>1, <2>1, <3>1 DEF TypeOK
        <4>2. instructions(rec'[job[h]]) = instructions(r)
          BY <1>0, <2>1, <2>2, <3>0 DEF Kept, HandlerInv, r
        <4> QED  BY <4>1, <4>2 DEF Sound
      <3>3. Sound(copy'[h], inv', cloud')
        <4>1. CASE copy'[h] = copy[h]  BY <2>3, <4>1
        <4>2. CASE mode[h] = "start" /\
                   Altered(copy'[h], copy[h], cur[h], "succeeded", rec'[job[h]].status)
          <5>1. instructions(copy[h]) = instructions(r)  BY <2>5, <3>0, <4>2 DEF HasCopy
          <5> QED  BY <2>1, <2>3, <3>0, <3>2, <4>2, <5>1, SoundAltered
        <4> QED  BY <2>13, <4>1, <4>2 DEF Commits
      <3> QED  BY <1>3, <2>1, <3>0, <3>1, <3>3
    <2> QED  BY <1>4, <2>8, <2>9, <2>10, <2>11, <2>12, <2>13 DEF HandlerStep
  <1>5. CASE Settles
    <2>1. ASSUME NEW t \in Ids PROVE Sound(rec'[t], inv', cloud')
      <3>1. CASE rec'[t] = rec[t]  BY <1>1, <3>1
      <3>2. CASE /\ HasActiveWork(t)
                 /\ rec'[t].status = "succeeded" => allReleased(rec[t])
                 /\ \A k \in Resources :
                       rec'[t].ops[k] = IF k \in instructions(rec[t]) \ inv THEN "succeeded"
                                        ELSE rec[t].ops[k]
        <4>1. instructions(rec'[t]) = instructions(rec[t])
          BY <1>0, <3>2 DEF Kept, HasActiveWork
        <4>2. inv' = inv /\ cloud' = cloud /\ cloud \subseteq inv
          BY <1>5 DEF Settles, ReleaseInv
        <4>3. Sound(rec[t], inv, cloud)  BY DEF SoundInv
        <4> QED  BY <3>2, <4>1, <4>2, <4>3 DEF Sound, allReleased
      <3> QED  BY <1>5, <3>1, <3>2 DEF Settles
    <2>2. \A h \in Handlers : Sound(copy'[h], inv', cloud')  BY <1>1, <1>5 DEF Settles
    <2> QED  BY <1>2, <2>1, <2>2
  <1>6. CASE Elsewhere  BY <1>1, <1>2, <1>6 DEF Elsewhere
  <1>7. CASE Dies  BY <1>1, <1>2, <1>7, SoundBlank DEF Dies
  <1> QED  BY <1>4, <1>5, <1>6, <1>7 DEF Shape

----------------------------------------------------------------------------
(* Order. The resources that a driver has left behind have gone; the one it  *)
(* works on ranks above all that it has not reached.                         *)

At(h) == pc[h] \notin {"idle", "admit"}

Passed(h) ==
    At(h) =>
        /\ pc[h] # "next" => \A q \in todo[h] : Rank[q] <= Rank[cur[h]]
        /\ \A k \in instructions(rec[job[h]]) \intersect cloud :
              k \in todo[h] \/ (pc[h] # "next" /\ k = cur[h])

PassedInv == \A h \in Handlers : Passed(h)

LEMMA PassedInit == Init => PassedInv
  BY DEF Init, PassedInv, Passed, At

LEMMA PassedStep ==
    ASSUME TypeOK, ReleaseInv, SoundInv, PassedInv, Shape
    PROVE  PassedInv'
  <1>0. Kept /\ inv' \subseteq inv /\ cloud' \subseteq cloud  BY StepKeeps
  <1>1. ASSUME NEW g \in Handlers, At(g)
        PROVE  /\ job[g] \in Ids /\ rec[job[g]].status # "none"
               /\ instructions(rec'[job[g]]) = instructions(rec[job[g]])
               /\ todo[g] \subseteq instructions(rec[job[g]])
    <2>1. HandlerInv(g)  BY DEF ReleaseInv
    <2> QED  BY <1>0, <1>1, <2>1 DEF HandlerInv, At, Kept, TypeOK
  <1>2. \A g \in Handlers : instructions(rec[job[g]])' = instructions(rec'[job'[g]])
    BY DEF instructions
  <1>3. ASSUME NEW g \in Handlers, At(g)', At(g), job'[g] = job[g], todo'[g] = todo[g],
               pc[g] # "next" => pc'[g] # "next" /\ cur'[g] = cur[g],
               pc[g] = "next" => pc'[g] = "next"
        PROVE  Passed(g)'
    BY <1>0, <1>1, <1>2, <1>3 DEF PassedInv, Passed, At
  <1>4. ASSUME NEW h \in Handlers, Others(h), Passed(h)' PROVE PassedInv'
    <2>1. ASSUME NEW g \in Handlers \ {h} PROVE Passed(g)'
      <3>1. CASE At(g)  BY <1>3, <1>4, <2>1, <3>1 DEF Others, Passed, At
      <3>2. CASE ~At(g)  BY <1>4, <2>1, <3>2 DEF Others, Passed, At
      <3> QED  BY <3>1, <3>2
    <2> QED  BY <1>4, <2>1 DEF PassedInv
  <1>5. ASSUME NEW h \in Handlers, HandlerStep(h) PROVE PassedInv'
    <2> DEFINE r == rec[job[h]]
    <2>0. Others(h)  BY <1>5 DEF HandlerStep, Idles, Begins, Advances, Fails, Saves, Calls, Commits
    <2>1. CASE Idles(h)
      <3>1. CASE ~At(h)'  BY <1>4, <2>0, <3>1 DEF Passed
      <3>2. CASE At(h)'
        <4>1. /\ pc[h] = "commit" /\ pc'[h] = "failed" /\ job'[h] = job[h]
              /\ todo'[h] = todo[h] /\ cur'[h] = cur[h]
          BY <2>1, <3>2 DEF Idles, Leaves, At, Own
        <4> QED  BY <1>3, <1>4, <2>0, <3>2, <4>1 DEF At
      <3> QED  BY <3>1, <3>2
    <2>2. CASE Begins(h)
      <3>1. PICK t \in Ids, q \in Record :
               /\ rec' = [rec EXCEPT ![t] = q] /\ job'[h] = t /\ pc'[h] = "next"
               /\ \/ q = Planned(todo[h]) /\ todo'[h] = todo[h]
                  \/ Restated(q, rec[t], "running") /\ todo'[h] = instructions(rec[t])
        BY <2>2, Zenon DEF Begins
      <3>2. instructions(rec[job[h]])' = instructions(q)  BY <1>2, <3>1 DEF TypeOK
      <3>3. todo[h] \subseteq Resources  BY DEF TypeOK
      <3>4. instructions(q) \subseteq todo'[h]
        BY <3>1, <3>3 DEF Planned, Restated, instructions
      <3>5. Passed(h)'  BY <3>1, <3>2, <3>4 DEF Passed
      <3> QED  BY <1>4, <2>0, <3>5
    <2>3. CASE Advances(h)
      <3>0. At(h) /\ pc[h] = "next" /\ job'[h] = job[h]  BY <2>3 DEF Advances, Own, At
      <3>1. PICK i \in todo[h] :
               /\ First(i, todo[h]) /\ todo'[h] = todo[h] \ {i}
               /\ \/ cur'[h] = i /\ pc'[h] \in {"call", "mark"}
                  \/ rec[job[h]].ops[i] = "succeeded" /\ pc'[h] = "next"
        BY <2>3 DEF Advances
      <3>2. \A k \in instructions(r) \intersect cloud : k \in todo[h]
        BY <3>0 DEF PassedInv, Passed
      <3>3. rec[job[h]].ops[i] = "succeeded" => i \notin cloud
        BY <1>1, <3>0 DEF SoundInv, Sound, TypeOK
      <3>4. instructions(rec[job[h]])' = instructions(r)  BY <1>1, <1>2, <3>0
      <3>5. \A q \in todo[h] : Rank[q] <= Rank[i]  BY <3>1 DEF First
      <3>6. Passed(h)'
        <4>1. CASE cur'[h] = i /\ pc'[h] \in {"call", "mark"}
          BY <1>0, <3>1, <3>2, <3>4, <3>5, <4>1 DEF Passed
        <4>2. CASE rec[job[h]].ops[i] = "succeeded" /\ pc'[h] = "next"
          BY <1>0, <3>1, <3>2, <3>3, <3>4, <4>2 DEF Passed
        <4> QED  BY <3>1, <4>1, <4>2
      <3> QED  BY <1>4, <2>0, <3>6
    <2>4. CASE Fails(h) \/ Saves(h) \/ Calls(h)
      <3>1. CASE ~At(h)'  BY <1>4, <2>0, <3>1 DEF Passed
      <3>2. CASE At(h)'
        <4>1. /\ pc[h] \notin {"idle", "admit", "next"} /\ pc'[h] # "next" /\ job'[h] = job[h]
              /\ todo'[h] = todo[h] /\ cur'[h] = cur[h]
          BY <2>4, <3>2 DEF Fails, Saves, Calls, Leaves, At, Own
        <4> QED  BY <1>3, <1>4, <2>0, <3>2, <4>1 DEF At
      <3> QED  BY <3>1, <3>2
    <2>5. CASE Commits(h)
      <3>1. /\ At(h) /\ pc[h] = "commit" /\ pc'[h] = "next" /\ job'[h] = job[h]
            /\ todo'[h] = todo[h] /\ cloud' = cloud
        BY <2>5 DEF Commits, Own, At
      <3>2. cur[h] \notin cloud  BY <3>1 DEF ReleaseInv, CommitProven
      <3>3. \A k \in instructions(r) \intersect cloud : k \in todo[h]
        BY <3>1, <3>2 DEF PassedInv, Passed
      <3>4. instructions(rec[job[h]])' = instructions(r)  BY <1>1, <1>2, <3>1
      <3>5. Passed(h)'  BY <3>1, <3>3, <3>4 DEF Passed
      <3> QED  BY <1>4, <2>0, <3>5
    <2> QED  BY <1>5, <2>1, <2>2, <2>3, <2>4, <2>5 DEF HandlerStep
  <1>6. CASE Settles \/ Elsewhere
    <2>1. UNCHANGED <<pc, job, todo, cur>>  BY <1>6 DEF Settles, Elsewhere
    <2>2. ASSUME NEW g \in Handlers PROVE Passed(g)'
      <3>1. CASE At(g)  BY <1>3, <2>1, <3>1 DEF At
      <3>2. CASE ~At(g)  BY <2>1, <3>2 DEF At, Passed
      <3> QED  BY <3>1, <3>2
    <2> QED  BY <2>2 DEF PassedInv
  <1>7. CASE Dies  BY <1>7 DEF Dies, PassedInv, Passed, At
  <1> QED  BY <1>5, <1>6, <1>7 DEF Shape

----------------------------------------------------------------------------
(* The slot. Until a deployer is restored, a handler past its admission drives *)
(* a running record, alone, and the first driver's copy is the record.         *)

DriverInv(h) ==
    At(h) =>
        /\ rec[job[h]].status \in {"running", "succeeded"}
        /\ pc[h] # "next" => HasActiveWork(job[h]) /\ cur[h] \notin todo[h]
        /\ mode[h] = "start" =>
              /\ copy[h] = rec[job[h]]
              /\ \A r \in todo[h] : HasActiveWork(job[h]) /\ rec[job[h]].ops[r] = "pending"
        /\ pc[h] = "mark" => copy[h].status = "running"

Drives(h) == At(h) /\ HasActiveWork(job[h])

Alone == \A g, h \in Handlers : Drives(g) /\ Drives(h) => g = h

SlotInv ==
    /\ cold \/ \A h \in Handlers : pc[h] = "idle"
    /\ restores = 0 => OneHolder /\ Alone /\ \A h \in Handlers : DriverInv(h)

LEMMA SlotInit == Init => SlotInv
  BY DEF Init, SlotInv, OneHolder, Alone, Drives, DriverInv, At, HasActiveWork, NoRecord

LEMMA SameRecord ==
    ASSUME NEW q \in Record, NEW r \in Record, q.status = r.status,
           \A k \in Resources : q.ops[k] = r.ops[k]
    PROVE  q = r
  BY DEF Record

\* Until then a step changes only records that have no outcome yet, and of
\* these only the one its handler drives, unless it begins a teardown.
Touches(h) ==
    \A t \in Ids : rec'[t] # rec[t] =>
        \/ Drives(h) /\ job[h] = t
        \/ Begins(h) /\ job'[h] = t

LEMMA StepTouches ==
    ASSUME TypeOK, ReleaseInv, SlotInv, restores = 0, NEW h \in Handlers, HandlerStep(h)
    PROVE  Touches(h)
  <1>1. DriverInv(h) /\ HandlerInv(h)  BY DEF SlotInv, ReleaseInv
  <1>2. CASE Idles(h) \/ Calls(h)  BY <1>2 DEF Idles, Calls, Touches
  <1>3. CASE Begins(h)  BY <1>3 DEF Begins, Touches, TypeOK
  <1>4. CASE Advances(h)
    <2>1. UNCHANGED rec \/ (mode[h] = "start" /\ \E q : rec' = [rec EXCEPT ![job[h]] = q])
      BY <1>4 DEF Advances
    <2>2. mode[h] = "start" => Drives(h)  BY <1>1, <1>4 DEF Advances, DriverInv, Drives, At
    <2> QED  BY <2>1, <2>2 DEF Touches, TypeOK
  <1>5. CASE Fails(h) \/ Saves(h) \/ Commits(h)
    <2>1. UNCHANGED rec \/ \E q : rec' = [rec EXCEPT ![job[h]] = q]
      BY <1>5 DEF Fails, Saves, Commits
    <2>2. Drives(h)  BY <1>1, <1>5 DEF Fails, Saves, Commits, DriverInv, Drives, At
    <2> QED  BY <2>1, <2>2 DEF Touches, TypeOK
  <1> QED  BY <1>2, <1>3, <1>4, <1>5 DEF HandlerStep

LEMMA SlotStep ==
    ASSUME TypeOK, ReleaseInv, SlotInv, Shape
    PROVE  SlotInv'
  <1>0. ASSUME NEW h \in Handlers, HandlerStep(h)
        PROVE  (cold \/ \A g \in Handlers : pc[g] = "idle")'
    <2>1. CASE cold'  BY <2>1
    <2>2. CASE ~cold'
      <3>1. ~cold /\ pc[h] = "idle"
        BY <1>0, <2>2 DEF SlotInv, HandlerStep, Idles, Begins, Advances, Fails, Saves, Calls, Commits, World
      <3> QED
        BY <1>0, <3>1
        DEF SlotInv, HandlerStep, Idles, Begins, Advances, Fails, Saves, Calls, Commits, Others, Leaves
    <2> QED  BY <2>1, <2>2
  <1>1. ASSUME NEW h \in Handlers, HandlerStep(h), restores' = 0
        PROVE  (OneHolder /\ Alone /\ \A g \in Handlers : DriverInv(g))'
    <2>0. restores = 0 /\ other' = other /\ Others(h)
      BY <1>1 DEF HandlerStep, Idles, Begins, Advances, Fails, Saves, Calls, Commits, World
    <2>1. OneHolder /\ Alone /\ \A g \in Handlers : DriverInv(g)  BY <2>0 DEF SlotInv
    <2>2. Touches(h)  BY <1>1, <2>0, StepTouches
    <2>3. job[h] \in Ids /\ rec[job[h]] \in Record /\ copy[h] \in Record  BY DEF TypeOK
    <2>4. HandlerInv(h)  BY DEF ReleaseInv
    \* No driver is left when a teardown begins, nor does any have the record.
    <2>5. ASSUME Begins(h)
          PROVE  /\ \A g \in Handlers : ~Drives(g)
                 /\ \A g \in Handlers : At(g) => job[g] # job'[h]
                 /\ ~At(h) /\ job'[h] \in Ids /\ SlotFree(job'[h]) /\ At(h)'
                 /\ rec'[job'[h]].status = "running" /\ ~HasActiveWork(job'[h])
                 /\ \A u \in Ids \ {job'[h]} : rec'[u] = rec[u]
      <3>1. PICK t \in Ids, q \in Record :
               /\ rec' = [rec EXCEPT ![t] = q] /\ job'[h] = t /\ q.status = "running"
               /\ SlotFree(t) /\ rec[t].status \in {"none", "interrupted"}
               /\ pc[h] \in {"idle", "admit"} /\ pc'[h] = "next"
        BY <2>5 DEF Begins, Fresh
      <3>2. \A g \in Handlers : At(g) => job[g] # t  BY <2>1, <3>1 DEF DriverInv
      <3>3. \A g \in Handlers : ~Drives(g)
        BY <3>1, <3>2 DEF Drives, SlotFree, TypeOK
      <3>4. ~HasActiveWork(t)  BY <3>1 DEF HasActiveWork
      <3>5. ~At(h) /\ At(h)'  BY <3>1 DEF At
      <3>6. rec'[t] = q /\ \A u \in Ids \ {t} : rec'[u] = rec[u]  BY <3>1 DEF TypeOK
      <3> QED  BY <3>1, <3>2, <3>3, <3>4, <3>5, <3>6
    <2>6. ASSUME ~Begins(h)
          PROVE  /\ \A t \in Ids : HasActiveWork(t)' => HasActiveWork(t)
                 /\ job'[h] = job[h] \/ ~At(h)'
                 /\ At(h)' => At(h)
      <3>1. job'[h] = job[h] \/ ~At(h)'
        BY <1>1, <2>6 DEF HandlerStep, Idles, Advances, Fails, Saves, Calls, Commits, Own, Leaves, At
      <3>2. At(h)' => At(h)
        BY <1>1, <2>6 DEF HandlerStep, Idles, Advances, Fails, Saves, Calls, Commits, Leaves, At
      <3>3. \A t \in Ids : HasActiveWork(t)' => HasActiveWork(t)
        BY <2>2, <2>6 DEF Touches, Drives, HasActiveWork
      <3> QED  BY <3>1, <3>2, <3>3
    <2>7. OneHolder'
      <3>1. CASE Begins(h)
        <4>1. ~other /\ \A u \in Ids \ {job'[h]} : ~HasActiveWork(u)
          BY <2>5, <3>1 DEF SlotFree
        <4>2. \A u \in Ids \ {job'[h]} : ~HasActiveWork(u)'
          BY <2>5, <3>1, <4>1 DEF HasActiveWork
        <4> QED  BY <2>0, <4>1, <4>2 DEF OneHolder
      <3>2. CASE ~Begins(h)
        <4>1. \A t \in Ids : HasActiveWork(t)' => HasActiveWork(t)  BY <2>6, <3>2
        <4> QED  BY <2>0, <2>1, <4>1 DEF OneHolder
      <3> QED  BY <3>1, <3>2
    <2>8. Alone'
      <3>1. CASE Begins(h)
        <4>1. ASSUME NEW g \in Handlers \ {h} PROVE ~Drives(g)'
          <5>1. job'[g] = job[g] /\ (At(g)' <=> At(g)) /\ job[g] \in Ids
            BY <2>0, <4>1 DEF Others, At, TypeOK
          <5>2. At(g) => rec'[job[g]] = rec[job[g]]  BY <2>5, <3>1, <5>1
          <5> QED  BY <2>5, <3>1, <5>1, <5>2 DEF Drives, HasActiveWork
        <4> QED  BY <4>1 DEF Alone
      <3>2. CASE ~Begins(h)
        <4>1. ASSUME NEW g \in Handlers PROVE Drives(g)' => Drives(g)
          <5>1. At(g)' => At(g) /\ job'[g] = job[g]
            BY <2>0, <2>6, <3>2 DEF Others, At
          <5>2. job[g] \in Ids  BY DEF TypeOK
          <5>3. HasActiveWork(job[g])' <=> rec'[job'[g]].status = "running"
            BY DEF HasActiveWork
          <5>4. rec'[job[g]].status = "running" => HasActiveWork(job[g])
            BY <2>6, <3>2, <5>2 DEF HasActiveWork
          <5> QED  BY <5>1, <5>3, <5>4 DEF Drives
        <4> QED  BY <2>1, <4>1 DEF Alone
      <3> QED  BY <3>1, <3>2
    <2>9. ASSUME NEW g \in Handlers \ {h} PROVE DriverInv(g)'
      <3>1. /\ pc'[g] = pc[g] /\ mode'[g] = mode[g] /\ job'[g] = job[g]
            /\ todo'[g] = todo[g] /\ cur'[g] = cur[g] /\ copy'[g] = copy[g]
        BY <2>0, <2>9 DEF Others
      <3>2. At(g) => rec'[job[g]] = rec[job[g]]
        <4>1. job[g] \in Ids  BY <2>9 DEF TypeOK
        <4>2. ASSUME At(g), Drives(h), job[h] = job[g] PROVE FALSE
          BY <2>1, <2>9, <4>2 DEF Drives, Alone
        <4> QED  BY <2>2, <2>5, <4>1, <4>2 DEF Touches
      <3>3. DriverInv(g)  BY <2>1
      <3> QED  BY <3>1, <3>2, <3>3 DEF DriverInv, At, HasActiveWork
    <2>10. DriverInv(h)'
      <3>0. DriverInv(h)  BY <2>1
      <3>1. CASE ~At(h)'  BY <3>1 DEF DriverInv
      <3>2. CASE Begins(h)
        <4>1. \/ copy'[h] = Planned(todo[h]) /\ todo'[h] = todo[h] /\ rec'[job'[h]] = copy'[h]
              \/ mode'[h] = "resume"
          BY <3>2 DEF Begins, TypeOK
        <4>2. pc'[h] = "next" /\ rec'[job'[h]].status = "running"
          BY <2>5, <3>2 DEF Begins
        <4>3. \A r \in todo[h] : Planned(todo[h]).ops[r] = "pending"
          BY DEF Planned, TypeOK
        <4> QED  BY <4>1, <4>2, <4>3 DEF DriverInv, HasActiveWork
      <3>3. CASE Idles(h) /\ At(h)'
        BY <3>0, <3>3 DEF Idles, Leaves, At, Own, DriverInv, HasActiveWork
      <3>4. CASE Advances(h)
        <4>1. PICK i \in todo[h] :
                 /\ pc[h] = "next" /\ todo'[h] = todo[h] \ {i} /\ mode'[h] = mode[h] /\ job'[h] = job[h]
                 /\ \/ /\ mode[h] = "start" /\ cur'[h] = i /\ pc'[h] = "call"
                       /\ Altered(copy'[h], copy[h], i, "running", copy[h].status)
                       /\ rec' = [rec EXCEPT ![job[h]] = copy'[h]]
                    \/ /\ mode[h] = "resume" /\ UNCHANGED rec /\ HasActiveWork(job[h])
                       /\ pc'[h] = "next"
                    \/ /\ mode[h] = "resume" /\ UNCHANGED rec /\ HasActiveWork(job[h])
                       /\ cur'[h] = i /\ pc'[h] = "mark" /\ copy'[h].status = "running"
          BY <3>4 DEF Advances, Own, Altered
        <4>2. At(h)  BY <4>1 DEF At
        <4>3. CASE mode[h] = "start"
          <5>1. /\ copy[h] = rec[job[h]] /\ copy[h].status = "running"
                /\ \A r \in todo[h] : copy[h].ops[r] = "pending"
            BY <3>0, <4>1, <4>2, <4>3 DEF DriverInv, HasActiveWork
          <5>2. rec'[job[h]] = copy'[h] /\ copy'[h].status = "running" /\ cur'[h] = i
            BY <2>3, <4>1, <4>3, <5>1 DEF Altered, TypeOK
          <5>3. \A r \in todo'[h] : copy'[h].ops[r] = "pending"
            BY <4>1, <4>3, <5>1 DEF Altered, TypeOK
          <5> QED  BY <4>1, <4>3, <5>2, <5>3 DEF DriverInv, HasActiveWork
        <4>4. CASE mode[h] = "resume"
          BY <4>1, <4>4 DEF DriverInv, HasActiveWork
        <4> QED  BY <4>1, <4>3, <4>4
      <3>5. CASE Fails(h) /\ At(h)'
        BY <3>0, <3>5 DEF Fails, Leaves, At, Own, DriverInv, HasActiveWork
      <3>6. CASE Saves(h) /\ At(h)'
        <4>1. /\ pc[h] = "mark" /\ pc'[h] = "call" /\ rec' = [rec EXCEPT ![job[h]] = copy[h]]
              /\ job'[h] = job[h] /\ mode'[h] = mode[h] /\ todo'[h] = todo[h] /\ cur'[h] = cur[h]
          BY <3>6 DEF Saves, Leaves, At, Own
        <4>2. mode[h] = "resume"  BY <2>4, <4>1 DEF HandlerInv
        <4>3. copy[h].status = "running" /\ cur[h] \notin todo[h]
          BY <3>0, <4>1 DEF DriverInv, At
        <4>4. rec'[job[h]] = copy[h]  BY <2>3, <4>1 DEF TypeOK
        <4> QED  BY <4>1, <4>2, <4>3, <4>4 DEF DriverInv, HasActiveWork
      <3>7. CASE Calls(h)
        BY <3>0, <3>7 DEF Calls, At, Own, DriverInv, HasActiveWork
      <3>8. CASE Commits(h)
        <4>0. /\ At(h) /\ pc[h] = "commit" /\ pc'[h] = "next" /\ job'[h] = job[h]
              /\ mode'[h] = mode[h] /\ todo'[h] = todo[h]
          BY <3>8 DEF Commits, At, Own
        <4>1. rec[job[h]].status = "running" /\ cur[h] \notin todo[h]
          BY <3>0, <4>0 DEF DriverInv, HasActiveWork
        <4>2. \/ UNCHANGED rec /\ rec[job[h]].ops[cur[h]] = "succeeded"
              \/ \E st \in {"running", "succeeded"} :
                    /\ Altered(rec'[job[h]], rec[job[h]], cur[h], "succeeded", st)
                    /\ st = "succeeded" => allCompleted(rec'[job[h]])
          <5>1. CASE UNCHANGED rec /\ rec[job[h]].ops[cur[h]] = "succeeded"  BY <5>1
          <5>2. ASSUME NEW q \in Record, NEW st \in {rec[job[h]].status, "succeeded"},
                       Altered(q, rec[job[h]], cur[h], "succeeded", st),
                       rec' = [rec EXCEPT ![job[h]] = q],
                       st = rec[job[h]].status \/ (st = "succeeded" /\ allCompleted(q))
                PROVE  \E s \in {"running", "succeeded"} :
                          /\ Altered(rec'[job[h]], rec[job[h]], cur[h], "succeeded", s)
                          /\ s = "succeeded" => allCompleted(rec'[job[h]])
            <6>1. rec'[job[h]] = q  BY <2>3, <5>2 DEF TypeOK
            <6> QED  BY <4>1, <5>2, <6>1
          <5> QED  BY <3>8, <5>1, <5>2 DEF Commits
        <4>3. rec'[job[h]].status \in {"running", "succeeded"}
          BY <4>1, <4>2 DEF Altered
        <4>4. CASE mode[h] = "resume"
          BY <4>0, <4>3, <4>4 DEF DriverInv, HasActiveWork
        <4>5. CASE mode[h] = "start"
          <5>1. copy[h] = rec[job[h]] /\ \A r \in todo[h] : rec[job[h]].ops[r] = "pending"
            BY <3>0, <4>0, <4>5 DEF DriverInv
          <5>2. Altered(copy'[h], copy[h], cur[h], "succeeded", rec'[job[h]].status)
            BY <3>8, <4>5 DEF Commits
          <5>3. rec'[job[h]] \in Record  BY <2>3, <4>2 DEF Altered
          <5>4. copy'[h] = rec'[job[h]]
            <6>1. copy'[h] \in Record /\ copy'[h].status = rec'[job[h]].status
              BY <5>2 DEF Altered
            <6>2. \A k \in Resources : copy'[h].ops[k] = rec'[job[h]].ops[k]
              BY <4>2, <5>1, <5>2 DEF Altered
            <6> QED  BY <5>3, <6>1, <6>2, SameRecord
          <5>5. \A r \in todo[h] : rec'[job[h]].ops[r] = "pending"
            BY <4>1, <4>2, <5>1 DEF Altered, TypeOK
          <5>6. ASSUME NEW r \in todo[h] PROVE rec'[job[h]].status = "running"
            <6>1. r \in instructions(rec'[job[h]])  BY <5>5 DEF instructions, TypeOK
            <6>2. ~allCompleted(rec'[job[h]])  BY <5>5, <6>1 DEF allCompleted
            <6> QED  BY <4>1, <4>2, <6>2 DEF Altered
          <5> QED  BY <4>0, <4>3, <5>4, <5>5, <5>6 DEF DriverInv, HasActiveWork
        <4>6. mode[h] \in {"start", "resume"}  BY DEF TypeOK
        <4> QED  BY <4>4, <4>5, <4>6
      <3> QED
        BY <1>1, <3>1, <3>2, <3>3, <3>4, <3>5, <3>6, <3>7, <3>8 DEF HandlerStep
    <2> QED  BY <2>7, <2>8, <2>9, <2>10
  <1>2. CASE Settles
    <2>1. cold'  BY <1>2 DEF Settles
    <2>2. ASSUME restores' = 0
          PROVE  (OneHolder /\ Alone /\ \A g \in Handlers : DriverInv(g))'
      <3>1. ~cold  BY <1>2, <2>2 DEF Settles, TypeOK
      <3>2. \A g \in Handlers : ~At(g)'  BY <1>2, <3>1 DEF Settles, SlotInv, At
      <3>3. \A t \in Ids : ~HasActiveWork(t)'  BY <1>2 DEF Settles, HasActiveWork
      <3> QED  BY <3>2, <3>3 DEF OneHolder, Alone, Drives, DriverInv
    <2> QED  BY <2>1, <2>2 DEF SlotInv
  <1>3. CASE Elsewhere
    <2>1. (cold \/ \A g \in Handlers : pc[g] = "idle")'  BY <1>3 DEF Elsewhere, SlotInv
    <2>2. ASSUME restores' = 0
          PROVE  (OneHolder /\ Alone /\ \A g \in Handlers : DriverInv(g))'
      <3>1. OneHolder /\ Alone /\ \A g \in Handlers : DriverInv(g)
        BY <1>3, <2>2 DEF Elsewhere, SlotInv
      <3>2. OneHolder'  BY <1>3, <3>1 DEF Elsewhere, OneHolder, HasActiveWork
      <3>3. Alone'  BY <1>3, <3>1 DEF Elsewhere, Alone, Drives, At, HasActiveWork
      <3>4. \A g \in Handlers : DriverInv(g)'
        BY <1>3, <3>1 DEF Elsewhere, DriverInv, At, HasActiveWork
      <3> QED  BY <3>2, <3>3, <3>4
    <2> QED  BY <2>1, <2>2 DEF SlotInv
  <1>4. CASE Dies
    <2>1. \A g \in Handlers : pc'[g] = "idle"  BY <1>4 DEF Dies
    <2>2. restores = 0 => OneHolder'
      BY <1>4 DEF Dies, SlotInv, OneHolder, HasActiveWork
    <2> QED  BY <1>4, <2>1, <2>2 DEF Dies, SlotInv, Alone, Drives, DriverInv, At
  <1> QED  BY <1>0, <1>1, <1>2, <1>3, <1>4 DEF Shape, SlotInv

----------------------------------------------------------------------------

\* The whole inductive invariant: each part rests on those before it.
Inductive == TypeOK /\ ReleaseInv /\ SoundInv /\ PassedInv /\ SlotInv

LEMMA Strengthened == Spec => []Inductive
  <1>1. Init => Inductive
    BY TypeInit, ReleaseInit, SoundInit, PassedInit, SlotInit DEF Inductive
  <1>2. Inductive /\ [Next]_vars => Inductive'
    <2> SUFFICES ASSUME Inductive, [Next]_vars PROVE Inductive'
      OBVIOUS
    <2>1. TypeOK' /\ Shape  BY TypeStep, ShapeOfStep DEF Inductive
    <2>2. ReleaseInv'  BY <2>1, ReleaseStep DEF Inductive
    <2>3. SoundInv' /\ PassedInv' /\ SlotInv'
      BY <2>1, SoundStep, PassedStep, SlotStep DEF Inductive
    <2> QED  BY <2>1, <2>2, <2>3 DEF Inductive
  <1> QED  BY <1>1, <1>2, PTL DEF Spec

\* A teardown reports success only when everything it was approved for has gone,
\* from the inventory and from the provider: also when its outcome was decided
\* by a new worker, or written over by a driver that a restored deployer left.
THEOREM SuccessIsComplete == Spec => []SucceededMeansGone
  <1>1. Inductive => SucceededMeansGone
    BY DEF Inductive, ReleaseInv, SoundInv, Sound, SucceededMeansGone
  <1> QED  BY <1>1, Strengthened, PTL

\* A driver that calls the provider has left nothing behind: of what its record
\* was approved for, whatever still exists comes no later in the store's order.
\* So a delete that failed is always the last its driver sends, in every order
\* of the rows, whichever driver it is and however many gave up before it.
THEOREM NothingIsSkipped == Spec => []NothingSkipped
  <1>1. Inductive => NothingSkipped
    <2> SUFFICES ASSUME Inductive, NEW h \in Handlers, pc[h] = "call",
                        NEW q \in instructions(rec[job[h]]) \intersect cloud
                 PROVE  Rank[q] <= Rank[cur[h]]
      BY DEF NothingSkipped
    <2>1. cur[h] \in Resources /\ q \in Resources /\ cloud \subseteq inv
      BY DEF Inductive, TypeOK, ReleaseInv
    <2>2. /\ \A k \in todo[h] : Rank[k] <= Rank[cur[h]]
          /\ q \in todo[h] \/ q = cur[h]
      BY <2>1 DEF Inductive, PassedInv, Passed, At
    <2>3. Rank[q] \in Nat  BY <2>1, RankAssumption DEF RankAssumption
    <2> QED  BY <2>2, <2>3
  <1> QED  BY <1>1, Strengthened, PTL

\* Until a deployer is restored, a driver that calls the provider holds the one
\* lifecycle slot, alone: no second driver, no other run and no CEP operation.
THEOREM SlotIsExclusive == Spec => []SlotExclusive
  <1>1. Inductive => SlotExclusive
    <2> SUFFICES ASSUME Inductive, restores = 0 PROVE CallerHoldsSlot /\ OneHolder
      BY DEF SlotExclusive
    <2>1. OneHolder /\ Alone /\ \A h \in Handlers : DriverInv(h)  BY DEF Inductive, SlotInv
    <2>2. ASSUME NEW h \in Handlers, Calling(h) PROVE Drives(h)
      BY <2>1, <2>2 DEF Calling, Drives, DriverInv, At
    <2>3. ASSUME NEW h \in Handlers, Calling(h) PROVE HasActiveWork(job[h]) /\ SlotFree(job[h])
      <3>1. HasActiveWork(job[h]) /\ job[h] \in Ids
        BY <2>2, <2>3 DEF Drives, Inductive, TypeOK
      <3> QED  BY <2>1, <3>1 DEF OneHolder, SlotFree
    <2> QED  BY <2>1, <2>2, <2>3 DEF CallerHoldsSlot, Alone
  <1> QED  BY <1>1, Strengthened, PTL

\* A teardown that reported success or failure never reports anything else,
\* until a deployer is restored.
THEOREM OutcomeStays == Spec => OutcomeIsFinal
  <1>1. Inductive /\ [Next]_vars =>
          [restores = 0 => \A t \in Ids : rec[t].status \in {"succeeded", "failed"} =>
              rec'[t].status = rec[t].status]_vars
    <2> SUFFICES ASSUME Inductive, [Next]_vars, restores = 0, NEW t \in Ids,
                        rec[t].status \in {"succeeded", "failed"}
                 PROVE  rec'[t] = rec[t]
      OBVIOUS
    <2>1. Shape  BY ShapeOfStep DEF Inductive
    <2>2. ASSUME NEW h \in Handlers, HandlerStep(h) PROVE rec'[t] = rec[t]
      <3>1. Touches(h)  BY <2>2, StepTouches DEF Inductive
      <3>2. Begins(h) => job'[h] # t
        BY DEF Begins, Fresh
      <3>3. Drives(h) => job[h] # t  BY DEF Drives, HasActiveWork
      <3> QED  BY <3>1, <3>2, <3>3 DEF Touches
    <2>3. CASE Settles  BY <2>3 DEF Settles, HasActiveWork
    <2>4. CASE Elsewhere \/ Dies  BY <2>4 DEF Elsewhere, Dies
    <2> QED  BY <2>1, <2>2, <2>3, <2>4 DEF Shape
  <1> QED  BY <1>1, Strengthened, PTL DEF Spec, OutcomeIsFinal
=============================================================================
