------------------------- MODULE PolicyUpdateProofs ------------------------
(* Theorems about PolicyUpdate, for every set of members, any number of      *)
(* handlers and every bound.                                                 *)
EXTENDS PolicyUpdate, TLAPS

----------------------------------------------------------------------------
(* Types. Where a process stands tells the phase of its copy and what it may *)
(* still have to restore; without that an update of either is of no type.    *)

Todos == {<<>>, <<"application">>, <<"gateway">>, <<"application", "gateway">>}

\* The policies that are still to be restored; those that an update has rewritten.
Left(s) == {x \in Policies : \E i \in DOMAIN s : s[i] = x}

Rewritten(phase) ==
    IF phase \in {"application_applied", "gateway_sending"} THEN {"application"}
    ELSE IF phase = "gateway_applied" THEN {"application", "gateway"} ELSE {}

Saga == {"mark", "post", "wait", "record", "commit"}
Undoing == {"undo", "restore", "undoing"}
Begun(p) == pc[p] \in Saga \union Undoing

LocalOK(p) ==
    /\ pc[p] \in {"inventory", "gateway", "application", "begin"} => mem[p].phase = "prepared"
    /\ pc[p] = "mark" => mem[p].phase \in {"prepared", "application_applied"}
    /\ pc[p] \in {"post", "wait"} => mem[p].phase \in Sending
    /\ pc[p] = "record" => mem[p].phase \in {"application_applied", "gateway_applied"}
    /\ pc[p] = "commit" => mem[p].phase = "gateway_applied"
    /\ pc[p] \in Undoing => todo[p] \in Todos /\ Left(todo[p]) \subseteq Rewritten(mem[p].phase)
    /\ pc[p] \in {"restore", "undoing"} => todo[p] # <<>>

LocalInv == \A p \in Processes : LocalOK(p)

LEMMA TodoFacts ==
    /\ Todos \subseteq Seq(Policies) /\ <<>> \in Todos /\ Left(<<>>) = {}
    /\ \A s \in Todos : s # <<>> =>
          /\ Head(s) \in Left(s) /\ Head(s) \in Policies
          /\ Tail(s) \in Todos /\ Left(Tail(s)) = Left(s) \ {Head(s)}
  <1>1. Left(<<>>) = {}  BY DEF Left
  <1>2. Left(<<"application">>) = {"application"}  BY DEF Left, Policies
  <1>3. Left(<<"gateway">>) = {"gateway"}  BY DEF Left, Policies
  <1>4. Left(<<"application", "gateway">>) = {"application", "gateway"}  BY DEF Left, Policies
  <1>5. Todos \subseteq Seq(Policies)  BY DEF Todos, Policies
  <1>6. /\ Head(<<"application">>) = "application" /\ Tail(<<"application">>) = <<>>
        /\ Head(<<"gateway">>) = "gateway" /\ Tail(<<"gateway">>) = <<>>
        /\ Head(<<"application", "gateway">>) = "application"
        /\ Tail(<<"application", "gateway">>) = <<"gateway">>
    OBVIOUS
  <1> QED  BY <1>1, <1>2, <1>3, <1>4, <1>5, <1>6 DEF Todos, Policies

LEMMA ProvenFacts ==
    ASSUME NEW phase \in Phases
    PROVE  Proven(phase) \in Todos /\ Left(Proven(phase)) = Rewritten(phase)
  <1>1. Left(<<>>) = {}  BY DEF Left
  <1>2. Left(<<"application">>) = {"application"}  BY DEF Left, Policies
  <1>3. Left(<<"application", "gateway">>) = {"application", "gateway"}  BY DEF Left, Policies
  <1>4. CASE phase \in {"prepared", "application_sending"}
    BY <1>1, <1>4 DEF Proven, Todos, Rewritten
  <1>5. CASE phase \in {"application_applied", "gateway_sending"}
    BY <1>2, <1>5 DEF Proven, Todos, Rewritten
  <1>6. CASE phase = "gateway_applied"
    BY <1>3, <1>6 DEF Proven, Todos, Rewritten
  <1> QED  BY <1>4, <1>5, <1>6 DEF Phases

LEMMA BlankTypes == NoPolicy \in Policy /\ NoCheckpoint \in Checkpoint
  BY DEF NoPolicy, NoCheckpoint, Policy, Checkpoint, Phases

LEMMA PhaseTable ==
    /\ \A phase \in {"prepared", "application_applied"} : SendingOf[phase] \in Sending
    /\ \A phase \in Sending : AppliedOf[phase] \in {"application_applied", "gateway_applied"}
    /\ SendingOf["prepared"] = "application_sending"
    /\ SendingOf["application_applied"] = "gateway_sending"
    /\ AppliedOf["application_sending"] = "application_applied"
    /\ AppliedOf["gateway_sending"] = "gateway_applied"
    /\ \A phase : Current(phase) \in Policies
  BY DEF SendingOf, AppliedOf, Sending, Current, Policies

LEMMA TypeInit == Init => TypeOK /\ LocalInv
  <1> SUFFICES ASSUME Init PROVE TypeOK /\ LocalInv
    OBVIOUS
  <1>1. NoPolicy \in Policy /\ NoCheckpoint \in Checkpoint  BY BlankTypes
  <1>2. pol \in [Policies -> Policy]
    BY InitialAssumption DEF InitialAssumption, Init, Policy
  <1>3. <<>> \in Seq(Policies)  OBVIOUS
  <1>4. TypeOK
    BY <1>1, <1>2, <1>3, InitialAssumption DEF InitialAssumption, Init, TypeOK, PCs, Answers
  <1>5. LocalInv  BY DEF Init, LocalInv, LocalOK, Undoing
  <1> QED  BY <1>4, <1>5

\* The part of the type that the steps of one process may disturb.
LocalTypes ==
    /\ pc \in [Processes -> PCs] /\ mem \in [Processes -> Checkpoint]
    /\ todo \in [Processes -> Seq(Policies)] /\ got \in [Processes -> Policy]
    /\ cold \in BOOLEAN

LEMMA ReturnTypes ==
    ASSUME TypeOK, NEW p \in Processes, Return(p)
    PROVE  LocalTypes'
  <1>1. NoPolicy \in Policy /\ NoCheckpoint \in Checkpoint  BY BlankTypes
  <1>2. <<>> \in Seq(Policies)  OBVIOUS
  <1> QED  BY <1>1, <1>2 DEF Return, Goto, TypeOK, LocalTypes, PCs

LEMMA FailTypes ==
    ASSUME TypeOK, NEW p \in Processes, NEW rejected, Fail(p, rejected)
    PROVE  LocalTypes'
  <1>1. CASE Return(p)  BY <1>1, ReturnTypes
  <1>2. CASE /\ todo' = [todo EXCEPT ![p] = Proven(mem[p].phase)]
             /\ Goto(p, "undo") /\ UNCHANGED <<mem, got, cold>>
    <2>1. mem[p].phase \in Phases  BY DEF TypeOK, Checkpoint
    <2>2. Proven(mem[p].phase) \in Seq(Policies)  BY <2>1, ProvenFacts, TodoFacts
    <2> QED  BY <1>2, <2>2 DEF Goto, TypeOK, LocalTypes, PCs
  <1> QED  BY <1>1, <1>2 DEF Fail

LEMMA AbandonTypes ==
    ASSUME TypeOK, NEW p, Abandon(p)
    PROVE  flight' \subseteq Write
  <1>1. ASSUME NEW w \in Write
        PROVE  [w EXCEPT !.from = IF @ = p THEN "gone" ELSE @] \in Write
    BY <1>1 DEF Write
  <1> QED  BY <1>1 DEF TypeOK, Abandon

LEMMA ConsumeTypes == \A p : TypeOK /\ Consume(p) => answer' \in [Processes -> Answers]
  BY DEF TypeOK, Consume, Answers

LEMMA SendTypes ==
    ASSUME TypeOK, NEW p \in Processes, NEW x \in Policies, NEW members \in SUBSET Members,
           NEW etag \in Nat, NEW id \in Nat, Send(p, x, members, etag, id)
    PROVE  /\ pol' \in [Policies -> Policy] /\ others' \in [Policies -> SUBSET Members]
           /\ flight' \subseteq Write /\ answer' \in [Processes -> Answers] /\ wrote' \subseteq Policies
  <1>1. answer' \in [Processes -> Answers]  BY ConsumeTypes DEF Send
  <1> QED  BY <1>1 DEF Send, TypeOK, Write

LEMMA TypeStep == TypeOK /\ LocalInv /\ [Next]_vars => TypeOK'
  <1> SUFFICES ASSUME TypeOK, LocalInv, [Next]_vars PROVE TypeOK'
    OBVIOUS
  <1> USE DEF durable, provider, history, local, counters
  <1>0. NoPolicy \in Policy /\ NoCheckpoint \in Checkpoint  BY BlankTypes
  <1>h. Handlers \subseteq Processes /\ Reconciler \in Processes  BY DEF Processes
  <1>a. ASSUME LocalTypes', answer' \in [Processes -> Answers], flight' \subseteq Write,
               checkpoint' \in Checkpoint,
               UNCHANGED <<principals, baseline, pol, others, wrote, history, counters>>
        PROVE  TypeOK'
    BY <1>a DEF TypeOK, LocalTypes
  <1>1. ASSUME NEW h \in Handlers, NEW requested \in SUBSET (Members \ Initial), Request(h, requested)
        PROVE  TypeOK'
    <2> DEFINE c == [NoCheckpoint EXCEPT !.id = requests + 1, !.principals = Initial \union requested,
                                         !.previous = principals]
    <2>1. c \in Checkpoint
      <3>1. /\ Initial \union requested \in SUBSET Members
            /\ principals \in SUBSET Members /\ requests + 1 \in Nat
        BY InitialAssumption DEF InitialAssumption, TypeOK
      <3> QED  BY <1>0, <3>1 DEF Checkpoint
    <2>2. mem' = [mem EXCEPT ![h] = c]  BY <1>1 DEF Request
    <2>3. mem' \in [Processes -> Checkpoint]
      <3> HIDE DEF c
      <3> QED  BY <2>1, <2>2 DEF TypeOK
    <2> QED  BY <1>1, <2>3 DEF Request, Goto, TypeOK, PCs
  <1>2. ASSUME NEW h \in Handlers, ReadInventory(h) PROVE TypeOK'
    <2>1. mem' \in [Processes -> Checkpoint]  BY <1>2 DEF ReadInventory, TypeOK, Checkpoint
    <2> QED  BY <1>2, <2>1 DEF ReadInventory, Goto, TypeOK, PCs
  <1>3. ASSUME NEW h \in Handlers, NEW x \in Policies, ReadPolicy(h, x) PROVE TypeOK'
    <2>1. mem[h] \in Checkpoint /\ pol[x] \in Policy  BY <1>h DEF TypeOK
    <2>2. replaceOwned(pol[x].members, mem[h].previous, mem[h].principals) \in SUBSET Members
      BY <2>1 DEF replaceOwned, Checkpoint, Policy
    <2> DEFINE m == replaceOwned(pol[x].members, mem[h].previous, mem[h].principals)
               c == [mem[h] EXCEPT !.before[x] = pol[x], !.after[x] = m]
    <2>3. mem' = [mem EXCEPT ![h] = c]  BY <1>3 DEF ReadPolicy, TypeOK
    <2>4. c \in Checkpoint
      <3> HIDE DEF m
      <3> QED  BY <2>1, <2>2 DEF Checkpoint, m
    <2>5. mem' \in [Processes -> Checkpoint]
      <3> HIDE DEF c
      <3> QED  BY <2>3, <2>4 DEF TypeOK
    <2>6. UNCHANGED <<durable, provider, history, todo, got, cold, counters>>
          /\ \E l \in PCs : pc' = [pc EXCEPT ![h] = l]
      BY <1>3 DEF ReadPolicy, Goto, PCs
    <2>7. pc' \in [Processes -> PCs]  BY <2>6 DEF TypeOK
    <2> QED  BY <2>5, <2>6, <2>7 DEF TypeOK
  <1>4. ASSUME NEW h \in Handlers, Begin(h) PROVE TypeOK'
    <2>1. CASE Return(h) /\ UNCHANGED checkpoint
      BY <1>4, <1>h, <1>a, <2>1, ReturnTypes DEF Begin, TypeOK
    <2>2. CASE checkpoint' = mem[h] /\ Goto(h, "mark") /\ UNCHANGED <<mem, todo, got, cold>>
      BY <1>4, <1>h, <2>2 DEF Begin, Goto, TypeOK, PCs
    <2> QED  BY <1>4, <2>1, <2>2 DEF Begin
  <1>5. ASSUME NEW h \in Handlers, Mark(h) PROVE TypeOK'
    <2>1. CASE Fail(h, FALSE) /\ UNCHANGED checkpoint
      BY <1>5, <1>h, <1>a, <2>1, FailTypes DEF Mark, TypeOK
    <2>2. CASE /\ Checkpointed(h, SendingOf[mem[h].phase])
               /\ mem' = [mem EXCEPT ![h].phase = SendingOf[@]]
               /\ Goto(h, "post") /\ UNCHANGED <<todo, got, cold>>
      <3>1. mem[h].phase \in {"prepared", "application_applied"}
        BY <1>5, <1>h DEF Mark, LocalInv, LocalOK
      <3>2. SendingOf[mem[h].phase] \in Phases  BY <3>1, PhaseTable DEF Sending, Phases
      <3>3. checkpoint' \in Checkpoint  BY <2>2, <3>2 DEF Checkpointed, TypeOK, Checkpoint
      <3>4. mem' \in [Processes -> Checkpoint]
        <4>1. mem' = [mem EXCEPT ![h] = [mem[h] EXCEPT !.phase = SendingOf[mem[h].phase]]]
          BY <2>2, <1>h DEF TypeOK
        <4>2. [mem[h] EXCEPT !.phase = SendingOf[mem[h].phase]] \in Checkpoint
          BY <3>2, <1>h DEF TypeOK, Checkpoint
        <4> QED  BY <4>1, <4>2 DEF TypeOK
      <3> QED  BY <1>5, <2>2, <3>3, <3>4 DEF Mark, Goto, TypeOK, PCs
    <2> QED  BY <1>5, <2>1, <2>2 DEF Mark
  <1>6. ASSUME NEW h \in Handlers, Post(h) \/ PostAgain(h) PROVE TypeOK'
    <2> DEFINE x == Current(mem[h].phase)
    <2>1. /\ Send(h, x, mem[h].after[x], mem[h].before[x].etag, mem[h].id)
          /\ UNCHANGED <<durable, mem, todo, got, cold, counters, history>>
          /\ pc' = [pc EXCEPT ![h] = "wait"] \/ UNCHANGED pc
      BY <1>6 DEF Post, PostAgain, Goto
    <2>2. x \in Policies  BY PhaseTable
    <2>3. mem[h].after[x] \in SUBSET Members /\ mem[h].before[x].etag \in Nat /\ mem[h].id \in Nat
      BY <1>h, <2>2 DEF TypeOK, Checkpoint, Policy
    <2> HIDE DEF x
    <2>4. /\ pol' \in [Policies -> Policy] /\ others' \in [Policies -> SUBSET Members]
          /\ flight' \subseteq Write /\ answer' \in [Processes -> Answers] /\ wrote' \subseteq Policies
      BY <1>h, <2>1, <2>2, <2>3, SendTypes
    <2> QED  BY <2>1, <2>4 DEF TypeOK, PCs
  <1>7. ASSUME NEW h \in Handlers, PostApplied(h) PROVE TypeOK'
    <2>1. mem[h].phase \in Sending  BY <1>7, <1>h DEF PostApplied, LocalInv, LocalOK
    <2>2. AppliedOf[mem[h].phase] \in Phases  BY <2>1, PhaseTable DEF Phases
    <2>3. mem' \in [Processes -> Checkpoint]
      <3>1. mem' = [mem EXCEPT ![h] = [mem[h] EXCEPT !.phase = AppliedOf[mem[h].phase]]]
        BY <1>7, <1>h DEF PostApplied, TypeOK
      <3>2. [mem[h] EXCEPT !.phase = AppliedOf[mem[h].phase]] \in Checkpoint
        BY <2>2, <1>h DEF TypeOK, Checkpoint
      <3> QED  BY <3>1, <3>2 DEF TypeOK
    <2>4. answer' \in [Processes -> Answers]  BY <1>7, ConsumeTypes DEF PostApplied
    <2> QED  BY <1>7, <2>3, <2>4 DEF PostApplied, Goto, TypeOK, PCs
  <1>8. ASSUME NEW h \in Handlers, PostRejected(h) PROVE TypeOK'
    <2>1. answer' \in [Processes -> Answers]  BY <1>8, ConsumeTypes DEF PostRejected
    <2>2. LocalTypes'  BY <1>8, <1>h, FailTypes DEF PostRejected
    <2> QED  BY <1>8, <1>a, <2>1, <2>2 DEF PostRejected, TypeOK
  <1>9. ASSUME NEW h \in Handlers, PostLost(h) PROVE TypeOK'
    <2>1. answer' \in [Processes -> Answers]  BY <1>9, ConsumeTypes DEF PostLost
    <2>2. LocalTypes'  BY <1>9, <1>h, FailTypes DEF PostLost
    <2>3. flight' \subseteq Write  BY <1>9, AbandonTypes DEF PostLost
    <2> QED  BY <1>9, <1>a, <2>1, <2>2, <2>3 DEF PostLost, TypeOK
  <1>10. ASSUME NEW h \in Handlers, Record(h) PROVE TypeOK'
    <2>1. CASE Fail(h, FALSE) /\ UNCHANGED checkpoint
      BY <1>10, <1>h, <1>a, <2>1, FailTypes DEF Record, TypeOK
    <2>2. CASE /\ Checkpointed(h, mem[h].phase)
               /\ Goto(h, IF mem[h].phase = "gateway_applied" THEN "commit" ELSE "mark")
               /\ UNCHANGED <<mem, todo, got, cold>>
      <3>1. checkpoint' \in Checkpoint  BY <2>2, <1>h DEF Checkpointed, TypeOK, Checkpoint
      <3> QED  BY <1>10, <2>2, <3>1 DEF Record, Goto, TypeOK, PCs
    <2> QED  BY <1>10, <2>1, <2>2 DEF Record
  <1>11. ASSUME NEW h \in Handlers, Commit(h) PROVE TypeOK'
    <2>1. CASE Fail(h, FALSE) /\ UNCHANGED <<durable, others, wrote, stranded>>
      BY <1>11, <1>h, <1>a, <2>1, FailTypes DEF Commit, TypeOK
    <2>2. CASE /\ principals' = checkpoint.principals /\ baseline' = baseline + 1
               /\ checkpoint' = NoCheckpoint /\ wrote' = {}
               /\ Adopt(checkpoint.principals)
               /\ stranded' = (stranded \union Forgotten(h)) \ checkpoint.principals
               /\ Return(h)
      <3>1. LocalTypes'  BY <1>h, <2>2, ReturnTypes
      <3>2. others' \in [Policies -> SUBSET Members]  BY <2>2 DEF Adopt, TypeOK
      <3>3. stranded' \subseteq Members  BY <2>2 DEF Forgotten, TypeOK
      <3> QED  BY <1>0, <1>11, <2>2, <3>1, <3>2, <3>3 DEF Commit, TypeOK, LocalTypes, Checkpoint
    <2> QED  BY <1>11, <2>1, <2>2 DEF Commit
  <1>12. ASSUME NEW p \in Processes, UndoRead(p) PROVE TypeOK'
    <2>1. todo[p] \in Todos /\ todo[p] # <<>>
      BY <1>12 DEF UndoRead, LocalInv, LocalOK, Undoing
    <2>2. Head(todo[p]) \in Policies  BY <2>1, TodoFacts
    <2> QED  BY <1>12, <2>2 DEF UndoRead, Goto, TypeOK, PCs
  <1>13. ASSUME NEW p \in Processes, UndoPost(p) PROVE TypeOK'
    <2> DEFINE x == Head(todo[p])
               m == revertDelta(mem[p].before[x].members, mem[p].after[x], got[p].members)
    <2>1. todo[p] \in Todos /\ todo[p] # <<>>
      BY <1>13 DEF UndoPost, LocalInv, LocalOK, Undoing
    <2>2. x \in Policies  BY <2>1, TodoFacts
    <2>3. m \in SUBSET Members /\ got[p].etag \in Nat
      BY <2>2 DEF TypeOK, Checkpoint, Policy, revertDelta
    <2>4. /\ Send(p, x, m, got[p].etag, 0) /\ pc' = [pc EXCEPT ![p] = "undoing"]
          /\ UNCHANGED <<durable, mem, todo, got, cold, counters, history>>
      BY <1>13 DEF UndoPost, Goto
    <2> HIDE DEF x, m
    <2>5. /\ pol' \in [Policies -> Policy] /\ others' \in [Policies -> SUBSET Members]
          /\ flight' \subseteq Write /\ answer' \in [Processes -> Answers] /\ wrote' \subseteq Policies
      BY <2>2, <2>3, <2>4, SendTypes
    <2> QED  BY <2>4, <2>5 DEF TypeOK, PCs
  <1>14. ASSUME NEW p \in Processes, UndoAnswered(p) PROVE TypeOK'
    <2>1. todo[p] \in Todos /\ todo[p] # <<>>
      BY <1>14 DEF UndoAnswered, LocalInv, LocalOK, Undoing
    <2>2. Tail(todo[p]) \in Seq(Policies)  BY <2>1, TodoFacts
    <2>3. todo' \in [Processes -> Seq(Policies)]  BY <1>14, <2>2 DEF UndoAnswered, TypeOK
    <2>4. answer' \in [Processes -> Answers]  BY <1>14, ConsumeTypes DEF UndoAnswered
    <2> QED  BY <1>0, <1>14, <2>3, <2>4 DEF UndoAnswered, Goto, TypeOK, PCs
  <1>15. ASSUME NEW p \in Processes, UndoFails(p) PROVE TypeOK'
    <2>1. answer' \in [Processes -> Answers]  BY <1>15, ConsumeTypes DEF UndoFails
    <2>2. LocalTypes'  BY <1>15, ReturnTypes DEF UndoFails
    <2>3. flight' \subseteq Write  BY <1>15, AbandonTypes DEF UndoFails
    <2> QED  BY <1>15, <2>1, <2>2, <2>3 DEF UndoFails, TypeOK, LocalTypes
  <1>16. ASSUME NEW p \in Processes, UndoAbort(p) PROVE TypeOK'
    <2>1. LocalTypes'  BY <1>16, ReturnTypes DEF UndoAbort
    <2>2. checkpoint' \in Checkpoint /\ wrote' \subseteq Policies
      BY <1>0, <1>16 DEF UndoAbort, TypeOK
    <2>3. others' \in [Policies -> SUBSET Members]  BY <1>16 DEF UndoAbort, Adopt, TypeOK
    <2> QED  BY <1>16, <2>1, <2>2, <2>3 DEF UndoAbort, TypeOK, LocalTypes
  <1>17. ASSUME ColdStart PROVE TypeOK'
    <2>1. CASE cold' = TRUE /\ UNCHANGED <<local, crossed>>  BY <1>17, <2>1 DEF ColdStart, TypeOK
    <2>2. CASE /\ mem' = [mem EXCEPT ![Reconciler] = checkpoint]
               /\ todo' = [todo EXCEPT ![Reconciler] = Proven(checkpoint.phase)]
               /\ Goto(Reconciler, "undo") /\ UNCHANGED <<got, cold>>
               /\ crossed' = (crossed \/ \E h \in Handlers : HasBegun(h))
      <3>1. checkpoint.phase \in Phases  BY DEF TypeOK, Checkpoint
      <3>2. Proven(checkpoint.phase) \in Seq(Policies)  BY <3>1, ProvenFacts, TodoFacts
      <3> QED  BY <1>17, <2>2, <3>2 DEF ColdStart, Goto, TypeOK, PCs
    <2> QED  BY <1>17, <2>1, <2>2 DEF ColdStart
  <1>18. ASSUME RestoreDeployer PROVE TypeOK'
    <2>1. requests \in Nat  BY DEF TypeOK
    <2>2. requests' \in Nat
      <3>1. requests' = requests + 1  BY <1>18 DEF RestoreDeployer
      <3> QED  BY <2>1, <3>1
    <2>3. cold' \in BOOLEAN  BY <1>18 DEF RestoreDeployer
    <2>4. UNCHANGED <<durable, provider, history, local, edits, crashes, faults>>
      BY <1>18 DEF RestoreDeployer
    <2> QED  BY <2>2, <2>3, <2>4 DEF TypeOK
  <1>19. ASSUME Crash \/ IdleKill PROVE TypeOK'
    <2>1. Die /\ crashes' \in Nat  BY <1>19 DEF Crash, IdleKill, TypeOK
    <2>2. flight' \subseteq Write
      <3>1. \A w \in Write : [w EXCEPT !.from = "gone"] \in Write  BY DEF Write
      <3> QED  BY <2>1, <3>1 DEF Die, TypeOK
    <2>3. <<>> \in Seq(Policies)  OBVIOUS
    <2>4. LocalTypes'  BY <1>0, <2>1, <2>3 DEF Die, LocalTypes, PCs
    <2>5. answer' \in [Processes -> Answers]  BY <2>1 DEF Die, Answers
    <2> QED  BY <2>1, <2>2, <2>4, <2>5 DEF Die, TypeOK, LocalTypes
  <1>20. ASSUME NEW w \in flight, NEW a \in Answers, Answer(w, a)
         PROVE  answer' \in [Processes -> Answers]
    BY <1>20 DEF Answer, TypeOK
  <1>21. ASSUME NEW w \in flight, Land(w) PROVE TypeOK'
    <2>1. w \in Write  BY DEF TypeOK
    <2>2. \E a \in Answers : Answer(w, a)  BY <1>21 DEF Land, Answers
    <2>3. answer' \in [Processes -> Answers]  BY <1>20, <2>2
    <2>4. pol' \in [Policies -> Policy]
      <3>1. CASE UNCHANGED pol  BY <3>1 DEF TypeOK
      <3>2. CASE pol' = [pol EXCEPT ![w.policy] = [members |-> w.members, etag |-> @.etag + 1]]
        BY <2>1, <3>2 DEF TypeOK, Write, Policy
      <3> QED  BY <1>21, <3>1, <3>2 DEF Land
    <2>5. wrote' \subseteq Policies  BY <1>21, <2>1 DEF Land, TypeOK, Write
    <2> QED  BY <1>21, <2>3, <2>4, <2>5 DEF Land, TypeOK
  <1>22. ASSUME NEW w \in flight, Refuse(w) PROVE TypeOK'
    <2>1. \E a \in Answers : Answer(w, a)  BY <1>22 DEF Refuse, Answers
    <2>2. answer' \in [Processes -> Answers]  BY <1>20, <2>1
    <2> QED  BY <1>22, <2>2 DEF Refuse, TypeOK
  <1>23. ASSUME NEW x \in Policies, NEW m \in Members, ForeignEdit(x, m) PROVE TypeOK'
    <2>1. pol' \in [Policies -> Policy]  BY <1>23 DEF ForeignEdit, TypeOK, Policy
    <2>2. others' \in [Policies -> SUBSET Members]  BY <1>23 DEF ForeignEdit, TypeOK
    <2> QED  BY <1>23, <2>1, <2>2 DEF ForeignEdit, TypeOK
  <1>24. ASSUME UNCHANGED vars PROVE TypeOK'
    BY <1>24 DEF vars, TypeOK
  <1> QED
    BY <1>1, <1>2, <1>3, <1>4, <1>5, <1>6, <1>7, <1>8, <1>9, <1>10, <1>11, <1>12, <1>13,
       <1>14, <1>15, <1>16, <1>17, <1>18, <1>19, <1>21, <1>22, <1>23, <1>24
    DEF Next, Handle, Undo

----------------------------------------------------------------------------
(* What each step does, field by field.                                      *)

Others(p) ==
    \A q \in Processes \ {p} :
        /\ pc'[q] = pc[q] /\ mem'[q] = mem[q] /\ todo'[q] = todo[q] /\ got'[q] = got[q]
        /\ answer'[q] = answer[q]

Record3 == <<principals, baseline, others, stranded>>

Quiet(p) == Others(p) /\ UNCHANGED Record3 /\ UNCHANGED pol

\* A process ends, and is forgotten by what it sent.
Leaves(p) == pc'[p] = "idle" /\ cold' = (cold \/ p = Reconciler)

Abandoned(p) == {[w EXCEPT !.from = IF @ = p THEN "gone" ELSE @] : w \in flight}

SameCopy(p) ==
    /\ mem'[p].id = mem[p].id /\ mem'[p].principals = mem[p].principals
    /\ mem'[p].previous = mem[p].previous

Prepares(h) ==
    /\ Quiet(h) /\ UNCHANGED <<checkpoint, flight, cold>>
    /\ mem'[h].phase = "prepared"
    /\ \/ /\ cold /\ pc[h] = "idle" /\ pc'[h] = "inventory"
          /\ mem'[h].id # 0 /\ mem'[h].previous = principals
       \/ /\ pc[h] = "inventory" /\ pc'[h] = "gateway" /\ SameCopy(h)
          /\ mem'[h].baseline = baseline
       \/ \E x \in Policies :
             /\ pc[h] = x /\ pc'[h] = IF x = "gateway" THEN "application" ELSE "begin"
             /\ SameCopy(h) /\ mem'[h].baseline = mem[h].baseline
             /\ mem'[h].before[x] = pol[x]
             /\ mem'[h].after[x] = replaceOwned(pol[x].members, mem[h].previous, mem[h].principals)
             /\ \A y \in Policies \ {x} : /\ mem'[h].before[y] = mem[h].before[y]
                                          /\ mem'[h].after[y] = mem[h].after[y]

Opens(h) ==
    /\ Quiet(h) /\ UNCHANGED <<flight, cold>>
    /\ pc[h] = "begin" /\ pc'[h] = "mark" /\ mem'[h] = mem[h]
    /\ checkpoint.id = 0 /\ checkpoint' = mem[h]

\* Refused, or left to a review or to the next worker.
Quits(p) ==
    /\ Quiet(p) /\ UNCHANGED checkpoint /\ Leaves(p)
    /\ \/ pc[p] = "begin" /\ flight' = flight
       \/ pc[p] \in Saga \ {"wait"} /\ mem[p].phase \in Sending /\ flight' = flight
       \/ pc[p] = "wait" /\ flight' = Abandoned(p)
       \/ pc[p] \in Undoing /\ flight' = Abandoned(p)

RollsBack(p) ==
    /\ Quiet(p) /\ UNCHANGED <<checkpoint, cold, flight>>
    /\ pc'[p] = "undo" /\ mem'[p] = mem[p] /\ todo'[p] = Proven(mem[p].phase)
    /\ \/ pc[p] \in {"mark", "record", "commit"}
       \/ pc[p] = "wait" /\ answer[p] \in {"aborted", "refused"}

\* The copy and the checkpoint that differ from mem[p] in the phase alone.
SameBut(c, d) ==
    /\ c.id = d.id /\ c.principals = d.principals /\ c.previous = d.previous
    /\ c.baseline = d.baseline /\ c.before = d.before /\ c.after = d.after

Marks(h) ==
    /\ Quiet(h) /\ UNCHANGED <<flight, cold>>
    /\ pc[h] = "mark" /\ pc'[h] = "post"
    /\ SameBut(mem'[h], mem[h]) /\ SameBut(checkpoint', checkpoint)
    /\ mem'[h].phase = SendingOf[mem[h].phase] /\ checkpoint'.phase = mem'[h].phase

Sends(h) ==
    /\ Quiet(h) /\ UNCHANGED <<checkpoint, cold>>
    /\ pc[h] = "post" \/ (pc[h] = "wait" /\ answer[h] = "unavailable")
    /\ pc'[h] = "wait" /\ mem'[h] = mem[h] /\ answer'[h] = "none"
    /\ \E w \in Write :
          /\ flight' = flight \union {w}
          /\ w.from = h /\ w.policy = Current(mem[h].phase) /\ w.update = mem[h].id
          /\ w.members = mem[h].after[w.policy] /\ w.etag = mem[h].before[w.policy].etag

Applies(h) ==
    /\ Quiet(h) /\ UNCHANGED <<checkpoint, flight, cold>>
    /\ pc[h] = "wait" /\ answer[h] = "applied" /\ pc'[h] = "record"
    /\ SameBut(mem'[h], mem[h]) /\ mem'[h].phase = AppliedOf[mem[h].phase]

Records(h) ==
    /\ Quiet(h) /\ UNCHANGED <<flight, cold>>
    /\ pc[h] = "record" /\ mem'[h] = mem[h]
    /\ pc'[h] = IF mem[h].phase = "gateway_applied" THEN "commit" ELSE "mark"
    /\ SameBut(checkpoint', checkpoint) /\ checkpoint'.phase = mem[h].phase

Adopts(owned) == \A x \in Policies : others'[x] = others[x] \ owned

Commits(h) ==
    /\ Others(h) /\ UNCHANGED <<pol, flight>> /\ Leaves(h)
    /\ pc[h] = "commit" /\ mem[h].baseline = baseline
    /\ principals' = checkpoint.principals /\ baseline' = baseline + 1
    /\ checkpoint' = NoCheckpoint /\ Adopts(checkpoint.principals)
    /\ stranded' = (stranded \union (principals \ mem[h].previous)) \ checkpoint.principals

Reads(p) ==
    /\ Quiet(p) /\ UNCHANGED <<checkpoint, flight, cold>>
    /\ pc[p] = "undo" /\ todo[p] # <<>> /\ pc'[p] = "restore"
    /\ mem'[p] = mem[p] /\ todo'[p] = todo[p] /\ got'[p] = pol[Head(todo[p])]

Undoes(p) ==
    /\ Quiet(p) /\ UNCHANGED <<checkpoint, cold>>
    /\ pc[p] = "restore" /\ pc'[p] = "undoing"
    /\ mem'[p] = mem[p] /\ todo'[p] = todo[p] /\ answer'[p] = "none"
    /\ \E w \in Write :
          /\ flight' = flight \union {w}
          /\ w.from = p /\ w.policy = Head(todo[p]) /\ w.update = 0 /\ w.etag = got[p].etag
          /\ w.members = revertDelta(mem[p].before[w.policy].members, mem[p].after[w.policy],
                                     got[p].members)

Hears(p) ==
    /\ Quiet(p) /\ UNCHANGED <<checkpoint, flight, cold>>
    /\ pc[p] = "undoing" /\ pc'[p] = "undo" /\ mem'[p] = mem[p]
    /\ \/ answer[p] = "applied" /\ todo'[p] = Tail(todo[p])
       \/ answer[p] = "aborted" /\ todo'[p] = todo[p]

Closes(p) ==
    /\ Others(p) /\ UNCHANGED <<principals, baseline, stranded, pol, flight>> /\ Leaves(p)
    /\ pc[p] = "undo" /\ todo[p] = <<>>
    /\ \/ checkpoint.id = mem[p].id /\ checkpoint' = NoCheckpoint /\ Adopts(principals)
       \/ checkpoint.id # mem[p].id /\ UNCHANGED <<checkpoint, others>>

Wakes ==
    /\ UNCHANGED Record3 /\ UNCHANGED <<checkpoint, pol, flight, answer>>
    /\ ~cold /\ pc[Reconciler] = "idle"
    /\ \/ UNCHANGED <<pc, mem, todo, got>> /\ cold' = TRUE
       \/ /\ checkpoint.id # 0 /\ checkpoint.phase \notin Sending /\ Others(Reconciler)
          /\ pc'[Reconciler] = "undo" /\ mem'[Reconciler] = checkpoint
          /\ todo'[Reconciler] = Proven(checkpoint.phase) /\ cold' = cold
          /\ crossed' \/ \A h \in Handlers : ~HasBegun(h)

\* The worker forgets: all of it dies, or a deployer is restored.
Forgets ==
    /\ UNCHANGED Record3 /\ UNCHANGED <<checkpoint, pol>> /\ ~cold'
    /\ \/ (\A p \in Processes : pc'[p] = "idle")
          /\ flight' = {[w EXCEPT !.from = "gone"] : w \in flight}
       \/ cold /\ UNCHANGED <<pc, mem, todo, got, answer, flight>>

Arrives(w) ==
    /\ UNCHANGED Record3 /\ UNCHANGED <<checkpoint, pc, mem, todo, got, cold>>
    /\ flight' = flight \ {w}
    /\ \A p \in Processes : p # w.from => answer'[p] = answer[p]
    /\ \/ /\ w.etag = pol[w.policy].etag
          /\ pol'[w.policy].members = w.members /\ pol'[w.policy].etag = w.etag + 1
          /\ \A x \in Policies \ {w.policy} : pol'[x] = pol[x]
          /\ w.from # "gone" => answer'[w.from] = "applied" \/ (LateUnavailable /\ w.update # 0)
       \/ /\ UNCHANGED pol
          /\ w.etag # pol[w.policy].etag \/ w.update # 0
          /\ w.from # "gone" => answer'[w.from] \in {"aborted", "refused", "unavailable"}

Edits ==
    /\ UNCHANGED <<principals, baseline, stranded, checkpoint, flight, answer,
                   pc, mem, todo, got, cold>>
    /\ \E x \in Policies, m \in Members :
          /\ pol'[x].members = pol[x].members \union {m} /\ pol'[x].etag = pol[x].etag + 1
          /\ others'[x] = IF m \in pol[x].members THEN others[x] ELSE others[x] \union {m}
          /\ \A y \in Policies \ {x} : pol'[y] = pol[y] /\ others'[y] = others[y]

HandlerStep(h) ==
    \/ Prepares(h) \/ Opens(h) \/ Quits(h) \/ RollsBack(h) \/ Marks(h) \/ Sends(h) \/ Applies(h)
    \/ Records(h) \/ Commits(h)

UndoStep(p) == Reads(p) \/ Undoes(p) \/ Hears(p) \/ Quits(p) \/ Closes(p)

Stutters == UNCHANGED <<principals, baseline, others, stranded, checkpoint, pol, flight, answer,
                        pc, mem, todo, got, cold>>

Shape ==
    \/ \E h \in Handlers : HandlerStep(h)
    \/ \E p \in Processes : UndoStep(p)
    \/ Wakes \/ Forgets \/ (\E w \in flight : Arrives(w)) \/ Edits \/ Stutters

LEMMA ReturnShape ==
    ASSUME TypeOK, NEW p \in Processes, Return(p)
    PROVE  /\ Leaves(p)
           /\ \A q \in Processes \ {p} : /\ pc'[q] = pc[q] /\ mem'[q] = mem[q]
                                         /\ todo'[q] = todo[q] /\ got'[q] = got[q]
  BY DEF Return, Goto, TypeOK, Leaves

LEMMA FailShape ==
    ASSUME TypeOK, NEW p \in Processes, NEW rejected, Fail(p, rejected)
    PROVE  /\ \A q \in Processes \ {p} : /\ pc'[q] = pc[q] /\ mem'[q] = mem[q]
                                         /\ todo'[q] = todo[q] /\ got'[q] = got[q]
           /\ \/ Leaves(p) /\ mem[p].phase \in Sending /\ ~rejected
              \/ /\ pc'[p] = "undo" /\ mem'[p] = mem[p] /\ todo'[p] = Proven(mem[p].phase)
                 /\ cold' = cold /\ (mem[p].phase \notin Sending \/ rejected)
  <1>1. CASE Ambiguous(mem[p].phase, rejected) /\ Return(p)
    BY <1>1, ReturnShape DEF Ambiguous
  <1>2. CASE /\ ~Ambiguous(mem[p].phase, rejected)
             /\ todo' = [todo EXCEPT ![p] = Proven(mem[p].phase)]
             /\ Goto(p, "undo") /\ UNCHANGED <<mem, got, cold>>
    BY <1>2 DEF Ambiguous, Goto, TypeOK
  <1> QED  BY <1>1, <1>2 DEF Fail

LEMMA ConsumeShape ==
    ASSUME TypeOK, NEW p \in Processes, Consume(p)
    PROVE  answer'[p] = "none" /\ \A q \in Processes \ {p} : answer'[q] = answer[q]
  BY DEF Consume, TypeOK

LEMMA SendShape ==
    ASSUME TypeOK, NEW p \in Processes, NEW x \in Policies, NEW members \in SUBSET Members,
           NEW etag \in Nat, NEW id \in Nat, Send(p, x, members, etag, id)
    PROVE  \E w \in Write :
              /\ flight' = flight \union {w}
              /\ w.from = p /\ w.policy = x /\ w.members = members /\ w.etag = etag /\ w.update = id
  <1> DEFINE w == [from |-> p, policy |-> x, members |-> members, etag |-> etag, update |-> id]
  <1>1. w \in Write  BY DEF Write
  <1>2. /\ flight' = flight \union {w}
        /\ w.from = p /\ w.policy = x /\ w.members = members /\ w.etag = etag /\ w.update = id
    BY DEF Send
  <1> QED  BY <1>1, <1>2

LEMMA ShapeOfStep == TypeOK /\ LocalInv /\ [Next]_vars => Shape
  <1> SUFFICES ASSUME TypeOK, LocalInv, [Next]_vars PROVE Shape
    OBVIOUS
  <1> USE DEF durable, provider, history, local, counters
  <1>h. Handlers \subseteq Processes /\ Reconciler \in Processes  BY DEF Processes
  <1>t. \A p \in Processes : mem[p] \in Checkpoint /\ mem[p].phase \in Phases
    BY DEF TypeOK, Checkpoint
  <1>1. ASSUME NEW h \in Handlers, NEW requested \in SUBSET (Members \ Initial), Request(h, requested)
        PROVE  HandlerStep(h)
    <2> DEFINE c == [NoCheckpoint EXCEPT !.id = requests + 1, !.principals = Initial \union requested,
                                         !.previous = principals]
    <2>1. c.id = requests + 1 /\ c.phase = "prepared" /\ c.previous = principals
      BY DEF NoCheckpoint
    <2>2. /\ mem' = [mem EXCEPT ![h] = c] /\ pc' = [pc EXCEPT ![h] = "inventory"]
          /\ cold /\ pc[h] = "idle"
          /\ UNCHANGED <<durable, provider, history, todo, got, cold>>
      BY <1>1 DEF Request, Goto
    <2>3. requests + 1 # 0  BY DEF TypeOK
    <2> HIDE DEF c
    <2>4. mem'[h] = c /\ pc'[h] = "inventory"  BY <1>h, <2>2 DEF TypeOK
    <2>5. Quiet(h)  BY <1>h, <2>2 DEF TypeOK, Quiet, Others, Record3
    <2> QED  BY <2>1, <2>2, <2>3, <2>4, <2>5 DEF HandlerStep, Prepares
  <1>2. ASSUME NEW h \in Handlers, ReadInventory(h) PROVE HandlerStep(h)
    <2>1. mem[h].phase = "prepared"  BY <1>h, <1>2 DEF ReadInventory, LocalInv, LocalOK
    <2>2. /\ mem'[h].baseline = baseline /\ SameCopy(h) /\ mem'[h].phase = mem[h].phase
          /\ pc'[h] = "gateway"
      BY <1>h, <1>t, <1>2 DEF ReadInventory, Goto, TypeOK, Checkpoint, SameCopy
    <2>3. Quiet(h)  BY <1>h, <1>2 DEF ReadInventory, Goto, TypeOK, Quiet, Others, Record3
    <2> QED  BY <1>2, <2>1, <2>2, <2>3 DEF ReadInventory, HandlerStep, Prepares
  <1>3. ASSUME NEW h \in Handlers, NEW x \in Policies, ReadPolicy(h, x) PROVE HandlerStep(h)
    <2> DEFINE m == replaceOwned(pol[x].members, mem[h].previous, mem[h].principals)
               c == [mem[h] EXCEPT !.before[x] = pol[x], !.after[x] = m]
    <2>1. mem' = [mem EXCEPT ![h] = c]  BY <1>3, <1>h DEF ReadPolicy, TypeOK
    <2>2. mem[h].phase = "prepared"
      BY <1>h, <1>3 DEF ReadPolicy, LocalInv, LocalOK, Policies
    <2>3. /\ c.phase = mem[h].phase /\ c.id = mem[h].id /\ c.principals = mem[h].principals
          /\ c.previous = mem[h].previous /\ c.baseline = mem[h].baseline
          /\ c.before[x] = pol[x] /\ c.after[x] = m
          /\ \A y \in Policies \ {x} : c.before[y] = mem[h].before[y] /\ c.after[y] = mem[h].after[y]
      <3> HIDE DEF m
      <3>1. mem[h] \in Checkpoint  BY <1>h, <1>t
      <3> QED  BY <3>1 DEF Checkpoint
    <2>4. /\ pc' = [pc EXCEPT ![h] = IF x = "gateway" THEN "application" ELSE "begin"]
          /\ UNCHANGED <<durable, provider, history, todo, got, cold>> /\ pc[h] = x
      BY <1>3 DEF ReadPolicy, Goto
    <2> HIDE DEF c
    <2>5. mem'[h] = c  BY <2>1, <1>h DEF TypeOK
    <2>6. Quiet(h)  BY <2>1, <2>4, <1>h DEF TypeOK, Quiet, Others, Record3
    <2>7. pc'[h] = IF x = "gateway" THEN "application" ELSE "begin"
      BY <2>4, <1>h DEF TypeOK
    <2>8. SameCopy(h)  BY <2>3, <2>5 DEF SameCopy
    <2> QED  BY <2>2, <2>3, <2>4, <2>5, <2>6, <2>7, <2>8 DEF HandlerStep, Prepares
  <1>4. ASSUME NEW h \in Handlers, Begin(h) PROVE HandlerStep(h)
    <2>1. CASE Return(h) /\ UNCHANGED checkpoint
      BY <1>4, <1>h, <2>1, ReturnShape DEF Begin, HandlerStep, Quits, Quiet, Others, Record3
    <2>2. CASE /\ checkpoint.id = 0 /\ checkpoint' = mem[h] /\ Goto(h, "mark")
               /\ UNCHANGED <<mem, todo, got, cold>>
      BY <1>4, <1>h, <2>2 DEF Begin, Goto, TypeOK, HandlerStep, Opens, Quiet, Others, Record3
    <2> QED  BY <1>4, <2>1, <2>2 DEF Begin
  <1>5. ASSUME NEW h \in Handlers, Fail(h, FALSE), UNCHANGED <<durable, pol, others, stranded, flight, answer>>,
               pc[h] \in {"mark", "record", "commit"}
        PROVE  HandlerStep(h)
    <2>1. Quiet(h)  BY <1>h, <1>5, FailShape DEF Quiet, Others, Record3
    <2> QED
      BY <1>h, <1>5, <2>1, FailShape DEF HandlerStep, Quits, RollsBack, Saga
  <1>6. ASSUME NEW h \in Handlers, Mark(h) PROVE HandlerStep(h)
    <2>1. CASE Fail(h, FALSE) /\ UNCHANGED checkpoint
      BY <1>5, <1>6, <2>1 DEF Mark
    <2>2. CASE /\ Checkpointed(h, SendingOf[mem[h].phase])
               /\ mem' = [mem EXCEPT ![h].phase = SendingOf[@]]
               /\ Goto(h, "post") /\ UNCHANGED <<todo, got, cold>>
      <3>1. mem'[h].phase = SendingOf[mem[h].phase] /\ SameBut(mem'[h], mem[h])
        BY <1>h, <1>t, <2>2 DEF TypeOK, Checkpoint, SameBut
      <3>2. checkpoint'.phase = SendingOf[mem[h].phase] /\ SameBut(checkpoint', checkpoint)
        BY <2>2 DEF Checkpointed, TypeOK, Checkpoint, SameBut
      <3>3. Quiet(h) /\ pc'[h] = "post"
        BY <1>h, <1>6, <2>2 DEF Mark, Goto, TypeOK, Quiet, Others, Record3
      <3> QED  BY <1>6, <2>2, <3>1, <3>2, <3>3 DEF Mark, HandlerStep, Marks
    <2> QED  BY <1>6, <2>1, <2>2 DEF Mark
  <1>7. ASSUME NEW h \in Handlers, Post(h) \/ PostAgain(h) PROVE HandlerStep(h)
    <2> DEFINE x == Current(mem[h].phase)
    <2>1. /\ Send(h, x, mem[h].after[x], mem[h].before[x].etag, mem[h].id)
          /\ UNCHANGED <<durable, history, mem, todo, got, cold>>
          /\ \/ pc[h] = "post" /\ pc' = [pc EXCEPT ![h] = "wait"]
             \/ pc[h] = "wait" /\ answer[h] = "unavailable" /\ pc' = pc
      BY <1>7 DEF Post, PostAgain, Goto
    <2>2. x \in Policies  BY PhaseTable
    <2>3. mem[h].after[x] \in SUBSET Members /\ mem[h].before[x].etag \in Nat /\ mem[h].id \in Nat
      BY <1>h, <2>2 DEF TypeOK, Checkpoint, Policy
    <2>4. \E w \in Write :
             /\ flight' = flight \union {w}
             /\ w.from = h /\ w.policy = x /\ w.members = mem[h].after[x]
             /\ w.etag = mem[h].before[x].etag /\ w.update = mem[h].id
      <3> HIDE DEF x
      <3> QED  BY <1>h, <2>1, <2>2, <2>3, SendShape
    <2>5. Consume(h) /\ UNCHANGED <<pol, others>>  BY <2>1 DEF Send
    <2>6. answer'[h] = "none" /\ \A q \in Processes \ {h} : answer'[q] = answer[q]
      BY <1>h, <2>5, ConsumeShape
    <2>7. Quiet(h) /\ pc'[h] = "wait" /\ mem'[h] = mem[h]
      BY <1>h, <2>1, <2>5, <2>6 DEF TypeOK, Quiet, Others, Record3
    <2> QED  BY <2>1, <2>4, <2>6, <2>7 DEF HandlerStep, Sends
  <1>8. ASSUME NEW h \in Handlers, PostApplied(h) PROVE HandlerStep(h)
    <2>1. mem'[h].phase = AppliedOf[mem[h].phase] /\ SameBut(mem'[h], mem[h])
      BY <1>h, <1>t, <1>8 DEF PostApplied, TypeOK, Checkpoint, SameBut
    <2>2. \A q \in Processes \ {h} : answer'[q] = answer[q]
      BY <1>h, <1>8, ConsumeShape DEF PostApplied
    <2>3. Quiet(h) /\ pc'[h] = "record"
      BY <1>h, <1>8, <2>2 DEF PostApplied, Goto, TypeOK, Quiet, Others, Record3
    <2> QED  BY <1>8, <2>1, <2>3 DEF PostApplied, HandlerStep, Applies
  <1>9. ASSUME NEW h \in Handlers, PostRejected(h) PROVE HandlerStep(h)
    <2>1. \A q \in Processes \ {h} : answer'[q] = answer[q]
      BY <1>h, <1>9, ConsumeShape DEF PostRejected
    <2>2. Quiet(h)
      BY <1>h, <1>9, <2>1, FailShape DEF PostRejected, Quiet, Others, Record3
    <2> QED  BY <1>h, <1>9, <2>2, FailShape DEF PostRejected, HandlerStep, RollsBack
  <1>10. ASSUME NEW h \in Handlers, PostLost(h) PROVE HandlerStep(h)
    <2>1. \A q \in Processes \ {h} : answer'[q] = answer[q]
      BY <1>h, <1>10, ConsumeShape DEF PostLost
    <2>2. Quiet(h)
      BY <1>h, <1>10, <2>1, FailShape DEF PostLost, Quiet, Others, Record3
    <2>3. mem[h].phase \in Sending  BY <1>h, <1>10 DEF PostLost, LocalInv, LocalOK
    <2>4. Leaves(h)  BY <1>h, <1>10, <2>3, FailShape DEF PostLost
    <2> QED
      BY <1>10, <2>2, <2>4 DEF PostLost, Abandon, Abandoned, HandlerStep, Quits
  <1>11. ASSUME NEW h \in Handlers, Record(h) PROVE HandlerStep(h)
    <2>1. CASE Fail(h, FALSE) /\ UNCHANGED checkpoint
      BY <1>5, <1>11, <2>1 DEF Record
    <2>2. CASE /\ Checkpointed(h, mem[h].phase)
               /\ Goto(h, IF mem[h].phase = "gateway_applied" THEN "commit" ELSE "mark")
               /\ UNCHANGED <<mem, todo, got, cold>>
      <3>1. checkpoint'.phase = mem[h].phase /\ SameBut(checkpoint', checkpoint)
        BY <2>2 DEF Checkpointed, TypeOK, Checkpoint, SameBut
      <3>2. Quiet(h) /\ pc'[h] = IF mem[h].phase = "gateway_applied" THEN "commit" ELSE "mark"
        BY <1>h, <1>11, <2>2 DEF Record, Goto, TypeOK, Quiet, Others, Record3
      <3> QED  BY <1>11, <2>2, <3>1, <3>2 DEF Record, HandlerStep, Records
    <2> QED  BY <1>11, <2>1, <2>2 DEF Record
  <1>12. ASSUME NEW owned, Adopt(owned) PROVE Adopts(owned)
    BY <1>12 DEF Adopt, Adopts
  <1>13. ASSUME NEW h \in Handlers, Commit(h) PROVE HandlerStep(h)
    <2>1. CASE Fail(h, FALSE) /\ UNCHANGED <<durable, others, wrote, stranded>>
      BY <1>5, <1>13, <2>1 DEF Commit
    <2>2. CASE /\ UnchangedInventory(h)
               /\ principals' = checkpoint.principals /\ baseline' = baseline + 1
               /\ checkpoint' = NoCheckpoint
               /\ Adopt(checkpoint.principals)
               /\ stranded' = (stranded \union Forgotten(h)) \ checkpoint.principals
               /\ Return(h)
      <3>1. Others(h) /\ Leaves(h)
        BY <1>h, <1>13, <2>2, ReturnShape DEF Commit, Others
      <3>2. Adopts(checkpoint.principals)  BY <1>12, <2>2
      <3>3. Forgotten(h) = principals \ mem[h].previous
        BY <2>2 DEF Forgotten, UnchangedInventory
      <3> QED  BY <1>13, <2>2, <3>1, <3>2, <3>3 DEF Commit, UnchangedInventory, HandlerStep, Commits
    <2> QED  BY <1>13, <2>1, <2>2 DEF Commit
  <1>14. ASSUME NEW p \in Processes, UndoRead(p) PROVE UndoStep(p)
    BY <1>14 DEF UndoRead, Goto, TypeOK, UndoStep, Reads, Quiet, Others, Record3
  <1>15. ASSUME NEW p \in Processes, UndoPost(p) PROVE UndoStep(p)
    <2> DEFINE x == Head(todo[p])
               m == revertDelta(mem[p].before[x].members, mem[p].after[x], got[p].members)
    <2>1. todo[p] \in Todos /\ todo[p] # <<>>
      BY <1>15 DEF UndoPost, LocalInv, LocalOK, Undoing
    <2>2. x \in Policies  BY <2>1, TodoFacts
    <2>3. m \in SUBSET Members /\ got[p].etag \in Nat
      BY <2>2 DEF TypeOK, Checkpoint, Policy, revertDelta
    <2>4. /\ Send(p, x, m, got[p].etag, 0) /\ pc' = [pc EXCEPT ![p] = "undoing"]
          /\ UNCHANGED <<durable, history, mem, todo, got, cold>> /\ pc[p] = "restore"
      BY <1>15 DEF UndoPost, Goto
    <2>5. \E w \in Write :
             /\ flight' = flight \union {w}
             /\ w.from = p /\ w.policy = x /\ w.members = m /\ w.etag = got[p].etag /\ w.update = 0
      <3> HIDE DEF x, m
      <3> QED  BY <2>2, <2>3, <2>4, SendShape
    <2>6. Consume(p) /\ UNCHANGED <<pol, others>>  BY <2>4 DEF Send
    <2>7. answer'[p] = "none" /\ \A q \in Processes \ {p} : answer'[q] = answer[q]
      BY <2>6, ConsumeShape
    <2>8. Quiet(p) /\ pc'[p] = "undoing" /\ mem'[p] = mem[p] /\ todo'[p] = todo[p]
      BY <2>4, <2>6, <2>7 DEF TypeOK, Quiet, Others, Record3
    <2> QED  BY <2>4, <2>5, <2>7, <2>8 DEF UndoStep, Undoes
  <1>16. ASSUME NEW p \in Processes, UndoAnswered(p) PROVE UndoStep(p)
    <2>1. \A q \in Processes \ {p} : answer'[q] = answer[q]
      BY <1>16, ConsumeShape DEF UndoAnswered
    <2>2. Quiet(p)
      <3>1. \A q \in Processes \ {p} : todo'[q] = todo[q]  BY <1>16 DEF UndoAnswered, TypeOK
      <3> QED  BY <1>16, <2>1, <3>1 DEF UndoAnswered, Goto, TypeOK, Quiet, Others, Record3
    <2>3. \/ answer[p] = "applied" /\ todo'[p] = Tail(todo[p])
          \/ answer[p] = "aborted" /\ todo'[p] = todo[p]
      BY <1>16 DEF UndoAnswered, TypeOK
    <2>4. pc'[p] = "undo" /\ mem'[p] = mem[p]  BY <1>16 DEF UndoAnswered, Goto, TypeOK
    <2> QED  BY <1>16, <2>2, <2>3, <2>4 DEF UndoAnswered, UndoStep, Hears
  <1>17. ASSUME NEW p \in Processes, UndoFails(p) PROVE UndoStep(p)
    <2>1. \A q \in Processes \ {p} : answer'[q] = answer[q]
      BY <1>17, ConsumeShape DEF UndoFails
    <2>2. Quiet(p) /\ Leaves(p)
      BY <1>17, <2>1, ReturnShape DEF UndoFails, Quiet, Others, Record3
    <2> QED
      BY <1>17, <2>2 DEF UndoFails, Undoing, Abandon, Abandoned, UndoStep, Quits
  <1>18. ASSUME NEW p \in Processes, UndoAbort(p) PROVE UndoStep(p)
    <2>1. Others(p) /\ Leaves(p)  BY <1>18, ReturnShape DEF UndoAbort, Others
    <2> QED  BY <1>12, <1>18, <2>1 DEF UndoAbort, UndoStep, Closes
  <1>19. ASSUME ColdStart PROVE Wakes
    <2>1. CASE cold' = TRUE /\ UNCHANGED <<local, crossed>>  BY <1>19, <2>1 DEF ColdStart, Wakes, Record3
    <2>2. CASE /\ ~(checkpoint.id = 0 \/ Ambiguous(checkpoint.phase, FALSE))
               /\ mem' = [mem EXCEPT ![Reconciler] = checkpoint]
               /\ todo' = [todo EXCEPT ![Reconciler] = Proven(checkpoint.phase)]
               /\ Goto(Reconciler, "undo") /\ UNCHANGED <<got, cold>>
               /\ crossed' = (crossed \/ \E h \in Handlers : HasBegun(h))
      BY <1>19, <1>h, <2>2 DEF ColdStart, Goto, TypeOK, Ambiguous, Wakes, Record3, Others
    <2> QED  BY <1>19, <2>1, <2>2 DEF ColdStart
  <1>20. ASSUME RestoreDeployer PROVE Forgets
    BY <1>20 DEF RestoreDeployer, Forgets, Record3
  <1>21. ASSUME Crash \/ IdleKill PROVE Forgets
    BY <1>21 DEF Crash, IdleKill, Die, Forgets, Record3
  <1>22. ASSUME NEW w \in flight, NEW a, Answer(w, a)
         PROVE  /\ \A p \in Processes : p # w.from => answer'[p] = answer[p]
                /\ w.from # "gone" => answer'[w.from] = a
    <2>1. w.from # "gone" => w.from \in Processes  BY DEF TypeOK, Write
    <2> QED  BY <1>22, <2>1 DEF Answer, TypeOK
  <1>23. ASSUME NEW w \in flight, Land(w) PROVE Arrives(w)
    <2>1. w \in Write /\ w.policy \in Policies  BY DEF TypeOK, Write
    <2>2. /\ UNCHANGED Record3 /\ UNCHANGED <<checkpoint, pc, mem, todo, got, cold>>
          /\ flight' = flight \ {w}
      BY <1>23 DEF Land, Record3
    <2>3. CASE /\ w.etag = pol[w.policy].etag
               /\ pol' = [pol EXCEPT ![w.policy] = [members |-> w.members, etag |-> @.etag + 1]]
               /\ \/ Answer(w, "applied")
                  \/ LateUnavailable /\ w.update # 0 /\ Answer(w, "unavailable")
      BY <1>22, <2>1, <2>2, <2>3 DEF TypeOK, Arrives
    <2>4. CASE w.etag # pol[w.policy].etag /\ Answer(w, "aborted") /\ UNCHANGED <<pol, wrote>>
      BY <1>22, <2>2, <2>4 DEF Arrives
    <2> QED  BY <1>23, <2>3, <2>4 DEF Land
  <1>24. ASSUME NEW w \in flight, Refuse(w) PROVE Arrives(w)
    BY <1>22, <1>24 DEF Refuse, Arrives, Record3
  <1>25. ASSUME NEW x \in Policies, NEW m \in Members, ForeignEdit(x, m) PROVE Edits
    <2>1. /\ pol'[x].members = pol[x].members \union {m} /\ pol'[x].etag = pol[x].etag + 1
          /\ others'[x] = IF m \in pol[x].members THEN others[x] ELSE others[x] \union {m}
          /\ \A y \in Policies \ {x} : pol'[y] = pol[y] /\ others'[y] = others[y]
      BY <1>25 DEF ForeignEdit, TypeOK
    <2> QED  BY <1>25, <2>1 DEF ForeignEdit, Edits
  <1>26. ASSUME UNCHANGED vars PROVE Stutters
    BY <1>26 DEF vars, Stutters
  <1> QED
    BY <1>1, <1>2, <1>3, <1>4, <1>6, <1>7, <1>8, <1>9, <1>10, <1>11, <1>13, <1>14, <1>15, <1>16,
       <1>17, <1>18, <1>19, <1>20, <1>21, <1>23, <1>24, <1>25, <1>26
    DEF Next, Handle, Undo, Shape

LEMMA LocalStep ==
    ASSUME TypeOK, LocalInv, Shape
    PROVE  LocalInv'
  <1>h. Handlers \subseteq Processes /\ Reconciler \in Processes  BY DEF Processes
  <1>0. ASSUME NEW p \in Processes, Others(p), LocalOK(p)' PROVE LocalInv'
    <2>1. ASSUME NEW q \in Processes \ {p} PROVE LocalOK(q)'
      BY <1>0, <2>1 DEF Others, LocalInv, LocalOK
    <2> QED  BY <1>0, <2>1 DEF LocalInv
  <1>1. ASSUME NEW p \in Processes, pc'[p] \in {"idle"} PROVE LocalOK(p)'
    BY <1>1 DEF LocalOK, Undoing
  <1>2. ASSUME NEW p \in Processes, pc'[p] = "undo", mem'[p] \in Checkpoint,
               todo'[p] = Proven(mem'[p].phase)
        PROVE  LocalOK(p)'
    <2>1. mem'[p].phase \in Phases  BY <1>2 DEF Checkpoint
    <2>2. todo'[p] \in Todos /\ Left(todo'[p]) = Rewritten(mem'[p].phase)
      BY <1>2, <2>1, ProvenFacts
    <2>3. Left(todo[p])' = Left(todo'[p]) /\ Rewritten(mem[p].phase)' = Rewritten(mem'[p].phase)
      BY DEF Left, Rewritten
    <2> QED  BY <1>2, <2>2, <2>3 DEF LocalOK, Undoing
  <1>3. ASSUME NEW h \in Handlers, HandlerStep(h) PROVE LocalInv'
    <2>0. h \in Processes /\ Others(h) /\ LocalOK(h) /\ mem[h] \in Checkpoint
      BY <1>3, <1>h
      DEF HandlerStep, Prepares, Opens, Quits, RollsBack, Marks, Sends, Applies, Records, Commits,
          Quiet, LocalInv, TypeOK
    <2>1. CASE Prepares(h)
      <3>1. LocalOK(h)'  BY <2>1 DEF Prepares, LocalOK, Undoing, Policies
      <3> QED  BY <1>0, <2>0, <3>1
    <2>2. CASE Opens(h)
      <3>1. LocalOK(h)'  BY <2>0, <2>2 DEF Opens, LocalOK, Undoing
      <3> QED  BY <1>0, <2>0, <3>1
    <2>3. CASE Quits(h) \/ Commits(h)
      BY <1>0, <1>1, <2>0, <2>3 DEF Quits, Commits, Leaves
    <2>4. CASE RollsBack(h)
      BY <1>0, <1>2, <2>0, <2>4 DEF RollsBack
    <2>5. CASE Marks(h)
      <3>1. mem'[h].phase \in Sending  BY <2>0, <2>5, PhaseTable DEF Marks, LocalOK
      <3>2. LocalOK(h)'  BY <2>5, <3>1 DEF Marks, LocalOK, Undoing
      <3> QED  BY <1>0, <2>0, <3>2
    <2>6. CASE Sends(h)
      <3>1. LocalOK(h)'  BY <2>0, <2>6 DEF Sends, LocalOK, Undoing
      <3> QED  BY <1>0, <2>0, <3>1
    <2>7. CASE Applies(h)
      <3>1. mem'[h].phase \in {"application_applied", "gateway_applied"}
        BY <2>0, <2>7, PhaseTable DEF Applies, LocalOK
      <3>2. LocalOK(h)'  BY <2>7, <3>1 DEF Applies, LocalOK, Undoing
      <3> QED  BY <1>0, <2>0, <3>2
    <2>8. CASE Records(h)
      <3>1. LocalOK(h)'  BY <2>0, <2>8 DEF Records, LocalOK, Undoing
      <3> QED  BY <1>0, <2>0, <3>1
    <2> QED
      BY <1>3, <2>1, <2>2, <2>3, <2>4, <2>5, <2>6, <2>7, <2>8 DEF HandlerStep
  <1>4. ASSUME NEW p \in Processes, UndoStep(p) PROVE LocalInv'
    <2>0. Others(p) /\ LocalOK(p)
      BY <1>4 DEF UndoStep, Reads, Undoes, Hears, Quits, Closes, Quiet, LocalInv
    <2>1. CASE Quits(p) \/ Closes(p)
      BY <1>0, <1>1, <2>0, <2>1 DEF Quits, Closes, Leaves
    <2>2. CASE Reads(p) \/ Undoes(p)
      <3>1. /\ todo'[p] = todo[p] /\ mem'[p] = mem[p] /\ todo[p] # <<>> /\ todo[p] \in Todos
            /\ Left(todo[p]) \subseteq Rewritten(mem[p].phase) /\ pc'[p] \in {"restore", "undoing"}
        BY <2>0, <2>2 DEF Reads, Undoes, LocalOK, Undoing
      <3>2. Left(todo[p])' = Left(todo'[p]) /\ Rewritten(mem[p].phase)' = Rewritten(mem'[p].phase)
        BY DEF Left, Rewritten
      <3>3. LocalOK(p)'  BY <3>1, <3>2 DEF LocalOK, Undoing
      <3> QED  BY <1>0, <2>0, <3>3
    <2>3. CASE Hears(p)
      <3>1. todo[p] \in Todos /\ todo[p] # <<>> /\ Left(todo[p]) \subseteq Rewritten(mem[p].phase)
        BY <2>0, <2>3 DEF Hears, LocalOK, Undoing
      <3>2. todo'[p] \in Todos /\ Left(todo'[p]) \subseteq Left(todo[p])
        BY <2>3, <3>1, TodoFacts DEF Hears
      <3>3. Left(todo[p])' = Left(todo'[p]) /\ Rewritten(mem[p].phase)' = Rewritten(mem'[p].phase)
        BY DEF Left, Rewritten
      <3>4. LocalOK(p)'  BY <2>3, <3>1, <3>2, <3>3 DEF Hears, LocalOK, Undoing
      <3> QED  BY <1>0, <2>0, <3>4
    <2> QED  BY <1>4, <2>1, <2>2, <2>3 DEF UndoStep
  <1>5. CASE Wakes
    <2>1. CASE UNCHANGED <<pc, mem, todo, got>>  BY <2>1 DEF LocalInv, LocalOK
    <2>2. CASE /\ Others(Reconciler) /\ pc'[Reconciler] = "undo" /\ mem'[Reconciler] = checkpoint
               /\ todo'[Reconciler] = Proven(checkpoint.phase)
      BY <1>0, <1>2, <1>h, <2>2 DEF TypeOK
    <2> QED  BY <1>5, <2>1, <2>2 DEF Wakes
  <1>6. CASE Forgets
    <2>1. CASE UNCHANGED <<pc, mem, todo, got>>  BY <2>1 DEF LocalInv, LocalOK
    <2>2. CASE \A p \in Processes : pc'[p] = "idle"  BY <1>1, <2>2 DEF LocalInv
    <2> QED  BY <1>6, <2>1, <2>2 DEF Forgets
  <1>7. CASE (\E w \in flight : Arrives(w)) \/ Edits \/ Stutters
    <2>1. UNCHANGED <<pc, mem, todo, got>>  BY <1>7 DEF Arrives, Edits, Stutters
    <2> QED  BY <2>1 DEF LocalInv, LocalOK
  <1> QED  BY <1>3, <1>4, <1>5, <1>6, <1>7 DEF Shape

TypeInv == TypeOK /\ LocalInv

LEMMA TypeInvariant == Spec => []TypeInv
  <1>1. Init => TypeInv  BY TypeInit DEF TypeInv
  <1>2. TypeInv /\ [Next]_vars => TypeInv'
    BY TypeStep, ShapeOfStep, LocalStep DEF TypeInv
  <1> QED  BY <1>1, <1>2, PTL DEF Spec

\* The record, the policies, the requests under way and every copy of a
\* checkpoint stay well-formed; in particular no step takes a phase to the next
\* one from where there is none, and none takes the head of an empty list.
THEOREM TypeCorrect == Spec => []TypeOK
  BY TypeInvariant, PTL DEF TypeInv

----------------------------------------------------------------------------
(* One process at a time works under the checkpoint, with its own copy of it. *)

Covered(p) ==
    /\ checkpoint.id # 0 /\ checkpoint.id = mem[p].id
    /\ checkpoint.principals = mem[p].principals
    /\ checkpoint.before = mem[p].before /\ checkpoint.after = mem[p].after
    /\ pc[p] \in {"mark", "post", "wait", "commit"} => checkpoint.phase = mem[p].phase
    /\ pc[p] = "record" => checkpoint.phase \in Sending
    /\ pc[p] \in Undoing => checkpoint.phase = mem[p].phase \/ checkpoint.phase \in Sending

CoverInv ==
    /\ \A p \in Processes : Begun(p) => Covered(p)
    /\ \A p, q \in Processes : Begun(p) /\ Begun(q) => p = q
    /\ \A h \in Handlers : pc[h] # "idle" => mem[h].id # 0
    /\ pc[Reconciler] \in {"idle"} \union Undoing
    /\ pc[Reconciler] # "idle" => ~cold

LEMMA CoverInit == Init => CoverInv
  BY DEF Init, CoverInv, Begun, Saga, Undoing, Processes

LEMMA CoverStep ==
    ASSUME ~crossed', TypeInv, CoverInv, Shape
    PROVE  CoverInv'
  <1>h. Handlers \subseteq Processes /\ Reconciler \in Processes /\ Reconciler \notin Handlers
    BY ReconcilerAssumption DEF Processes, ReconcilerAssumption
  <1>a. \A q \in Processes : /\ Begun(q)' <=> pc'[q] \in Saga \union Undoing
                             /\ Begun(q) <=> pc[q] \in Saga \union Undoing
    BY DEF Begun
  \* A step of p, under a checkpoint that others do not use.
  <1>0. ASSUME NEW p \in Processes, Others(p),
               UNCHANGED checkpoint \/ Begun(p) \/ checkpoint.id = 0,
               Begun(p)' => Covered(p)' /\ (Begun(p) \/ \A q \in Processes : ~Begun(q))
        PROVE  /\ \A q \in Processes : Begun(q)' => Covered(q)'
               /\ \A q, r \in Processes : Begun(q)' /\ Begun(r)' => q = r
    <2>1. ASSUME NEW q \in Processes \ {p} PROVE Begun(q)' => Begun(q) /\ Covered(q)'
      <3>1. /\ pc'[q] = pc[q] /\ mem'[q] = mem[q]  BY <1>0 DEF Others
      <3>2. Begun(q)' => Begun(q)  BY <1>a, <3>1
      <3>3. Begun(q) => Covered(q) /\ ~Begun(p)  BY DEF CoverInv
      <3>4. Begun(q) => UNCHANGED checkpoint  BY <1>0, <3>3 DEF Covered
      <3> QED  BY <3>1, <3>2, <3>3, <3>4 DEF Covered
    <2>2. \A q, r \in Processes : Begun(q) /\ Begun(r) => q = r  BY DEF CoverInv
    <2> QED  BY <1>0, <2>1, <2>2
  <1>1. ASSUME NEW h \in Handlers, HandlerStep(h)
        PROVE  /\ cold' = cold
               /\ \A g \in Handlers : pc'[g] # "idle" => mem'[g].id # 0
               /\ pc'[Reconciler] = pc[Reconciler]
    <2>0. h # Reconciler /\ cold \in BOOLEAN  BY <1>h DEF TypeInv, TypeOK
    <2>1. Others(h) /\ cold' = cold
      <3>1. CASE Quits(h) \/ Commits(h)
        <4>1. Others(h) /\ cold' = (cold \/ h = Reconciler)
          BY <3>1 DEF Quits, Commits, Quiet, Leaves
        <4> QED  BY <2>0, <4>1
      <3> QED
        BY <1>1, <3>1
        DEF HandlerStep, Prepares, Opens, RollsBack, Marks, Sends, Applies, Records, Quiet
    <2>2. pc'[h] # "idle" => mem'[h].id # 0
      BY <1>1
      DEF HandlerStep, Prepares, Opens, Quits, RollsBack, Marks, Sends, Applies, Records, Commits,
          CoverInv, SameCopy, SameBut, Leaves, Policies
    <2>3. \A g \in Handlers \ {h} : pc'[g] = pc[g] /\ mem'[g] = mem[g]
      BY <1>h, <2>1 DEF Others
    <2> QED  BY <1>h, <2>1, <2>2, <2>3 DEF CoverInv, Others
  <1>2. ASSUME NEW h \in Handlers, HandlerStep(h) PROVE CoverInv'
    <2>0. h \in Processes /\ Others(h) /\ (Begun(h) => Covered(h)) /\ mem[h] \in Checkpoint
          /\ checkpoint \in Checkpoint /\ LocalOK(h)
      BY <1>2, <1>h
      DEF HandlerStep, Prepares, Opens, Quits, RollsBack, Marks, Sends, Applies, Records, Commits,
          Quiet, CoverInv, TypeInv, TypeOK, LocalInv
    <2>1. /\ UNCHANGED checkpoint \/ Begun(h) \/ checkpoint.id = 0
          /\ Begun(h)' => Covered(h)' /\ (Begun(h) \/ \A q \in Processes : ~Begun(q))
      <3>1. CASE Prepares(h)  BY <1>a, <2>0, <3>1 DEF Prepares, Saga, Undoing, Policies
      <3>2. CASE Opens(h)
        <4>1. \A q \in Processes : ~Begun(q)  BY <3>2 DEF Opens, CoverInv, Covered
        <4>2. mem[h].id # 0  BY <3>2 DEF Opens, CoverInv
        <4>3. Covered(h)'  BY <3>2, <4>2 DEF Opens, Covered, Undoing
        <4> QED  BY <3>2, <4>1, <4>3 DEF Opens
      <3>3. CASE Quits(h) \/ Commits(h)
        BY <1>a, <2>0, <3>3 DEF Quits, Commits, Leaves, Saga, Undoing
      <3>4. CASE RollsBack(h)
        <4>1. Begun(h)  BY <3>4 DEF RollsBack, Begun, Saga
        <4>2. Covered(h)'  BY <2>0, <3>4, <4>1 DEF RollsBack, Covered, Undoing
        <4> QED  BY <3>4, <4>1, <4>2 DEF RollsBack
      <3>5. CASE Marks(h)
        <4>1. Begun(h)  BY <3>5 DEF Marks, Begun, Saga
        <4>2. Covered(h)'  BY <2>0, <3>5, <4>1 DEF Marks, SameBut, Covered, Undoing
        <4> QED  BY <4>1, <4>2
      <3>6. CASE Sends(h)
        <4>1. Begun(h)  BY <3>6 DEF Sends, Begun, Saga
        <4>2. Covered(h)'  BY <2>0, <3>6, <4>1 DEF Sends, Covered, Undoing
        <4> QED  BY <3>6, <4>1, <4>2 DEF Sends
      <3>7. CASE Applies(h)
        <4>1. Begun(h)  BY <3>7 DEF Applies, Begun, Saga
        <4>2. checkpoint.phase \in Sending  BY <2>0, <3>7, <4>1 DEF Applies, Covered, LocalOK
        <4>3. Covered(h)'  BY <2>0, <3>7, <4>1, <4>2 DEF Applies, SameBut, Covered, Undoing
        <4> QED  BY <3>7, <4>1, <4>3 DEF Applies
      <3>8. CASE Records(h)
        <4>1. Begun(h)  BY <3>8 DEF Records, Begun, Saga
        <4>2. Covered(h)'  BY <2>0, <3>8, <4>1 DEF Records, SameBut, Covered, Undoing
        <4> QED  BY <4>1, <4>2
      <3> QED
        BY <1>2, <3>1, <3>2, <3>3, <3>4, <3>5, <3>6, <3>7, <3>8 DEF HandlerStep
    <2>2. /\ \A q \in Processes : Begun(q)' => Covered(q)'
          /\ \A q, r \in Processes : Begun(q)' /\ Begun(r)' => q = r
      BY <1>0, <2>0, <2>1
    <2> QED  BY <1>1, <1>2, <2>2 DEF CoverInv
  <1>3. ASSUME NEW p \in Processes, UndoStep(p), ~(\E h \in Handlers : HandlerStep(h)) PROVE CoverInv'
    <2>0. Others(p) /\ (Begun(p) => Covered(p)) /\ Begun(p)
      BY <1>3
      DEF UndoStep, Reads, Undoes, Hears, Quits, Closes, Quiet, CoverInv, Begun, Saga, Undoing, HandlerStep, Processes
    <2>1. Begun(p)' => Covered(p)'
      <3>1. CASE Reads(p) \/ Undoes(p) \/ Hears(p)
        <4>1. UNCHANGED checkpoint /\ mem'[p] = mem[p] /\ pc[p] \in Undoing /\ pc'[p] \in Undoing
          BY <3>1 DEF Reads, Undoes, Hears, Undoing
        <4> QED  BY <2>0, <4>1 DEF Covered, Undoing
      <3>2. CASE Quits(p) \/ Closes(p)
        BY <1>a, <3>2 DEF Quits, Closes, Leaves, Saga, Undoing
      <3> QED  BY <1>3, <3>1, <3>2 DEF UndoStep
    <2>2. /\ \A q \in Processes : Begun(q)' => Covered(q)'
          /\ \A q, r \in Processes : Begun(q)' /\ Begun(r)' => q = r
      BY <1>0, <2>0, <2>1
    <2>3. /\ cold' = cold \/ (p = Reconciler /\ pc'[p] = "idle" /\ cold')
          /\ pc'[p] \in {"idle"} \union Undoing /\ pc[p] # "idle"
          /\ pc'[p] # "idle" => mem'[p] = mem[p]
      <3>1. cold \in BOOLEAN  BY DEF TypeInv, TypeOK
      <3>2. CASE Quits(p) \/ Closes(p)
        <4>1. cold' = (cold \/ p = Reconciler) /\ pc'[p] = "idle"
          BY <3>2 DEF Quits, Closes, Leaves
        <4> QED  BY <2>0, <3>1, <4>1 DEF Begun, Saga, Undoing
      <3>3. CASE Reads(p) \/ Undoes(p) \/ Hears(p)
        BY <3>3 DEF Reads, Undoes, Hears, Undoing
      <3> QED  BY <1>3, <3>2, <3>3 DEF UndoStep
    <2>4. \A q \in Processes \ {p} : pc'[q] = pc[q] /\ mem'[q] = mem[q]  BY <2>0 DEF Others
    <2> QED  BY <1>h, <2>2, <2>3, <2>4 DEF CoverInv
  <1>4. CASE Wakes
    <2>1. CASE UNCHANGED <<pc, mem>> /\ cold' = TRUE
      <3>1. UNCHANGED checkpoint /\ pc[Reconciler] = "idle"  BY <1>4 DEF Wakes
      <3> QED  BY <2>1, <3>1 DEF CoverInv, Begun, Covered
    <2>2. CASE /\ Others(Reconciler) /\ checkpoint.id # 0 /\ cold' = cold
               /\ pc'[Reconciler] = "undo" /\ mem'[Reconciler] = checkpoint
      <3>1. UNCHANGED checkpoint /\ pc[Reconciler] = "idle" /\ ~cold  BY <1>4 DEF Wakes
      <3>2. \A q \in Processes : ~Begun(q)
        <4>1. \A h \in Handlers : ~HasBegun(h)  BY <1>4, <2>2, <1>h, <3>1 DEF Wakes
        <4>2. \A h \in Handlers : ~Begun(h)
          BY <4>1 DEF CoverInv, Begun, Covered, HasBegun, Processes, Saga, Undoing
        <4> QED  BY <3>1, <4>2 DEF Begun, Processes, Saga, Undoing
      <3>3. Covered(Reconciler)'  BY <2>2, <3>1 DEF Covered
      <3>4. /\ \A q \in Processes : Begun(q)' => Covered(q)'
            /\ \A q, r \in Processes : Begun(q)' /\ Begun(r)' => q = r
        BY <1>0, <1>h, <2>2, <3>1, <3>2, <3>3
      <3>5. \A h \in Handlers : pc'[h] = pc[h] /\ mem'[h] = mem[h]
        BY <1>h, <2>2 DEF Others
      <3> QED  BY <2>2, <3>1, <3>4, <3>5 DEF CoverInv, Undoing
    <2> QED  BY <1>4, <2>1, <2>2 DEF Wakes
  <1>5. CASE Forgets
    <2>1. CASE \A p \in Processes : pc'[p] = "idle"
      BY <1>5, <1>h, <2>1 DEF Forgets, CoverInv, Begun, Saga, Undoing
    <2>2. CASE cold /\ UNCHANGED <<pc, mem>>
      BY <1>5, <1>h, <2>2 DEF Forgets, CoverInv, Begun, Covered
    <2> QED  BY <1>5, <2>1, <2>2 DEF Forgets
  <1>6. CASE (\E w \in flight : Arrives(w)) \/ Edits \/ Stutters
    <2>1. UNCHANGED <<pc, mem, cold, checkpoint>>  BY <1>6 DEF Arrives, Edits, Stutters
    <2> QED  BY <2>1 DEF CoverInv, Begun, Covered
  <1> QED  BY <1>2, <1>3, <1>4, <1>5, <1>6 DEF Shape

\* What a reconciliation has crossed stays crossed.
LEMMA CrossedStays == crossed /\ [Next]_vars => crossed'
  <1> SUFFICES ASSUME crossed, [Next]_vars PROVE crossed'
    OBVIOUS
  <1>1. CASE UNCHANGED crossed  BY <1>1
  <1>2. CASE ColdStart  BY <1>2 DEF ColdStart
  <1>3. ASSUME NEW h \in Handlers, Handle(h) \/ PostAgain(h) PROVE UNCHANGED crossed
    BY <1>3
    DEF Handle, PostAgain, ReadInventory, ReadPolicy, Begin, Mark, Post, PostApplied, PostRejected,
        PostLost, Record, Commit, history
  <1>4. ASSUME NEW p \in Processes, Undo(p) PROVE UNCHANGED crossed
    BY <1>4 DEF Undo, UndoRead, UndoPost, UndoAnswered, UndoFails, UndoAbort, history
  <1>5. CASE \/ \E h \in Handlers, requested \in SUBSET (Members \ Initial) : Request(h, requested)
             \/ RestoreDeployer \/ Crash \/ IdleKill \/ UNCHANGED vars
             \/ \E w \in flight : Land(w) \/ Refuse(w)
             \/ \E x \in Policies, m \in Members : ForeignEdit(x, m)
    BY <1>5
    DEF Request, RestoreDeployer, Crash, IdleKill, Die, Land, Refuse, ForeignEdit, history, vars
  <1> QED  BY <1>1, <1>2, <1>3, <1>4, <1>5 DEF Next

\* A policy is written only under the checkpoint that covers the write: no
\* handler, compensation or reconciliation sends a request for an update that
\* the record no longer holds open, also when a restored deployer has another
\* reconciliation begin; until one takes up the checkpoint of a live update.
THEOREM WritesAreCovered == Spec => []WritesUnderCheckpoint
  <1> DEFINE Inv == crossed \/ CoverInv
  <1>1. Init => Inv  BY CoverInit
  <1>2. TypeInv /\ Inv /\ [Next]_vars => Inv'
    BY ShapeOfStep, CoverStep, CrossedStays DEF TypeInv
  <1>3. Inv => WritesUnderCheckpoint
    BY DEF CoverInv, WritesUnderCheckpoint, Begun, Covered, Saga, Undoing
  <1> QED  BY <1>1, <1>2, <1>3, TypeInvariant, PTL DEF Spec

----------------------------------------------------------------------------
(* What was read is what the policy still is, until its etag moves; and what *)
(* is under way is what its sender waits for.                                *)

UpToDate(r, x) == r.etag <= pol[x].etag /\ (r.etag = pol[x].etag => r = pol[x])

ReadOK(h, x) ==
    /\ UpToDate(mem[h].before[x], x)
    /\ mem[h].after[x] = replaceOwned(mem[h].before[x].members, mem[h].previous, mem[h].principals)

ReadInv ==
    /\ \A h \in Handlers :
          /\ pc[h] \in {"application", "begin"} \union Saga => ReadOK(h, "gateway")
          /\ pc[h] \in {"begin"} \union Saga => ReadOK(h, "application")
    /\ \A p \in Processes : pc[p] = "restore" => UpToDate(got[p], Head(todo[p]))

Awaited(w) ==
    LET p == w.from IN
    /\ p \in Processes /\ answer[p] = "none"
    /\ \/ /\ pc[p] = "wait" /\ w.policy = Current(mem[p].phase)
          /\ w.members = mem[p].after[w.policy] /\ w.etag = mem[p].before[w.policy].etag
       \/ pc[p] = "undoing" /\ w.policy = Head(todo[p])

FlightInv ==
    /\ \A w \in flight : w.etag <= pol[w.policy].etag /\ (w.from # "gone" => Awaited(w))
    /\ \A v, w \in flight : v.from = w.from /\ v.from # "gone" => v = w

\* A policy that changes has another etag.
LEMMA PolicyMoves ==
    ASSUME TypeOK, Shape, NEW x \in Policies
    PROVE  pol[x].etag \in Nat /\ pol'[x].etag \in Nat
           /\ (pol'[x] = pol[x] \/ pol'[x].etag > pol[x].etag)
  <1>1. pol[x].etag \in Nat  BY DEF TypeOK, Policy
  <1>2. CASE UNCHANGED pol  BY <1>1, <1>2
  <1>3. ASSUME NEW w \in flight, Arrives(w) PROVE pol'[x] = pol[x] \/ pol'[x].etag = pol[x].etag + 1
    BY <1>3 DEF Arrives
  <1>4. CASE Edits  BY <1>1, <1>4 DEF Edits
  <1>5. UNCHANGED pol \/ (\E w \in flight : Arrives(w)) \/ Edits
    BY DEF Shape, HandlerStep, UndoStep, Prepares, Opens, Quits, RollsBack, Marks, Sends, Applies,
           Records, Commits, Reads, Undoes, Hears, Closes, Wakes, Forgets, Stutters, Quiet
  <1> QED  BY <1>1, <1>2, <1>3, <1>4, <1>5

LEMMA ReadInit == Init => ReadInv /\ FlightInv
  BY DEF Init, ReadInv, FlightInv, Saga, Processes

LEMMA ReadStep ==
    ASSUME TypeOK, LocalInv, ReadInv, Shape
    PROVE  ReadInv'
  <1>h. Handlers \subseteq Processes /\ "gateway" \in Policies /\ "application" \in Policies
    BY DEF Processes, Policies
  <1>a. ASSUME NEW x \in Policies, NEW r \in Policy, UpToDate(r, x)
        PROVE  /\ r.etag <= pol'[x].etag
               /\ r.etag = pol'[x].etag => r = pol'[x]
    <2>1. r.etag \in Nat  BY DEF Policy
    <2> QED  BY <1>a, <2>1, PolicyMoves DEF UpToDate
  <1>m. \A p \in Processes : /\ mem[p] \in Checkpoint /\ got[p] \in Policy
                             /\ \A x \in Policies : mem[p].before[x] \in Policy
    BY DEF TypeOK, Checkpoint
  <1>0. ASSUME NEW h \in Handlers, NEW x \in Policies, ReadOK(h, x),
               mem'[h].before[x] = mem[h].before[x], mem'[h].after[x] = mem[h].after[x],
               SameCopy(h)
        PROVE  ReadOK(h, x)'
    BY <1>0, <1>a, <1>h, <1>m DEF ReadOK, UpToDate, SameCopy, replaceOwned
  \* The reads of a handler.
  <1>1. ASSUME NEW h \in Handlers
        PROVE  /\ pc'[h] \in {"application", "begin"} \union Saga => ReadOK(h, "gateway")'
               /\ pc'[h] \in {"begin"} \union Saga => ReadOK(h, "application")'
    <2>1. CASE /\ pc'[h] \in {"idle", "inventory", "gateway"} \union Undoing
      BY <2>1 DEF Saga, Undoing
    <2>2. CASE pc'[h] = pc[h] /\ mem'[h] = mem[h]
      BY <1>0, <1>h, <2>2 DEF ReadInv, SameCopy
    <2>3. CASE /\ pc[h] \in Saga \union {"begin"} /\ SameBut(mem'[h], mem[h])
      BY <1>0, <1>h, <2>3 DEF ReadInv, SameBut, SameCopy
    <2>4. ASSUME NEW x \in Policies, pc[h] = x,
                 pc'[h] = IF x = "gateway" THEN "application" ELSE "begin", SameCopy(h),
                 pol' = pol,
                 mem'[h].before[x] = pol[x],
                 mem'[h].after[x] = replaceOwned(pol[x].members, mem[h].previous, mem[h].principals),
                 \A y \in Policies \ {x} : /\ mem'[h].before[y] = mem[h].before[y]
                                           /\ mem'[h].after[y] = mem[h].after[y]
          PROVE  /\ pc'[h] \in {"application", "begin"} \union Saga => ReadOK(h, "gateway")'
                 /\ pc'[h] \in {"begin"} \union Saga => ReadOK(h, "application")'
      <3>1. ReadOK(h, x)'
        <4>1. pol[x].etag \in Nat  BY DEF TypeOK, Policy
        <4> QED  BY <2>4, <4>1 DEF ReadOK, UpToDate, SameCopy, replaceOwned
      <3>2. CASE x = "gateway"  BY <2>4, <3>1, <3>2 DEF Saga
      <3>3. CASE x = "application"
        <4>1. ReadOK(h, "gateway")  BY <2>4, <3>3 DEF ReadInv
        <4>2. ReadOK(h, "gateway")'  BY <1>0, <1>h, <2>4, <3>3, <4>1
        <4> QED  BY <3>1, <3>3, <4>2
      <3> QED  BY <3>2, <3>3 DEF Policies
    <2>5. CASE HandlerStep(h)
      <3>1. CASE Prepares(h)  BY <2>1, <2>4, <3>1 DEF Prepares, Quiet
      <3>2. CASE Opens(h) \/ Marks(h) \/ Sends(h) \/ Applies(h) \/ Records(h)
        BY <2>3, <3>2 DEF Opens, Marks, Sends, Applies, Records, SameBut, Saga
      <3>3. CASE Quits(h) \/ Commits(h) \/ RollsBack(h)
        BY <2>1, <3>3 DEF Quits, Commits, RollsBack, Leaves, Undoing
      <3> QED  BY <2>5, <3>1, <3>2, <3>3 DEF HandlerStep
    <2>6. CASE UndoStep(h)
      BY <2>1, <2>6 DEF UndoStep, Reads, Undoes, Hears, Quits, Closes, Leaves, Undoing
    <2>7. ASSUME NEW p \in Processes \ {h}, HandlerStep(p) \/ UndoStep(p)
          PROVE  pc'[h] = pc[h] /\ mem'[h] = mem[h]
      <3>1. Others(p)
        BY <2>7
        DEF HandlerStep, UndoStep, Prepares, Opens, Quits, RollsBack, Marks, Sends, Applies,
            Records, Commits, Reads, Undoes, Hears, Closes, Quiet
      <3> QED  BY <1>h, <2>7, <3>1 DEF Others
    <2>8. CASE Wakes
      <3>1. h # Reconciler  BY ReconcilerAssumption DEF ReconcilerAssumption
      <3>2. pc'[h] = pc[h] /\ mem'[h] = mem[h]  BY <1>h, <2>8, <3>1 DEF Wakes, Others
      <3> QED  BY <2>2, <3>2
    <2>9. CASE Forgets
      BY <1>h, <2>1, <2>2, <2>9 DEF Forgets
    <2>10. CASE (\E w \in flight : Arrives(w)) \/ Edits \/ Stutters
      BY <2>2, <2>10 DEF Arrives, Edits, Stutters
    <2> QED
      BY <1>h, <2>2, <2>5, <2>6, <2>7, <2>8, <2>9, <2>10 DEF Shape
  \* The read of a compensation.
  <1>2. ASSUME NEW p \in Processes, pc'[p] = "restore" PROVE UpToDate(got[p], Head(todo[p]))'
    <2>1. ASSUME pc[p] = "restore", todo'[p] = todo[p], got'[p] = got[p]
          PROVE  UpToDate(got[p], Head(todo[p]))'
      <3>1. todo[p] \in Todos /\ todo[p] # <<>>  BY <2>1 DEF LocalInv, LocalOK, Undoing
      <3>2. Head(todo[p]) \in Policies  BY <3>1, TodoFacts
      <3>3. UpToDate(got[p], Head(todo[p]))  BY <2>1 DEF ReadInv
      <3> QED  BY <1>a, <1>m, <2>1, <3>2, <3>3 DEF UpToDate
    <2>2. CASE Reads(p)
      <3>1. todo[p] \in Todos /\ todo[p] # <<>>  BY <2>2 DEF Reads, LocalInv, LocalOK, Undoing
      <3>2. Head(todo[p]) \in Policies  BY <3>1, TodoFacts
      <3>3. pol[Head(todo[p])].etag \in Nat  BY <3>2 DEF TypeOK, Policy
      <3>4. pol' = pol /\ todo'[p] = todo[p] /\ got'[p] = pol[Head(todo[p])]
        BY <2>2 DEF Reads, Quiet
      <3> QED  BY <3>3, <3>4 DEF UpToDate
    <2>3. ASSUME NEW q \in Processes, HandlerStep(q) \/ UndoStep(q), ~Reads(p)
          PROVE  pc[p] = "restore" /\ todo'[p] = todo[p] /\ got'[p] = got[p]
      <3>1. q # p
        BY <1>2, <2>3
        DEF HandlerStep, UndoStep, Prepares, Opens, Quits, RollsBack, Marks, Sends, Applies,
            Records, Commits, Undoes, Hears, Closes, Leaves, Policies
      <3>2. Others(q)
        BY <2>3
        DEF HandlerStep, UndoStep, Prepares, Opens, Quits, RollsBack, Marks, Sends, Applies,
            Records, Commits, Reads, Undoes, Hears, Closes, Quiet
      <3> QED  BY <1>2, <3>1, <3>2 DEF Others
    <2>4. CASE Wakes \/ Forgets \/ (\E w \in flight : Arrives(w)) \/ Edits \/ Stutters
      <3>1. pc[p] = "restore" /\ todo'[p] = todo[p] /\ got'[p] = got[p]
        BY <1>2, <2>4 DEF Wakes, Forgets, Arrives, Edits, Stutters, Others
      <3> QED  BY <2>1, <3>1
    <2> QED  BY <1>h, <2>1, <2>2, <2>3, <2>4 DEF Shape
  <1> QED  BY <1>1, <1>2 DEF ReadInv

\* A request keeps all but its sender when that is gone.
LEMMA AbandonedFacts ==
    ASSUME TypeOK, NEW p \in Processes
    PROVE  \A v \in Abandoned(p) : \E w \in flight :
              /\ v.policy = w.policy /\ v.members = w.members /\ v.etag = w.etag
              /\ v.from = IF w.from = p THEN "gone" ELSE w.from
              /\ v.from # "gone" => v = w
  <1>1. SUFFICES ASSUME NEW w \in flight, NEW v, v = [w EXCEPT !.from = IF @ = p THEN "gone" ELSE @]
                 PROVE  /\ v.policy = w.policy /\ v.members = w.members /\ v.etag = w.etag
                        /\ v.from = IF w.from = p THEN "gone" ELSE w.from
                        /\ v.from # "gone" => v = w
    BY DEF Abandoned
  <1>2. w \in Write  BY DEF TypeOK
  <1> QED  BY <1>1, <1>2 DEF Write

LEMMA FlightStep ==
    ASSUME TypeOK, LocalInv, ReadInv, FlightInv, Shape
    PROVE  FlightInv'
  <1>h. Handlers \subseteq Processes /\ Reconciler \in Processes /\ "gone" \notin Processes
    BY ReconcilerAssumption DEF Processes, ReconcilerAssumption
  <1>w. \A w \in flight : w \in Write /\ w.policy \in Policies /\ w.etag \in Nat
    BY DEF TypeOK, Write
  <1>e. \A w \in flight : w.etag <= pol'[w.policy].etag
    <2>1. TAKE w \in flight
    <2>2. w.etag <= pol[w.policy].etag /\ w.policy \in Policies /\ w.etag \in Nat
      BY <1>w DEF FlightInv
    <2>3. /\ pol[w.policy].etag \in Nat /\ pol'[w.policy].etag \in Nat
          /\ pol'[w.policy] = pol[w.policy] \/ pol'[w.policy].etag > pol[w.policy].etag
      BY <2>2, PolicyMoves
    <2> QED  BY <2>2, <2>3
  \* Nobody but the sender can end the wait.
  <1>k. ASSUME NEW w \in flight, w.from # "gone", w.from \in Processes,
               pc'[w.from] = pc[w.from], mem'[w.from] = mem[w.from], todo'[w.from] = todo[w.from],
               answer'[w.from] = answer[w.from]
        PROVE  Awaited(w)'
    BY <1>k DEF FlightInv, Awaited
  <1>0. ASSUME NEW p \in Processes, Others(p), \A w \in flight' : w \in flight,
               \A w \in flight : w.from # p
        PROVE  FlightInv'
    BY <1>0, <1>e, <1>h, <1>k DEF FlightInv, Others, Awaited
  <1>q. ASSUME NEW p \in Processes, pc[p] \notin {"wait", "undoing"} \/ answer[p] # "none"
        PROVE  \A w \in flight : w.from # p
    BY <1>h, <1>q DEF FlightInv, Awaited
  \* The sender has given up.
  <1>1. ASSUME NEW p \in Processes, Others(p), flight' = Abandoned(p) PROVE FlightInv'
    <2>1. ASSUME NEW v \in flight' PROVE v.etag <= pol'[v.policy].etag
      BY <1>1, <1>e, AbandonedFacts
    <2>2. ASSUME NEW v \in flight', v.from # "gone" PROVE v \in flight /\ v.from # p
      BY <1>1, <1>h, <2>2, AbandonedFacts
    <2>3. ASSUME NEW v \in flight', v.from # "gone" PROVE Awaited(v)'
      <3>1. v \in flight /\ v.from # p /\ v.from \in Processes
        BY <2>2, <2>3 DEF FlightInv, Awaited
      <3> QED  BY <1>1, <1>k, <2>3, <3>1 DEF Others
    <2> QED  BY <2>1, <2>2, <2>3 DEF FlightInv
  \* A new request.
  <1>2. ASSUME NEW p \in Processes, Others(p), NEW w \in Write, flight' = flight \union {w},
               w.from = p, \A v \in flight : v.from # p, w.etag <= pol'[w.policy].etag, Awaited(w)'
        PROVE  FlightInv'
    <2>1. ASSUME NEW v \in flight', v.from # "gone" PROVE Awaited(v)'
      <3>1. CASE v \in flight
        <4>1. v.from # p /\ v.from \in Processes  BY <1>2, <2>1, <3>1 DEF FlightInv, Awaited
        <4> QED  BY <1>2, <1>k, <2>1, <3>1, <4>1 DEF Others
      <3> QED  BY <1>2, <3>1
    <2>2. \A u, v \in flight' : u.from = v.from /\ u.from # "gone" => u = v
      BY <1>2 DEF FlightInv
    <2> QED  BY <1>2, <1>e, <2>1, <2>2 DEF FlightInv
  <1>3. ASSUME NEW h \in Handlers, HandlerStep(h) PROVE FlightInv'
    <2>1. CASE Quits(h)
      <3>1. CASE flight' = Abandoned(h)  BY <1>1, <1>h, <2>1, <3>1 DEF Quits, Quiet
      <3>2. CASE flight' = flight /\ pc[h] \notin {"wait", "undoing"}
        BY <1>0, <1>h, <1>q, <2>1, <3>2 DEF Quits, Quiet
      <3> QED  BY <2>1, <3>1, <3>2 DEF Quits, Saga
    <2>2. CASE Sends(h)
      <3>1. PICK w \in Write :
               /\ flight' = flight \union {w}
               /\ w.from = h /\ w.policy = Current(mem[h].phase)
               /\ w.members = mem[h].after[w.policy] /\ w.etag = mem[h].before[w.policy].etag
        BY <2>2 DEF Sends
      <3>2. w.policy \in Policies  BY DEF Write
      <3>3. w.etag <= pol[w.policy].etag
        <4>1. pc[h] \in Saga  BY <2>2 DEF Sends, Saga
        <4>2. ReadOK(h, w.policy)  BY <3>2, <4>1 DEF ReadInv, Policies
        <4> QED  BY <3>1, <4>2 DEF ReadOK, UpToDate
      <3>4. Awaited(w)'  BY <1>h, <2>2, <3>1 DEF Sends, Awaited
      <3>5. \A v \in flight : v.from # h  BY <1>h, <1>q, <2>2 DEF Sends
      <3>6. Others(h) /\ pol' = pol  BY <2>2 DEF Sends, Quiet
      <3> QED  BY <1>2, <1>h, <3>1, <3>3, <3>4, <3>5, <3>6
    <2>3. CASE ~Quits(h) /\ ~Sends(h)
      <3>1. /\ Others(h) /\ flight' = flight
            /\ pc[h] \notin {"wait", "undoing"} \/ answer[h] # "none"
        BY <1>3, <2>3
        DEF HandlerStep, Prepares, Opens, RollsBack, Marks, Applies, Records, Commits, Quiet, Policies
      <3> QED  BY <1>0, <1>h, <1>q, <3>1
    <2> QED  BY <2>1, <2>2, <2>3
  <1>4. ASSUME NEW p \in Processes, UndoStep(p), ~(\E h \in Handlers : HandlerStep(h))
        PROVE  FlightInv'
    <2>1. CASE Quits(p)
      <3>1. CASE flight' = Abandoned(p)  BY <1>1, <2>1, <3>1 DEF Quits, Quiet
      <3>2. CASE flight' = flight /\ pc[p] \notin {"wait", "undoing"}
        BY <1>0, <1>q, <2>1, <3>2 DEF Quits, Quiet
      <3> QED  BY <2>1, <3>1, <3>2 DEF Quits, Saga
    <2>2. CASE Undoes(p)
      <3>1. PICK w \in Write :
               /\ flight' = flight \union {w}
               /\ w.from = p /\ w.policy = Head(todo[p]) /\ w.etag = got[p].etag
        BY <2>2 DEF Undoes
      <3>2. w.etag <= pol[w.policy].etag  BY <2>2, <3>1 DEF Undoes, ReadInv, UpToDate
      <3>3. Awaited(w)'  BY <2>2, <3>1 DEF Undoes, Awaited
      <3>4. \A v \in flight : v.from # p  BY <1>q, <2>2 DEF Undoes
      <3>5. Others(p) /\ pol' = pol  BY <2>2 DEF Undoes, Quiet
      <3> QED  BY <1>2, <3>1, <3>2, <3>3, <3>4, <3>5
    <2>3. CASE Reads(p) \/ Hears(p) \/ Closes(p)
      <3>1. /\ Others(p) /\ flight' = flight
            /\ pc[p] \notin {"wait", "undoing"} \/ answer[p] # "none"
        BY <2>3 DEF Reads, Hears, Closes, Quiet
      <3> QED  BY <1>0, <1>q, <3>1
    <2> QED  BY <1>4, <2>1, <2>2, <2>3 DEF UndoStep
  <1>5. CASE Wakes
    <2>1. CASE UNCHANGED <<pc, mem, todo, got>>
      BY <1>5, <1>e, <2>1 DEF Wakes, FlightInv, Awaited
    <2>2. CASE Others(Reconciler)
      BY <1>0, <1>5, <1>h, <1>q, <2>2 DEF Wakes
    <2> QED  BY <1>5, <2>1, <2>2 DEF Wakes
  <1>6. CASE Forgets
    <2>1. CASE flight' = {[w EXCEPT !.from = "gone"] : w \in flight}
      <3>1. ASSUME NEW v \in flight' PROVE v.from = "gone" /\ v.etag <= pol'[v.policy].etag
        <4>1. PICK w \in flight : v = [w EXCEPT !.from = "gone"]  BY <2>1
        <4>2. v.from = "gone" /\ v.etag = w.etag /\ v.policy = w.policy  BY <1>w, <4>1 DEF Write
        <4> QED  BY <1>e, <4>2
      <3> QED  BY <3>1 DEF FlightInv
    <2>2. CASE UNCHANGED <<pc, mem, todo, got, answer, flight>>
      BY <1>e, <2>2 DEF FlightInv, Awaited
    <2> QED  BY <1>6, <2>1, <2>2 DEF Forgets
  <1>7. ASSUME NEW w \in flight, Arrives(w) PROVE FlightInv'
    <2>1. ASSUME NEW v \in flight', v.from # "gone" PROVE Awaited(v)'
      <3>1. v \in flight /\ v # w /\ v.from \in Processes  BY <1>7, <2>1 DEF Arrives, FlightInv, Awaited
      <3>2. v.from # w.from  BY <2>1, <3>1 DEF FlightInv
      <3>3. answer'[v.from] = answer[v.from]  BY <1>7, <3>1, <3>2 DEF Arrives
      <3> QED  BY <1>7, <1>k, <2>1, <3>1, <3>3 DEF Arrives
    <2> QED  BY <1>7, <1>e, <2>1 DEF Arrives, FlightInv
  <1>8. CASE Edits \/ Stutters
    BY <1>8, <1>e DEF Edits, Stutters, FlightInv, Awaited
  <1> QED  BY <1>3, <1>4, <1>5, <1>6, <1>7, <1>8 DEF Shape

----------------------------------------------------------------------------
(* What the policies grant meanwhile. A policy is untouched, written, or it  *)
(* can be taken back; and every request that may still arrive is harmless.   *)

\* Nothing but what the record says, what others have granted themselves, and
\* members left behind.
Clean(x) ==
    /\ principals \subseteq pol[x].members
    /\ pol[x].members \subseteq principals \union (others[x] \union stranded)

\* The update c has read a clean policy, ...
Grounded(c, x) ==
    /\ principals \subseteq c.before[x].members
    /\ c.before[x].members \subseteq principals \union (others[x] \union stranded)

\* ... has written it, ...
Written(c, x) ==
    /\ Grounded(c, x)
    /\ c.after[x] \subseteq pol[x].members
    /\ pol[x].members \subseteq c.after[x] \union (others[x] \union stranded)

\* ... and taking back its delta leaves it clean.
Revertible(c, x) ==
    /\ Grounded(c, x)
    /\ principals \intersect c.after[x] \subseteq pol[x].members
    /\ pol[x].members \subseteq principals \union (others[x] \union stranded)
                                \union (c.after[x] \ c.before[x].members)

\* A request cannot land any more, ...
Stale(w) == w.etag < pol[w.policy].etag

AllStale(x) == \A w \in flight : w.policy = x => Stale(w)

\* ... or takes back the delta of c.
Harmless(c, w) ==
    \/ Stale(w)
    \/ /\ w.etag = pol[w.policy].etag
       /\ w.members = revertDelta(c.before[w.policy].members, c.after[w.policy],
                                  pol[w.policy].members)

Settled(x) == Clean(x) /\ AllStale(x)

Doubtful(c, x) == Revertible(c, x) /\ \A w \in flight : w.policy = x => Harmless(c, w)

\* The policies that p's update has written.
Done(p) == Rewritten(mem[p].phase) \union
           {x \in Policies : pc[p] = "wait" /\ answer[p] = "applied" /\ x = Current(mem[p].phase)}

SagaOK(p, x) ==
    /\ x \in Done(p) => Written(mem[p], x)
    /\ x \notin Done(p) => Clean(x)
    /\ \A w \in flight : w.policy = x => Stale(w) \/ (w.from = p /\ pc[p] = "wait")

\* The policies that p's compensation has taken back.
Restored(p, x) == x \notin Left(todo[p])
                  \/ (pc[p] = "undoing" /\ answer[p] = "applied" /\ x = Head(todo[p]))

UndoOK(p, x) ==
    /\ x \in Rewritten(mem[p].phase) => Grounded(mem[p], x)
    /\ Restored(p, x) => Settled(x)
    /\ ~Restored(p, x) => Doubtful(mem[p], x)

\* Nobody works under the checkpoint.
HaltedOK(x) ==
    IF x \in Rewritten(checkpoint.phase) THEN Doubtful(checkpoint, x) ELSE Settled(x)

PairAt(x) ==
    /\ checkpoint.id = 0 => Settled(x)
    /\ \A p \in Processes : /\ pc[p] \in Saga => SagaOK(p, x)
                            /\ pc[p] \in Undoing => UndoOK(p, x)
    /\ checkpoint.id # 0 /\ checkpoint.phase \notin Sending /\ (\A p \in Processes : ~Begun(p))
          => HaltedOK(x)

PairInv == \A x \in Policies : PairAt(x)

\* The deltas.
LEMMA WrittenReverts ==
    ASSUME NEW c, NEW x, Written(c, x) PROVE Revertible(c, x)
  BY DEF Written, Revertible, Grounded

LEMMA SettledReverts ==
    ASSUME NEW c, NEW x, Settled(x), Grounded(c, x) PROVE Doubtful(c, x)
  <1>1. Revertible(c, x)  BY DEF Settled, Clean, Grounded, Revertible
  <1>2. \A w \in flight : w.policy = x => Harmless(c, w)  BY DEF Settled, AllStale, Harmless
  <1> QED  BY <1>1, <1>2 DEF Doubtful

LEMMA DeltaReverts ==
    ASSUME NEW P, NEW O, NEW B, NEW A, NEW M, P \subseteq B, B \subseteq P \union O,
           P \intersect A \subseteq M, M \subseteq P \union O \union (A \ B)
    PROVE  /\ P \subseteq revertDelta(B, A, M)
           /\ revertDelta(B, A, M) \subseteq P \union O
  BY DEF revertDelta

LEMMA PairInit == Init => PairInv
  BY DEF Init, PairInv, PairAt, Settled, Clean, AllStale, NoCheckpoint, Saga, Undoing, Begun,
         Processes

\* x and what is under way to it have not changed.
Kept(x) ==
    /\ UNCHANGED <<principals, stranded>> /\ pol'[x] = pol[x] /\ others'[x] = others[x]
    /\ \A v \in flight' : v.policy = x =>
          \E w \in flight : v.policy = w.policy /\ v.members = w.members /\ v.etag = w.etag

LEMMA KeepsSettled ==
    ASSUME NEW x, Kept(x), Settled(x) PROVE Settled(x)'
  BY DEF Kept, Settled, Clean, AllStale, Stale

LEMMA KeepsDoubtful ==
    ASSUME NEW x, Kept(x), NEW p, Doubtful(mem[p], x), mem'[p] = mem[p]
    PROVE  Doubtful(mem[p], x)'
  <1>1. Revertible(mem[p], x)'  BY DEF Kept, Doubtful, Revertible, Grounded
  <1>2. ASSUME NEW v \in flight', v.policy = x PROVE Harmless(mem[p], v)'
    <2>1. PICK w \in flight : w.policy = x /\ v.members = w.members /\ v.etag = w.etag
      BY <1>2 DEF Kept
    <2>2. Harmless(mem[p], w)  BY <2>1 DEF Doubtful
    <2> QED  BY <1>2, <2>1, <2>2 DEF Kept, Harmless, Stale, revertDelta
  <1> QED  BY <1>1, <1>2 DEF Doubtful

\* The compensation hands its work to the record.
LEMMA DropsDoubtful ==
    ASSUME NEW x, Kept(x), NEW p, Doubtful(mem[p], x),
           checkpoint'.before = mem[p].before, checkpoint'.after = mem[p].after
    PROVE  Doubtful(checkpoint, x)'
  <1>1. Revertible(checkpoint, x)'  BY DEF Kept, Doubtful, Revertible, Grounded
  <1>2. ASSUME NEW v \in flight', v.policy = x PROVE Harmless(checkpoint, v)'
    <2>1. PICK w \in flight : w.policy = x /\ v.members = w.members /\ v.etag = w.etag
      BY <1>2 DEF Kept
    <2>2. Harmless(mem[p], w)  BY <2>1 DEF Doubtful
    <2> QED  BY <1>2, <2>1, <2>2 DEF Kept, Harmless, Stale, revertDelta
  <1> QED  BY <1>1, <1>2 DEF Doubtful

LEMMA KeepsHalted ==
    ASSUME NEW x, Kept(x), Doubtful(checkpoint, x), UNCHANGED checkpoint
    PROVE  Doubtful(checkpoint, x)'
  <1>1. Revertible(checkpoint, x)'  BY DEF Kept, Doubtful, Revertible, Grounded
  <1>2. ASSUME NEW v \in flight', v.policy = x PROVE Harmless(checkpoint, v)'
    <2>1. PICK w \in flight : w.policy = x /\ v.members = w.members /\ v.etag = w.etag
      BY <1>2 DEF Kept
    <2>2. Harmless(checkpoint, w)  BY <2>1 DEF Doubtful
    <2> QED  BY <1>2, <2>1, <2>2 DEF Kept, Harmless, Stale, revertDelta
  <1> QED  BY <1>1, <1>2 DEF Doubtful

LEMMA KeepsSaga ==
    ASSUME NEW x, Kept(x), NEW p, SagaOK(p, x), pc'[p] = pc[p], mem'[p] = mem[p],
           x \in Done(p)' <=> x \in Done(p), flight' \subseteq flight
    PROVE  SagaOK(p, x)'
  <1>1. x \in Done(p)' => Written(mem[p], x)'  BY DEF Kept, SagaOK, Written, Grounded
  <1>2. x \notin Done(p)' => Clean(x)'  BY DEF Kept, SagaOK, Clean
  <1>3. ASSUME NEW v \in flight', v.policy = x PROVE (Stale(v) \/ (v.from = p /\ pc[p] = "wait"))'
    BY <1>3 DEF Kept, SagaOK, Stale
  <1> QED  BY <1>1, <1>2, <1>3 DEF SagaOK

LEMMA KeepsUndo ==
    ASSUME NEW x, Kept(x), NEW p, UndoOK(p, x), mem'[p] = mem[p],
           Restored(p, x)' <=> Restored(p, x)
    PROVE  UndoOK(p, x)'
  <1>1. x \in Rewritten(mem[p].phase)' => Grounded(mem[p], x)'
    BY DEF Kept, UndoOK, Grounded, Rewritten
  <1> QED  BY <1>1, KeepsSettled, KeepsDoubtful DEF UndoOK

Context == TypeOK /\ LocalInv /\ CoverInv /\ ReadInv /\ FlightInv /\ PairInv

\* The record is open and one process works under it, before and after.
LEMMA OneWorks ==
    ASSUME CoverInv, NEW p \in Processes, Begun(p)
    PROVE  checkpoint.id # 0 /\ \A q \in Processes : Begun(q) <=> q = p
  BY DEF CoverInv, Covered

LEMMA StillWorks ==
    ASSUME CoverInv', NEW p \in Processes, Begun(p)',
           \A x \in Policies : /\ pc'[p] \in Saga => SagaOK(p, x)'
                               /\ pc'[p] \in Undoing => UndoOK(p, x)'
    PROVE  PairInv'
  <1>1. checkpoint'.id # 0  BY DEF CoverInv, Covered
  <1>2. ASSUME NEW q \in Processes, q # p PROVE ~Begun(q)'  BY <1>2 DEF CoverInv
  <1>3. ASSUME NEW x \in Policies PROVE PairAt(x)'
    BY <1>1, <1>2 DEF PairAt, Begun
  <1> QED  BY <1>3 DEF PairInv

LEMMA NobodyWorks ==
    ASSUME \A q \in Processes : ~Begun(q)', checkpoint'.id # 0,
           checkpoint'.phase \in Sending \/ \A x \in Policies : HaltedOK(x)'
    PROVE  PairInv'
  BY DEF PairInv, PairAt, Begun

LEMMA NothingOpen ==
    ASSUME CoverInv', checkpoint'.id = 0, \A x \in Policies : Settled(x)'
    PROVE  PairInv'
  <1>1. \A q \in Processes : ~Begun(q)'  BY DEF CoverInv, Covered
  <1> QED  BY <1>1 DEF PairInv, PairAt, Begun

\* Whoever works goes on working, at x as before.
LEMMA GoesOn ==
    ASSUME NEW x \in Policies, PairAt(x), Kept(x), UNCHANGED checkpoint, flight' \subseteq flight,
           \A p \in Processes :
              /\ Begun(p)' <=> Begun(p)
              /\ Begun(p) => /\ pc'[p] = pc[p] /\ mem'[p] = mem[p]
                             /\ pc[p] \in Saga => (x \in Done(p)' <=> x \in Done(p))
                             /\ pc[p] \in Undoing => (Restored(p, x)' <=> Restored(p, x))
    PROVE  PairAt(x)'
  <1>1. checkpoint'.id = 0 => Settled(x)'  BY KeepsSettled DEF PairAt
  <1>2. ASSUME NEW p \in Processes
        PROVE  /\ pc'[p] \in Saga => SagaOK(p, x)'
               /\ pc'[p] \in Undoing => UndoOK(p, x)'
    BY <1>2, KeepsSaga, KeepsUndo DEF PairAt, Begun
  <1>3. HaltedOK(x) => HaltedOK(x)'
    BY KeepsSettled, KeepsHalted DEF HaltedOK, Rewritten
  <1> QED  BY <1>1, <1>2, <1>3 DEF PairAt

\* Nobody moved in the saga.
LEMMA StaysPut ==
    ASSUME PairInv, UNCHANGED <<principals, stranded, pol, others, checkpoint, flight>>,
           \A p \in Processes :
              /\ Begun(p)' <=> Begun(p)
              /\ Begun(p) => /\ pc'[p] = pc[p] /\ mem'[p] = mem[p] /\ todo'[p] = todo[p]
                             /\ answer'[p] = answer[p]
    PROVE  PairInv'
  <1>1. ASSUME NEW x \in Policies PROVE PairAt(x)'
    <2>1. Kept(x) /\ PairAt(x)  BY DEF Kept, PairInv
    <2>2. ASSUME NEW p \in Processes, Begun(p)
          PROVE  /\ x \in Done(p)' <=> x \in Done(p)
                 /\ Restored(p, x)' <=> Restored(p, x)
      BY <2>2 DEF Done, Restored, Left, Rewritten, Current
    <2> QED  BY <2>1, <2>2, GoesOn
  <1> QED  BY <1>1 DEF PairInv

\* No request of a process that has its answer, or waits for none, is under way.
LEMMA NoneUnderWay ==
    ASSUME FlightInv, NEW p \in Processes, pc[p] \notin {"wait", "undoing"} \/ answer[p] # "none"
    PROVE  \A w \in flight : w.from # p
  BY ReconcilerAssumption DEF FlightInv, Awaited, ReconcilerAssumption, Processes

\* A compensation that ends half way leaves what a later one can take back.
LEMMA UndoHalts ==
    ASSUME Context, NEW p \in Processes, pc[p] \in Undoing, UNCHANGED checkpoint,
           \A x \in Policies : Kept(x)
    PROVE  checkpoint'.phase \in Sending \/ \A x \in Policies : HaltedOK(x)'
  <1>1. /\ checkpoint.phase = mem[p].phase \/ checkpoint.phase \in Sending
        /\ checkpoint.before = mem[p].before /\ checkpoint.after = mem[p].after
        /\ Left(todo[p]) \subseteq Rewritten(mem[p].phase)
    BY DEF Context, CoverInv, Covered, Begun, LocalInv, LocalOK
  <1>2. SUFFICES ASSUME checkpoint.phase = mem[p].phase, NEW x \in Policies
                 PROVE  HaltedOK(x)'
    BY <1>1
  <1>3. UndoOK(p, x)  BY DEF Context, PairInv, PairAt
  <1>4. Rewritten(checkpoint.phase)' = Rewritten(mem[p].phase)  BY <1>2 DEF Rewritten
  <1>5. CASE x \in Rewritten(mem[p].phase)
    <2>1. Doubtful(mem[p], x)  BY <1>3, <1>5, SettledReverts DEF UndoOK
    <2>2. Doubtful(checkpoint, x)'  BY <1>1, <2>1, DropsDoubtful DEF Context
    <2> QED  BY <1>4, <1>5, <2>2 DEF HaltedOK
  <1>6. CASE x \notin Rewritten(mem[p].phase)
    <2>1. Settled(x)  BY <1>1, <1>3, <1>6 DEF UndoOK, Restored
    <2> QED  BY <1>4, <1>6, <2>1, KeepsSettled DEF HaltedOK
  <1> QED  BY <1>5, <1>6

\* So does a saga whose worker dies between two writes.
LEMMA SagaReverts ==
    ASSUME Context, NEW p \in Processes, pc[p] \in Saga, \A w \in flight : w.from # p,
           ~(pc[p] = "wait" /\ answer[p] = "applied"), NEW x \in Policies
    PROVE  /\ x \in Rewritten(mem[p].phase) => Grounded(mem[p], x) /\ Doubtful(mem[p], x)
           /\ x \notin Rewritten(mem[p].phase) => Settled(x)
  <1>1. SagaOK(p, x) /\ Done(p) = Rewritten(mem[p].phase)
    BY DEF Context, PairInv, PairAt, Done
  <1>2. AllStale(x)  BY <1>1 DEF SagaOK, AllStale
  <1>3. ASSUME x \in Rewritten(mem[p].phase) PROVE Grounded(mem[p], x) /\ Doubtful(mem[p], x)
    <2>1. Written(mem[p], x)  BY <1>1, <1>3 DEF SagaOK
    <2> QED  BY <1>2, <2>1, WrittenReverts DEF Doubtful, Written, AllStale, Harmless
  <1>4. x \notin Rewritten(mem[p].phase) => Settled(x)  BY <1>1, <1>2 DEF SagaOK, Settled
  <1> QED  BY <1>3, <1>4

LEMMA QuitPairStep ==
    ASSUME Context, CoverInv', NEW p \in Processes, Quits(p)
    PROVE  PairInv'
  <1>l. LocalOK(p) /\ (Begun(p) => Covered(p)) /\ Others(p)
    BY DEF Context, LocalInv, CoverInv, Quits, Quiet
  <1>1. CASE pc[p] = "begin"
    <2>1. UNCHANGED <<principals, stranded, pol, others, checkpoint, flight>>
      BY <1>1 DEF Quits, Quiet, Record3, Saga, Undoing
    <2>2. ~Begun(p) /\ ~Begun(p)'  BY <1>1 DEF Quits, Leaves, Begun, Saga, Undoing
    <2>3. \A q \in Processes \ {p} : Begun(q)' <=> Begun(q)  BY <1>l DEF Others, Begun
    <2> QED  BY <1>l, <2>1, <2>2, <2>3, StaysPut DEF Others, Context
  <1>2. CASE pc[p] \in Saga \union Undoing
    <2>1. Begun(p) /\ checkpoint.id # 0 /\ UNCHANGED checkpoint
      BY <1>2, <1>l DEF Begun, Covered, Quits
    <2>2. \A q \in Processes : ~Begun(q)'
      BY <1>l, <2>1, OneWorks DEF Quits, Others, Leaves, Begun, Saga, Undoing, Context
    <2>3. CASE pc[p] \in Saga
      <3>1. mem[p].phase \in Sending /\ pc[p] \in {"post", "wait"}
        BY <1>l, <2>3 DEF Quits, LocalOK, Saga, Sending, Undoing
      <3>2. checkpoint.phase \in Sending  BY <1>l, <2>1, <3>1 DEF Covered
      <3> QED  BY <2>1, <2>2, <3>2, NobodyWorks
    <2>4. CASE pc[p] \in Undoing
      <3>1. \A x \in Policies : Kept(x)
        BY <2>4, AbandonedFacts DEF Quits, Quiet, Record3, Kept, Context, Saga, Undoing
      <3> QED  BY <2>1, <2>2, <2>4, <3>1, UndoHalts, NobodyWorks
    <2> QED  BY <1>2, <2>3, <2>4
  <1> QED  BY <1>1, <1>2 DEF Quits, Saga

LEMMA HandlerPairStep ==
    ASSUME Context, CoverInv', NEW h \in Handlers, HandlerStep(h)
    PROVE  PairInv'
  <1>h. h \in Processes  BY DEF Processes
  <1>k. ASSUME Quiet(h), flight' \subseteq flight PROVE \A x \in Policies : Kept(x)
    BY <1>k DEF Quiet, Record3, Kept
  <1>l. LocalOK(h) /\ (Begun(h) => Covered(h)) /\ mem[h] \in Checkpoint
    BY <1>h DEF Context, LocalInv, CoverInv, TypeOK
  <1>s. ASSUME pc[h] \in Saga, NEW x \in Policies PROVE SagaOK(h, x)
    BY <1>h, <1>s DEF Context, PairInv, PairAt
  <1>1. CASE Prepares(h)
    <2>1. UNCHANGED <<principals, stranded, pol, others, checkpoint, flight>> /\ Others(h)
      BY <1>1 DEF Prepares, Quiet, Record3
    <2>2. ~Begun(h) /\ ~Begun(h)'  BY <1>1 DEF Prepares, Begun, Saga, Undoing, Policies
    <2>3. \A p \in Processes \ {h} : Begun(p)' <=> Begun(p)  BY <2>1 DEF Others, Begun
    <2> QED  BY <2>1, <2>2, <2>3, StaysPut DEF Others, Context
  <1>2. CASE Opens(h)
    <2>1. Begun(h)' /\ pc'[h] = "mark" /\ mem'[h].phase = "prepared"
      BY <1>2, <1>l DEF Opens, Begun, Saga, LocalOK
    <2>2. ASSUME NEW x \in Policies PROVE SagaOK(h, x)'
      <3>1. Settled(x)'
        BY <1>2, <1>k, KeepsSettled DEF Opens, Context, PairInv, PairAt
      <3>2. x \notin Done(h)'  BY <2>1 DEF Done, Rewritten
      <3> QED  BY <3>1, <3>2 DEF SagaOK, Settled, AllStale
    <2> QED  BY <1>h, <2>1, <2>2, StillWorks DEF Undoing
  <1>3. CASE Quits(h)  BY <1>3, <1>h, QuitPairStep
  <1>4. CASE RollsBack(h)
    <2>1. /\ Begun(h)' /\ pc[h] \in Saga /\ pc'[h] = "undo" /\ mem'[h] = mem[h]
          /\ todo'[h] = Proven(mem[h].phase) /\ flight' = flight
          /\ ~(pc[h] = "wait" /\ answer[h] = "applied")
          /\ pc[h] \notin {"wait", "undoing"} \/ answer[h] # "none"
      BY <1>4 DEF RollsBack, Begun, Saga, Undoing
    <2>2. \A w \in flight : w.from # h  BY <1>h, <2>1, NoneUnderWay DEF Context
    <2>3. Left(todo[h])' = Rewritten(mem[h].phase) /\ Rewritten(mem[h].phase)' = Rewritten(mem[h].phase)
      <3>1. mem[h].phase \in Phases  BY <1>l DEF Checkpoint
      <3> QED  BY <2>1, <3>1, ProvenFacts DEF Left, Rewritten
    <2>4. ASSUME NEW x \in Policies PROVE UndoOK(h, x)'
      <3>1. /\ x \in Rewritten(mem[h].phase) => Grounded(mem[h], x) /\ Doubtful(mem[h], x)
            /\ x \notin Rewritten(mem[h].phase) => Settled(x)
        BY <1>h, <2>1, <2>2, SagaReverts
      <3>2. Kept(x)  BY <1>4, <1>k DEF RollsBack
      <3>3. Grounded(mem[h], x) => Grounded(mem[h], x)'  BY <2>1, <3>2 DEF Kept, Grounded
      <3>4. Restored(h, x)' <=> x \notin Rewritten(mem[h].phase)  BY <2>1, <2>3 DEF Restored
      <3> QED  BY <2>1, <2>3, <3>1, <3>2, <3>3, <3>4, KeepsSettled, KeepsDoubtful DEF UndoOK
    <2> QED  BY <1>h, <2>1, <2>4, StillWorks DEF Saga, Undoing
  <1>5. CASE Marks(h) \/ Records(h) \/ Applies(h)
    <2>0. mem[h].phase \in Phases /\ Quiet(h) /\ flight' = flight
      BY <1>5, <1>l DEF Marks, Records, Applies, Checkpoint
    <2>1. /\ Begun(h)' /\ pc[h] \in Saga /\ pc'[h] \in Saga /\ SameBut(mem'[h], mem[h])
          /\ pc'[h] # "wait"
          /\ pc[h] \notin {"wait", "undoing"} \/ answer[h] # "none"
      BY <1>5 DEF Marks, Records, Applies, Begun, Saga, SameBut
    <2>2. \A w \in flight : w.from # h  BY <1>h, <2>1, NoneUnderWay DEF Context
    <2>3. ASSUME NEW x \in Policies PROVE x \in Done(h)' <=> x \in Done(h)
      <3>1. CASE Marks(h)
        <4>1. mem[h].phase \in {"prepared", "application_applied"}  BY <1>l, <3>1 DEF Marks, LocalOK
        <4>2. Rewritten(mem[h].phase)' = Rewritten(mem[h].phase)
          BY <3>1, <4>1, PhaseTable DEF Marks, Rewritten
        <4> QED  BY <2>1, <3>1, <4>2 DEF Marks, Done
      <3>2. CASE Records(h)  BY <3>2 DEF Records, Done, Rewritten
      <3>3. CASE Applies(h)
        <4>1. mem[h].phase \in Sending  BY <1>l, <3>3 DEF Applies, LocalOK
        <4>2. Rewritten(mem[h].phase)' = Rewritten(mem[h].phase) \union {Current(mem[h].phase)}
          BY <3>3, <4>1, PhaseTable DEF Applies, Rewritten, Current, Sending
        <4> QED  BY <2>1, <3>3, <4>2 DEF Applies, Done
      <3> QED  BY <1>5, <3>1, <3>2, <3>3
    <2>4. ASSUME NEW x \in Policies PROVE SagaOK(h, x)'
      <3>1. Kept(x) /\ SagaOK(h, x)  BY <1>k, <1>s, <2>0, <2>1
      <3>2. x \in Done(h)' => Written(mem[h], x)'
        BY <2>1, <2>3, <3>1 DEF Kept, SagaOK, Written, Grounded, SameBut
      <3>3. x \notin Done(h)' => Clean(x)'  BY <2>3, <3>1 DEF Kept, SagaOK, Clean
      <3>4. \A w \in flight' : w.policy = x => Stale(w)'
        BY <2>0, <2>2, <3>1 DEF Kept, SagaOK, Stale
      <3> QED  BY <3>2, <3>3, <3>4 DEF SagaOK
    <2> QED  BY <1>h, <2>1, <2>4, StillWorks DEF Saga, Undoing
  <1>6. CASE Sends(h)
    <2>1. /\ Begun(h)' /\ pc[h] \in Saga /\ pc'[h] = "wait" /\ mem'[h] = mem[h]
          /\ answer'[h] = "none" /\ ~(pc[h] = "wait" /\ answer[h] = "applied") /\ Quiet(h)
      BY <1>6 DEF Sends, Begun, Saga
    <2>2. PICK w \in Write : flight' = flight \union {w} /\ w.from = h
      BY <1>6 DEF Sends
    <2>3. ASSUME NEW x \in Policies PROVE SagaOK(h, x)'
      <3>1. SagaOK(h, x)  BY <1>s, <2>1
      <3>2. Done(h)' = Done(h)  BY <2>1 DEF Done, Rewritten
      <3>3. UNCHANGED <<principals, stranded, pol, others>>  BY <2>1 DEF Quiet, Record3
      <3>4. x \in Done(h)' => Written(mem[h], x)'
        BY <2>1, <3>1, <3>2, <3>3 DEF SagaOK, Written, Grounded
      <3>5. x \notin Done(h)' => Clean(x)'  BY <3>1, <3>2, <3>3 DEF SagaOK, Clean
      <3>6. \A v \in flight' : v.policy = x => Stale(v)' \/ v.from = h
        BY <2>2, <3>1, <3>3 DEF SagaOK, Stale
      <3> QED  BY <2>1, <3>4, <3>5, <3>6 DEF SagaOK
    <2> QED  BY <1>h, <2>1, <2>3, StillWorks DEF Undoing
  <1>7. CASE Commits(h)
    <2>1. /\ pc[h] = "commit" /\ pc[h] \in Saga /\ mem[h].phase = "gateway_applied"
          /\ mem[h].baseline = baseline
      BY <1>7, <1>l DEF Commits, LocalOK, Saga
    <2>2. checkpoint.principals = mem[h].principals  BY <1>l, <2>1 DEF Covered, Begun
    <2>3. \A w \in flight : w.from # h  BY <1>h, <2>1, NoneUnderWay DEF Context
    <2>4. ASSUME NEW x \in Policies PROVE Settled(x)'
      <3>1. SagaOK(h, x)  BY <1>s, <2>1
      <3>2. Written(mem[h], x)  BY <2>1, <3>1 DEF SagaOK, Done, Rewritten, Policies
      <3>3. mem[h].after[x] = (mem[h].before[x].members \ mem[h].previous) \union mem[h].principals
        BY <2>1 DEF Context, ReadInv, ReadOK, replaceOwned, Policies
      <3>4. /\ principals' = mem[h].principals /\ others'[x] = others[x] \ mem[h].principals
            /\ stranded' = (stranded \union (principals \ mem[h].previous)) \ mem[h].principals
            /\ pol' = pol /\ flight' = flight
        BY <1>7, <2>2 DEF Commits, Adopts
      <3>5. mem[h].principals \subseteq pol[x].members  BY <3>2, <3>3 DEF Written
      <3>6. pol[x].members \subseteq principals' \union (others'[x] \union stranded')
        BY <3>2, <3>3, <3>4 DEF Written, Grounded
      <3>7. Clean(x)'  BY <3>4, <3>5, <3>6 DEF Clean
      <3>8. AllStale(x)'  BY <2>3, <3>1, <3>4 DEF SagaOK, AllStale, Stale
      <3> QED  BY <3>7, <3>8 DEF Settled
    <2>5. checkpoint'.id = 0  BY <1>7 DEF Commits, NoCheckpoint
    <2> QED  BY <2>4, <2>5, NothingOpen
  <1> QED  BY <1>1, <1>2, <1>3, <1>4, <1>5, <1>6, <1>7 DEF HandlerStep

LEMMA UndoPairStep ==
    ASSUME Context, CoverInv', NEW p \in Processes, UndoStep(p)
    PROVE  PairInv'
  <1>u. ASSUME pc[p] \in Undoing, NEW x \in Policies PROVE UndoOK(p, x)
    BY <1>u DEF Context, PairInv, PairAt
  <1>l. LocalOK(p) /\ (Begun(p) => Covered(p))  BY DEF Context, LocalInv, CoverInv
  <1>1. CASE Reads(p)
    <2>1. /\ Begun(p)' /\ pc[p] \in Undoing /\ pc[p] = "undo" /\ pc'[p] = "restore"
          /\ mem'[p] = mem[p] /\ todo'[p] = todo[p]
          /\ UNCHANGED <<principals, stranded, pol, others, flight>>
      BY <1>1 DEF Reads, Begun, Undoing, Quiet, Record3
    <2>2. ASSUME NEW x \in Policies PROVE UndoOK(p, x)'
      <3>1. Restored(p, x)' <=> Restored(p, x)  BY <2>1 DEF Restored, Left
      <3>2. Kept(x)  BY <2>1 DEF Kept
      <3> QED  BY <1>u, <2>1, <3>1, <3>2, KeepsUndo
    <2> QED  BY <2>1, <2>2, StillWorks DEF Saga
  <1>2. CASE Undoes(p)
    <2>1. /\ Begun(p)' /\ pc[p] \in Undoing /\ pc[p] = "restore" /\ pc'[p] = "undoing"
          /\ mem'[p] = mem[p] /\ todo'[p] = todo[p] /\ answer'[p] = "none"
          /\ UNCHANGED <<principals, stranded, pol, others>>
      BY <1>2 DEF Undoes, Begun, Undoing, Quiet, Record3
    <2>2. PICK w \in Write :
             /\ flight' = flight \union {w}
             /\ w.policy = Head(todo[p]) /\ w.etag = got[p].etag
             /\ w.members = revertDelta(mem[p].before[w.policy].members, mem[p].after[w.policy],
                                        got[p].members)
      BY <1>2 DEF Undoes
    <2>3. w.policy \in Left(todo[p])  BY <1>l, <2>1, <2>2, TodoFacts DEF LocalOK, Undoing
    <2>4. Harmless(mem[p], w)
      <3>1. UpToDate(got[p], w.policy)  BY <2>1, <2>2 DEF Context, ReadInv
      <3>2. pol[w.policy].etag \in Nat /\ got[p].etag \in Nat  BY DEF Context, TypeOK, Policy, Write
      <3> QED  BY <2>2, <3>1, <3>2 DEF UpToDate, Harmless, Stale
    <2>5. ASSUME NEW x \in Policies PROVE UndoOK(p, x)'
      <3>1. UndoOK(p, x)  BY <1>u, <2>1
      <3>2. Restored(p, x)' <=> Restored(p, x)  BY <2>1 DEF Restored, Left
      <3>3. CASE w.policy # x
        <4>1. Kept(x)  BY <2>1, <2>2, <3>3 DEF Kept
        <4> QED  BY <2>1, <3>1, <3>2, <4>1, KeepsUndo
      <3>4. CASE w.policy = x
        <4>1. ~Restored(p, x)  BY <2>1, <2>3, <3>4 DEF Restored
        <4>2. Doubtful(mem[p], x)  BY <3>1, <4>1 DEF UndoOK
        <4>3. Revertible(mem[p], x)'  BY <2>1, <4>2 DEF Doubtful, Revertible, Grounded
        <4>4. ASSUME NEW v \in flight', v.policy = x PROVE Harmless(mem[p], v)'
          <5>1. Harmless(mem[p], v)  BY <2>2, <2>4, <4>2, <4>4 DEF Doubtful
          <5> QED  BY <2>1, <5>1 DEF Harmless, Stale, revertDelta
        <4>5. Grounded(mem[p], x)'  BY <4>3 DEF Revertible
        <4> QED  BY <3>2, <4>1, <4>3, <4>4, <4>5 DEF UndoOK, Doubtful
      <3> QED  BY <3>3, <3>4
    <2> QED  BY <2>1, <2>5, StillWorks DEF Saga
  <1>3. CASE Hears(p)
    <2>1. /\ Begun(p)' /\ pc[p] = "undoing" /\ pc'[p] = "undo" /\ mem'[p] = mem[p]
          /\ UNCHANGED <<principals, stranded, pol, others, flight>>
      BY <1>3 DEF Hears, Begun, Undoing, Quiet, Record3
    <2>2. todo[p] \in Todos /\ todo[p] # <<>>  BY <1>l, <2>1 DEF LocalOK, Undoing
    <2>3. /\ Left(Tail(todo[p])) = Left(todo[p]) \ {Head(todo[p])}
          /\ Left(todo[p])' = Left(todo'[p])
      BY <2>2, TodoFacts DEF Left
    <2>4. ASSUME NEW x \in Policies PROVE UndoOK(p, x)'
      <3>1. Restored(p, x)' <=> Restored(p, x)
        <4>1. CASE answer[p] = "applied" /\ todo'[p] = Tail(todo[p])
          BY <2>1, <2>3, <4>1 DEF Restored
        <4>2. CASE answer[p] = "aborted" /\ todo'[p] = todo[p]
          BY <2>1, <2>3, <4>2 DEF Restored
        <4> QED  BY <1>3, <4>1, <4>2 DEF Hears
      <3>2. Kept(x)  BY <2>1 DEF Kept
      <3> QED  BY <1>u, <2>1, <3>1, <3>2, KeepsUndo DEF Undoing
    <2> QED  BY <2>1, <2>4, StillWorks DEF Saga
  <1>4. CASE Quits(p)  BY <1>4, QuitPairStep
  <1>5. CASE Closes(p)
    <2>1. /\ pc[p] = "undo" /\ todo[p] = <<>> /\ checkpoint.id = mem[p].id
          /\ checkpoint'.id = 0 /\ UNCHANGED <<principals, stranded, pol, flight>>
          /\ \A x \in Policies : others'[x] = others[x] \ principals
      BY <1>5, <1>l DEF Closes, Adopts, NoCheckpoint, Covered, Begun, Undoing
    <2>2. ASSUME NEW x \in Policies PROVE Settled(x)'
      <3>1. UndoOK(p, x) /\ Restored(p, x)
        BY <1>u, <2>1, TodoFacts DEF Undoing, Restored
      <3>2. Settled(x)  BY <3>1 DEF UndoOK
      <3>3. Clean(x)'  BY <2>1, <3>2 DEF Settled, Clean
      <3> QED  BY <2>1, <3>2, <3>3 DEF Settled, AllStale, Stale
    <2> QED  BY <2>1, <2>2, NothingOpen
  <1> QED  BY <1>1, <1>2, <1>3, <1>4, <1>5 DEF UndoStep

LEMMA WakePairStep ==
    ASSUME Context, CoverInv', ~crossed', Wakes
    PROVE  PairInv'
  <1>h. Reconciler \in Processes /\ checkpoint \in Checkpoint  BY DEF Processes, Context, TypeOK
  <1>1. UNCHANGED <<principals, stranded, pol, others, checkpoint, flight, answer>>
    BY DEF Wakes, Record3
  <1>2. CASE UNCHANGED <<pc, mem, todo, got>>
    BY <1>1, <1>2, StaysPut DEF Begun, Context
  <1>3. CASE /\ checkpoint.id # 0 /\ checkpoint.phase \notin Sending
             /\ pc'[Reconciler] = "undo" /\ mem'[Reconciler] = checkpoint
             /\ todo'[Reconciler] = Proven(checkpoint.phase)
             /\ \A h \in Handlers : ~HasBegun(h)
    <2>1. \A q \in Processes : ~Begun(q)
      <3>1. pc[Reconciler] = "idle"  BY DEF Wakes
      <3>2. \A h \in Handlers : ~Begun(h)
        BY <1>3 DEF Context, CoverInv, Begun, Covered, HasBegun, Processes, Saga, Undoing
      <3> QED  BY <3>1, <3>2 DEF Begun, Processes, Saga, Undoing
    <2>2. Left(todo[Reconciler])' = Rewritten(checkpoint.phase)
      BY <1>3, <1>h, ProvenFacts DEF Left, Checkpoint
    <2>3. Rewritten(mem[Reconciler].phase)' = Rewritten(checkpoint.phase)  BY <1>3 DEF Rewritten
    <2>4. ASSUME NEW x \in Policies PROVE UndoOK(Reconciler, x)'
      <3>1. HaltedOK(x)  BY <1>3, <2>1 DEF Context, PairInv, PairAt
      <3>2. Kept(x)  BY <1>1 DEF Kept
      <3>3. Restored(Reconciler, x)' <=> x \notin Rewritten(checkpoint.phase)
        BY <1>3, <2>2 DEF Restored
      <3>4. Settled(x) => Settled(x)'  BY <3>2, KeepsSettled
      <3>5. ASSUME Doubtful(checkpoint, x)
            PROVE  Doubtful(mem[Reconciler], x)' /\ Grounded(mem[Reconciler], x)'
        <4>1. Revertible(mem[Reconciler], x)' /\ Grounded(mem[Reconciler], x)'
          BY <1>1, <1>3, <3>5 DEF Doubtful, Revertible, Grounded
        <4>2. ASSUME NEW v \in flight', v.policy = x PROVE Harmless(mem[Reconciler], v)'
          <5>1. Harmless(checkpoint, v)  BY <1>1, <3>5, <4>2 DEF Doubtful
          <5> QED  BY <1>1, <1>3, <5>1 DEF Harmless, Stale, revertDelta
        <4> QED  BY <4>1, <4>2 DEF Doubtful
      <3> QED  BY <2>3, <3>1, <3>3, <3>4, <3>5 DEF UndoOK, HaltedOK
    <2>5. Begun(Reconciler)'  BY <1>3 DEF Begun, Undoing
    <2> QED  BY <1>3, <1>h, <2>4, <2>5, StillWorks DEF Saga
  <1> QED  BY <1>2, <1>3 DEF Wakes

LEMMA ForgetPairStep ==
    ASSUME Context, CoverInv', Forgets
    PROVE  PairInv'
  <1>1. UNCHANGED <<principals, stranded, pol, others, checkpoint>>  BY DEF Forgets, Record3
  <1>2. CASE UNCHANGED <<pc, mem, todo, got, answer, flight>>
    BY <1>1, <1>2, StaysPut DEF Begun, Context
  <1>3. CASE /\ \A p \in Processes : pc'[p] = "idle"
             /\ flight' = {[w EXCEPT !.from = "gone"] : w \in flight}
    <2>1. \A q \in Processes : ~Begun(q)'  BY <1>3 DEF Begun, Saga, Undoing
    <2>2. \A x \in Policies : Kept(x)
      <3>1. \A w \in flight : w \in Write  BY DEF Context, TypeOK
      <3> QED  BY <1>1, <1>3, <3>1 DEF Kept, Write
    <2>3. CASE checkpoint.id = 0
      <3>1. \A x \in Policies : Settled(x)'
        BY <2>2, <2>3, KeepsSettled DEF Context, PairInv, PairAt
      <3> QED  BY <1>1, <2>3, <3>1, NothingOpen
    <2>4. ASSUME checkpoint.id # 0, NEW p \in Processes, pc[p] \in Undoing PROVE PairInv'
      BY <1>1, <2>1, <2>2, <2>4, UndoHalts, NobodyWorks
    <2>5. ASSUME checkpoint.id # 0, NEW p \in Processes, pc[p] \in Saga PROVE PairInv'
      <3>l. /\ LocalOK(p) /\ checkpoint.before = mem[p].before /\ checkpoint.after = mem[p].after
            /\ pc[p] \in {"mark", "post", "wait", "commit"} => checkpoint.phase = mem[p].phase
            /\ pc[p] = "record" => checkpoint.phase \in Sending
        BY <2>5 DEF Context, LocalInv, CoverInv, Covered, Begun
      <3>1. CASE checkpoint.phase \in Sending  BY <1>1, <2>1, <2>5, <3>1, NobodyWorks
      <3>2. CASE checkpoint.phase \notin Sending
        <4>1. pc[p] \in {"mark", "commit"} /\ checkpoint.phase = mem[p].phase
          BY <2>5, <3>2, <3>l DEF Saga, LocalOK
        <4>2. \A w \in flight : w.from # p  BY <4>1, NoneUnderWay DEF Context
        <4>3. ASSUME NEW x \in Policies PROVE HaltedOK(x)'
          <5>1. /\ x \in Rewritten(mem[p].phase) => Doubtful(mem[p], x)
                /\ x \notin Rewritten(mem[p].phase) => Settled(x)
            BY <2>5, <4>1, <4>2, SagaReverts
          <5>2. Rewritten(checkpoint.phase)' = Rewritten(mem[p].phase)
            BY <1>1, <4>1 DEF Rewritten
          <5>3. Doubtful(mem[p], x) => Doubtful(checkpoint, x)'
            BY <1>1, <2>2, <3>l, DropsDoubtful
          <5>4. Settled(x) => Settled(x)'  BY <2>2, KeepsSettled
          <5> QED  BY <5>1, <5>2, <5>3, <5>4 DEF HaltedOK
        <4> QED  BY <1>1, <2>1, <2>5, <4>3, NobodyWorks
      <3> QED  BY <3>1, <3>2
    <2>6. CASE checkpoint.id # 0 /\ \A p \in Processes : ~Begun(p)
      <3>1. CASE checkpoint.phase \in Sending  BY <1>1, <2>1, <2>6, <3>1, NobodyWorks
      <3>2. CASE checkpoint.phase \notin Sending
        <4>1. ASSUME NEW x \in Policies PROVE HaltedOK(x)'
          <5>1. HaltedOK(x)  BY <2>6, <3>2 DEF Context, PairInv, PairAt
          <5>2. Rewritten(checkpoint.phase)' = Rewritten(checkpoint.phase)  BY <1>1 DEF Rewritten
          <5> QED  BY <1>1, <2>2, <5>1, <5>2, KeepsSettled, KeepsHalted DEF HaltedOK
        <4> QED  BY <1>1, <2>1, <2>6, <4>1, NobodyWorks
      <3> QED  BY <3>1, <3>2
    <2> QED  BY <2>3, <2>4, <2>5, <2>6 DEF Begun
  <1> QED  BY <1>2, <1>3 DEF Forgets

\* The answer to w, unless w was made, changes nothing but what its sender knows.
LEMMA AnswerTells ==
    ASSUME Context, NEW w \in flight, Arrives(w), NEW x \in Policies, NEW p \in Processes,
           x # w.policy \/ UNCHANGED pol
    PROVE  /\ x \in Done(p)' <=> x \in Done(p)
           /\ Restored(p, x)' <=> Restored(p, x)
  <1>1. /\ pc'[p] = pc[p] /\ mem'[p] = mem[p] /\ todo'[p] = todo[p]
        /\ Rewritten(mem[p].phase)' = Rewritten(mem[p].phase)
        /\ Current(mem[p].phase)' = Current(mem[p].phase)
        /\ Left(todo[p])' = Left(todo[p])
    BY DEF Arrives, Rewritten, Current, Left
  <1>2. CASE p # w.from
    <2>1. answer'[p] = answer[p]  BY <1>2 DEF Arrives
    <2> QED  BY <1>1, <2>1 DEF Done, Restored
  <1>3. CASE p = w.from
    <2>1. p # "gone"  BY ReconcilerAssumption DEF ReconcilerAssumption, Processes
    <2>2. /\ answer[p] = "none"
          /\ pc[p] = "wait" => w.policy = Current(mem[p].phase)
          /\ pc[p] = "undoing" => w.policy = Head(todo[p])
      BY <1>3, <2>1 DEF Context, FlightInv, Awaited
    <2>3. UNCHANGED pol => answer'[p] # "applied"
      <3>1. w.policy \in Policies  BY DEF Context, TypeOK, Write
      <3>2. pol[w.policy].etag \in Nat  BY <3>1 DEF Context, TypeOK, Policy
      <3> QED  BY <1>3, <2>1, <3>2 DEF Arrives
    <2> QED  BY <1>1, <2>2, <2>3 DEF Done, Restored
  <1> QED  BY <1>2, <1>3

\* Only one request to a policy can still land: none after this one.
LEMMA LandsAlone ==
    ASSUME Context, NEW w \in flight, Arrives(w), pol' # pol
    PROVE  /\ w.policy \in Policies /\ w.etag = pol[w.policy].etag /\ ~Stale(w)
           /\ pol'[w.policy].members = w.members
           /\ \A v \in flight' : v.policy = w.policy => Stale(v)'
           /\ \A x \in Policies \ {w.policy} : pol'[x] = pol[x]
  <1>1. /\ w.policy \in Policies /\ w.etag = pol[w.policy].etag
        /\ pol'[w.policy].members = w.members /\ pol'[w.policy].etag = w.etag + 1
        /\ \A x \in Policies \ {w.policy} : pol'[x] = pol[x]
    BY DEF Arrives, Context, TypeOK, Write
  <1>2. w.etag \in Nat  BY DEF Context, TypeOK, Write
  <1>3. ASSUME NEW v \in flight', v.policy = w.policy PROVE Stale(v)'
    <2>1. v \in flight /\ v.etag \in Nat  BY <1>3 DEF Arrives, Context, TypeOK, Write
    <2>2. v.etag <= w.etag  BY <1>1, <1>3, <2>1 DEF Context, FlightInv
    <2> QED  BY <1>1, <1>2, <1>3, <2>1, <2>2 DEF Stale
  <1> QED  BY <1>1, <1>2, <1>3 DEF Stale

\* A compensation that lands leaves a clean policy.
LEMMA RevertLands ==
    ASSUME Context, NEW w \in flight, Arrives(w), pol' # pol, NEW c, Revertible(c, w.policy),
           Harmless(c, w)
    PROVE  Settled(w.policy)'
  <1>1. /\ w.policy \in Policies /\ ~Stale(w) /\ pol'[w.policy].members = w.members
        /\ \A v \in flight' : v.policy = w.policy => Stale(v)'
    BY LandsAlone
  <1>2. w.members = revertDelta(c.before[w.policy].members, c.after[w.policy],
                                pol[w.policy].members)
    BY <1>1 DEF Harmless
  <1>3. UNCHANGED <<principals, stranded, others>>  BY DEF Arrives, Record3
  <1>4. Clean(w.policy)'
    <2>1. /\ principals \subseteq w.members
          /\ w.members \subseteq principals \union (others[w.policy] \union stranded)
      <3> DEFINE O == others[w.policy] \union stranded
                 B == c.before[w.policy].members
                 A == c.after[w.policy]
                 M == pol[w.policy].members
      <3>1. /\ principals \subseteq B /\ B \subseteq principals \union O
            /\ principals \intersect A \subseteq M
            /\ M \subseteq principals \union O \union (A \ B)
        BY DEF Revertible, Grounded
      <3>2. w.members = revertDelta(B, A, M)  BY <1>2
      <3> HIDE DEF O, B, A, M
      <3>3. principals \subseteq w.members /\ w.members \subseteq principals \union O
        BY <3>1, <3>2, DeltaReverts
      <3> QED  BY <3>3 DEF O
    <2> QED  BY <1>1, <1>3, <2>1 DEF Clean
  <1> QED  BY <1>1, <1>4 DEF Settled, AllStale

LEMMA ArrivePairStep ==
    ASSUME Context, CoverInv', ~LateUnavailable, NEW w \in flight, Arrives(w)
    PROVE  PairInv'
  <1>0. /\ UNCHANGED <<principals, stranded, others, checkpoint, pc, mem, todo>> /\ flight' \subseteq flight
        /\ \A p \in Processes : Begun(p)' <=> Begun(p)
    BY DEF Arrives, Record3, Begun
  <1>g. "gone" \notin Processes  BY ReconcilerAssumption DEF ReconcilerAssumption, Processes
  <1>1. ASSUME NEW x \in Policies, x # w.policy \/ UNCHANGED pol PROVE PairAt(x)'
    <2>1. Kept(x)
      <3>1. pol'[x] = pol[x]  BY <1>1, LandsAlone
      <3> QED  BY <1>0, <3>1 DEF Kept
    <2> QED  BY <1>0, <1>1, <2>1, AnswerTells, GoesOn DEF Context, PairInv
  <1>2. ASSUME pol' # pol, NEW x, x = w.policy PROVE PairAt(x)'
    <2>0. /\ x \in Policies /\ w.etag = pol[x].etag /\ ~Stale(w) /\ pol'[x].members = w.members
          /\ \A v \in flight' : v.policy = x => Stale(v)'
      BY <1>2, LandsAlone
    <2>a. PairAt(x)  BY <2>0 DEF Context, PairInv
    <2>1. ~Settled(x)  BY <1>2, <2>0 DEF Settled, AllStale
    <2>2. checkpoint.id # 0  BY <2>1, <2>a DEF PairAt
    <2>3. ASSUME NEW p \in Processes, pc'[p] \in Saga PROVE SagaOK(p, x)'
      <3>1. p \in Handlers
        BY <1>0, <2>3 DEF Processes, Context, CoverInv, Saga, Undoing
      <3>2. SagaOK(p, x)  BY <1>0, <2>3, <2>a DEF PairAt
      <3>3. w.from = p /\ pc[p] = "wait"  BY <1>2, <2>0, <3>2 DEF SagaOK
      <3>4. /\ answer[p] = "none" /\ x = Current(mem[p].phase)
            /\ w.members = mem[p].after[x] /\ w.etag = mem[p].before[x].etag
        BY <1>2, <1>g, <3>3 DEF Context, FlightInv, Awaited
      <3>5. x \notin Done(p)
        <4>1. mem[p].phase \in Sending  BY <3>3 DEF Context, LocalInv, LocalOK
        <4> QED  BY <3>4, <4>1 DEF Done, Rewritten, Current, Sending
      <3>6. Clean(x)  BY <3>2, <3>5 DEF SagaOK
      <3>7. mem[p].before[x] = pol[x]
        BY <1>0, <2>0, <2>3, <3>1, <3>4 DEF Context, ReadInv, ReadOK, UpToDate, Policies
      <3>8. answer'[p] = "applied"
        <4>1. pol[w.policy].etag \in Nat  BY <1>2, <2>0 DEF Context, TypeOK, Policy
        <4> QED  BY <1>2, <1>g, <3>3, <4>1 DEF Arrives
      <3>9. x \in Done(p)'
        BY <1>0, <2>0, <3>3, <3>4, <3>8 DEF Done, Current
      <3>10. Written(mem[p], x)'
        BY <1>0, <2>0, <3>4, <3>6, <3>7 DEF Written, Grounded, Clean
      <3> QED  BY <2>0, <3>9, <3>10 DEF SagaOK
    <2>4. ASSUME NEW p \in Processes, pc'[p] \in Undoing PROVE UndoOK(p, x)'
      <3>1. UndoOK(p, x)  BY <1>0, <2>4, <2>a DEF PairAt
      <3>2. Doubtful(mem[p], x)  BY <2>1, <3>1 DEF UndoOK
      <3>3. Settled(x)'  BY <1>2, <3>2, RevertLands DEF Doubtful
      <3>4. Grounded(mem[p], x)'  BY <1>0, <3>2 DEF Doubtful, Revertible, Grounded
      <3>5. Doubtful(mem[p], x)'
        <4>1. Revertible(mem[p], x)'  BY <3>3, <3>4 DEF Settled, Clean, Grounded, Revertible
        <4>2. \A v \in flight' : v.policy = x => Harmless(mem[p], v)'  BY <2>0 DEF Harmless
        <4> QED  BY <4>1, <4>2 DEF Doubtful
      <3> QED  BY <3>3, <3>4, <3>5 DEF UndoOK
    <2>5. ASSUME checkpoint.phase \notin Sending, \A p \in Processes : ~Begun(p)
          PROVE  HaltedOK(x)'
      <3>1. HaltedOK(x)  BY <2>2, <2>5, <2>a DEF PairAt
      <3>2. Doubtful(checkpoint, x)  BY <2>1, <3>1 DEF HaltedOK
      <3>3. Settled(x)'  BY <1>2, <3>2, RevertLands DEF Doubtful
      <3>4. Grounded(checkpoint, x)'  BY <1>0, <3>2 DEF Doubtful, Revertible, Grounded
      <3>5. Doubtful(checkpoint, x)'
        <4>1. Revertible(checkpoint, x)'  BY <3>3, <3>4 DEF Settled, Clean, Grounded, Revertible
        <4>2. \A v \in flight' : v.policy = x => Harmless(checkpoint, v)'  BY <2>0 DEF Harmless
        <4> QED  BY <4>1, <4>2 DEF Doubtful
      <3> QED  BY <3>3, <3>5 DEF HaltedOK
    <2> QED  BY <1>0, <2>2, <2>3, <2>4, <2>5 DEF PairAt
  <1> QED  BY <1>1, <1>2 DEF PairInv

\* Others may add to a policy what they like; only their own grants grow.
LEMMA EditPairStep ==
    ASSUME Context, Edits
    PROVE  PairInv'
  <1>0. /\ UNCHANGED <<principals, stranded, baseline, checkpoint, flight, answer, pc, mem, todo>>
        /\ \A p \in Processes : Begun(p)' <=> Begun(p)
    BY DEF Edits, Begun
  <1>1. PICK y \in Policies, m \in Members :
          /\ pol'[y].members = pol[y].members \union {m} /\ pol'[y].etag = pol[y].etag + 1
          /\ others'[y] = IF m \in pol[y].members THEN others[y] ELSE others[y] \union {m}
          /\ \A x \in Policies \ {y} : pol'[x] = pol[x] /\ others'[x] = others[x]
    BY DEF Edits
  <1>2. \A p, x : /\ x \in Done(p)' <=> x \in Done(p)
                  /\ Restored(p, x)' <=> Restored(p, x)
    BY <1>0 DEF Done, Restored, Rewritten, Current, Left
  <1>3. ASSUME NEW x \in Policies, x # y PROVE PairAt(x)'
    <2>1. Kept(x)  BY <1>0, <1>1, <1>3 DEF Kept
    <2> QED  BY <1>0, <1>2, <2>1, GoesOn DEF Context, PairInv
  <1>4. PairAt(y)'
    <2>a. PairAt(y)  BY DEF Context, PairInv
    <2>0. \A v \in flight' : v.policy = y => Stale(v)'
      <3>1. TAKE v \in flight'
      <3>2. HAVE v.policy = y
      <3>3. v.etag <= pol[y].etag /\ v.etag \in Nat  BY <1>0, <3>2 DEF Context, FlightInv, TypeOK, Write
      <3>4. pol[y].etag \in Nat  BY DEF Context, TypeOK, Policy
      <3> QED  BY <1>1, <3>2, <3>3, <3>4 DEF Stale
    <2>1. Clean(y) => Settled(y)'  BY <1>0, <1>1, <2>0 DEF Clean, Settled, AllStale
    <2>2. ASSUME NEW p \in Processes, pc'[p] \in Saga PROVE SagaOK(p, y)'
      <3>1. SagaOK(p, y)  BY <1>0, <2>2, <2>a DEF PairAt
      <3>2. Written(mem[p], y) => Written(mem[p], y)'  BY <1>0, <1>1 DEF Written, Grounded
      <3> QED  BY <1>2, <2>0, <2>1, <3>1, <3>2 DEF SagaOK, Settled
    <2>3. ASSUME NEW p \in Processes, pc'[p] \in Undoing PROVE UndoOK(p, y)'
      <3>1. UndoOK(p, y)  BY <1>0, <2>3, <2>a DEF PairAt
      <3>2. Revertible(mem[p], y) => Doubtful(mem[p], y)'
        <4>1. Revertible(mem[p], y) => Revertible(mem[p], y)'
          BY <1>0, <1>1 DEF Revertible, Grounded
        <4> QED  BY <2>0, <4>1 DEF Doubtful, Harmless
      <3>3. Grounded(mem[p], y) => Grounded(mem[p], y)'  BY <1>0, <1>1 DEF Grounded
      <3>4. y \in Rewritten(mem[p].phase)' => y \in Rewritten(mem[p].phase)  BY <1>0 DEF Rewritten
      <3> QED  BY <1>2, <2>1, <3>1, <3>2, <3>3, <3>4 DEF UndoOK, Settled, Doubtful
    <2>4. HaltedOK(y) => HaltedOK(y)'
      <3>2. Revertible(checkpoint, y) => Doubtful(checkpoint, y)'
        <4>1. Revertible(checkpoint, y) => Revertible(checkpoint, y)'
          BY <1>0, <1>1 DEF Revertible, Grounded
        <4> QED  BY <2>0, <4>1 DEF Doubtful, Harmless
      <3>4. Rewritten(checkpoint.phase)' = Rewritten(checkpoint.phase)  BY <1>0 DEF Rewritten
      <3> QED  BY <2>1, <3>2, <3>4 DEF HaltedOK, Settled, Doubtful
    <2> QED  BY <1>0, <2>1, <2>2, <2>3, <2>4, <2>a DEF PairAt, Settled
  <1> QED  BY <1>3, <1>4 DEF PairInv

LEMMA PairStep ==
    ASSUME Context, CoverInv', ~crossed', ~LateUnavailable, Shape
    PROVE  PairInv'
  <1>1. CASE Stutters
    BY <1>1, StaysPut DEF Stutters, Begun, Context
  <1> QED
    BY <1>1, HandlerPairStep, UndoPairStep, WakePairStep, ForgetPairStep, ArrivePairStep,
       EditPairStep DEF Shape

\* All of it holds until a reconciliation crosses a live update.
Uncrossed == TypeInv /\ (crossed \/ Context)

LEMMA ContextInvariant == ASSUME ~LateUnavailable PROVE Spec => []Uncrossed
  <1>1. Init => Uncrossed
    BY TypeInit, CoverInit, ReadInit, PairInit DEF Uncrossed, TypeInv, Context
  <1>2. Uncrossed /\ [Next]_vars => Uncrossed'
    <2>1. SUFFICES ASSUME Uncrossed, [Next]_vars PROVE Uncrossed'  OBVIOUS
    <2>2. TypeInv  BY <2>1 DEF Uncrossed
    <2>3. Shape /\ TypeOK'  BY <2>1, <2>2, ShapeOfStep, TypeStep DEF TypeInv
    <2>4. LocalInv'  BY <2>2, <2>3, LocalStep DEF TypeInv
    <2>5. ASSUME ~crossed' PROVE Context'
      <3>1. Context  BY <2>1, <2>5, CrossedStays DEF Uncrossed
      <3>2. CoverInv'  BY <2>2, <2>3, <2>5, <3>1, CoverStep DEF Context
      <3>3. ReadInv' /\ FlightInv'  BY <2>3, <3>1, ReadStep, FlightStep DEF Context
      <3>4. PairInv'  BY <2>3, <2>5, <3>1, <3>2, PairStep
      <3> QED  BY <2>3, <2>4, <3>2, <3>3, <3>4 DEF Context
    <2> QED  BY <2>3, <2>4, <2>5 DEF Uncrossed, TypeInv
  <1> QED  BY <1>1, <1>2, PTL DEF Spec

\* The update is atomic: whenever the record holds none open, both policies
\* grant what the record says and nothing more, apart from what others have
\* granted and from members whom an update left behind because it had read the
\* record before they were added; until a reconciliation takes up the checkpoint
\* of a live update, and if 503 means that nothing was written.
THEOREM UpdatesAreAtomic ==
    ASSUME ~LateUnavailable
    PROVE  Spec => []PairAgrees
  <1>1. Uncrossed => PairAgrees
    BY DEF Uncrossed, Context, PairInv, PairAt, Settled, Clean, PairAgrees, Agree
  <1> QED  BY <1>1, ContextInvariant, PTL

----------------------------------------------------------------------------
(* The update refines PolicyPair. Whenever the record is closed the          *)
(* deployment grants what it says, so the grants of others, the members left *)
(* behind and the requests that arrive late are invisible; while it is open every write is a write.  *)

LEMMA ShownAlike ==
    ASSUME NEW P, NEW O, NEW M, P \subseteq M, M \subseteq P \union O
    PROVE  (M \ O) \union (M \intersect P) = P
  OBVIOUS

LEMMA ClosedShows ==
    ASSUME PairInv, checkpoint.id = 0
    PROVE  Live = [x \in Policies |-> principals]
  <1>1. ASSUME NEW x \in Policies
        PROVE  (pol[x].members \ (others[x] \union stranded)) \union (pol[x].members \intersect principals)
               = principals
    BY ShownAlike DEF PairInv, PairAt, Settled, Clean
  <1> QED  BY <1>1 DEF Live

\* The same of the next state.
LEMMA ClosedShowsNext ==
    ASSUME PairInv', checkpoint'.id = 0
    PROVE  Live' = [x \in Policies |-> principals']
  <1>1. ASSUME NEW x \in Policies
        PROVE  (pol'[x].members \ (others'[x] \union stranded'))
               \union (pol'[x].members \intersect principals') = principals'
    BY ShownAlike DEF PairInv, PairAt, Settled, Clean
  <1> QED  BY <1>1 DEF Live

LEMMA RecordMoves ==
    ASSUME Context, Shape
    PROVE  \/ UNCHANGED principals /\ checkpoint'.id = checkpoint.id
              /\ checkpoint'.principals = checkpoint.principals
           \/ checkpoint.id = 0 /\ checkpoint'.id # 0 /\ UNCHANGED <<principals, stranded, pol, others>>
           \/ checkpoint.id # 0 /\ checkpoint' = NoCheckpoint
              /\ principals' \in {principals, checkpoint.principals}
  <1>b. \A p \in Processes : pc[p] \in Saga \union Undoing => checkpoint.id # 0
    BY DEF Context, CoverInv, Covered, Begun
  <1>1. ASSUME NEW h \in Handlers, HandlerStep(h)
        PROVE  \/ UNCHANGED <<principals, checkpoint>>
               \/ UNCHANGED principals /\ SameBut(checkpoint', checkpoint)
               \/ Opens(h) \/ Commits(h)
    BY <1>1
    DEF HandlerStep, Prepares, Quits, RollsBack, Marks, Sends, Applies, Records, Quiet, Record3
  <1>2. ASSUME NEW p \in Processes, UndoStep(p)
        PROVE  UNCHANGED <<principals, checkpoint>> \/ Closes(p)
    BY <1>2 DEF UndoStep, Reads, Undoes, Hears, Quits, Quiet, Record3
  <1>3. ASSUME NEW h \in Handlers, Opens(h)
        PROVE  checkpoint.id = 0 /\ checkpoint'.id # 0 /\ UNCHANGED <<principals, stranded, pol, others>>
    BY <1>3 DEF Opens, Quiet, Record3, Context, CoverInv
  <1>4. ASSUME NEW h \in Handlers, Commits(h)
        PROVE  checkpoint.id # 0 /\ checkpoint' = NoCheckpoint
               /\ principals' \in {principals, checkpoint.principals}
    BY <1>4, <1>b DEF Commits, Saga, Processes
  <1>5. ASSUME NEW p \in Processes, Closes(p)
        PROVE  \/ UNCHANGED <<principals, checkpoint>>
               \/ checkpoint.id # 0 /\ checkpoint' = NoCheckpoint
                  /\ principals' \in {principals, checkpoint.principals}
    BY <1>5, <1>b DEF Closes, Undoing
  <1>6. Wakes \/ Forgets \/ (\E w \in flight : Arrives(w)) \/ Edits \/ Stutters
        => UNCHANGED <<principals, checkpoint>>
    BY DEF Wakes, Forgets, Arrives, Edits, Stutters, Record3
  <1> QED  BY <1>1, <1>2, <1>3, <1>4, <1>5, <1>6 DEF Shape, SameBut

LEMMA LiveType == ASSUME TypeOK' PROVE Live' \in [Policies -> SUBSET Members]
  <1>1. ASSUME NEW x \in Policies
        PROVE  (pol'[x].members \ (others'[x] \union stranded'))
               \union (pol'[x].members \intersect principals')
               \in SUBSET Members
    BY DEF TypeOK, Policy
  <1> QED  BY <1>1 DEF Live

LEMMA PairRefines ==
    ASSUME Context, Context', Shape
    PROVE  Pair!Next \/ UNCHANGED <<principals, checkpoint.principals, checkpoint.id # 0, Live>>
  <1>t. /\ Live' \in [Policies -> SUBSET Members] /\ checkpoint'.principals \in SUBSET Members
    <2>1. TypeOK'  BY DEF Context
    <2>2. Live' \in [Policies -> SUBSET Members]  BY <2>1, LiveType
    <2> QED  BY <2>1, <2>2 DEF TypeOK, Checkpoint
  <1>c. /\ checkpoint.id = 0 => Live = [x \in Policies |-> principals]
        /\ checkpoint'.id = 0 => Live' = [x \in Policies |-> principals']
    BY ClosedShows, ClosedShowsNext DEF Context
  <1>1. CASE UNCHANGED principals /\ checkpoint'.id = checkpoint.id
             /\ checkpoint'.principals = checkpoint.principals
    <2>1. CASE checkpoint.id = 0  BY <1>1, <1>c, <2>1
    <2>2. CASE checkpoint.id # 0
      <3>1. Pair!Write  BY <1>1, <1>t, <2>2 DEF Pair!Write
      <3> QED  BY <3>1 DEF Pair!Next
    <2> QED  BY <2>1, <2>2
  <1>2. CASE checkpoint.id = 0 /\ checkpoint'.id # 0 /\ UNCHANGED <<principals, stranded, pol, others>>
    <2>1. Live' = Live  BY <1>2 DEF Live
    <2>2. Pair!Open  BY <1>2, <1>t, <2>1 DEF Pair!Open
    <2> QED  BY <2>2 DEF Pair!Next
  <1>3. CASE checkpoint.id # 0 /\ checkpoint' = NoCheckpoint
             /\ principals' \in {principals, checkpoint.principals}
    <2>1. checkpoint'.id = 0 /\ checkpoint'.principals = {}  BY <1>3 DEF NoCheckpoint
    <2>2. Pair!Close  BY <1>3, <1>c, <2>1 DEF Pair!Close
    <2> QED  BY <2>2 DEF Pair!Next
  <1> QED  BY <1>1, <1>2, <1>3, RecordMoves

\* To its record an update looks as if both policies changed at once or not at
\* all, under the same conditions.
THEOREM ImplementsPair ==
    ASSUME ~LateUnavailable
    PROVE  Spec => ChangesAsPair
  <1>1. Init => Pair!Init
    <2>1. SUFFICES ASSUME Init PROVE Pair!Init  OBVIOUS
    <2>2. ASSUME NEW x \in Policies
          PROVE  (pol[x].members \ (others[x] \union stranded)) \union (pol[x].members \intersect principals) = Initial
      BY <2>1 DEF Init
    <2>3. Live = [x \in Policies |-> Initial]  BY <2>2 DEF Live
    <2> QED  BY <2>1, <2>3 DEF Pair!Init, Init, NoCheckpoint
  <1>2. Uncrossed /\ Uncrossed' /\ [Next]_vars
        => [Pair!Next \/ crossed']_<<principals, checkpoint.principals, checkpoint.id # 0, Live>>
    <2>1. SUFFICES ASSUME Uncrossed, Uncrossed', [Next]_vars, ~crossed'
                   PROVE  [Pair!Next]_<<principals, checkpoint.principals, checkpoint.id # 0, Live>>
      OBVIOUS
    <2>2. Context /\ Context'  BY <2>1, CrossedStays DEF Uncrossed
    <2>3. Shape  BY <2>1, <2>2, ShapeOfStep DEF Context
    <2> QED  BY <2>2, <2>3, PairRefines
  <1> QED  BY <1>1, <1>2, ContextInvariant, PTL DEF Spec, ChangesAsPair
=============================================================================
