---------------------------- MODULE PolicyUpdate ----------------------------
(* Changing who may use a finished deployment: two IAM policies, of the      *)
(* application and of the gateway, are rewritten one after the other under a *)
(* durable checkpoint (background/router.ts, storage/repository.ts), and the *)
(* reconciliation of a new worker takes back what a dead one left half done. *)
EXTENDS Naturals, Sequences

CONSTANTS
    Members,        \* principals that may be granted access
    Initial,        \* those of the deployment's specification
    Handlers,       \* message handlers of the worker
    Reconciler,     \* ensureColdStartReconciled
    LateUnavailable,\* may 503 answer a write that the provider has made?
    MaxRequests,    \* bound: updates, and bootstraps that restore the deployer
    MaxEdits,       \* bound: policy edits by other administrators
    MaxCrashes,     \* bound: worker deaths
    MaxFaults       \* bound: compensations that fail

ASSUME InitialAssumption == Initial \subseteq Members
ASSUME ReconcilerAssumption == Reconciler \notin Handlers /\ "gone" \notin Handlers \union {Reconciler}
ASSUME FlagAssumption == LateUnavailable \in BOOLEAN
ASSUME BoundsAssumption ==
    /\ MaxRequests \in Nat /\ MaxEdits \in Nat /\ MaxCrashes \in Nat
    /\ MaxFaults \in Nat

VARIABLES
    principals, \* policyPrincipals of the run record
    checkpoint, \* its policyUpdateCheckpoint
    baseline,   \* how often the inventory's IAM images were moved forward
    pol,        \* external: the members and the etag of each policy
    others,     \* external: members that somebody else has granted
    flight,     \* external: policy writes that are under way
    answer,     \* the provider's answer to each process
    wrote,      \* history: policies that the open update has rewritten
    stranded,   \* history: members whom a committed update did not know of
    crossed,    \* history: has a reconciliation taken up a live checkpoint?
    pc,         \* where each process stands
    mem,        \* its copy of the checkpoint
    todo,       \* policies it still has to restore
    got,        \* the policy it read in order to restore it
    cold,       \* has this worker reconciled durable state?
    requests, edits, crashes, faults

durable == <<principals, checkpoint, baseline>>
provider == <<pol, others, flight, answer, wrote>>
history == <<stranded, crossed>>
local == <<pc, mem, todo, got>>
counters == <<requests, edits, crashes, faults>>
vars == <<durable, provider, history, local, cold, counters>>

Processes == Handlers \union {Reconciler}
Policies == {"application", "gateway"}
Phases == {"prepared", "application_sending", "application_applied",
           "gateway_sending", "gateway_applied"}
PCs == {"idle", "inventory", "gateway", "application", "begin", "mark", "post", "wait",
        "record", "commit", "undo", "restore", "undoing"}
Answers == {"none", "applied", "aborted", "refused", "unavailable"}

Policy == [members : SUBSET Members, etag : Nat]
Checkpoint == [id : Nat, phase : Phases, principals : SUBSET Members,
               previous : SUBSET Members, baseline : Nat,
               before : [Policies -> Policy], after : [Policies -> SUBSET Members]]
Write == [from : Processes \union {"gone"}, policy : Policies, members : SUBSET Members,
          etag : Nat, update : Nat]

NoPolicy == [members |-> {}, etag |-> 0]

\* id 0: there is no checkpoint.
NoCheckpoint ==
    [id |-> 0, phase |-> "prepared", principals |-> {}, previous |-> {}, baseline |-> 0,
     before |-> [x \in Policies |-> NoPolicy], after |-> [x \in Policies |-> {}]]

TypeOK ==
    /\ principals \subseteq Members /\ checkpoint \in Checkpoint /\ baseline \in Nat
    /\ pol \in [Policies -> Policy] /\ others \in [Policies -> SUBSET Members]
    /\ flight \subseteq Write /\ answer \in [Processes -> Answers] /\ wrote \subseteq Policies
    /\ pc \in [Processes -> PCs] /\ mem \in [Processes -> Checkpoint]
    /\ todo \in [Processes -> Seq(Policies)] /\ got \in [Processes -> Policy]
    /\ cold \in BOOLEAN /\ stranded \subseteq Members /\ crossed \in BOOLEAN
    /\ requests \in Nat /\ edits \in Nat /\ crashes \in Nat /\ faults \in Nat

----------------------------------------------------------------------------
Goto(p, l) == pc' = [pc EXCEPT ![p] = l]

\* A handler that returns keeps nothing; the reconciliation is then over.
Return(p) ==
    /\ Goto(p, "idle")
    /\ mem' = [mem EXCEPT ![p] = NoCheckpoint]
    /\ todo' = [todo EXCEPT ![p] = <<>>]
    /\ got' = [got EXCEPT ![p] = NoPolicy]
    /\ cold' = (cold \/ p = Reconciler)

\* replaceOwnedIamBinding: the members this run managed make way for the new ones.
replaceOwned(members, previous, target) == (members \ previous) \union target

\* revertIamPolicyDelta: the difference the update made is taken back.
revertDelta(before, after, current) == (current \ (after \ before)) \union (before \ after)

Sending == {"application_sending", "gateway_sending"}

\* policyUpdateCompensationTargets: a write that was sent and never answered
\* is nobody's to take back.
Ambiguous(phase, rejected) == phase \in Sending /\ ~rejected

\* Bug: the write that was under way is taken back, too.
ProvenMutant(phase) ==
    CASE phase = "prepared" -> <<>>
      [] phase \in {"application_sending", "application_applied"} -> <<"application">>
      [] phase \in {"gateway_sending", "gateway_applied"} -> <<"application", "gateway">>

\* The policies whose rewriting was confirmed.
Proven(phase) ==
    CASE phase \in {"prepared", "application_sending"} -> <<>>
      [] phase \in {"application_applied", "gateway_sending"} -> <<"application">>
      [] phase = "gateway_applied" -> <<"application", "gateway">>

\* The catch block: keep the checkpoint for manual review, or compensate.
Fail(p, rejected) ==
    \/ Ambiguous(mem[p].phase, rejected) /\ Return(p)
    \/ /\ ~Ambiguous(mem[p].phase, rejected)
       /\ todo' = [todo EXCEPT ![p] = Proven(mem[p].phase)]
       /\ Goto(p, "undo")
       /\ UNCHANGED <<mem, got, cold>>

\* The process has taken note of its answer.
Consume(p) == answer' = [answer EXCEPT ![p] = "none"]

\* A request leaves for the provider.
Send(p, x, members, etag, id) ==
    /\ flight' = flight \union {[from |-> p, policy |-> x, members |-> members,
                                 etag |-> etag, update |-> id]}
    /\ Consume(p)
    /\ UNCHANGED <<pol, others, wrote>>

\* Nobody waits for what is still under way.
Abandon(p) == flight' = {[w EXCEPT !.from = IF @ = p THEN "gone" ELSE @] : w \in flight}

----------------------------------------------------------------------------
(* POST update-access-level: reads first, each at its own time.             *)

\* The principals of the specification are always among the new ones.
Request(h, requested) ==
    /\ cold /\ pc[h] = "idle" /\ requests < MaxRequests
    /\ checkpoint.id = 0
    /\ requests' = requests + 1
    /\ mem' = [mem EXCEPT ![h] = [NoCheckpoint EXCEPT !.id = requests + 1,
                                     !.principals = Initial \union requested,
                                     !.previous = principals]]
    /\ Goto(h, "inventory")
    /\ UNCHANGED <<durable, provider, todo, got, cold, edits, crashes, faults, history>>

ReadInventory(h) ==
    /\ pc[h] = "inventory"
    /\ mem' = [mem EXCEPT ![h].baseline = baseline]
    /\ Goto(h, "gateway")
    /\ UNCHANGED <<durable, provider, todo, got, cold, counters, history>>

\* The gateway's policy is read first, then the application's.
ReadPolicy(h, x) ==
    /\ x \in Policies /\ pc[h] = x
    /\ mem' = [mem EXCEPT ![h].before[x] = pol[x],
                          ![h].after[x] = replaceOwned(pol[x].members, mem[h].previous,
                                                       mem[h].principals)]
    /\ Goto(h, IF x = "gateway" THEN "application" ELSE "begin")
    /\ UNCHANGED <<durable, provider, todo, got, cold, counters, history>>

\* Bug: an update that another handler began is overlooked.
BeginMutant(h) ==
    /\ pc[h] = "begin"
    /\ checkpoint' = mem[h] /\ Goto(h, "mark")
    /\ UNCHANGED <<principals, baseline, provider, mem, todo, got, cold, counters, history>>

\* beginRunPolicyUpdate: refused while the slot is taken.
Begin(h) ==
    /\ pc[h] = "begin"
    /\ \/ /\ checkpoint.id = 0
          /\ checkpoint' = mem[h] /\ Goto(h, "mark")
          /\ UNCHANGED <<mem, todo, got, cold>>
       \/ Return(h) /\ UNCHANGED checkpoint
    /\ UNCHANGED <<principals, baseline, provider, counters, history>>

----------------------------------------------------------------------------
(* The saga: every write between two commits of its phase.                   *)

Current(phase) == IF phase \in {"prepared", "application_sending"} THEN "application" ELSE "gateway"

SendingOf == [prepared |-> "application_sending", application_applied |-> "gateway_sending"]
AppliedOf == [application_sending |-> "application_applied", gateway_sending |-> "gateway_applied"]

\* checkpointRunPolicyUpdatePhase: only the checkpoint's own handler moves it on.
Checkpointed(h, phase) ==
    /\ checkpoint.id = mem[h].id
    /\ checkpoint' = [checkpoint EXCEPT !.phase = phase]

\* Commit that a write is about to be sent. The store may refuse.
Mark(h) ==
    /\ pc[h] = "mark"
    /\ \/ /\ Checkpointed(h, SendingOf[mem[h].phase])
          /\ mem' = [mem EXCEPT ![h].phase = SendingOf[@]]
          /\ Goto(h, "post") /\ UNCHANGED <<todo, got, cold>>
       \/ Fail(h, FALSE) /\ UNCHANGED checkpoint
    /\ UNCHANGED <<principals, baseline, provider, counters, history>>

Post(h) ==
    LET x == Current(mem[h].phase) IN
    /\ pc[h] = "post"
    /\ Send(h, x, mem[h].after[x], mem[h].before[x].etag, mem[h].id)
    /\ Goto(h, "wait")
    /\ UNCHANGED <<durable, mem, todo, got, cold, counters, history>>

PostApplied(h) ==
    /\ pc[h] = "wait" /\ answer[h] = "applied"
    /\ mem' = [mem EXCEPT ![h].phase = AppliedOf[@]]
    /\ Consume(h) /\ Goto(h, "record")
    /\ UNCHANGED <<durable, pol, others, flight, wrote, todo, got, cold, counters, history>>

\* A refusal, or an etag conflict, proves that this write was not made.
PostRejected(h) ==
    /\ pc[h] = "wait" /\ answer[h] \in {"aborted", "refused"}
    /\ Consume(h) /\ Fail(h, TRUE)
    /\ UNCHANGED <<durable, pol, others, flight, wrote, counters, history>>

\* Any other answer, or none at all; the request may still arrive.
PostLost(h) ==
    /\ pc[h] = "wait"
    /\ Consume(h) /\ Fail(h, FALSE) /\ Abandon(h)
    /\ UNCHANGED <<durable, pol, others, wrote, counters, history>>

\* The transport sends a request that was answered with 429 or 503 once more.
PostAgain(h) ==
    LET x == Current(mem[h].phase) IN
    /\ pc[h] = "wait" /\ answer[h] = "unavailable"
    /\ Send(h, x, mem[h].after[x], mem[h].before[x].etag, mem[h].id)
    /\ UNCHANGED <<durable, local, cold, counters, history>>

\* Commit that the write was made.
Record(h) ==
    /\ pc[h] = "record"
    /\ \/ /\ Checkpointed(h, mem[h].phase)
          /\ Goto(h, IF mem[h].phase = "gateway_applied" THEN "commit" ELSE "mark")
          /\ UNCHANGED <<mem, todo, got, cold>>
       \/ Fail(h, FALSE) /\ UNCHANGED checkpoint
    /\ UNCHANGED <<principals, baseline, provider, counters, history>>

\* The grants of others that the record now names are the run's own.
Adopt(owned) == others' = [x \in Policies |-> others[x] \ owned]

\* Bug: the inventory is moved forward without comparing it.
UnchangedInventoryMutant(h) == TRUE

UnchangedInventory(h) == mem[h].baseline = baseline

\* Whom another update added after this one had read the record and before it
\* read the inventory: it has not removed them, and the record forgets them.
Forgotten(h) == IF mem[h].baseline = baseline THEN principals \ mem[h].previous ELSE {}

\* commitRunPolicyUpdate: record, inventory and checkpoint in one transaction.
Commit(h) ==
    /\ pc[h] = "commit"
    /\ \/ /\ checkpoint.id = mem[h].id /\ checkpoint.phase = "gateway_applied"
          /\ UnchangedInventory(h)
          /\ principals' = checkpoint.principals
          /\ baseline' = baseline + 1
          /\ checkpoint' = NoCheckpoint /\ wrote' = {}
          /\ Adopt(checkpoint.principals)
          /\ stranded' = (stranded \union Forgotten(h)) \ checkpoint.principals
          /\ Return(h)
       \/ Fail(h, FALSE) /\ UNCHANGED <<durable, others, wrote, stranded>>
    /\ UNCHANGED <<pol, flight, answer, crossed, counters>>

----------------------------------------------------------------------------
(* Compensation, by the handler or by the reconciliation.                    *)

\* restoreIamPolicyWithFreshEtag: read, ...
UndoRead(p) ==
    /\ pc[p] = "undo" /\ todo[p] # <<>>
    /\ got' = [got EXCEPT ![p] = pol[Head(todo[p])]]
    /\ Goto(p, "restore")
    /\ UNCHANGED <<durable, provider, mem, todo, cold, counters, history>>

\* ... write what is left without the update's own delta, ...
UndoPost(p) ==
    LET x == Head(todo[p])
        c == mem[p]
    IN
    /\ pc[p] = "restore"
    /\ Send(p, x, revertDelta(c.before[x].members, c.after[x], got[p].members), got[p].etag, 0)
    /\ Goto(p, "undoing")
    /\ UNCHANGED <<durable, mem, todo, got, cold, counters, history>>

\* Bug: a conflict is taken for success.
UndoAnsweredMutant(p) ==
    /\ pc[p] = "undoing" /\ answer[p] \in {"applied", "aborted"}
    /\ todo' = [todo EXCEPT ![p] = Tail(@)]
    /\ Consume(p) /\ Goto(p, "undo") /\ got' = [got EXCEPT ![p] = NoPolicy]
    /\ UNCHANGED <<durable, pol, others, flight, wrote, mem, cold, counters, history>>

\* ... and read again when somebody else was faster.
UndoAnswered(p) ==
    /\ pc[p] = "undoing"
    /\ \/ answer[p] = "applied" /\ todo' = [todo EXCEPT ![p] = Tail(@)]
       \/ answer[p] = "aborted" /\ UNCHANGED todo
    /\ Consume(p) /\ Goto(p, "undo") /\ got' = [got EXCEPT ![p] = NoPolicy]
    /\ UNCHANGED <<durable, pol, others, flight, wrote, mem, cold, counters, history>>

\* An answer is lost or a refusal final: the checkpoint stays as it is.
UndoFails(p) ==
    /\ pc[p] \in {"undo", "restore", "undoing"} /\ faults < MaxFaults
    /\ faults' = faults + 1
    /\ Return(p) /\ Consume(p) /\ Abandon(p)
    /\ UNCHANGED <<durable, pol, others, wrote, requests, edits, crashes, history>>

\* abortRunPolicyUpdate, for the checkpoint it was begun with only.
UndoAbort(p) ==
    /\ pc[p] = "undo" /\ todo[p] = <<>>
    /\ \/ /\ checkpoint.id = mem[p].id
          /\ checkpoint' = NoCheckpoint /\ wrote' = {} /\ Adopt(principals)
       \/ checkpoint.id # mem[p].id /\ UNCHANGED <<checkpoint, others, wrote>>
    /\ Return(p)
    /\ UNCHANGED <<principals, baseline, pol, flight, answer, counters, history>>

----------------------------------------------------------------------------
(* The worker and the world.                                                 *)

\* A handler of this worker that has begun the open update.
HasBegun(h) == pc[h] # "idle" /\ mem[h].id = checkpoint.id

\* Bug: a new worker leaves checkpoints alone.
ColdStartMutant ==
    /\ ~cold /\ pc[Reconciler] = "idle"
    /\ cold' = TRUE
    /\ UNCHANGED <<durable, provider, history, local, counters>>

\* ensureColdStartReconciled works on the records as it read them.
ColdStart ==
    /\ ~cold /\ pc[Reconciler] = "idle"
    /\ IF checkpoint.id = 0 \/ Ambiguous(checkpoint.phase, FALSE)
       THEN cold' = TRUE /\ UNCHANGED <<local, crossed>>
       ELSE /\ mem' = [mem EXCEPT ![Reconciler] = checkpoint]
            /\ todo' = [todo EXCEPT ![Reconciler] = Proven(checkpoint.phase)]
            /\ Goto(Reconciler, "undo")
            /\ crossed' = (crossed \/ \E h \in Handlers : HasBegun(h))
            /\ UNCHANGED <<got, cold>>
    /\ UNCHANGED <<durable, provider, stranded, counters>>

\* rememberDeployer has it run once more, whatever the handlers are doing.
RestoreDeployer ==
    /\ cold /\ requests < MaxRequests
    /\ cold' = FALSE /\ requests' = requests + 1
    /\ UNCHANGED <<durable, provider, history, local, edits, crashes, faults>>

\* The browser ends the worker; requests that left it may still arrive.
Die ==
    /\ pc' = [p \in Processes |-> "idle"]
    /\ mem' = [p \in Processes |-> NoCheckpoint]
    /\ todo' = [p \in Processes |-> <<>>]
    /\ got' = [p \in Processes |-> NoPolicy]
    /\ answer' = [p \in Processes |-> "none"]
    /\ flight' = {[w EXCEPT !.from = "gone"] : w \in flight}
    /\ cold' = FALSE
    /\ UNCHANGED <<durable, pol, others, wrote, requests, edits, faults, history>>

Idle == \A p \in Processes : pc[p] = "idle"

Crash == ~Idle /\ crashes < MaxCrashes /\ crashes' = crashes + 1 /\ Die

IdleKill == cold /\ Idle /\ Die /\ UNCHANGED crashes

Answer(w, a) == answer' = IF w.from = "gone" THEN answer ELSE [answer EXCEPT ![w.from] = a]

\* External: setIamPolicy succeeds only for the etag that the policy has.
Land(w) ==
    /\ w \in flight /\ flight' = flight \ {w}
    /\ \/ /\ w.etag = pol[w.policy].etag
          /\ pol' = [pol EXCEPT ![w.policy] = [members |-> w.members, etag |-> @.etag + 1]]
          /\ wrote' = IF w.update = checkpoint.id /\ w.update # 0 THEN wrote \union {w.policy} ELSE wrote
          /\ \/ Answer(w, "applied")
             \/ LateUnavailable /\ w.update # 0 /\ Answer(w, "unavailable")
       \/ w.etag # pol[w.policy].etag /\ Answer(w, "aborted") /\ UNCHANGED <<pol, wrote>>
    /\ UNCHANGED <<durable, others, local, cold, counters, history>>

\* External: the provider refuses for a reason of its own, or for now.
Refuse(w) ==
    /\ w \in flight /\ flight' = flight \ {w}
    /\ w.update # 0
    /\ Answer(w, "refused") \/ Answer(w, "unavailable")
    /\ UNCHANGED <<durable, pol, others, wrote, local, cold, counters, history>>

\* External: another administrator edits a policy, and may grant a member.
ForeignEdit(x, m) ==
    /\ edits < MaxEdits
    /\ edits' = edits + 1
    /\ pol' = [pol EXCEPT ![x] = [members |-> @.members \union {m}, etag |-> @.etag + 1]]
    /\ others' = [others EXCEPT ![x] = IF m \in pol[x].members THEN @ ELSE @ \union {m}]
    /\ UNCHANGED <<durable, flight, answer, wrote, local, cold, requests, crashes, faults, history>>

----------------------------------------------------------------------------
Init ==
    /\ principals = Initial /\ checkpoint = NoCheckpoint /\ baseline = 0
    /\ pol = [x \in Policies |-> [members |-> Initial, etag |-> 0]]
    /\ others = [x \in Policies |-> {}]
    /\ flight = {} /\ answer = [p \in Processes |-> "none"] /\ wrote = {}
    /\ stranded = {} /\ crossed = FALSE
    /\ pc = [p \in Processes |-> "idle"]
    /\ mem = [p \in Processes |-> NoCheckpoint]
    /\ todo = [p \in Processes |-> <<>>]
    /\ got = [p \in Processes |-> NoPolicy]
    /\ cold = FALSE
    /\ requests = 0 /\ edits = 0 /\ crashes = 0 /\ faults = 0

Undo(p) == UndoRead(p) \/ UndoPost(p) \/ UndoAnswered(p) \/ UndoFails(p) \/ UndoAbort(p)

Handle(h) ==
    \/ ReadInventory(h) \/ (\E x \in Policies : ReadPolicy(h, x)) \/ Begin(h)
    \/ Mark(h) \/ Post(h) \/ PostApplied(h) \/ PostRejected(h) \/ PostLost(h)
    \/ Record(h) \/ Commit(h)

Next ==
    \/ \E h \in Handlers : Handle(h) \/ PostAgain(h)
    \/ \E h \in Handlers, requested \in SUBSET (Members \ Initial) : Request(h, requested)
    \/ \E p \in Processes : Undo(p)
    \/ ColdStart \/ RestoreDeployer \/ Crash \/ IdleKill
    \/ \E w \in flight : Land(w) \/ Refuse(w)
    \/ \E x \in Policies, m \in Members : ForeignEdit(x, m)

Spec == Init /\ [][Next]_vars

\* Handlers run to their end and the provider answers; Chrome stops an idle
\* worker, and a later event starts a new one.
FairSpec ==
    /\ Spec
    /\ \A h \in Handlers : WF_vars(Handle(h))
    /\ \A p \in Processes : WF_vars(Undo(p))
    /\ WF_vars(ColdStart) /\ WF_vars(IdleKill)
    /\ WF_vars(\E w \in flight : Land(w))

----------------------------------------------------------------------------
(* What an update must guarantee.                                            *)

\* Both policies grant what the record says, apart from what other administrators
\* have granted themselves, and from a few more.
Agree(more) ==
    \A x \in Policies : /\ principals \subseteq pol[x].members
                        /\ pol[x].members \subseteq principals \union others[x] \union more

\* The update is atomic: with no checkpoint the policies agree with the record,
\* except for members whom an update left behind because it had read the record
\* before they were added; as long as no reconciliation crossed a live update.
PairAgrees == checkpoint.id = 0 /\ ~crossed => Agree(stranded)

\* Not true of the code: nobody is left behind, ...
PairIsExact == checkpoint.id = 0 /\ ~crossed => Agree({})

\* ... and a deployer may be restored while an update runs.
RestoreIsHarmless == checkpoint.id = 0 => Agree(stranded)

\* A policy is written only under the checkpoint that covers the write: a
\* request under way belongs to an update that the record still holds open,
\* also when a restored deployer starts a reconciliation among handlers that
\* are still reading; only one that takes up a live checkpoint is left aside.
WritesUnderCheckpoint ==
    ~crossed =>
        \A p \in Processes : pc[p] \in {"post", "wait", "restore", "undoing"} =>
            checkpoint.id = mem[p].id

\* What the deployment itself grants, other grants left aside.
Live == [x \in Policies |-> (pol[x].members \ (others[x] \union stranded))
                            \union (pol[x].members \intersect principals)]

\* The update refines the atomic change of module PolicyPair, for as long as no
\* reconciliation has crossed a live update.
Pair == INSTANCE PolicyPair WITH
    recorded <- principals, goal <- checkpoint.principals,
    open <- checkpoint.id # 0, live <- Live
ChangesAsPair ==
    Pair!Init /\ [][Pair!Next \/ crossed']_<<principals, checkpoint.principals,
                                             checkpoint.id # 0, Live>>

\* A checkpoint does not stay: it is committed or compensated, unless it waits
\* for the review of a write whose outcome nobody knows.
CheckpointSettles == checkpoint.id # 0 ~> checkpoint.id = 0 \/ checkpoint.phase \in Sending
=============================================================================
