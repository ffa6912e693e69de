------------------------------ MODULE CepLease ------------------------------
(* The durable leases under which Chrome Enterprise Premium tenants are       *)
(* changed, and the lifecycle slot they share with runs, policy updates and   *)
(* teardowns: the transactions of storage/repository.ts, the fence, heartbeat *)
(* and retention of withCepMutationLease in background/router.ts, and the     *)
(* list-before-create sagas of providers/cep-provider.ts that run under it.   *)
EXTENDS Naturals

CONSTANTS
    Jobs,           \* approved plans
    Requests,       \* CEP requests, told apart by their digest
    Scopes,         \* customers, organisational units and groups
    Groups,         \* those of them that are groups
    Keys,           \* cepMutationScopeKeys of each request
    Creates,        \* the scopes in which a request creates an object
    Handlers,       \* message handlers of the worker
    LeaseTime,      \* CEP_MUTATION_LEASE_MS, in heartbeats
    FlightTime,     \* how long a request may be under way, in heartbeats
    MaxFaults       \* bound: deaths, lost answers and reads, heartbeats slept through,
                    \* drivers left behind by what ended their work

\* The store refuses a request that names no scope.
ASSUME ScopesAssumption ==
    Groups \subseteq Scopes /\ Keys \in [Requests -> (SUBSET Scopes) \ {{}}]
ASSUME CreatesAssumption ==
    /\ Creates \in [Requests -> SUBSET Scopes]
    /\ \A r \in Requests : Creates[r] \subseteq Keys[r]
ASSUME BoundsAssumption == MaxFaults \in Nat

\* "Longer than the external transport timeout".
ASSUME LeaseAssumption ==
    LeaseTime \in Nat /\ FlightTime \in Nat /\ FlightTime < LeaseTime

VARIABLES
    work,       \* durable: the state of each run, policy update and teardown
    driven,     \* runs and teardowns that a driver in this worker has a copy of
    revived,    \* history: work that the save of an old copy made active again
    lease,      \* durable: the lease of each scope
    op,         \* what each handler does: its step, request, scopes to do, scope
    open,       \* ghost: requests with a create whose outcome nobody has read
    objects,    \* external: how many objects each scope holds
    flight,     \* external: creates under way
    refused,    \* handlers that wait and were refused
    faults

durable == <<work, lease>>
drivers == <<driven, revived>>
external == <<objects, flight, refused>>
vars == <<durable, drivers, op, open, external, faults>>

Work == {"run", "update", "teardown"} \X Jobs
\* What its driver saves whole; a policy update is found by its checkpoint.
SavedWhole == {"run", "teardown"} \X Jobs
Lease == [digest : Requests, owner : Handlers, left : 0 .. LeaseTime]
Create == [from : Handlers, scope : Scopes, age : 0 .. FlightTime]
Operation == [pc : {"list", "fence", "send", "wait", "confirm", "release"},
              req : Requests, todo : SUBSET Scopes, cur : Scopes]
NoLease == [left |-> 0]
Idle == [pc |-> "idle"]

TypeOK ==
    /\ work \in [Work -> {"none", "active", "stopped", "done"}]
    /\ driven \subseteq SavedWhole /\ revived \subseteq SavedWhole
    /\ lease \in [Scopes -> Lease \cup {NoLease}]
    /\ op \in [Handlers -> Operation \cup {Idle}]
    /\ open \subseteq Requests
    /\ objects \in [Scopes -> Nat] /\ flight \subseteq Create /\ refused \subseteq Handlers
    /\ faults \in Nat

----------------------------------------------------------------------------
(* The lifecycle slot.                                                       *)

Leased == {k \in Scopes : lease[k] # NoLease}

HasActiveWork(w) == work[w] = "active"

\* Bug: a lease that has expired no longer blocks anything.
SlotFreeMutant(w) ==
    /\ \A v \in Work \ {w} : ~HasActiveWork(v)
    /\ \A k \in Leased : lease[k].left = 0

\* What every transaction that takes the slot for w asks for.
SlotFree(w) == (\A v \in Work \ {w} : ~HasActiveWork(v)) /\ Leased = {}

Take(w) ==
    /\ work' = [work EXCEPT ![w] = "active"]
    /\ driven' = driven \union ({w} \intersect SavedWhole)
    /\ revived' = revived \ {w}
    /\ UNCHANGED <<lease, op, open, external, faults>>

\* consumeApprovalAndCreateRun: the approval of a plan makes one run.
Apply(j) == work[<<"run", j>>] = "none" /\ SlotFree(<<"run", j>>) /\ Take(<<"run", j>>)

\* resumeRun, which also accepts a run that is still active.
ResumeRun(j) ==
    /\ work[<<"run", j>>] \in {"active", "stopped"}
    /\ SlotFree(<<"run", j>>)
    /\ Take(<<"run", j>>)

\* beginRunPolicyUpdate: of a run that succeeded, and one at a time.
BeginRunPolicyUpdate(j) ==
    /\ work[<<"run", j>>] = "done" /\ ~HasActiveWork(<<"update", j>>)
    /\ SlotFree(<<"update", j>>)
    /\ Take(<<"update", j>>)

\* startTeardown, of a run in whatever state.
StartTeardown(j) ==
    /\ work[<<"run", j>>] # "none" /\ ~HasActiveWork(<<"teardown", j>>)
    /\ SlotFree(<<"teardown", j>>)
    /\ Take(<<"teardown", j>>)

ResumeTeardown(j) ==
    /\ work[<<"teardown", j>>] = "stopped"
    /\ SlotFree(<<"teardown", j>>)
    /\ Take(<<"teardown", j>>)

\* The alarm of a run finds it after a restart, and drives it.
Drive(j) ==
    /\ HasActiveWork(<<"run", j>>)
    /\ driven' = driven \union {<<"run", j>>}
    /\ UNCHANGED <<durable, revived, op, open, external, faults>>

\* Work ends, or is left to its operator: by a driver, which may leave another one
\* behind, or by a reconciliation or a resumption that seals it, which ask for none.
WorkEnds(w) ==
    /\ HasActiveWork(w)
    /\ \E s \in (IF w[1] = "update" THEN {"none"} ELSE {"stopped", "done"}) :
           work' = [work EXCEPT ![w] = s]
    /\ revived' = revived \ {w}
    /\ \/ driven' = driven \ {w} /\ UNCHANGED faults
       \/ w \in driven /\ faults < MaxFaults /\ faults' = faults + 1 /\ UNCHANGED driven
    /\ UNCHANGED <<lease, op, open, external>>

\* updateTeardownProgress, and the save of a run: a driver writes its whole copy over
\* work that has ended meanwhile, and asks nobody for the slot.
SaveOldCopy(w) ==
    /\ w \in driven /\ ~HasActiveWork(w)
    /\ \E s \in {"active", "stopped", "done"} :
           /\ work' = [work EXCEPT ![w] = s]
           /\ revived' = IF s = "active" THEN revived \union {w} ELSE revived
    /\ driven' \in {driven, driven \ {w}}
    /\ UNCHANGED <<lease, op, open, external, faults>>

----------------------------------------------------------------------------
(* The lease.                                                                *)

At(h, p) == op[h].pc = p

Goto(h, p) == op' = [op EXCEPT ![h].pc = p]

Leave(h) == op' = [op EXCEPT ![h] = Idle]

\* What is to be done in the scope h works on is done.
NextScope(h) == op' = [op EXCEPT ![h].pc = "list", ![h].todo = @ \ {op[h].cur}]

Owns(h) == \A k \in Keys[op[h].req] :
               k \in Leased /\ lease[k].owner = h /\ lease[k].digest = op[h].req

Grant(r, h) == lease' = [k \in Scopes |->
                           IF k \in Keys[r] THEN [digest |-> r, owner |-> h, left |-> LeaseTime]
                           ELSE lease[k]]

\* Bug: an expired lease is anybody's.
MayClaimMutant(r, k) == k \in Leased => lease[k].left = 0

\* A scope is free, or its lease has expired and is the same request's.
MayClaim(r, k) == k \in Leased => lease[k].left = 0 /\ lease[k].digest = r

\* acquireCepMutationLease: all scopes of the request at once. A key of a group
\* does not have the form the store accepts.
Acquire(h, r) ==
    /\ At(h, "idle")
    /\ Keys[r] \intersect Groups = {}
    /\ \A w \in Work : ~HasActiveWork(w)
    /\ \A k \in Keys[r] : MayClaim(r, k)
    /\ Grant(r, h)
    /\ op' = [op EXCEPT ![h] = [pc |-> "list", req |-> r, todo |-> Creates[r],
                                cur |-> CHOOSE k \in Keys[r] : TRUE]]
    /\ open' = open \ {r}
    /\ UNCHANGED <<work, drivers, external, faults>>

\* Bug: a release leaves one of two scopes leased.
ReleaseMutant(h) ==
    /\ At(h, "release") /\ Owns(h)
    /\ lease' = [lease EXCEPT ![CHOOSE k \in Keys[op[h].req] : TRUE] = NoLease]
    /\ Leave(h)
    /\ UNCHANGED <<work, drivers, open, external, faults>>

\* releaseCepMutationLease
Release(h) ==
    /\ At(h, "release") /\ Owns(h)
    /\ lease' = [k \in Scopes |-> IF k \in Keys[op[h].req] THEN NoLease ELSE lease[k]]
    /\ Leave(h)
    /\ UNCHANGED <<work, drivers, open, external, faults>>

\* The lease was lost, or the store fails: the handler returns and leaves it.
LeaseLost(h) ==
    /\ At(h, "fence") \/ At(h, "release")
    /\ ~Owns(h) \/ faults < MaxFaults
    /\ faults' = IF Owns(h) THEN faults + 1 ELSE faults
    /\ Leave(h)
    /\ UNCHANGED <<durable, drivers, open, external>>

----------------------------------------------------------------------------
(* The saga under the lease: list, and create what is missing.               *)

List(h, k) ==
    /\ At(h, "list") /\ k \in op[h].todo
    /\ op' = [op EXCEPT ![h] = IF objects[k] > 0 THEN [op[h] EXCEPT !.todo = @ \ {k}]
                               ELSE [op[h] EXCEPT !.cur = k, !.pc = "fence"]]
    /\ UNCHANGED <<durable, drivers, open, external, faults>>

\* Nothing is left to do, or a read failed: give the lease back.
Finish(h) ==
    /\ At(h, "list")
    /\ op[h].todo = {} \/ faults < MaxFaults
    /\ faults' = IF op[h].todo = {} THEN faults ELSE faults + 1
    /\ Goto(h, "release")
    /\ UNCHANGED <<durable, drivers, open, external>>

\* Bug: the fence is left out.
FenceMutant(h) ==
    /\ At(h, "fence")
    /\ Goto(h, "send")
    /\ UNCHANGED <<durable, drivers, open, external, faults>>

\* renewFence, before every mutating request.
Fence(h) ==
    /\ At(h, "fence") /\ Owns(h)
    /\ Grant(op[h].req, h)
    /\ Goto(h, "send")
    /\ UNCHANGED <<work, drivers, open, external, faults>>

Post(h) ==
    /\ At(h, "send")
    /\ flight' = flight \union {[from |-> h, scope |-> op[h].cur, age |-> 0]}
    /\ open' = open \union {op[h].req}
    /\ Goto(h, "wait")
    /\ UNCHANGED <<durable, drivers, objects, refused, faults>>

\* A definite rejection: the object is left out.
Rejected(h) ==
    /\ At(h, "wait") /\ h \in refused
    /\ refused' = refused \ {h} /\ open' = open \ {op[h].req}
    /\ NextScope(h)
    /\ UNCHANGED <<durable, drivers, objects, flight, faults>>

\* Whatever else the answer says, only the list proves a create.
Answered(h) ==
    /\ At(h, "wait") /\ h \notin refused
    /\ \A f \in flight : f.from # h
    /\ Goto(h, "confirm")
    /\ UNCHANGED <<durable, drivers, open, external, faults>>

\* The answer is lost; the request may still be under way.
AnswerLost(h) ==
    /\ At(h, "wait") /\ faults < MaxFaults
    /\ faults' = faults + 1
    /\ refused' = refused \ {h}
    /\ Goto(h, "confirm")
    /\ UNCHANGED <<durable, drivers, open, objects, flight>>

\* waitForDlpPolicy has found one object.
Confirmed(h) ==
    /\ At(h, "confirm") /\ objects[op[h].cur] = 1
    /\ open' = open \ {op[h].req}
    /\ NextScope(h)
    /\ UNCHANGED <<durable, drivers, external, faults>>

\* Bug: a create that cannot be confirmed counts as failed, and the lease goes.
AmbiguousMutant(h) ==
    /\ At(h, "confirm")
    /\ Goto(h, "release")
    /\ UNCHANGED <<durable, drivers, open, external, faults>>

\* waitForDlpPolicy has not found it, or could not list: CepMutationOutcomeAmbiguous,
\* the handler returns and the lease stays.
Ambiguous(h) ==
    /\ At(h, "confirm")
    /\ Leave(h)
    /\ UNCHANGED <<durable, drivers, open, external, faults>>

----------------------------------------------------------------------------
(* The world.                                                                *)

\* External: a create has no request id, and every copy makes an object.
Land(f) ==
    /\ f \in flight /\ flight' = flight \ {f}
    /\ objects' = [objects EXCEPT ![f.scope] = @ + 1]
    /\ UNCHANGED <<durable, drivers, op, open, refused, faults>>

\* External: the provider refuses, and says so to a handler that still waits.
Refuse(f) ==
    /\ f \in flight /\ flight' = flight \ {f}
    /\ refused' = IF At(f.from, "wait") /\ op[f.from].cur = f.scope
                  THEN refused \union {f.from} ELSE refused
    /\ UNCHANGED <<durable, drivers, op, open, objects, faults>>

\* Time passes for the leases that nobody in R renews, and for the requests. A
\* request leaves right after its fence, and is under way for FlightTime at most.
Pass(R) ==
    /\ \A h \in Handlers : ~At(h, "send")
    /\ \A f \in flight : f.age < FlightTime
    /\ flight' = {[f EXCEPT !.age = @ + 1] : f \in flight}
    /\ lease' = [k \in Scopes |->
                   IF k \notin Leased THEN NoLease
                   ELSE IF lease[k].owner \in R THEN [lease[k] EXCEPT !.left = LeaseTime]
                   ELSE IF lease[k].left > 0 THEN [lease[k] EXCEPT !.left = @ - 1]
                   ELSE lease[k]]
    /\ UNCHANGED <<work, drivers, op, open, objects, refused>>

\* One heartbeat: the timer of every handler at work renews its lease.
Heartbeat ==
    /\ Pass({h \in Handlers : ~At(h, "idle") /\ Owns(h)})
    /\ UNCHANGED faults

\* The machine sleeps for a heartbeat: time passes, and no timer fires.
Sleep == faults < MaxFaults /\ faults' = faults + 1 /\ Pass({})

\* The worker dies; leases and requests under way outlive it, no driver does.
Crash ==
    /\ driven # {} \/ \E h \in Handlers : ~At(h, "idle")
    /\ faults < MaxFaults /\ faults' = faults + 1
    /\ op' = [h \in Handlers |-> Idle] /\ refused' = {} /\ driven' = {}
    /\ UNCHANGED <<durable, revived, open, objects, flight>>

Init ==
    /\ work = [w \in Work |-> "none"] /\ driven = {} /\ revived = {}
    /\ lease = [k \in Scopes |-> NoLease]
    /\ op = [h \in Handlers |-> Idle] /\ open = {}
    /\ objects = [k \in Scopes |-> 0] /\ flight = {} /\ refused = {}
    /\ faults = 0

Lifecycle ==
    \/ \E j \in Jobs : \/ Apply(j) \/ ResumeRun(j) \/ BeginRunPolicyUpdate(j)
                       \/ StartTeardown(j) \/ ResumeTeardown(j) \/ Drive(j)
    \/ \E w \in Work : WorkEnds(w)
    \/ \E w \in SavedWhole : SaveOldCopy(w)

Handle(h) ==
    \/ (\E k \in Scopes : List(h, k)) \/ Finish(h) \/ Fence(h) \/ Post(h) \/ Rejected(h)
    \/ Answered(h) \/ AnswerLost(h) \/ Confirmed(h) \/ Ambiguous(h)
    \/ Release(h) \/ LeaseLost(h)

Next ==
    \/ Lifecycle
    \/ \E h \in Handlers, r \in Requests : Acquire(h, r)
    \/ \E h \in Handlers : Handle(h)
    \/ \E f \in flight : Land(f) \/ Refuse(f)
    \/ Heartbeat \/ Sleep \/ Crash

Spec == Init /\ [][Next]_vars

\* The administrator repeats a request whose lease was kept, as the answer asks.
Retry(r) == Keys[r] \subseteq Leased /\ \E h \in Handlers : Acquire(h, r)

\* A driver comes to the end of its work, and is gone.
DriverEnds(w) == WorkEnds(w) /\ w \notin driven'

\* Handlers run, requests end, time passes, drivers come to an end, and a kept lease
\* is asked for again.
Fairness ==
    /\ \A h \in Handlers : WF_vars(Handle(h))
    /\ WF_vars(\E f \in flight : Land(f) \/ Refuse(f))
    /\ WF_vars(Heartbeat)
    /\ \A w \in SavedWhole : WF_vars(DriverEnds(w))
    /\ \A r \in Requests : SF_vars(Retry(r))

FairSpec == Spec /\ Fairness

----------------------------------------------------------------------------
(* Properties.                                                               *)

\* Runs, policy updates, teardowns and CEP requests share one slot: one piece of
\* work is active at a time, and none while any scope is leased, be the lease of
\* a handler at work, expired or kept for reconciliation. The one exception is work
\* that a driver's old copy brought back after it had lost the slot.
SharedSlot ==
    LET held == {w \in Work \ revived : HasActiveWork(w)}
    IN  /\ \A v, w \in held : v = w
        /\ held # {} => Leased = {}

\* What extension/docs/VERIFYING_THE_BUILD.md says of the slot, without the exception.
SlotIsAtomic ==
    LET held == {w \in Work : HasActiveWork(w)}
    IN  (\A v, w \in held : v = w) /\ (held # {} => Leased = {})

\* A create carries no request id, so only list-before-create under the lease keeps a
\* rule, an organisational unit or a licence from being made twice: no two creates of
\* a scope are ever under way together, none is sent to a scope that has its object,
\* and no scope gets a second one, whatever deaths, lost answers, sleeping timers and
\* repeated requests there are.
NoDuplicate ==
    /\ \A f, g \in flight : f.scope = g.scope => f = g
    /\ \A f \in flight : objects[f.scope] = 0
    /\ \A k \in Scopes : objects[k] <= 1

\* While the outcome of a request's create is unread, the request holds its scopes:
\* nobody else gets them before it, or the very same request, has read the outcome
\* or has begun to list again.
OutcomeKept == \A r \in open : \A k \in Keys[r] : k \in Leased /\ lease[k].digest = r

\* A lease ends: one kept for reconciliation does not block the others for ever.
LeaseClears == \A k \in Scopes \ Groups : k \in Leased ~> k \notin Leased
=============================================================================
