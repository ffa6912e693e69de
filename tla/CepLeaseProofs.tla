--------------------------- MODULE CepLeaseProofs ---------------------------
(* Theorems about CepLease, for every set of jobs, requests, scopes and       *)
(* handlers, every lease that outlives a request, and every bound.            *)
EXTENDS CepLease, TLAPS

\* A handler in the midst of a create works on a scope of its request.
Creating == {"fence", "send", "wait", "confirm"}

OpInv(o) ==
    \/ o = Idle
    \/ /\ o \in Operation
       /\ o.todo \subseteq Keys[o.req]
       /\ o.pc \in Creating => o.cur \in Keys[o.req]

OpType ==
    /\ op \in [Handlers -> Operation \cup {Idle}] /\ refused \subseteq Handlers
    /\ \A h \in Handlers : OpInv(op[h])
    /\ \A h \in refused : At(h, "wait")

TypeInv == TypeOK /\ OpType

\* The handler whose request holds its scopes, at one of the steps in P.
Holds(h, P) == op[h].pc \in P /\ Owns(h)

\* No create is under way in the scopes of its request.
Clear(h) == \A f \in flight : f.scope \notin Keys[op[h].req]

\* The fence: a request leaves under a lease of full length, and a lease outlives
\* the requests that left under it.
FenceOf(h) ==
    At(h, "send") => Owns(h) /\ \A k \in Keys[op[h].req] : lease[k].left = LeaseTime

FlightInv ==
    \A f \in flight :
        f.age <= FlightTime /\ f.scope \in Leased /\ lease[f.scope].left + f.age >= LeaseTime

\* What a handler knows of the scopes it holds: nothing is under way in them, or
\* only its own create, and what the list said of the scope at hand still holds.
KnowOf(h) ==
    /\ Holds(h, {"list", "fence", "send", "release"}) => Clear(h)
    /\ Holds(h, {"wait", "confirm"}) =>
         \A f \in flight : f.scope \in Keys[op[h].req] => f.scope = op[h].cur
    /\ Holds(h, {"wait"}) /\ h \in refused => Clear(h)
    /\ Holds(h, {"fence", "send"}) => objects[op[h].cur] = 0

CreateInv ==
    /\ NoDuplicate
    /\ FlightInv
    /\ \A h \in Handlers : FenceOf(h) /\ KnowOf(h)

\* A handler that may release its lease has read the outcome of its create.
OutcomeInv ==
    /\ OutcomeKept
    /\ \A h \in Handlers : Holds(h, {"list", "fence", "send", "release"}) => op[h].req \notin open

----------------------------------------------------------------------------

\* What a step makes of the operation of a handler.
LEMMA AtWork ==
    ASSUME NEW o, OpInv(o), o.pc # "idle"
    PROVE  /\ o \in Operation /\ o # Idle
           /\ Keys[o.req] \subseteq Scopes /\ Keys[o.req] # {}
           /\ o.todo \subseteq Keys[o.req]
           /\ o.pc \in Creating => o.cur \in Keys[o.req]
  BY ScopesAssumption DEF ScopesAssumption, OpInv, Idle, Operation

LEMMA OpGoes ==
    ASSUME NEW o, OpInv(o), o.pc # "idle",
           NEW p \in {"list", "fence", "send", "wait", "confirm", "release"},
           p \in Creating => o.pc \in Creating
    PROVE  OpInv([o EXCEPT !.pc = p])
  BY AtWork DEF OpInv, Operation, Creating

LEMMA OpCreates ==
    ASSUME NEW o, OpInv(o), o.pc # "idle", NEW k \in Keys[o.req]
    PROVE  OpInv([o EXCEPT !.cur = k, !.pc = "fence"])
  BY AtWork DEF OpInv, Operation, Creating

LEMMA OpLess ==
    ASSUME NEW o, OpInv(o), o.pc # "idle", NEW k
    PROVE  /\ OpInv([o EXCEPT !.todo = o.todo \ {k}])
           /\ OpInv([o EXCEPT !.pc = "list", !.todo = o.todo \ {k}])
  <1>1. o.todo \ {k} \in SUBSET Keys[o.req] /\ o.todo \ {k} \in SUBSET Scopes
    BY AtWork
  <1> QED  BY <1>1, AtWork DEF OpInv, Operation, Creating

LEMMA TypeInit == Init => TypeInv
  <1> SUFFICES ASSUME Init PROVE TypeInv
    OBVIOUS
  <1> QED
    BY BoundsAssumption DEF Init, TypeInv, TypeOK, OpType, OpInv

\* A step of one handler leaves the others where they are.
LEMMA OneMoves ==
    ASSUME OpType, NEW h \in Handlers, NEW o, OpInv(o), op' = [op EXCEPT ![h] = o],
           refused' \subseteq refused, h \in refused' => o.pc = "wait"
    PROVE  /\ OpType' /\ op'[h] = o
           /\ \A g \in Handlers \ {h} : op'[g] = op[g]
  BY DEF OpType, At, OpInv

\* The steps of a handler at work.
LEMMA GotoStep ==
    ASSUME OpType, NEW h \in Handlers, op[h].pc # "idle",
           NEW p \in {"list", "fence", "send", "wait", "confirm", "release"},
           p \in Creating => op[h].pc \in Creating,
           Goto(h, p), refused' \subseteq refused, h \notin refused'
    PROVE  /\ OpType' /\ op'[h] = [op[h] EXCEPT !.pc = p]
           /\ \A g \in Handlers \ {h} : op'[g] = op[g]
  <1>1. OpInv([op[h] EXCEPT !.pc = p])
    BY OpGoes DEF OpType
  <1>2. op' = [op EXCEPT ![h] = [op[h] EXCEPT !.pc = p]]
    BY DEF Goto
  <1> QED  BY <1>1, <1>2, OneMoves

LEMMA NextStep ==
    ASSUME OpType, NEW h \in Handlers, op[h].pc # "idle",
           NextScope(h), refused' \subseteq refused, h \notin refused'
    PROVE  /\ OpType' /\ op'[h] = [op[h] EXCEPT !.pc = "list", !.todo = @ \ {op[h].cur}]
           /\ \A g \in Handlers \ {h} : op'[g] = op[g]
  <1>1. OpInv([op[h] EXCEPT !.pc = "list", !.todo = op[h].todo \ {op[h].cur}])
    BY OpLess DEF OpType
  <1>2. op' = [op EXCEPT ![h] = [op[h] EXCEPT !.pc = "list", !.todo = op[h].todo \ {op[h].cur}]]
    BY DEF NextScope
  <1> QED  BY <1>1, <1>2, OneMoves

LEMMA ListStep ==
    ASSUME OpType, NEW h \in Handlers, NEW k \in Scopes, List(h, k)
    PROVE  /\ OpType'
           /\ op'[h] = IF objects[k] > 0 THEN [op[h] EXCEPT !.todo = @ \ {k}]
                       ELSE [op[h] EXCEPT !.cur = k, !.pc = "fence"]
           /\ \A g \in Handlers \ {h} : op'[g] = op[g]
  <1> DEFINE o == IF objects[k] > 0 THEN [op[h] EXCEPT !.todo = @ \ {k}]
                  ELSE [op[h] EXCEPT !.cur = k, !.pc = "fence"]
  <1>1. op[h].pc = "list" /\ k \in op[h].todo /\ OpInv(op[h]) /\ h \notin refused
    BY DEF List, At, OpType
  <1>2. OpInv(o)
    <2>1. k \in Keys[op[h].req]
      BY <1>1, AtWork
    <2> QED  BY <1>1, <2>1, OpLess, OpCreates
  <1>3. op' = [op EXCEPT ![h] = o] /\ refused' = refused
    BY DEF List, external
  <1> QED  BY <1>1, <1>2, <1>3, OneMoves

LEMMA LeaveStep ==
    ASSUME OpType, NEW h \in Handlers, Leave(h), refused' \subseteq refused, h \notin refused'
    PROVE  /\ OpType' /\ op'[h] = Idle
           /\ \A g \in Handlers \ {h} : op'[g] = op[g]
  BY OneMoves DEF Leave, OpInv

LEMMA AcquireStep ==
    ASSUME OpType, NEW h \in Handlers, NEW r \in Requests, Acquire(h, r)
    PROVE  /\ OpType' /\ op'[h].pc = "list" /\ op'[h].req = r
           /\ \A g \in Handlers \ {h} : op'[g] = op[g]
  <1> DEFINE o == [pc |-> "list", req |-> r, todo |-> Creates[r], cur |-> CHOOSE k \in Keys[r] : TRUE]
  <1>1. OpInv(o)
    <2>1. (CHOOSE k \in Keys[r] : TRUE) \in Scopes
      BY ScopesAssumption DEF ScopesAssumption
    <2>2. Creates[r] \subseteq Keys[r] /\ Creates[r] \subseteq Scopes
      BY ScopesAssumption, CreatesAssumption DEF ScopesAssumption, CreatesAssumption
    <2> QED  BY <2>1, <2>2 DEF OpInv, Operation, Creating
  <1>2. h \notin refused
    BY DEF Acquire, OpType, At
  <1>3. op' = [op EXCEPT ![h] = o] /\ refused' = refused
    BY DEF Acquire, external
  <1>4. o.pc = "list" /\ o.req = r
    OBVIOUS
  <1> HIDE DEF o
  <1> QED  BY <1>1, <1>2, <1>3, <1>4, OneMoves

\* The lease of each scope after a grant.
LEMMA GrantStep ==
    ASSUME TypeInv, NEW r \in Requests, NEW h \in Handlers, Grant(r, h)
    PROVE  /\ lease' \in [Scopes -> Lease \cup {NoLease}]
           /\ \A k \in Keys[r] : lease'[k] = [digest |-> r, owner |-> h, left |-> LeaseTime]
           /\ \A k \in Scopes \ Keys[r] : lease'[k] = lease[k]
  <1>1. [digest |-> r, owner |-> h, left |-> LeaseTime] \in Lease
    BY LeaseAssumption DEF LeaseAssumption, Lease
  <1> QED  BY <1>1, ScopesAssumption DEF Grant, TypeInv, TypeOK, ScopesAssumption

LEMMA LeaseFacts ==
    ASSUME TypeInv, NEW k \in Scopes
    PROVE  /\ k \in Leased <=> lease[k] # NoLease
           /\ k \in Leased => lease[k] \in Lease
           /\ NoLease \notin Lease
           /\ lease[k].left \in 0 .. LeaseTime
  BY LeaseAssumption DEF LeaseAssumption, TypeInv, TypeOK, Leased, Lease, NoLease

\* Time passes for a lease: it stays what it is, but for how long.
LEMMA PassType ==
    ASSUME TypeInv, NEW R, Pass(R)
    PROVE  lease' \in [Scopes -> Lease \cup {NoLease}]
  <1>1. \A k \in Scopes : k \in Leased => lease[k] \in Lease
    BY LeaseFacts
  <1>2. \A l \in Lease : /\ [l EXCEPT !.left = LeaseTime] \in Lease
                         /\ l.left > 0 => [l EXCEPT !.left = @ - 1] \in Lease
    BY LeaseAssumption DEF LeaseAssumption, Lease
  <1>3. \A k \in Scopes : lease'[k] \in Lease \cup {NoLease}
    BY <1>1, <1>2 DEF Pass
  <1> QED  BY <1>3 DEF Pass

LEMMA PassStep ==
    ASSUME TypeInv, NEW R, Pass(R), NEW k \in Scopes
    PROVE  /\ k \in Leased => /\ lease'[k] # NoLease
                              /\ lease'[k].owner = lease[k].owner
                              /\ lease'[k].digest = lease[k].digest
                              /\ lease'[k].left >= lease[k].left - 1
           /\ k \notin Leased => lease'[k] = NoLease
  <1>1. CASE k \notin Leased
    BY <1>1 DEF Pass
  <1>2. CASE k \in Leased
    <2>1. lease[k] \in Lease /\ NoLease \notin Lease /\ LeaseTime \in Nat
      BY <1>2, LeaseFacts, LeaseAssumption DEF LeaseAssumption
    <2>2. \/ lease'[k] = [lease[k] EXCEPT !.left = LeaseTime]
          \/ lease[k].left > 0 /\ lease'[k] = [lease[k] EXCEPT !.left = @ - 1]
          \/ lease'[k] = lease[k]
      BY <1>2 DEF Pass
    <2>3. lease'[k] \in Lease
      BY <2>1, <2>2 DEF Lease
    <2> QED  BY <1>2, <2>1, <2>2, <2>3 DEF Lease
  <1> QED  BY <1>1, <1>2

LEMMA TypeStep == TypeInv /\ [Next]_vars => TypeInv'
  <1> SUFFICES ASSUME TypeInv, [Next]_vars PROVE TypeInv'
    OBVIOUS
  <1> USE DEF TypeInv, TypeOK, durable, drivers, external
  <1>0. UNCHANGED <<op, refused>> => OpType'
    BY DEF OpType, At
  <1>1. CASE Lifecycle
    <2>1. ASSUME NEW w \in Work, Take(w) PROVE TypeInv'
      BY <1>0, <2>1 DEF Take
    <2>2. ASSUME NEW w \in Work, WorkEnds(w) PROVE TypeInv'
      BY <1>0, <2>2 DEF WorkEnds
    <2>3. ASSUME NEW w \in SavedWhole, SaveOldCopy(w) PROVE TypeInv'
      BY <1>0, <2>3 DEF SaveOldCopy
    <2>4. \A j \in Jobs : /\ {<<"run", j>>, <<"update", j>>, <<"teardown", j>>} \subseteq Work
                          /\ <<"run", j>> \in SavedWhole
      BY DEF Work, SavedWhole
    <2>5. ASSUME NEW j \in Jobs, Drive(j) PROVE TypeInv'
      BY <1>0, <2>4, <2>5 DEF Drive
    <2> QED
      BY <1>1, <2>1, <2>2, <2>3, <2>4, <2>5
         DEF Lifecycle, Apply, ResumeRun, BeginRunPolicyUpdate, StartTeardown, ResumeTeardown
  <1>2. ASSUME NEW h \in Handlers, NEW r \in Requests, Acquire(h, r) PROVE TypeInv'
    BY <1>2, AcquireStep, GrantStep DEF Acquire, OpType
  <1>3. ASSUME NEW h \in Handlers, Handle(h) PROVE TypeInv'
    <2> USE DEF At, OpType
    <2>1. ASSUME NEW k \in Scopes, List(h, k) PROVE TypeInv'
      BY <2>1, ListStep DEF List
    <2>2. CASE Finish(h)
      <3>1. OpType'
        BY <2>2, GotoStep DEF Finish, Creating
      <3> QED  BY <2>2, <3>1 DEF Finish
    <2>3. CASE Fence(h)
      <3>1. op[h].req \in Requests
        BY <2>3, AtWork DEF Fence, Operation
      <3> QED  BY <2>3, <3>1, GotoStep, GrantStep DEF Fence, Creating
    <2>4. CASE Post(h)
      <3>1. /\ op[h].req \in Requests
            /\ [from |-> h, scope |-> op[h].cur, age |-> 0] \in Create
        BY <2>4, AtWork, LeaseAssumption DEF Post, Operation, Creating, Create, LeaseAssumption
      <3> QED  BY <2>4, <3>1, GotoStep DEF Post, Creating
    <2>5. CASE Rejected(h)
      BY <2>5, NextStep DEF Rejected
    <2>6. CASE Answered(h) \/ AnswerLost(h)
      <3>1. OpType'
        BY <2>6, GotoStep DEF Answered, AnswerLost, Creating
      <3> QED  BY <2>6, <3>1 DEF Answered, AnswerLost
    <2>7. CASE Confirmed(h)
      BY <2>7, NextStep DEF Confirmed
    <2>8. CASE Ambiguous(h) \/ LeaseLost(h)
      BY <2>8, LeaveStep DEF Ambiguous, LeaseLost
    <2>9. CASE Release(h)
      BY <2>9, LeaveStep DEF Release
    <2> QED
      BY <1>3, <2>1, <2>2, <2>3, <2>4, <2>5, <2>6, <2>7, <2>8, <2>9 DEF Handle
  <1>4. ASSUME NEW f \in flight, Land(f) PROVE TypeInv'
    BY <1>0, <1>4 DEF Land, Create
  <1>5. ASSUME NEW f \in flight, Refuse(f) PROVE TypeInv'
    BY <1>5 DEF Refuse, Create, OpType, At
  <1>6. ASSUME NEW R, Pass(R), faults' \in Nat PROVE TypeInv'
    <2>1. \A f \in flight : [f EXCEPT !.age = @ + 1] \in Create
      BY <1>6, LeaseAssumption DEF Pass, Create, LeaseAssumption
    <2>2. flight' \subseteq Create
      BY <1>6, <2>1 DEF Pass
    <2>3. lease' \in [Scopes -> Lease \cup {NoLease}]
      BY <1>6, PassType
    <2> QED  BY <1>0, <1>6, <2>2, <2>3 DEF Pass
  <1>7. CASE Heartbeat \/ Sleep
    BY <1>6, <1>7 DEF Heartbeat, Sleep
  <1>8. CASE Crash
    BY <1>8 DEF Crash, OpType, OpInv
  <1>9. CASE UNCHANGED vars
    BY <1>0, <1>9 DEF vars
  <1> QED  BY <1>1, <1>2, <1>3, <1>4, <1>5, <1>7, <1>8, <1>9 DEF Next

\* Every variable stays in its type; a handler creates in a scope of its request
\* only, and only one that waits has been refused.
THEOREM TypeCorrect == Spec => []TypeInv
  <1> QED  BY TypeInit, TypeStep, PTL DEF Spec

----------------------------------------------------------------------------

\* Two handlers never own a scope together.
LEMMA OneOwner ==
    ASSUME NEW g, NEW h, Owns(g), Owns(h), NEW k, k \in Keys[op[g].req], k \in Keys[op[h].req]
    PROVE  g = h
  BY DEF Owns

\* A handler that stays where it is knows what it knew, unless it came to own its
\* scopes, a create was sent there, or the scope at hand changed.
LEMMA StillKnows ==
    ASSUME NEW g, KnowOf(g), op'[g] = op[g], At(g, "idle") \/ (Owns(g)' => Owns(g)),
           Owns(g) => \A f \in flight' :
               f.scope \in Keys[op[g].req] => \E e \in flight : e.scope = f.scope,
           Holds(g, {"fence", "send"}) => objects'[op[g].cur] = objects[op[g].cur],
           g \in refused' => g \in refused
    PROVE  KnowOf(g)'
  BY DEF KnowOf, Holds, Clear, At

\* Steps of h that touch neither leases nor creates.
LEMMA QuietStep ==
    ASSUME CreateInv, NEW h \in Handlers, UNCHANGED <<lease, flight, objects>>,
           \A g \in Handlers \ {h} : op'[g] = op[g],
           refused' \subseteq refused, op'[h].pc # "send", KnowOf(h)'
    PROVE  CreateInv'
  <1>1. NoDuplicate' /\ FlightInv'
    BY DEF CreateInv, NoDuplicate, FlightInv, Leased
  <1>2. ASSUME NEW g \in Handlers \ {h} PROVE FenceOf(g)' /\ KnowOf(g)'
    <2>1. op'[g] = op[g] /\ (Owns(g)' <=> Owns(g))
      BY <1>2 DEF Owns, Leased
    <2>2. FenceOf(g)'
      BY <1>2, <2>1 DEF CreateInv, FenceOf, At
    <2> QED  BY <1>2, <2>1, <2>2, StillKnows DEF CreateInv
  <1> QED  BY <1>1, <1>2 DEF CreateInv, FenceOf, At

LEMMA CreateInit == Init => CreateInv
  BY DEF Init, CreateInv, NoDuplicate, FlightInv, FenceOf, KnowOf, Holds, At, Idle

LEMMA SendStep ==
    ASSUME TypeInv, CreateInv, NEW h \in Handlers, Fence(h) \/ Post(h)
    PROVE  CreateInv'
  <1> DEFINE r == op[h].req
  <1>0. /\ OpType /\ op[h] \in Operation /\ op[h].cur \in Keys[r] /\ op[h].cur \in Scopes
        /\ Keys[r] \subseteq Scopes /\ r \in Requests /\ Owns(h) /\ Clear(h)
        /\ objects[op[h].cur] = 0 /\ LeaseTime \in Nat /\ NoLease \notin Lease
        /\ h \notin refused
    <2>1. OpType /\ OpInv(op[h]) /\ op[h].pc \in {"fence", "send"}
      BY DEF TypeInv, OpType, Fence, Post, At
    <2>2. Owns(h)
      BY DEF Fence, Post, CreateInv, FenceOf
    <2>3. Clear(h) /\ objects[op[h].cur] = 0
      BY <2>1, <2>2 DEF CreateInv, KnowOf, Holds
    <2> QED
      BY <2>1, <2>2, <2>3, AtWork, LeaseFacts, LeaseAssumption
         DEF LeaseAssumption, Creating, Operation, OpType, At
  <1>1. CASE Fence(h)
    <2>1. /\ \A k \in Keys[r] : lease'[k] = [digest |-> r, owner |-> h, left |-> LeaseTime]
          /\ \A k \in Scopes \ Keys[r] : lease'[k] = lease[k]
      BY <1>0, <1>1, GrantStep DEF Fence
    <2>2. /\ op'[h] = [op[h] EXCEPT !.pc = "send"]
          /\ \A g \in Handlers \ {h} : op'[g] = op[g]
          /\ UNCHANGED <<flight, objects, refused>>
      BY <1>0, <1>1, GotoStep DEF Fence, Creating, external, At
    <2>3. \A k \in Scopes : (k \in Leased)' <=> k \in Leased
      BY <1>0, <2>1, LeaseFacts DEF Leased, Owns, NoLease
    <2>4. \A k \in Keys[r] : k \in Leased /\ lease[k].owner = h /\ lease[k].digest = r
                              /\ lease[k].left <= LeaseTime
      BY <1>0, LeaseFacts DEF Owns
    <2>5. NoDuplicate'
      BY <2>2 DEF CreateInv, NoDuplicate
    <2>6. FlightInv'
      <3>1. ASSUME NEW f \in flight, f.scope \in Keys[r] PROVE FALSE
        BY <1>0, <3>1 DEF Clear
      <3> QED  BY <2>1, <2>2, <2>3, <3>1 DEF CreateInv, FlightInv, TypeInv, TypeOK, Create
    <2>7. ASSUME NEW g \in Handlers \ {h} PROVE FenceOf(g)' /\ KnowOf(g)'
      <3>0. CASE At(g, "idle")
        BY <2>2, <2>7, <3>0, StillKnows DEF FenceOf, At, CreateInv
      <3>1. CASE ~At(g, "idle")
        <4>1. Keys[op[g].req] \subseteq Scopes
          BY <3>1, AtWork DEF TypeInv, OpType, At
        <4>2. Owns(g)' => Owns(g)
          BY <2>1, <2>2, <2>3, <2>4, <2>7, <4>1 DEF Owns
        <4>3. FenceOf(g)'
          <5>1. ASSUME At(g, "send") PROVE Owns(g)' /\ \A k \in Keys[op[g].req] : lease'[k].left = LeaseTime
            <6>1. Owns(g) /\ \A k \in Keys[op[g].req] : lease[k].left = LeaseTime
              BY <5>1 DEF CreateInv, FenceOf
            <6>2. \A k \in Keys[op[g].req] : k \notin Keys[r]
              BY <1>0, <2>7, <6>1, OneOwner
            <6> QED  BY <2>1, <2>2, <2>3, <2>7, <4>1, <6>1, <6>2 DEF Owns
          <5> QED  BY <2>2, <2>7, <5>1 DEF FenceOf, At
        <4> QED  BY <2>2, <2>7, <4>2, <4>3, StillKnows DEF CreateInv
      <3> QED  BY <3>0, <3>1
    <2>8. FenceOf(h)' /\ KnowOf(h)'
      <3>1. op'[h].req = r /\ op'[h].cur = op[h].cur /\ op'[h].pc = "send"
        BY <1>0, <2>2 DEF Operation
      <3>2. Clear(h)' /\ objects'[op'[h].cur] = 0
        BY <1>0, <2>2, <3>1 DEF Clear
      <3>3. Owns(h)' /\ \A k \in Keys[r] : lease'[k].left = LeaseTime
        BY <1>0, <2>1, <2>3, <2>4, <3>1 DEF Owns
      <3> QED  BY <3>1, <3>2, <3>3 DEF FenceOf, KnowOf, Holds, At
    <2> QED  BY <2>5, <2>6, <2>7, <2>8 DEF CreateInv
  <1>2. CASE Post(h)
    <2> DEFINE new == [from |-> h, scope |-> op[h].cur, age |-> 0]
    <2>1. /\ op'[h] = [op[h] EXCEPT !.pc = "wait"]
          /\ \A g \in Handlers \ {h} : op'[g] = op[g]
          /\ UNCHANGED <<lease, objects, refused>> /\ flight' = flight \union {new}
      BY <1>0, <1>2, GotoStep DEF Post, Creating, durable, At
    <2>2. \A k \in Keys[r] : lease[k].left = LeaseTime /\ k \in Leased
      BY <1>2 DEF Post, CreateInv, FenceOf, Owns
    <2>3. NoDuplicate'
      <3>1. \A f \in flight : f.scope # new.scope
        BY <1>0 DEF Clear
      <3> QED  BY <1>0, <2>1, <3>1 DEF CreateInv, NoDuplicate
    <2>4. FlightInv'
      <3>1. new.age <= FlightTime /\ lease[new.scope].left + new.age >= LeaseTime
        BY <1>0, <2>2, LeaseAssumption DEF LeaseAssumption
      <3> QED  BY <1>0, <2>1, <2>2, <3>1 DEF CreateInv, FlightInv, Leased
    <2>5. \A g \in Handlers : Owns(g)' <=> Owns(g)
      BY <1>0, <2>1 DEF Owns, Leased, Operation
    <2>6. ASSUME NEW g \in Handlers \ {h} PROVE FenceOf(g)' /\ KnowOf(g)'
      <3>1. Owns(g) => op[h].cur \notin Keys[op[g].req]
        BY <1>0, <2>6, OneOwner
      <3>2. KnowOf(g)'
        BY <2>1, <2>5, <2>6, <3>1, StillKnows DEF CreateInv
      <3> QED  BY <2>1, <2>5, <2>6, <3>2 DEF CreateInv, FenceOf, At
    <2>7. FenceOf(h)' /\ KnowOf(h)'
      <3>1. op'[h].req = r /\ op'[h].cur = op[h].cur /\ op'[h].pc = "wait"
        BY <1>0, <2>1 DEF Operation
      <3>2. \A f \in flight' : f.scope \in Keys[r] => f.scope = op[h].cur
        BY <1>0, <2>1 DEF Clear
      <3> QED  BY <1>0, <2>1, <3>1, <3>2 DEF FenceOf, KnowOf, Holds, At
    <2> QED  BY <2>3, <2>4, <2>6, <2>7 DEF CreateInv
  <1> QED  BY <1>1, <1>2

LEMMA LeaseStep ==
    ASSUME TypeInv, CreateInv, NEW h \in Handlers,
           Release(h) \/ \E r \in Requests : Acquire(h, r)
    PROVE  CreateInv'
  <1>0. /\ OpType /\ LeaseTime \in Nat /\ FlightTime < LeaseTime /\ FlightTime \in Nat
        /\ UNCHANGED <<flight, objects>> /\ refused' = refused /\ h \notin refused
    BY LeaseAssumption DEF TypeInv, OpType, LeaseAssumption, Release, Acquire, external, At
  \* The scopes that change hands have no create under way, and belonged to no
  \* handler that sends.
  <1>1. ASSUME NEW K \in SUBSET Scopes, \A k \in Scopes \ K : lease'[k] = lease[k],
               \A f \in flight : f.scope \notin K,
               \A g \in Handlers \ {h} : op'[g] = op[g],
               \A g \in Handlers \ {h}, k \in K : k \in Leased' => lease'[k].owner # g,
               \A g \in Handlers \ {h}, k \in K : At(g, "send") => k \notin Keys[op[g].req],
               op'[h].pc # "send", KnowOf(h)'
        PROVE  CreateInv'
    <2>1. NoDuplicate'
      BY <1>0 DEF CreateInv, NoDuplicate
    <2>2. FlightInv'
      BY <1>0, <1>1 DEF CreateInv, FlightInv, Leased, TypeInv, TypeOK, Create
    <2>3. ASSUME NEW g \in Handlers \ {h} PROVE FenceOf(g)' /\ KnowOf(g)'
      <3>0. CASE At(g, "idle")
        BY <1>0, <1>1, <2>3, <3>0, StillKnows DEF FenceOf, At, CreateInv
      <3>1. CASE ~At(g, "idle")
        <4>1. Keys[op[g].req] \subseteq Scopes
          BY <3>1, AtWork DEF TypeInv, OpType, At
        <4>2. Owns(g)' => Owns(g)
          BY <1>1, <2>3, <4>1 DEF Owns, Leased
        <4>3. FenceOf(g)'
          BY <1>1, <2>3, <4>1 DEF CreateInv, FenceOf, Owns, Leased, At
        <4> QED  BY <1>0, <1>1, <2>3, <4>2, <4>3, StillKnows DEF CreateInv
      <3> QED  BY <3>0, <3>1
    <2> QED  BY <1>1, <2>1, <2>2, <2>3 DEF CreateInv, FenceOf, At
  <1>2. CASE Release(h)
    <2> DEFINE K == Keys[op[h].req]
    <2>1. K \subseteq Scopes /\ Owns(h) /\ Clear(h)
      BY <1>2, AtWork DEF Release, At, TypeInv, OpType, CreateInv, KnowOf, Holds
    <2>2. op'[h] = Idle /\ \A g \in Handlers \ {h} : op'[g] = op[g]
      BY <1>0, <1>2, LeaveStep DEF Release
    <2>3. \A k \in Scopes : lease'[k] = IF k \in K THEN NoLease ELSE lease[k]
      BY <1>2 DEF Release
    <2>4. \A g \in Handlers \ {h}, k \in K : At(g, "send") => k \notin Keys[op[g].req]
      BY <2>1, OneOwner DEF CreateInv, FenceOf
    <2>5. KnowOf(h)' /\ op'[h].pc # "send"
      BY <2>2 DEF KnowOf, Holds, Idle
    <2>6. \A k \in K : k \notin Leased'
      BY <2>1, <2>3 DEF Leased
    <2> QED  BY <1>1, <2>1, <2>2, <2>3, <2>4, <2>5, <2>6 DEF Clear
  <1>3. ASSUME NEW r \in Requests, Acquire(h, r) PROVE CreateInv'
    <2> DEFINE K == Keys[r]
    <2>1. /\ K \subseteq Scopes
          /\ \A k \in K : lease'[k] = [digest |-> r, owner |-> h, left |-> LeaseTime]
          /\ \A k \in Scopes \ K : lease'[k] = lease[k]
      BY <1>3, GrantStep, ScopesAssumption DEF Acquire, ScopesAssumption
    <2>2. /\ op'[h].pc = "list" /\ op'[h].req = r
          /\ \A g \in Handlers \ {h} : op'[g] = op[g]
      BY <1>0, <1>3, AcquireStep
    <2>3. \A k \in K : k \in Leased => lease[k].left = 0
      BY <1>3 DEF Acquire, MayClaim
    <2>4. \A f \in flight : f.scope \notin K
      <3> SUFFICES ASSUME NEW f \in flight, f.scope \in K PROVE FALSE
        OBVIOUS
      <3>1. lease[f.scope].left = 0 /\ lease[f.scope].left + f.age >= LeaseTime /\ f.age <= FlightTime
        BY <2>3 DEF CreateInv, FlightInv
      <3>2. f.age \in Nat
        BY DEF TypeInv, TypeOK, Create
      <3> QED  BY <1>0, <3>1, <3>2
    <2>5. \A g \in Handlers \ {h}, k \in K : At(g, "send") => k \notin Keys[op[g].req]
      BY <1>0, <2>3 DEF CreateInv, FenceOf, Owns
    <2>6. KnowOf(h)' /\ op'[h].pc # "send"
      BY <1>0, <2>2, <2>4 DEF KnowOf, Holds, Clear
    <2> QED  BY <1>1, <2>1, <2>2, <2>4, <2>5, <2>6
  <1> QED  BY <1>2, <1>3

LEMMA CreateStep == TypeInv /\ CreateInv /\ [Next]_vars => CreateInv'
  <1> SUFFICES ASSUME TypeInv, CreateInv, [Next]_vars PROVE CreateInv'
    OBVIOUS
  <1> USE DEF durable, drivers, external
  <1>0. OpType /\ objects \in [Scopes -> Nat] /\ flight \subseteq Create
    BY DEF TypeInv, TypeOK
  <1>1. ASSUME UNCHANGED <<lease, op, flight, objects, refused>> PROVE CreateInv'
    BY <1>1 DEF CreateInv, NoDuplicate, FlightInv, FenceOf, KnowOf, Holds, Clear, Owns, Leased, At
  <1>2. CASE Lifecycle
    BY <1>1, <1>2 DEF Lifecycle, Apply, ResumeRun, BeginRunPolicyUpdate, StartTeardown,
                     ResumeTeardown, Drive, WorkEnds, SaveOldCopy, Take
  <1>3. ASSUME NEW h \in Handlers, NEW r \in Requests, Acquire(h, r) PROVE CreateInv'
    BY <1>3, LeaseStep
  <1>4. ASSUME NEW h \in Handlers, Handle(h) PROVE CreateInv'
    <2>0. KnowOf(h) /\ OpInv(op[h])
      BY <1>0 DEF CreateInv, OpType
    <2>1. ASSUME NEW k \in Scopes, List(h, k) PROVE CreateInv'
      <3>1. /\ op[h].pc = "list" /\ UNCHANGED <<lease, flight, objects, refused>>
            /\ op'[h] = IF objects[k] > 0 THEN [op[h] EXCEPT !.todo = @ \ {k}]
                        ELSE [op[h] EXCEPT !.cur = k, !.pc = "fence"]
            /\ \A g \in Handlers \ {h} : op'[g] = op[g]
        BY <1>0, <2>1, ListStep DEF List, At
      <3>2. op[h] \in Operation
        BY <2>0, <3>1, AtWork
      <3>3. /\ op'[h].req = op[h].req
            /\ op'[h].pc = "list" \/ (op'[h].pc = "fence" /\ objects[op'[h].cur] = 0)
        BY <1>0, <3>1, <3>2 DEF Operation
      <3>4. KnowOf(h)'
        BY <2>0, <3>1, <3>3 DEF KnowOf, Holds, Clear, Owns, Leased
      <3> QED  BY <3>1, <3>3, <3>4, QuietStep
    <2>2. CASE Finish(h)
      <3>1. /\ op[h].pc = "list" /\ UNCHANGED <<lease, flight, objects, refused>>
            /\ op'[h] = [op[h] EXCEPT !.pc = "release"]
            /\ \A g \in Handlers \ {h} : op'[g] = op[g]
        BY <1>0, <2>2, GotoStep DEF Finish, At, Creating, OpType
      <3>2. op'[h].req = op[h].req /\ op'[h].pc = "release"
        BY <2>0, <3>1, AtWork DEF Operation
      <3>3. KnowOf(h)'
        BY <2>0, <3>1, <3>2 DEF KnowOf, Holds, Clear, Owns, Leased
      <3> QED  BY <3>1, <3>2, <3>3, QuietStep
    <2>3. CASE Fence(h) \/ Post(h)
      BY <2>3, SendStep
    <2>4. CASE Answered(h) \/ AnswerLost(h)
      <3>1. /\ op[h].pc = "wait" /\ UNCHANGED <<lease, flight, objects>> /\ refused' \subseteq refused
            /\ op'[h] = [op[h] EXCEPT !.pc = "confirm"]
            /\ \A g \in Handlers \ {h} : op'[g] = op[g]
        BY <1>0, <2>4, GotoStep DEF Answered, AnswerLost, At, Creating
      <3>2. op'[h].req = op[h].req /\ op'[h].pc = "confirm" /\ op'[h].cur = op[h].cur
        BY <2>0, <3>1, AtWork DEF Operation
      <3>3. KnowOf(h)'
        BY <2>0, <3>1, <3>2 DEF KnowOf, Holds, Owns, Leased
      <3> QED  BY <3>1, <3>2, <3>3, QuietStep
    <2>5. CASE Rejected(h) \/ Confirmed(h)
      <3>1. /\ op[h].pc \in {"wait", "confirm"} /\ UNCHANGED <<lease, flight, objects>>
            /\ refused' \subseteq refused
            /\ op'[h] = [op[h] EXCEPT !.pc = "list", !.todo = @ \ {op[h].cur}]
            /\ \A g \in Handlers \ {h} : op'[g] = op[g]
        BY <1>0, <2>5, NextStep DEF Rejected, Confirmed, At, OpType
      <3>2. op'[h].req = op[h].req /\ op'[h].pc = "list"
        BY <2>0, <3>1, AtWork DEF Operation
      <3>3. Owns(h) => Clear(h)
        <4>1. CASE Rejected(h)
          BY <2>0, <4>1 DEF Rejected, KnowOf, Holds, At
        <4>2. CASE Confirmed(h)
          <5>1. \A f \in flight : f.scope # op[h].cur
            BY <4>2 DEF Confirmed, CreateInv, NoDuplicate
          <5> QED  BY <2>0, <4>2, <5>1 DEF Confirmed, KnowOf, Holds, Clear, At
        <4> QED  BY <2>5, <4>1, <4>2
      <3>4. KnowOf(h)'
        BY <3>1, <3>2, <3>3 DEF KnowOf, Holds, Clear, Owns, Leased
      <3> QED  BY <3>1, <3>2, <3>4, QuietStep
    <2>6. CASE Ambiguous(h) \/ LeaseLost(h)
      <3>1. /\ UNCHANGED <<lease, flight, objects, refused>> /\ op'[h] = Idle
            /\ \A g \in Handlers \ {h} : op'[g] = op[g]
        BY <1>0, <2>6, LeaveStep DEF Ambiguous, LeaseLost, At, OpType
      <3>2. KnowOf(h)' /\ op'[h].pc # "send"
        BY <3>1 DEF KnowOf, Holds, Idle
      <3> QED  BY <3>1, <3>2, QuietStep
    <2>7. CASE Release(h)
      BY <2>7, LeaseStep
    <2> QED  BY <1>4, <2>1, <2>2, <2>3, <2>4, <2>5, <2>6, <2>7 DEF Handle
  <1>5. ASSUME NEW f \in flight, Land(f) PROVE CreateInv'
    <2>1. /\ f.scope \in Scopes /\ objects[f.scope] = 0 /\ objects'[f.scope] = 1
          /\ \A k \in Scopes \ {f.scope} : objects'[k] = objects[k]
          /\ flight' = flight \ {f} /\ UNCHANGED <<lease, op, refused>>
      BY <1>0, <1>5 DEF Land, CreateInv, NoDuplicate, Create
    <2>2. NoDuplicate'
      BY <1>0, <2>1 DEF CreateInv, NoDuplicate, Create
    <2>3. FlightInv'
      BY <2>1 DEF CreateInv, FlightInv, Leased
    <2>4. ASSUME NEW g \in Handlers PROVE FenceOf(g)' /\ KnowOf(g)'
      <3>1. FenceOf(g)' /\ (Owns(g)' <=> Owns(g))
        BY <2>1 DEF CreateInv, FenceOf, Owns, Leased, At
      <3>2. Holds(g, {"fence", "send"}) => objects'[op[g].cur] = objects[op[g].cur]
        <4>1. SUFFICES ASSUME Holds(g, {"fence", "send"}) PROVE objects'[op[g].cur] = objects[op[g].cur]
          OBVIOUS
        <4>2. f.scope \notin Keys[op[g].req]
          BY <4>1 DEF CreateInv, KnowOf, Holds, Clear
        <4>3. op[g].cur \in Keys[op[g].req] /\ Keys[op[g].req] \subseteq Scopes
          BY <1>0, <4>1, AtWork DEF OpType, Holds, Creating
        <4> QED  BY <2>1, <4>2, <4>3
      <3>3. KnowOf(g)'
        BY <2>1, <3>1, <3>2, StillKnows DEF CreateInv
      <3> QED  BY <3>1, <3>3
    <2> QED  BY <2>2, <2>3, <2>4 DEF CreateInv
  <1>6. ASSUME NEW f \in flight, Refuse(f) PROVE CreateInv'
    <2>1. /\ flight' = flight \ {f} /\ UNCHANGED <<lease, op, objects>>
          /\ \A g \in Handlers : g \in refused' =>
                g \in refused \/ (g = f.from /\ op[g].cur = f.scope)
      BY <1>6 DEF Refuse
    <2>2. NoDuplicate' /\ FlightInv'
      BY <2>1 DEF CreateInv, NoDuplicate, FlightInv, Leased
    <2>3. ASSUME NEW g \in Handlers PROVE FenceOf(g)' /\ KnowOf(g)'
      <3>1. FenceOf(g)' /\ (Owns(g)' <=> Owns(g))
        BY <2>1 DEF CreateInv, FenceOf, Owns, Leased, At
      <3>2. CASE g \in refused' => g \in refused
        BY <2>1, <3>1, <3>2, StillKnows DEF CreateInv
      <3>3. CASE op[g].cur = f.scope
        <4>1. \A e \in flight' : e.scope # op[g].cur
          BY <2>1, <3>3 DEF CreateInv, NoDuplicate
        <4> QED  BY <2>1, <3>1, <4>1 DEF CreateInv, KnowOf, Holds, Clear
      <3> QED  BY <2>1, <3>1, <3>2, <3>3
    <2> QED  BY <2>2, <2>3 DEF CreateInv
  <1>7. ASSUME NEW R, Pass(R) PROVE CreateInv'
    <2>1. \A f \in flight' : \E e \in flight : f = [e EXCEPT !.age = @ + 1] /\ f.scope = e.scope
                                             /\ f.age = e.age + 1 /\ e.age < FlightTime
      BY <1>0, <1>7 DEF Pass, Create
    <2>2. UNCHANGED <<op, objects, refused>> /\ \A h \in Handlers : ~At(h, "send")
      BY <1>7 DEF Pass
    <2>3. NoDuplicate'
      BY <2>1, <2>2 DEF CreateInv, NoDuplicate
    <2>4. FlightInv'
      <3> SUFFICES ASSUME NEW f \in flight'
                   PROVE  f.age <= FlightTime /\ f.scope \in Leased' /\ lease'[f.scope].left + f.age >= LeaseTime
        BY DEF FlightInv
      <3>1. PICK e \in flight : f.scope = e.scope /\ f.age = e.age + 1 /\ e.age < FlightTime
        BY <2>1
      <3>2. /\ e.scope \in Scopes /\ e.scope \in Leased /\ lease[e.scope].left + e.age >= LeaseTime
            /\ e.age \in Nat /\ FlightTime \in Nat /\ LeaseTime \in Nat
        BY <1>0, LeaseAssumption DEF CreateInv, FlightInv, Create, LeaseAssumption
      <3>3. lease'[e.scope] # NoLease /\ lease'[e.scope].left >= lease[e.scope].left - 1
        BY <1>7, <3>2, PassStep
      <3>4. lease[e.scope].left \in Nat /\ lease'[e.scope].left \in Nat
        <4>1. \A l \in Lease \cup {NoLease} : l.left \in Nat
          BY <3>2 DEF Lease, NoLease
        <4> QED  BY <1>7, <3>2, <4>1, PassType DEF TypeInv, TypeOK
      <3> QED  BY <3>1, <3>2, <3>3, <3>4 DEF Leased
    <2>5. ASSUME NEW g \in Handlers PROVE FenceOf(g)' /\ KnowOf(g)'
      <3>1. At(g, "idle") \/ (Owns(g)' => Owns(g))
        <4>1. CASE op[g].pc # "idle"
          <5>1. Keys[op[g].req] \subseteq Scopes
            BY <1>0, <4>1, AtWork DEF OpType
          <5> QED  BY <1>7, <2>2, <5>1, PassStep, LeaseFacts DEF Owns, Leased
        <4> QED  BY <4>1 DEF At
      <3>2. KnowOf(g)'
        BY <2>1, <2>2, <3>1, StillKnows DEF CreateInv
      <3> QED  BY <2>2, <3>2 DEF FenceOf, At
    <2> QED  BY <2>3, <2>4, <2>5 DEF CreateInv
  <1>8. CASE Heartbeat \/ Sleep
    BY <1>7, <1>8 DEF Heartbeat, Sleep
  <1>9. CASE Crash
    <2>1. \A h \in Handlers : op'[h] = Idle
      BY <1>9 DEF Crash
    <2>2. \A h \in Handlers : FenceOf(h)' /\ KnowOf(h)'
      BY <2>1 DEF FenceOf, KnowOf, Holds, At, Idle
    <2> QED  BY <1>9, <2>2 DEF Crash, CreateInv, NoDuplicate, FlightInv, Leased
  <1>10. CASE UNCHANGED vars
    BY <1>1, <1>10 DEF vars
  <1> QED  BY <1>2, <1>3, <1>4, <1>5, <1>6, <1>8, <1>9, <1>10 DEF Next

\* Only list-before-create under the lease keeps an object from being made twice,
\* and it does, whatever deaths, lost answers and late requests there are.
THEOREM CreatesOnce == Spec => []NoDuplicate
  <1>1. CreateInv => NoDuplicate
    BY DEF CreateInv
  <1> QED  BY <1>1, CreateInit, CreateStep, TypeCorrect, PTL DEF Spec

----------------------------------------------------------------------------

\* A step of a handler that changes leases gives it only what it owns, takes a
\* lease from nobody else, or claims what has expired.
LEMMA SlotStep == TypeInv /\ SharedSlot /\ [Next]_vars => SharedSlot'
  <1> SUFFICES ASSUME TypeInv, SharedSlot, [Next]_vars PROVE SharedSlot'
    OBVIOUS
  <1> USE DEF durable, drivers, external, HasActiveWork
  <1>0. work \in [Work -> {"none", "active", "stopped", "done"}] /\ OpType
    BY DEF TypeInv, TypeOK
  <1>1. ASSUME UNCHANGED <<work, revived>>, Leased' \subseteq Leased PROVE SharedSlot'
    BY <1>1 DEF SharedSlot
  <1>2. ASSUME UNCHANGED <<work, revived, lease>> PROVE SharedSlot'
    BY <1>1, <1>2 DEF Leased
  <1>3. ASSUME NEW w \in Work, SlotFree(w), Take(w) PROVE SharedSlot'
    BY <1>0, <1>3 DEF SlotFree, Take, SharedSlot, Leased
  <1>4. CASE Lifecycle
    <2>1. ASSUME NEW w \in Work, WorkEnds(w) PROVE SharedSlot'
      <3>1. \A v \in Work : HasActiveWork(v)' => HasActiveWork(v) /\ v # w
        BY <1>0, <2>1 DEF WorkEnds
      <3>2. \A v \in Work \ {w} : v \notin revived' => v \notin revived
        BY <2>1 DEF WorkEnds
      <3> QED  BY <2>1, <3>1, <3>2 DEF WorkEnds, SharedSlot, Leased
    <2>2. \A j \in Jobs : {<<"run", j>>, <<"update", j>>, <<"teardown", j>>} \subseteq Work
      BY DEF Work
    <2>3. ASSUME NEW w \in Work, SaveOldCopy(w) PROVE SharedSlot'
      <3>1. \A v \in Work : HasActiveWork(v)' /\ v \notin revived' => HasActiveWork(v) /\ v \notin revived
        BY <1>0, <2>3 DEF SaveOldCopy
      <3> QED  BY <2>3, <3>1 DEF SaveOldCopy, SharedSlot, Leased
    <2>4. SavedWhole \subseteq Work
      BY DEF Work, SavedWhole
    <2>5. CASE \E j \in Jobs : Drive(j)
      BY <1>2, <2>5 DEF Drive, SharedSlot
    <2> QED
      BY <1>3, <1>4, <2>1, <2>2, <2>3, <2>4, <2>5
         DEF Lifecycle, Apply, ResumeRun, BeginRunPolicyUpdate, StartTeardown, ResumeTeardown
  <1>5. ASSUME NEW h \in Handlers, NEW r \in Requests, Acquire(h, r) PROVE SharedSlot'
    BY <1>5 DEF Acquire, SharedSlot
  <1>6. ASSUME NEW h \in Handlers, Handle(h) PROVE SharedSlot'
    <2>1. CASE Fence(h)
      <3>1. op[h].req \in Requests /\ Keys[op[h].req] \subseteq Leased
        BY <1>0, <2>1, AtWork DEF Fence, OpType, At, Operation, Owns
      <3>2. \A k \in Scopes \ Keys[op[h].req] : lease'[k] = lease[k]
        BY <2>1, <3>1, GrantStep DEF Fence
      <3> QED  BY <1>1, <2>1, <3>1, <3>2 DEF Fence, Leased
    <2>2. CASE Release(h)
      BY <1>1, <2>2 DEF Release, Leased
    <2>3. CASE UNCHANGED <<work, revived, lease>>
      BY <1>2, <2>3
    <2> QED
      BY <1>6, <2>1, <2>2, <2>3
         DEF Handle, List, Finish, Post, Rejected, Answered, AnswerLost, Confirmed, Ambiguous, LeaseLost
  <1>7. ASSUME NEW R, Pass(R) PROVE SharedSlot'
    BY <1>1, <1>7, PassStep DEF Pass, Leased
  <1>8. CASE Heartbeat \/ Sleep
    BY <1>7, <1>8 DEF Heartbeat, Sleep
  <1>9. CASE Crash \/ (\E f \in flight : Land(f) \/ Refuse(f)) \/ UNCHANGED vars
    BY <1>2, <1>9 DEF Crash, Land, Refuse, vars
  <1> QED  BY <1>4, <1>5, <1>6, <1>8, <1>9 DEF Next

\* One slot for all: never two pieces of work, nor work beside a lease, unless a
\* driver's old copy brought the work back.
THEOREM OneSlot == Spec => []SharedSlot
  <1>1. Init => SharedSlot
    BY DEF Init, SharedSlot, HasActiveWork
  <1> QED  BY <1>1, SlotStep, TypeCorrect, PTL DEF Spec

----------------------------------------------------------------------------

LEMMA OutcomeStep == TypeInv /\ CreateInv /\ OutcomeInv /\ [Next]_vars => OutcomeInv'
  <1> SUFFICES ASSUME TypeInv, CreateInv, OutcomeInv, [Next]_vars PROVE OutcomeInv'
    OBVIOUS
  <1> USE DEF durable, drivers, external
  <1>0. OpType /\ open \subseteq Requests /\ NoLease \notin Lease
    <2>1. OpType /\ open \subseteq Requests
      BY DEF TypeInv, TypeOK
    <2>2. NoLease \notin Lease
      BY DEF NoLease, Lease
    <2> QED  BY <2>1, <2>2
  <1> DEFINE Reading == {"list", "fence", "send", "release"}
  <1>1. ASSUME UNCHANGED <<lease, op, open>> PROVE OutcomeInv'
    BY <1>1 DEF OutcomeInv, OutcomeKept, Holds, Owns, Leased
  \* A handler moves under the leases as they are, and may have read its outcome.
  <1>2. ASSUME NEW h \in Handlers, UNCHANGED lease, open' \subseteq open,
               \A g \in Handlers \ {h} : op'[g] = op[g],
               Holds(h, Reading)' => op'[h].req \notin open'
        PROVE  OutcomeInv'
    BY <1>2 DEF OutcomeInv, OutcomeKept, Holds, Owns, Leased
  <1>3. CASE Lifecycle
    BY <1>1, <1>3 DEF Lifecycle, Apply, ResumeRun, BeginRunPolicyUpdate, StartTeardown,
                     ResumeTeardown, Drive, WorkEnds, SaveOldCopy, Take
  <1>4. ASSUME NEW h \in Handlers, NEW r \in Requests, Acquire(h, r) PROVE OutcomeInv'
    <2>1. /\ \A k \in Keys[r] : lease'[k] = [digest |-> r, owner |-> h, left |-> LeaseTime]
          /\ \A k \in Scopes \ Keys[r] : lease'[k] = lease[k]
          /\ open' = open \ {r} /\ \A k \in Keys[r] : k \in Leased => lease[k].digest = r
      BY <1>4, GrantStep DEF Acquire, MayClaim
    <2>2. op'[h].req = r /\ \A g \in Handlers \ {h} : op'[g] = op[g]
      BY <1>0, <1>4, AcquireStep
    <2>3. OutcomeKept'
      BY <2>1, ScopesAssumption, <1>0 DEF OutcomeInv, OutcomeKept, Leased, ScopesAssumption
    <2>4. ASSUME NEW g \in Handlers, Holds(g, Reading)' PROVE op'[g].req \notin open'
      <3>1. CASE g = h
        BY <2>1, <2>2, <3>1
      <3>2. CASE g # h
        <4>1. Keys[op[g].req] \subseteq Scopes
          BY <1>0, <2>2, <2>4, <3>2, AtWork DEF OpType, Holds
        <4>2. Holds(g, Reading)
          BY <2>1, <2>2, <2>4, <3>2, <4>1 DEF Holds, Owns, Leased
        <4> QED  BY <2>1, <2>2, <3>2, <4>2 DEF OutcomeInv
      <3> QED  BY <3>1, <3>2
    <2> QED  BY <2>3, <2>4 DEF OutcomeInv
  <1>5. ASSUME NEW h \in Handlers, Handle(h) PROVE OutcomeInv'
    <2>0. OpInv(op[h])
      BY <1>0 DEF OpType
    <2>1. ASSUME NEW k \in Scopes, List(h, k) PROVE OutcomeInv'
      <3>1. /\ op[h].pc = "list" /\ UNCHANGED <<lease, open>> /\ op'[h].req = op[h].req
            /\ \A g \in Handlers \ {h} : op'[g] = op[g]
        <4>1. /\ op[h].pc = "list" /\ UNCHANGED <<lease, open>>
              /\ op'[h] = IF objects[k] > 0 THEN [op[h] EXCEPT !.todo = @ \ {k}]
                          ELSE [op[h] EXCEPT !.cur = k, !.pc = "fence"]
              /\ \A g \in Handlers \ {h} : op'[g] = op[g]
          BY <1>0, <2>1, ListStep DEF List, At
        <4>2. op[h] \in Operation
          BY <2>0, <4>1, AtWork
        <4> QED  BY <4>1, <4>2 DEF Operation
      <3>2. Holds(h, Reading)' => Holds(h, Reading)
        BY <3>1 DEF Holds, Owns, Leased
      <3> QED  BY <1>2, <3>1, <3>2 DEF OutcomeInv
    <2>2. CASE Finish(h)
      <3>1. /\ op[h].pc = "list" /\ UNCHANGED <<lease, open>> /\ op'[h] = [op[h] EXCEPT !.pc = "release"]
            /\ \A g \in Handlers \ {h} : op'[g] = op[g]
        BY <1>0, <2>2, GotoStep DEF Finish, At, Creating, OpType
      <3>2. op'[h].req = op[h].req
        BY <2>0, <3>1, AtWork DEF Operation
      <3>3. Holds(h, Reading)' => Holds(h, Reading)
        BY <3>1, <3>2 DEF Holds, Owns, Leased
      <3> QED  BY <1>2, <3>1, <3>2, <3>3 DEF OutcomeInv
    <2>3. CASE Fence(h)
      <3>1. /\ op[h].pc = "fence" /\ open' = open /\ op'[h] = [op[h] EXCEPT !.pc = "send"]
            /\ \A g \in Handlers \ {h} : op'[g] = op[g]
        BY <1>0, <2>3, GotoStep DEF Fence, At, Creating, OpType
      <3>2. op'[h].req = op[h].req /\ op[h].req \in Requests /\ Keys[op[h].req] \subseteq Scopes
        BY <2>0, <3>1, AtWork DEF Operation
      <3>3. /\ \A k \in Keys[op[h].req] : /\ k \in Leased /\ k \in Leased'
                                          /\ lease[k].owner = h /\ lease'[k].owner = h
                                          /\ lease[k].digest = op[h].req /\ lease'[k].digest = op[h].req
            /\ \A k \in Scopes \ Keys[op[h].req] : lease'[k] = lease[k]
        <4>1. /\ \A k \in Keys[op[h].req] :
                   lease'[k] = [digest |-> op[h].req, owner |-> h, left |-> LeaseTime]
              /\ \A k \in Scopes \ Keys[op[h].req] : lease'[k] = lease[k]
          BY <2>3, <3>2, GrantStep DEF Fence
        <4>2. [digest |-> op[h].req, owner |-> h, left |-> LeaseTime] # NoLease
          BY <1>0, <3>2, LeaseAssumption DEF Lease, LeaseAssumption
        <4> QED  BY <2>3, <3>2, <4>1, <4>2 DEF Fence, Owns, Leased
      <3>4. OutcomeKept'
        BY <1>0, <3>1, <3>3, ScopesAssumption DEF OutcomeInv, OutcomeKept, Leased, ScopesAssumption
      <3>5. ASSUME NEW g \in Handlers, Holds(g, Reading)' PROVE op'[g].req \notin open'
        <4>1. Keys[op[g].req] \subseteq Scopes /\ op[g].pc \in Reading /\ op'[g].req = op[g].req
          BY <1>0, <3>1, <3>2, <3>5, AtWork DEF OpType, Holds
        <4>2. Holds(g, Reading)
          BY <3>3, <3>5, <4>1 DEF Holds, Owns, Leased
        <4> QED  BY <3>1, <4>1, <4>2 DEF OutcomeInv
      <3> QED  BY <3>4, <3>5 DEF OutcomeInv
    <2>4. CASE Post(h)
      <3>1. /\ op[h].pc = "send" /\ UNCHANGED lease /\ open' = open \union {op[h].req}
            /\ op'[h] = [op[h] EXCEPT !.pc = "wait"]
            /\ \A g \in Handlers \ {h} : op'[g] = op[g]
        BY <1>0, <2>4, GotoStep DEF Post, At, Creating, OpType
      <3>2. op'[h].pc = "wait" /\ op[h].cur \in Keys[op[h].req] /\ Owns(h)
        BY <2>0, <3>1, AtWork DEF Operation, Creating, CreateInv, FenceOf, At
      <3>3. OutcomeKept'
        BY <3>1, <3>2 DEF OutcomeInv, OutcomeKept, Owns, Leased
      <3>4. ASSUME NEW g \in Handlers, Holds(g, Reading)' PROVE op'[g].req \notin open'
        <4>1. g # h
          BY <3>2, <3>4 DEF Holds
        <4>2. Holds(g, Reading) /\ op'[g] = op[g]
          BY <3>1, <3>4, <4>1 DEF Holds, Owns, Leased
        <4>3. op[g].req # op[h].req
          BY <3>2, <4>1, <4>2, OneOwner DEF Holds
        <4> QED  BY <3>1, <4>2, <4>3 DEF OutcomeInv
      <3> QED  BY <3>3, <3>4 DEF OutcomeInv
    <2>5. CASE Rejected(h) \/ Confirmed(h)
      <3>1. /\ UNCHANGED lease /\ open' = open \ {op[h].req} /\ op[h].pc # "idle"
            /\ op'[h] = [op[h] EXCEPT !.pc = "list", !.todo = @ \ {op[h].cur}]
            /\ \A g \in Handlers \ {h} : op'[g] = op[g]
        BY <1>0, <2>5, NextStep DEF Rejected, Confirmed, At, OpType
      <3>2. op'[h].req = op[h].req
        BY <2>0, <3>1, AtWork DEF Operation
      <3> QED  BY <1>2, <3>1, <3>2
    <2>6. CASE Answered(h) \/ AnswerLost(h) \/ Ambiguous(h) \/ LeaseLost(h)
      <3>1. /\ UNCHANGED <<lease, open>> /\ op'[h].pc \in {"confirm", "idle"}
            /\ \A g \in Handlers \ {h} : op'[g] = op[g]
        <4>1. CASE Answered(h) \/ AnswerLost(h)
          <5>1. /\ op[h].pc = "wait" /\ UNCHANGED <<lease, open>>
                /\ op'[h] = [op[h] EXCEPT !.pc = "confirm"]
                /\ \A g \in Handlers \ {h} : op'[g] = op[g]
            BY <1>0, <4>1, GotoStep DEF Answered, AnswerLost, At, Creating
          <5> QED  BY <2>0, <5>1, AtWork DEF Operation
        <4>2. CASE Ambiguous(h) \/ LeaseLost(h)
          BY <1>0, <4>2, LeaveStep DEF Ambiguous, LeaseLost, At, OpType, Idle
        <4> QED  BY <2>6, <4>1, <4>2
      <3> QED  BY <1>2, <3>1 DEF Holds
    <2>7. CASE Release(h)
      <3>1. /\ op[h].pc = "release" /\ Owns(h) /\ open' = open /\ op'[h] = Idle
            /\ \A g \in Handlers \ {h} : op'[g] = op[g]
            /\ \A k \in Scopes : lease'[k] = IF k \in Keys[op[h].req] THEN NoLease ELSE lease[k]
        BY <1>0, <2>7, LeaveStep DEF Release, At, OpType
      <3>2. op[h].req \notin open
        BY <3>1 DEF OutcomeInv, Holds
      <3>3. OutcomeKept'
        BY <1>0, <3>1, <3>2, ScopesAssumption DEF OutcomeInv, OutcomeKept, Owns, Leased, ScopesAssumption
      <3>4. ASSUME NEW g \in Handlers, Holds(g, Reading)' PROVE op'[g].req \notin open'
        <4>1. op'[g] = op[g] /\ Keys[op[g].req] \subseteq Scopes /\ g # h
          BY <1>0, <3>1, <3>4, AtWork DEF OpType, Holds, Idle
        <4>2. Holds(g, Reading)
          BY <3>1, <3>4, <4>1 DEF Holds, Owns, Leased
        <4> QED  BY <3>1, <4>1, <4>2 DEF OutcomeInv
      <3> QED  BY <3>3, <3>4 DEF OutcomeInv
    <2> QED  BY <1>5, <2>1, <2>2, <2>3, <2>4, <2>5, <2>6, <2>7 DEF Handle
  <1>6. ASSUME NEW f \in flight, Land(f) \/ Refuse(f) PROVE OutcomeInv'
    BY <1>1, <1>6 DEF Land, Refuse
  <1>7. ASSUME NEW R, Pass(R) PROVE OutcomeInv'
    <2>1. OutcomeKept'
      BY <1>0, <1>7, PassStep, ScopesAssumption DEF Pass, OutcomeInv, OutcomeKept, Leased, ScopesAssumption
    <2>2. ASSUME NEW g \in Handlers, Holds(g, Reading)' PROVE op'[g].req \notin open'
      <3>1. op'[g] = op[g] /\ open' = open /\ Keys[op[g].req] \subseteq Scopes
        BY <1>0, <1>7, <2>2, AtWork DEF Pass, OpType, Holds
      <3>2. Holds(g, Reading)
        BY <1>7, <2>2, <3>1, PassStep DEF Holds, Owns, Leased
      <3> QED  BY <3>1, <3>2 DEF OutcomeInv
    <2> QED  BY <2>1, <2>2 DEF OutcomeInv
  <1>8. CASE Heartbeat \/ Sleep
    BY <1>7, <1>8 DEF Heartbeat, Sleep
  <1>9. CASE Crash
    <2>1. \A h \in Handlers : op'[h] = Idle
      BY <1>9 DEF Crash
    <2> QED  BY <1>9, <2>1 DEF Crash, OutcomeInv, OutcomeKept, Holds, Idle, Leased
  <1>10. CASE UNCHANGED vars
    BY <1>1, <1>10 DEF vars
  <1> QED  BY <1>3, <1>4, <1>5, <1>6, <1>8, <1>9, <1>10 DEF Next

\* A create whose outcome nobody has read keeps its scopes from everyone else.
THEOREM UnreadIsKept == Spec => []OutcomeKept
  <1>1. Init => OutcomeInv
    BY DEF Init, OutcomeInv, OutcomeKept, Holds, Idle
  <1>2. OutcomeInv => OutcomeKept
    BY DEF OutcomeInv
  <1> QED  BY <1>1, <1>2, OutcomeStep, CreateInit, CreateStep, TypeCorrect, PTL DEF Spec
=============================================================================
