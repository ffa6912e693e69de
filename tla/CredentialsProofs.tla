------------------------- MODULE CredentialsProofs -------------------------
(* Theorems about Credentials, for every set of callers, every set of objects *)
(* that does not run out, and every bound.                                    *)
EXTENDS Credentials, TLAPS

IsMint(x) == x.pc \in {"asking", "posted"}

\* What a caller has by the time it is where it is.
CallInv(x) ==
    \/ x = Idle
    \/ /\ x \in Call
       /\ x.pc \in {"token", "asking", "posted", "wait"} => x.of \in Objects
       /\ IsMint(x) => x.token \in Token /\ x.token.of = x.of
       /\ x.pc = "wait" => x.on \in Callers
       /\ x.pc = "send" => x.token \in Token

TypeInv == TypeOK /\ \A c \in Callers : CallInv(call[c])

\* The mint in the field of an object is one of the object as it is now; who
\* waits waits for a mint.
MintInv ==
    /\ \A o \in Objects : inFlight[o] # None =>
         LET m == inFlight[o] IN
         IsMint(call[m]) /\ call[m].of = o /\ call[m].token.generation = generation[o]
    /\ \A m \in Callers : IsMint(call[m]) => call[m].token.generation <= generation[call[m].of]
    /\ \A c \in Callers : At(c, "wait") => IsMint(call[call[c].on])

\* Nothing an object can still give away was asked for before the a-th answer 401.
Fresh(o, a) ==
    /\ cached[o] # None => cached[o].since >= a
    /\ \A m \in Callers :
         IsMint(call[m]) /\ call[m].of = o /\ call[m].token.generation = generation[o]
            => call[m].token.since >= a

\* A caller that resends: whatever it can take its token from is fresh.
ResendOf(c) ==
    /\ At(c, "drop") \/ (call[c].pc \in {"ensure", "make"} /\ call[c].attempt = 2) =>
         credentials = None \/ Fresh(credentials, call[c].after)
    /\ At(c, "token") /\ call[c].attempt = 2 => Fresh(call[c].of, call[c].after)
    /\ call[c].pc \in {"asking", "posted", "send"} /\ call[c].attempt = 2 =>
         call[c].token.since >= call[c].after
    /\ At(c, "wait") /\ call[c].attempt = 2 => call[call[c].on].token.since >= call[c].after
    /\ ~At(c, "idle") => call[c].after <= refusals

ResendInv == \A c \in Callers : ResendOf(c)

\* After a sign-out no mint of the object in use can be answered any more.
LeftInv ==
    ~authorized /\ leaving # "chrome" =>
        /\ session = "none"
        /\ credentials # None =>
             /\ cached[credentials] = None
             /\ \A m \in Callers : At(m, "posted") => call[m].of # credentials

----------------------------------------------------------------------------

\* A caller that is not idle has all the fields of a call.
LEMMA AtWork ==
    ASSUME NEW x, CallInv(x), x.pc # "idle"
    PROVE  x \in Call
  BY DEF CallInv, Idle

\* What the steps of a caller make of its call.
LEMMA Moved ==
    ASSUME NEW x \in Call
    PROVE  /\ \A p \in {"ensure", "make", "refused", "drop"} :
                CallInv([x EXCEPT !.pc = p])
           /\ CallInv([x EXCEPT !.pc = "ensure", !.attempt = 2])
           /\ CallInv([x EXCEPT !.pc = "ensure", !.attempt = 2, !.of = None])
           /\ \A n \in Nat : CallInv([x EXCEPT !.pc = "refused", !.token = None, !.after = n])
           /\ \A o \in Objects : CallInv([x EXCEPT !.pc = "token", !.of = o])
           /\ \A t \in Token : CallInv([x EXCEPT !.pc = "send", !.token = t])
  BY DEF CallInv, Call, Idle, IsMint

\* A mint begins, is sent for, or is awaited.
LEMMA Begins ==
    ASSUME NEW x \in Call, x.of \in Objects, NEW t \in Token, t.of = x.of
    PROVE  CallInv([x EXCEPT !.pc = "asking", !.token = t])
  BY DEF CallInv, Call, Idle, IsMint

LEMMA Posts ==
    ASSUME NEW x, CallInv(x), x.pc = "asking"
    PROVE  CallInv([x EXCEPT !.pc = "posted"])
  <1>1. x \in Call /\ x.of \in Objects /\ x.token \in Token /\ x.token.of = x.of
    BY DEF CallInv, Idle, IsMint
  <1> DEFINE n == [x EXCEPT !.pc = "posted"]
  <1>2. n \in Call /\ n.pc = "posted" /\ n.of = x.of /\ n.token = x.token
    BY <1>1 DEF Call
  <1> QED  BY <1>1, <1>2 DEF CallInv

LEMMA Awaits ==
    ASSUME NEW x \in Call, x.of \in Objects, NEW m \in Callers
    PROVE  CallInv([x EXCEPT !.pc = "wait", !.on = m])
  BY DEF CallInv, Call, Idle, IsMint

LEMMA OneMoves ==
    ASSUME TypeInv, NEW c \in Callers, NEW x, CallInv(x), call' = [call EXCEPT ![c] = x]
    PROVE  /\ call' \in [Callers -> Call \cup {Idle}]
           /\ \A d \in Callers : CallInv(call'[d])
           /\ call'[c] = x /\ \A d \in Callers \ {c} : call'[d] = call[d]
  BY DEF TypeInv, TypeOK, CallInv

\* A new object is one that nobody refers to.
LEMMA NewStep ==
    ASSUME TypeInv, NewObject
    PROVE  /\ credentials' \in Objects /\ credentials' # credentials
           /\ \A c \in Callers : call[c].pc # "idle" => call[c].of # credentials'
           /\ generation' = [generation EXCEPT ![credentials'] = 0]
           /\ cached' = [cached EXCEPT ![credentials'] = None]
           /\ inFlight' = [inFlight EXCEPT ![credentials'] = None]
  <1> DEFINE of == [c \in Callers |-> IF call[c].pc = "idle" THEN None ELSE call[c].of]
  <1>1. of \in [Callers -> Objects \cup {None}]
    BY AtWork DEF TypeInv, Call
  <1>2. credentials \in Objects \cup {None}
    BY DEF TypeInv, TypeOK
  <1>3. PICK o \in Objects : o # credentials /\ \A c \in Callers : of[c] # o
    BY <1>1, <1>2, ObjectsAssumption DEF ObjectsAssumption
  <1>4. Unused(o)
    BY <1>3 DEF Unused, At
  <1>5. credentials' \in Objects /\ Unused(credentials')
    BY <1>4 DEF NewObject
  <1> QED  BY <1>5 DEF NewObject, Unused, At

LEMMA NewType ==
    ASSUME TypeInv, NewObject
    PROVE  /\ credentials' \in Objects
           /\ generation' \in [Objects -> Nat]
           /\ cached' \in [Objects -> Token \cup {None}]
           /\ inFlight' \in [Objects -> Callers \cup {None}]
  BY NewStep DEF TypeInv, TypeOK

\* A mint ends for its caller and for all who wait for it.
LEMMA SettleStep ==
    ASSUME TypeInv, NEW m \in Callers, NEW next, Settle(m, next),
           \A c \in Callers : Waiting(c, m) => CallInv(next[c])
    PROVE  /\ call' \in [Callers -> Call \cup {Idle}]
           /\ \A c \in Callers : CallInv(call'[c])
           /\ inFlight' \in [Objects -> Callers \cup {None}]
           /\ \A c \in Callers : call'[c] = IF Waiting(c, m) THEN next[c] ELSE call[c]
           /\ \A o \in Objects : inFlight'[o] = IF inFlight[o] = m THEN None ELSE inFlight[o]
  BY DEF TypeInv, TypeOK, Settle, CallInv

LEMMA TypeInit == Init => TypeInv
  BY DEF Init, TypeInv, TypeOK, CallInv

LEMMA TypeStep == TypeInv /\ [Next]_vars => TypeInv'
  <1> SUFFICES ASSUME TypeInv, [Next]_vars PROVE TypeInv'
    OBVIOUS
  <1> USE DEF TypeInv, TypeOK, object, worker, outside
  <1>1. ASSUME NEW c \in Callers, Request(c) \/ Proceed(c) PROVE TypeInv'
    <2> DEFINE x == call[c]
    <2>0. CallInv(x) /\ CallInv(Idle)
      BY DEF CallInv
    <2>1. CASE Request(c)
      <3> DEFINE n == [pc |-> "ensure", attempt |-> 1, of |-> None, on |-> None, token |-> None, after |-> 0]
      <3>1. CallInv(n)
        BY DEF CallInv, Call, IsMint
      <3> QED  BY <2>1, <3>1, OneMoves DEF Request
    <2>2. CASE Ensure(c)
      <3> DEFINE n == IF credentials # None THEN [x EXCEPT !.pc = "token", !.of = credentials]
                      ELSE IF bound THEN [x EXCEPT !.pc = "make"] ELSE Idle
      <3>1. CallInv(n)
        BY <2>0, <2>2, AtWork, Moved DEF Ensure, At
      <3>2. call' = [call EXCEPT ![c] = n]
        BY <2>2 DEF Ensure
      <3> QED  BY <2>2, <3>1, <3>2, OneMoves DEF Ensure
    <2>3. CASE Make(c)
      <3>1. CallInv([x EXCEPT !.pc = "token", !.of = credentials'])
        BY <2>0, <2>3, AtWork, Moved, NewType DEF Make, At
      <3>2. call' = [call EXCEPT ![c] = [x EXCEPT !.pc = "token", !.of = credentials']]
        BY <2>3 DEF Make
      <3> QED  BY <2>3, <3>1, <3>2, OneMoves, NewType DEF Make
    <2>4. CASE Reuse(c)
      <3>1. x \in Call /\ x.of \in Objects
        BY <2>0, <2>4 DEF Reuse, At, CallInv, Idle
      <3>2. CallInv([x EXCEPT !.pc = "send", !.token = cached[x.of]])
        BY <2>4, <3>1, Moved DEF Reuse
      <3>3. call' = [call EXCEPT ![c] = [x EXCEPT !.pc = "send", !.token = cached[x.of]]]
        BY <2>4 DEF Reuse
      <3> QED  BY <2>4, <3>2, <3>3, OneMoves DEF Reuse
    <2>5. CASE BeginMint(c)
      <3> DEFINE t == [of |-> x.of, generation |-> generation[x.of], since |-> refusals]
      <3>1. x \in Call /\ x.of \in Objects
        BY <2>0, <2>5 DEF BeginMint, At, CallInv, Idle
      <3>2. t \in Token
        BY <3>1 DEF Token
      <3>3. CallInv([x EXCEPT !.pc = "asking", !.token = t])
        BY <3>1, <3>2, Begins
      <3>4. call' = [call EXCEPT ![c] = [x EXCEPT !.pc = "asking", !.token = t]]
        BY <2>5 DEF BeginMint
      <3> QED  BY <2>5, <3>3, <3>4, OneMoves DEF BeginMint
    <2>6. CASE Join(c)
      <3>1. x \in Call /\ x.of \in Objects
        BY <2>0, <2>6 DEF Join, At, CallInv, Idle
      <3>2. CallInv([x EXCEPT !.pc = "wait", !.on = inFlight[x.of]])
        BY <2>6, <3>1, Awaits DEF Join
      <3>3. call' = [call EXCEPT ![c] = [x EXCEPT !.pc = "wait", !.on = inFlight[x.of]]]
        BY <2>6 DEF Join
      <3> QED  BY <2>6, <3>2, <3>3, OneMoves DEF Join
    <2>7. CASE Ask(c)
      <3>1. CallInv([x EXCEPT !.pc = "posted"])
        BY <2>0, <2>7, Posts DEF Ask, At
      <3>2. call' = [call EXCEPT ![c] = [x EXCEPT !.pc = "posted"]]
        BY <2>7 DEF Ask, Goto
      <3> QED  BY <2>7, <3>1, <3>2, OneMoves DEF Ask
    <2>8. CASE Minted(c)
      <3>1. x.token \in Token /\ x \in Call
        BY <2>0, <2>8 DEF Minted, At, CallInv, Idle, IsMint
      <3>2. ASSUME NEW d \in Callers, Waiting(d, c) PROVE CallInv(Sending(c, d))
        <4>1. call[d] \in Call
          BY <2>8, <3>2, AtWork DEF Minted, Waiting, At
        <4>2. [call[d] EXCEPT !.on = None] \in Call
          BY <4>1 DEF Call
        <4>3. CallInv([[call[d] EXCEPT !.on = None] EXCEPT !.pc = "send", !.token = x.token])
          BY <3>1, <4>2, Moved
        <4>4. Sending(c, d) = [[call[d] EXCEPT !.on = None] EXCEPT !.pc = "send", !.token = x.token]
          BY <4>1 DEF Sending, Call
        <4> QED  BY <4>3, <4>4
      <3>3. /\ call' \in [Callers -> Call \cup {Idle}] /\ \A d \in Callers : CallInv(call'[d])
            /\ inFlight' \in [Objects -> Callers \cup {None}]
        BY <2>8, <3>2, SettleStep DEF Minted
      <3> QED  BY <2>8, <3>1, <3>3 DEF Minted
    <2>9. CASE MintFails(c)
      <3>1. /\ call' \in [Callers -> Call \cup {Idle}] /\ \A d \in Callers : CallInv(call'[d])
            /\ inFlight' \in [Objects -> Callers \cup {None}]
        BY <2>0, <2>9, SettleStep DEF MintFails
      <3> QED  BY <2>9, <3>1 DEF MintFails
    <2>10. CASE Answered(c)
      BY <2>0, <2>10, OneMoves DEF Answered
    <2>11. CASE Refused(c)
      <3>0. refusals' \in Nat
        BY <2>11 DEF Refused
      <3>1. CallInv([x EXCEPT !.pc = "refused", !.token = None, !.after = refusals'])
        BY <2>0, <2>11, <3>0, AtWork, Moved DEF Refused, At
      <3>2. call' = [call EXCEPT ![c] = [x EXCEPT !.pc = "refused", !.token = None, !.after = refusals']]
        BY <2>11 DEF Refused
      <3> QED  BY <2>11, <3>0, <3>1, <3>2, OneMoves DEF Refused
    <2>12. CASE Invalidate(c)
      <3>1. CallInv([x EXCEPT !.pc = "drop"])
        BY <2>0, <2>12, AtWork, Moved DEF Invalidate, At
      <3>2. call' = [call EXCEPT ![c] = [x EXCEPT !.pc = "drop"]]
        BY <2>12 DEF Invalidate, Goto
      <3>3. credentials \in Objects
        BY <2>12 DEF Invalidate
      <3>4. generation' \in [Objects -> Nat]
        BY <2>12, <3>3 DEF Invalidate
      <3>5. cached' \in [Objects -> Token \cup {None}]
        BY <2>12, <3>3 DEF Invalidate
      <3>6. inFlight' \in [Objects -> Callers \cup {None}]
        BY <2>12, <3>3 DEF Invalidate
      <3> QED  BY <2>12, <3>1, <3>2, <3>4, <3>5, <3>6, OneMoves DEF Invalidate
    <2>13. CASE InvalidateNothing(c)
      <3>1. CallInv([x EXCEPT !.pc = "drop"]) /\ CallInv([x EXCEPT !.pc = "ensure", !.attempt = 2])
        BY <2>0, <2>13, AtWork, Moved DEF InvalidateNothing, At
      <3>2. CASE bound
        BY <2>13, <3>1, <3>2, OneMoves, NewType DEF InvalidateNothing, Goto
      <3>3. CASE ~bound
        BY <2>13, <3>1, <3>3, OneMoves DEF InvalidateNothing
      <3> QED  BY <3>2, <3>3
    <2>14. CASE Drop(c)
      <3>1. CallInv([x EXCEPT !.pc = "ensure", !.attempt = 2, !.of = None])
        BY <2>0, <2>14, AtWork, Moved DEF Drop, At
      <3>2. call' = [call EXCEPT ![c] = [x EXCEPT !.pc = "ensure", !.attempt = 2, !.of = None]]
        BY <2>14 DEF Drop
      <3> QED  BY <2>14, <3>1, <3>2, OneMoves DEF Drop
    <2> QED
      BY <1>1, <2>1, <2>2, <2>3, <2>4, <2>5, <2>6, <2>7, <2>8, <2>9, <2>10, <2>11, <2>12, <2>13,
         <2>14 DEF Proceed
  <1>2. ASSUME NEW o \in Objects, Age(o) PROVE TypeInv'
    BY <1>2 DEF Age
  <1>3. CASE Attest \/ SessionAges
    BY <1>3 DEF Attest, SessionAges
  <1>6. CASE SignOut
    <2>1. signOuts' \in Nat
      BY <1>6 DEF SignOut
    <2> QED  BY <1>6, <2>1 DEF SignOut
  <1>7. CASE Forget \/ RemoveIdentity
    BY <1>7 DEF Forget, RemoveIdentity
  <1>8. CASE SignIn \/ Bootstrap
    BY <1>8 DEF SignIn, Bootstrap
  <1>4. CASE Impersonate \/ UseDeployer
    BY <1>4, NewType DEF Impersonate, UseDeployer
  <1>5. CASE UNCHANGED vars
    BY <1>5 DEF vars
  <1> QED  BY <1>1, <1>2, <1>3, <1>4, <1>5, <1>6, <1>7, <1>8 DEF Next

\* Every variable stays in its type; a mint is one of its caller's object.
THEOREM TypeCorrect == Spec => []TypeInv
  <1> QED  BY TypeInit, TypeStep, PTL DEF Spec

----------------------------------------------------------------------------
(* The cache.                                                                *)

\* Only an invalidation moves a generation on, and it empties the cache.
LEMMA CacheStep == TypeInv /\ CacheIsCurrent /\ [Next]_vars => CacheIsCurrent'
  <1> SUFFICES ASSUME TypeInv, CacheIsCurrent, [Next]_vars PROVE CacheIsCurrent'
    OBVIOUS
  <1> USE DEF CacheIsCurrent, object, worker
  <1>0. generation \in [Objects -> Nat] /\ cached \in [Objects -> Token \cup {None}]
    BY DEF TypeInv, TypeOK
  <1>1. CASE NewObject
    BY <1>0, <1>1, NewStep
  <1>2. CASE UNCHANGED <<generation, cached>>
    BY <1>2
  <1>3. ASSUME NEW c \in Callers, Proceed(c) PROVE CacheIsCurrent' \/ NewObject \/ UNCHANGED <<generation, cached>>
    <2>1. CASE Minted(c)
      <3>1. call[c].token \in Token
        BY <2>1 DEF Minted, TypeInv, CallInv, At, Idle, IsMint
      <3> QED  BY <1>0, <2>1, <3>1 DEF Minted, Token
    <2>2. CASE Invalidate(c)
      BY <1>0, <2>2 DEF Invalidate
    <2>3. CASE Ensure(c) \/ Make(c) \/ Reuse(c) \/ Join(c) \/ BeginMint(c) \/ Ask(c)
      BY <2>3 DEF Ensure, Make, Reuse, Join, BeginMint, Ask
    <2>4. CASE MintFails(c) \/ Answered(c) \/ Refused(c) \/ Drop(c)
      BY <2>4 DEF MintFails, Answered, Refused, Drop
    <2>5. CASE InvalidateNothing(c)
      BY <2>5 DEF InvalidateNothing
    <2> QED  BY <1>3, <2>1, <2>2, <2>3, <2>4, <2>5 DEF Proceed
  <1>4. ASSUME NEW o \in Objects, Age(o) PROVE CacheIsCurrent'
    BY <1>0, <1>4 DEF Age
  <1>5. ASSUME NEW c \in Callers, Request(c) PROVE UNCHANGED <<generation, cached>>
    BY <1>5 DEF Request
  <1>6. CASE Attest \/ SessionAges \/ SignOut \/ Forget \/ RemoveIdentity \/ SignIn \/ Bootstrap
    BY <1>2, <1>6 DEF Attest, SessionAges, SignOut, Forget, RemoveIdentity, SignIn, Bootstrap
  <1>7. CASE Impersonate \/ UseDeployer
    BY <1>1, <1>2, <1>7 DEF Impersonate, UseDeployer
  <1>8. CASE UNCHANGED vars
    BY <1>2, <1>8 DEF vars
  <1> QED  BY <1>1, <1>2, <1>3, <1>4, <1>5, <1>6, <1>7, <1>8 DEF Next

----------------------------------------------------------------------------
(* The mints.                                                                *)

\* A caller that neither mints nor waits, before and after its step.
Plain(x) == x.pc \notin {"asking", "posted", "wait"}

\* What the mints are made of.
LEMMA MintTypes ==
    ASSUME TypeInv
    PROVE  /\ generation \in [Objects -> Nat]
           /\ inFlight \in [Objects -> Callers \cup {None}]
           /\ \A c \in Callers : IsMint(call[c]) =>
                /\ call[c] \in Call /\ call[c].of \in Objects
                /\ call[c].token \in Token /\ call[c].token.of = call[c].of
           /\ \A c \in Callers : call[c].pc = "wait" => call[c].on \in Callers
  BY DEF TypeInv, TypeOK, CallInv, Idle, IsMint

LEMMA PlainStep ==
    ASSUME TypeInv, MintInv, NEW c \in Callers, Plain(call[c]), Plain(call'[c]),
           \A d \in Callers \ {c} : call'[d] = call[d], UNCHANGED object
    PROVE  MintInv'
  <1>1. \A m \in Callers : IsMint(call[m]) => call'[m] = call[m]
    BY DEF Plain, IsMint
  <1>2. \A m \in Callers : IsMint(call'[m]) => call'[m] = call[m]
    BY DEF Plain, IsMint
  <1>3. \A d \in Callers : call'[d].pc = "wait" => call'[d] = call[d]
    BY DEF Plain
  <1> QED  BY <1>1, <1>2, <1>3, MintTypes DEF MintInv, At, object

\* An object that nobody refers to, with everything else as it was.
LEMMA MintNew ==
    ASSUME TypeInv, MintInv, NewObject,
           \A d \in Callers : call'[d] = call[d] \/ (Plain(call[d]) /\ Plain(call'[d]))
    PROVE  MintInv'
  <1>1. \A m \in Callers : IsMint(call[m]) =>
          call'[m] = call[m] /\ call[m].of # credentials' /\ call[m].of \in Objects
    BY NewStep, MintTypes DEF Plain, IsMint
  <1>2. \A m \in Callers : IsMint(call'[m]) => call'[m] = call[m]
    BY DEF Plain, IsMint
  <1>3. \A d \in Callers : call'[d].pc = "wait" => call'[d] = call[d]
    BY DEF Plain
  <1>4. \A o \in Objects : o # credentials' => generation'[o] = generation[o] /\ inFlight'[o] = inFlight[o]
    BY NewStep, MintTypes
  <1>5. inFlight'[credentials'] = None
    BY NewStep DEF TypeInv, TypeOK
  <1>6. \A o \in Objects : inFlight'[o] # None =>
          inFlight'[o] \in Callers /\ inFlight'[o] = inFlight[o] /\ generation'[o] = generation[o]
    BY <1>4, <1>5, MintTypes
  <1>7. \A o \in Objects : inFlight'[o] # None =>
          LET m == inFlight'[o] IN
          IsMint(call'[m]) /\ call'[m].of = o /\ call'[m].token.generation = generation'[o]
    BY <1>1, <1>6 DEF MintInv
  <1>8. \A m \in Callers : IsMint(call'[m]) => call'[m].token.generation <= generation'[call'[m].of]
    BY <1>1, <1>2, <1>4 DEF MintInv
  <1>9. \A c \in Callers : At(c, "wait")' => IsMint(call'[call'[c].on])
    BY <1>1, <1>3, MintTypes DEF MintInv, At
  <1> QED  BY <1>7, <1>8, <1>9 DEF MintInv, At

\* A mint that ends takes everybody with it who waits for it.
LEMMA MintSettles ==
    ASSUME TypeInv, MintInv, NEW m \in Callers, IsMint(call[m]), NEW next, Settle(m, next),
           \A c \in Callers : Waiting(c, m) => CallInv(next[c]) /\ Plain(next[c]),
           UNCHANGED generation
    PROVE  MintInv'
  <1>1. /\ \A c \in Callers : call'[c] = IF Waiting(c, m) THEN next[c] ELSE call[c]
        /\ \A o \in Objects : inFlight'[o] = IF inFlight[o] = m THEN None ELSE inFlight[o]
    BY SettleStep
  <1>2. \A d \in Callers : IsMint(call[d]) /\ d # m => call'[d] = call[d]
    BY <1>1 DEF Waiting, IsMint, At
  <1>3. \A d \in Callers : IsMint(call'[d]) => d # m /\ call'[d] = call[d]
    BY <1>1 DEF Waiting, IsMint, At, Plain
  <1>4. \A c \in Callers : At(c, "wait")' => At(c, "wait") /\ call'[c] = call[c] /\ call[c].on # m
    BY <1>1 DEF Waiting, IsMint, At, Plain
  <1>5. /\ \A o \in Objects : inFlight[o] \in Callers \cup {None}
        /\ \A c \in Callers : At(c, "wait") => call[c].on \in Callers
    BY DEF TypeInv, TypeOK, CallInv, Idle, At
  <1> QED  BY <1>1, <1>2, <1>3, <1>4, <1>5 DEF MintInv

LEMMA MintInit == Init => MintInv
  BY NoneAssumption DEF Init, MintInv, At, Idle, IsMint

LEMMA MintStep == TypeInv /\ MintInv /\ [Next]_vars => MintInv'
  <1> SUFFICES ASSUME TypeInv, MintInv, [Next]_vars PROVE MintInv'
    OBVIOUS
  <1> USE DEF object, worker, outside
  <1>0. call \in [Callers -> Call \cup {Idle}]
    BY DEF TypeInv, TypeOK
  <1>1. ASSUME NEW c \in Callers, Request(c) \/ Proceed(c) PROVE MintInv'
    <2> DEFINE x == call[c]
    <2>0. CallInv(x) /\ (x.pc # "idle" => x \in Call)
      BY AtWork DEF TypeInv
    <2>1. CASE Request(c) \/ Answered(c)
      <3>1. Plain(call[c]) /\ Plain(call'[c])
        BY <1>0, <2>1 DEF Request, Answered, At, Plain, Idle
      <3> QED  BY <1>0, <2>1, <3>1, PlainStep DEF Request, Answered
    <2>2. CASE Ensure(c)
      <3>1. Plain(call[c]) /\ Plain(call'[c])
        BY <1>0, <2>0, <2>2 DEF Ensure, At, Plain, Idle, Call
      <3> QED  BY <1>0, <2>2, <3>1, PlainStep DEF Ensure
    <2>3. CASE Reuse(c) \/ Refused(c) \/ Drop(c)
      <3>1. Plain(call[c]) /\ Plain(call'[c])
        BY <1>0, <2>0, <2>3 DEF Reuse, Refused, Drop, At, Plain, Call
      <3> QED  BY <1>0, <2>3, <3>1, PlainStep DEF Reuse, Refused, Drop
    <2>4. CASE Make(c)
      <3>1. Plain(call[c]) /\ Plain(call'[c])
        BY <1>0, <2>0, <2>4 DEF Make, At, Plain, Call
      <3> QED  BY <1>0, <2>4, <3>1, MintNew DEF Make
    <2>5. CASE InvalidateNothing(c)
      <3>1. Plain(call[c]) /\ Plain(call'[c])
        BY <1>0, <2>0, <2>5 DEF InvalidateNothing, Goto, At, Plain, Call
      <3> QED  BY <1>0, <2>5, <3>1, MintNew, PlainStep DEF InvalidateNothing, Goto
    <2>6. CASE BeginMint(c)
      <3> DEFINE o == x.of
      <3>1. x \in Call /\ o \in Objects /\ x.pc = "token" /\ inFlight[o] = None
        BY <2>0, <2>6 DEF BeginMint, At, CallInv, Idle
      <3>2. /\ call'[c].pc = "asking" /\ call'[c].of = o /\ call'[c].token.generation = generation[o]
            /\ \A d \in Callers \ {c} : call'[d] = call[d]
            /\ inFlight' = [inFlight EXCEPT ![o] = c] /\ generation' = generation
        BY <1>0, <2>6, <3>1 DEF BeginMint, Call
      <3>3. \A d \in Callers : IsMint(call[d]) => d # c
        BY <3>1 DEF IsMint
      <3>4. \A d \in Callers : call'[d].pc = "wait" => call'[d] = call[d]
        BY <3>2
      <3> QED  BY <3>1, <3>2, <3>3, <3>4, MintTypes DEF MintInv, At, IsMint
    <2>7. CASE Join(c)
      <3> DEFINE m == inFlight[x.of]
      <3>1. x \in Call /\ x.of \in Objects /\ x.pc = "token" /\ m # None
        BY <2>0, <2>7 DEF Join, At, CallInv, Idle
      <3>2. call'[c].pc = "wait" /\ call'[c].on = m /\ \A d \in Callers \ {c} : call'[d] = call[d]
        BY <1>0, <2>7, <3>1 DEF Join, Call
      <3>3. \A d \in Callers : IsMint(call[d]) => call'[d] = call[d]
        BY <3>1, <3>2 DEF IsMint
      <3>4. \A d \in Callers : IsMint(call'[d]) => call'[d] = call[d]
        BY <3>2 DEF IsMint
      <3>5. m \in Callers /\ IsMint(call[m])
        BY <3>1, MintTypes DEF MintInv
      <3>6. UNCHANGED <<generation, inFlight>>
        BY <2>7 DEF Join
      <3> QED  BY <3>2, <3>3, <3>4, <3>5, <3>6, MintTypes DEF MintInv, At
    <2>8. CASE Ask(c)
      <3>1. x \in Call /\ IsMint(x)
        BY <2>0, <2>8 DEF Ask, At, IsMint
      <3>2. /\ call'[c].pc = "posted" /\ call'[c].of = x.of /\ call'[c].token = x.token
            /\ \A d \in Callers \ {c} : call'[d] = call[d]
            /\ UNCHANGED <<generation, inFlight>>
        BY <1>0, <2>8, <3>1 DEF Ask, Goto, Call
      <3>3. \A d \in Callers : IsMint(call'[d]) <=> IsMint(call[d])
        BY <3>1, <3>2 DEF IsMint
      <3>4. \A d \in Callers : call'[d].pc = "wait" => call'[d] = call[d]
        BY <3>2
      <3>5. \A d \in Callers : IsMint(call[d]) => call'[d].of = call[d].of /\ call'[d].token = call[d].token
        BY <3>2
      <3> QED  BY <3>2, <3>3, <3>4, <3>5, MintTypes DEF MintInv, At
    <2>9. CASE Minted(c)
      <3>1. IsMint(x)
        BY <2>9 DEF Minted, At, IsMint
      <3>2. ASSUME NEW d \in Callers, Waiting(d, c)
            PROVE  CallInv(Sending(c, d)) /\ Plain(Sending(c, d))
        <4>1. call[d] \in Call /\ x.token \in Token
          BY <2>9, <3>1, <3>2, AtWork, MintTypes DEF Minted, Waiting, At, TypeInv
        <4> QED  BY <4>1 DEF Sending, Call, CallInv, Plain, IsMint
      <3> QED  BY <2>9, <3>1, <3>2, MintSettles DEF Minted
    <2>10. CASE MintFails(c)
      <3>1. IsMint(x)
        BY <2>10 DEF MintFails, At, IsMint
      <3>2. CallInv(Idle) /\ Plain(Idle)
        BY DEF CallInv, Plain, Idle
      <3> QED  BY <2>10, <3>1, <3>2, MintSettles DEF MintFails
    <2>11. CASE Invalidate(c)
      <3>1. /\ Plain(call[c]) /\ Plain(call'[c])
            /\ \A d \in Callers \ {c} : call'[d] = call[d]
        BY <1>0, <2>0, <2>11 DEF Invalidate, Goto, At, Plain, Call
      <3>2. \A d \in Callers : IsMint(call[d]) => call'[d] = call[d]
        BY <3>1 DEF Plain, IsMint
      <3>3. \A d \in Callers : IsMint(call'[d]) => call'[d] = call[d]
        BY <3>1 DEF Plain, IsMint
      <3>4. \A d \in Callers : call'[d].pc = "wait" => call'[d] = call[d]
        BY <3>1 DEF Plain
      <3>5. credentials \in Objects
        BY <2>11 DEF Invalidate, TypeInv, TypeOK
      <3>6. \A o \in Objects : generation'[o] \in Nat /\ generation'[o] >= generation[o]
        BY <2>11, <3>5, MintTypes DEF Invalidate
      <3>7. \A o \in Objects : inFlight'[o] # None =>
              inFlight'[o] = inFlight[o] /\ generation'[o] = generation[o]
        BY <2>11, <3>5, MintTypes DEF Invalidate
      <3>8. \A o \in Objects : inFlight'[o] # None =>
              LET m == inFlight'[o] IN
              IsMint(call'[m]) /\ call'[m].of = o /\ call'[m].token.generation = generation'[o]
        BY <3>2, <3>7, MintTypes DEF MintInv
      <3>9. \A m \in Callers : IsMint(call'[m]) => call'[m].token.generation <= generation'[call'[m].of]
        <4>1. SUFFICES ASSUME NEW m \in Callers, IsMint(call'[m])
                       PROVE  call'[m].token.generation <= generation'[call'[m].of]
          OBVIOUS
        <4>2. call'[m] = call[m] /\ call[m].of \in Objects /\ call[m].token.generation \in Nat
          BY <3>3, <4>1, MintTypes DEF Token
        <4>3. call[m].token.generation <= generation[call[m].of]
          BY <4>1, <4>2 DEF MintInv
        <4> QED  BY <3>6, <4>2, <4>3, MintTypes
      <3>10. \A d \in Callers : At(d, "wait")' => IsMint(call'[call'[d].on])
        BY <3>2, <3>4, MintTypes DEF MintInv, At
      <3> QED  BY <3>8, <3>9, <3>10 DEF MintInv, At
    <2> QED
      BY <1>1, <2>1, <2>2, <2>3, <2>4, <2>5, <2>6, <2>7, <2>8, <2>9, <2>10, <2>11 DEF Proceed
  <1>2. CASE UNCHANGED <<generation, inFlight, call>>
    BY <1>2 DEF MintInv, At
  <1>3. ASSUME NEW o \in Objects, Age(o) PROVE UNCHANGED <<generation, inFlight, call>>
    BY <1>3 DEF Age
  <1>4. CASE Attest \/ SessionAges \/ SignOut \/ Forget \/ RemoveIdentity \/ SignIn \/ Bootstrap
    BY <1>2, <1>4 DEF Attest, SessionAges, SignOut, Forget, RemoveIdentity, SignIn, Bootstrap
  <1>5. CASE Impersonate \/ UseDeployer
    BY <1>2, <1>5, MintNew DEF Impersonate, UseDeployer
  <1>6. CASE UNCHANGED vars
    BY <1>2, <1>6 DEF vars
  <1> QED  BY <1>1, <1>2, <1>3, <1>4, <1>5, <1>6 DEF Next

----------------------------------------------------------------------------
(* The resend.                                                               *)

\* Fresh once a step is done, of an object as it is then.
FreshNext(o, a) ==
    /\ cached'[o] # None => cached'[o].since >= a
    /\ \A m \in Callers :
         IsMint(call'[m]) /\ call'[m].of = o /\ call'[m].token.generation = generation'[o]
            => call'[m].token.since >= a

\* What was fresh stays so.
KeepsFresh == \A o \in Objects, a \in Nat : a <= refusals /\ Fresh(o, a) => FreshNext(o, a)

\* The object in use is the one it was, there is none, or it is fresh.
KeepsUse ==
    \/ credentials' = credentials \/ credentials' = None
    \/ \A a \in Nat : FreshNext(credentials', a)

\* No mint that counted for nothing comes to count.
LEMMA FreshKept ==
    ASSUME TypeInv, UNCHANGED generation,
           \A o \in Objects : cached'[o] = cached[o] \/ cached'[o] = None,
           \A m \in Callers : IsMint(call'[m]) =>
               \/ call'[m].token.since = refusals
               \/ IsMint(call[m]) /\ call'[m].of = call[m].of /\ call'[m].token = call[m].token
    PROVE  KeepsFresh
  BY DEF KeepsFresh, Fresh, FreshNext, TypeInv, TypeOK

\* An object that has just been made is fresh for everybody.
LEMMA FreshNew ==
    ASSUME TypeInv, NewObject,
           \A m \in Callers : IsMint(call'[m]) => call'[m] = call[m]
    PROVE  KeepsFresh /\ \A a \in Nat : FreshNext(credentials', a)
  <1>1. \A m \in Callers : IsMint(call'[m]) => call'[m] = call[m] /\ call[m].of # credentials'
    BY NewStep DEF IsMint
  <1>2. cached'[credentials'] = None
    BY NewStep DEF TypeInv, TypeOK
  <1>3. \A o \in Objects \ {credentials'} : cached'[o] = cached[o] /\ generation'[o] = generation[o]
    BY NewStep DEF TypeInv, TypeOK
  <1>4. \A a \in Nat : FreshNext(credentials', a)
    BY <1>1, <1>2 DEF FreshNext
  <1>5. ASSUME NEW o \in Objects, NEW a \in Nat, Fresh(o, a) PROVE FreshNext(o, a)
    <2>1. CASE o = credentials'
      BY <1>4, <2>1
    <2>2. CASE o # credentials'
      BY <1>1, <1>3, <1>5, <2>2 DEF Fresh, FreshNext
    <2> QED  BY <2>1, <2>2
  <1> QED  BY <1>4, <1>5 DEF KeepsFresh

\* Who does not move, and does not see the mint it waits for move, resends as before.
LEMMA Others ==
    ASSUME TypeInv, ResendInv, KeepsFresh, KeepsUse, refusals' \in Nat, refusals' >= refusals,
           NEW c \in Callers, call'[c] = call[c],
           At(c, "wait") => call'[call[c].on].token = call[call[c].on].token
    PROVE  ResendOf(c)'
  <1>1. CASE At(c, "idle")
    BY <1>1 DEF ResendOf, At
  <1>2. CASE ~At(c, "idle")
    <2> DEFINE a == call[c].after
    <2>0. ResendOf(c)
      BY DEF ResendInv
    <2>1. call[c] \in Call /\ a \in Nat /\ a <= refusals
      BY <1>2, <2>0, AtWork DEF TypeInv, At, Call, ResendOf
    <2>2. refusals \in Nat /\ (credentials # None => credentials \in Objects)
      BY DEF TypeInv, TypeOK
    <2>3. a <= refusals'
      BY <2>1, <2>2
    <2>4. At(c, "token") => call[c].of \in Objects
      BY DEF TypeInv, CallInv, At, Idle
    <2>5. ASSUME At(c, "drop") \/ (call[c].pc \in {"ensure", "make"} /\ call[c].attempt = 2)
          PROVE  credentials' = None \/ FreshNext(credentials', a)
      <3>1. credentials = None \/ Fresh(credentials, a)
        BY <2>0, <2>5 DEF ResendOf
      <3>2. CASE credentials' = credentials
        BY <2>1, <2>2, <3>1, <3>2 DEF KeepsFresh
      <3>3. CASE \A b \in Nat : FreshNext(credentials', b)
        BY <2>1, <3>3
      <3> QED  BY <3>2, <3>3 DEF KeepsUse
    <2>6. At(c, "token") /\ call[c].attempt = 2 => FreshNext(call[c].of, a)
      BY <2>0, <2>1, <2>4 DEF ResendOf, KeepsFresh
    <2> HIDE DEF a
    <2> QED  BY <2>0, <2>3, <2>5, <2>6 DEF ResendOf, At, FreshNext, Fresh, a
  <1> QED  BY <1>1, <1>2

\* One caller moves, and whoever waits for its mint does not notice.
LEMMA OneResends ==
    ASSUME TypeInv, MintInv, ResendInv, KeepsFresh, KeepsUse, refusals' \in Nat, refusals' >= refusals,
           NEW c \in Callers, ResendOf(c)',
           \A d \in Callers \ {c} : call'[d] = call[d],
           IsMint(call[c]) => call'[c].token = call[c].token
    PROVE  ResendInv'
  <1>1. ASSUME NEW d \in Callers \ {c} PROVE ResendOf(d)'
    <2>1. ASSUME At(d, "wait") PROVE call'[call[d].on].token = call[call[d].on].token
      BY <2>1, MintTypes DEF MintInv, At
    <2> QED  BY <2>1, Others
  <1> QED  BY <1>1 DEF ResendInv

\* Nobody moves.
LEMMA NoneResends ==
    ASSUME TypeInv, ResendInv, KeepsFresh, KeepsUse, UNCHANGED <<call, refusals>>
    PROVE  ResendInv'
  <1>1. refusals' \in Nat /\ refusals' >= refusals
    BY DEF TypeInv, TypeOK
  <1> QED  BY <1>1, Others DEF ResendInv

LEMMA ResendInit == Init => ResendInv
  <1> SUFFICES ASSUME Init, NEW c \in Callers PROVE ResendOf(c)
    BY DEF ResendInv
  <1>1. call[c].pc = "idle"
    BY DEF Init, Idle
  <1> QED  BY <1>1 DEF ResendOf, At

LEMMA ResendStep == TypeInv /\ MintInv /\ ResendInv /\ [Next]_vars => ResendInv'
  <1> SUFFICES ASSUME TypeInv, MintInv, ResendInv, [Next]_vars PROVE ResendInv'
    OBVIOUS
  <1> USE DEF object, worker, outside
  <1>0. /\ call \in [Callers -> Call \cup {Idle}] /\ refusals \in Nat
        /\ credentials \in Objects \cup {None}
    BY DEF TypeInv, TypeOK
  <1>a. ASSUME UNCHANGED refusals PROVE refusals' \in Nat /\ refusals' >= refusals
    BY <1>0, <1>a
  <1>1. ASSUME NEW c \in Callers, Request(c) \/ Proceed(c) PROVE ResendInv'
    <2> DEFINE x == call[c]
    <2>0. CallInv(x) /\ (x.pc # "idle" => x \in Call) /\ ResendOf(c)
      BY AtWork DEF TypeInv, ResendInv
    <2>1. CASE Request(c)
      <3>1. /\ call'[c].pc = "ensure" /\ call'[c].attempt = 1 /\ call'[c].after = 0
            /\ \A d \in Callers \ {c} : call'[d] = call[d]
        BY <1>0, <2>1 DEF Request
      <3>2. ResendOf(c)'
        BY <1>0, <2>1, <3>1 DEF Request, ResendOf, At
      <3>3. KeepsFresh
        BY <2>1, <3>1, FreshKept DEF Request, IsMint
      <3> QED  BY <1>a, <2>1, <3>1, <3>2, <3>3, OneResends DEF Request, KeepsUse, At, IsMint
    <2>2. CASE Answered(c)
      <3>1. call'[c] = Idle /\ \A d \in Callers \ {c} : call'[d] = call[d]
        BY <1>0, <2>2 DEF Answered
      <3>2. ResendOf(c)'
        BY <3>1 DEF ResendOf, At, Idle
      <3>3. KeepsFresh
        BY <2>2, <3>1, FreshKept DEF Answered, IsMint, Idle
      <3> QED  BY <1>a, <2>2, <3>1, <3>2, <3>3, OneResends DEF Answered, KeepsUse, At, IsMint
    <2>3. CASE Ensure(c)
      <3>1. x \in Call /\ \A d \in Callers \ {c} : call'[d] = call[d]
        BY <1>0, <2>0, <2>3 DEF Ensure, At
      <3>2. \/ /\ credentials # None /\ call'[c].pc = "token" /\ call'[c].of = credentials
               /\ call'[c].after = x.after /\ call'[c].attempt = x.attempt
            \/ credentials = None /\ call'[c] = [x EXCEPT !.pc = "make"]
            \/ call'[c] = Idle
        BY <1>0, <2>3, <3>1 DEF Ensure, Call
      <3>3. KeepsFresh
        BY <2>3, <3>1, <3>2, FreshKept DEF Ensure, IsMint, Idle, Call
      <3>4. x.after \in Nat /\ x.after <= refusals /\ UNCHANGED <<credentials, refusals>>
        BY <2>0, <2>3, <3>1 DEF Ensure, At, ResendOf, Call
      <3>5. ASSUME credentials # None, x.attempt = 2 PROVE FreshNext(credentials, x.after)
        BY <1>0, <2>0, <2>3, <3>3, <3>4, <3>5 DEF Ensure, At, ResendOf, KeepsFresh
      <3>6. ResendOf(c)'
        <4>1. CASE credentials # None /\ call'[c].pc = "token" /\ call'[c].of = credentials
                   /\ call'[c].after = x.after /\ call'[c].attempt = x.attempt
          BY <3>4, <3>5, <4>1 DEF ResendOf, At, Fresh, FreshNext
        <4>2. CASE credentials = None /\ call'[c] = [x EXCEPT !.pc = "make"]
          BY <3>1, <3>4, <4>2 DEF ResendOf, At, Call
        <4>3. CASE call'[c] = Idle
          BY <4>3 DEF ResendOf, At, Idle
        <4> QED  BY <3>2, <4>1, <4>2, <4>3
      <3> QED  BY <1>a, <2>3, <3>1, <3>3, <3>4, <3>6, OneResends DEF Ensure, KeepsUse, At, IsMint
    <2>4. CASE Make(c)
      <3>1. x \in Call /\ \A d \in Callers \ {c} : call'[d] = call[d]
        BY <1>0, <2>0, <2>4 DEF Make, At
      <3>2. /\ call'[c].pc = "token" /\ call'[c].of = credentials' /\ call'[c].after = x.after
        BY <1>0, <2>4, <3>1 DEF Make, Call
      <3>3. KeepsFresh /\ \A a \in Nat : FreshNext(credentials', a)
        BY <2>4, <3>1, <3>2, FreshNew DEF Make, IsMint
      <3>4. x.after \in Nat /\ x.after <= refusals /\ UNCHANGED refusals
        BY <2>0, <2>4, <3>1 DEF Make, At, ResendOf, Call
      <3>5. FreshNext(call'[c].of, call'[c].after)
        BY <3>2, <3>3, <3>4
      <3>6. ResendOf(c)'
        BY <3>2, <3>4, <3>5 DEF ResendOf, At, Fresh, FreshNext
      <3> QED  BY <1>a, <2>4, <3>1, <3>3, <3>4, <3>6, OneResends DEF Make, KeepsUse, At, IsMint
    <2>5. CASE Reuse(c)
      <3>1. x \in Call /\ x.of \in Objects /\ \A d \in Callers \ {c} : call'[d] = call[d]
        BY <1>0, <2>0, <2>5 DEF Reuse, At, CallInv, Idle
      <3>2. /\ call'[c].pc = "send" /\ call'[c].token = cached[x.of] /\ call'[c].after = x.after
            /\ call'[c].attempt = x.attempt
        BY <1>0, <2>5, <3>1 DEF Reuse, Call
      <3>3. KeepsFresh
        BY <2>5, <3>1, <3>2, FreshKept DEF Reuse, IsMint
      <3>4. ResendOf(c)'
        BY <2>0, <2>5, <3>2 DEF Reuse, ResendOf, At, Fresh
      <3> QED  BY <1>a, <2>5, <3>1, <3>3, <3>4, OneResends DEF Reuse, KeepsUse, At, IsMint
    <2>6. CASE BeginMint(c)
      <3>1. x \in Call /\ \A d \in Callers \ {c} : call'[d] = call[d]
        BY <1>0, <2>0, <2>6 DEF BeginMint, At
      <3>2. /\ call'[c].pc = "asking" /\ call'[c].token.since = refusals /\ call'[c].after = x.after
        BY <1>0, <2>6, <3>1 DEF BeginMint, Call
      <3>3. KeepsFresh
        BY <2>6, <3>1, <3>2, FreshKept DEF BeginMint, IsMint
      <3>4. x.after \in Nat /\ x.after <= refusals
        BY <2>0, <2>6, <3>1 DEF BeginMint, At, ResendOf, Call
      <3>5. ResendOf(c)'
        BY <1>0, <2>6, <3>2, <3>4 DEF BeginMint, ResendOf, At
      <3> QED  BY <1>a, <2>6, <3>1, <3>3, <3>5, OneResends DEF BeginMint, KeepsUse, At, IsMint
    <2>7. CASE Join(c)
      <3> DEFINE m == inFlight[x.of]
      <3>1. x \in Call /\ x.of \in Objects /\ x.pc = "token" /\ \A d \in Callers \ {c} : call'[d] = call[d]
        BY <1>0, <2>0, <2>7 DEF Join, At, CallInv, Idle
      <3>2. /\ call'[c].pc = "wait" /\ call'[c].on = m /\ call'[c].after = x.after
            /\ call'[c].attempt = x.attempt
        BY <1>0, <2>7, <3>1 DEF Join, Call
      <3>3. KeepsFresh
        BY <2>7, <3>1, <3>2, FreshKept DEF Join, IsMint
      <3>4. /\ m \in Callers /\ IsMint(call[m]) /\ call[m].of = x.of
            /\ call[m].token.generation = generation[x.of] /\ m # c
        BY <2>7, <3>1, MintTypes DEF Join, MintInv, IsMint
      <3>5. x.attempt = 2 => call[m].token.since >= x.after
        BY <2>0, <3>1, <3>4 DEF ResendOf, At, Fresh
      <3>6. ResendOf(c)'
        BY <2>0, <2>7, <3>1, <3>2, <3>4, <3>5 DEF Join, ResendOf, At
      <3> QED  BY <1>a, <2>7, <3>1, <3>3, <3>6, OneResends DEF Join, KeepsUse, At, IsMint
    <2>8. CASE Ask(c)
      <3>1. x \in Call /\ x.pc = "asking" /\ \A d \in Callers \ {c} : call'[d] = call[d]
        BY <1>0, <2>0, <2>8 DEF Ask, Goto, At
      <3>2. /\ call'[c].pc = "posted" /\ call'[c].token = x.token /\ call'[c].after = x.after
            /\ call'[c].attempt = x.attempt /\ call'[c].of = x.of
        BY <1>0, <2>8, <3>1 DEF Ask, Goto, Call
      <3>3. KeepsFresh
        BY <2>8, <3>1, <3>2, FreshKept DEF Ask, IsMint
      <3>4. ResendOf(c)'
        BY <2>0, <2>8, <3>1, <3>2 DEF Ask, ResendOf, At
      <3> QED  BY <1>a, <2>8, <3>1, <3>2, <3>3, <3>4, OneResends DEF Ask, KeepsUse
    <2>9. CASE Refused(c)
      <3>1. x \in Call /\ \A d \in Callers \ {c} : call'[d] = call[d]
        BY <1>0, <2>0, <2>9 DEF Refused, At
      <3>2. /\ call'[c].pc = "refused" /\ call'[c].after = refusals' /\ refusals' = refusals + 1
        BY <1>0, <2>9, <3>1 DEF Refused, Call
      <3>3. KeepsFresh
        BY <2>9, <3>1, <3>2, FreshKept DEF Refused, IsMint
      <3>4. ResendOf(c)'
        BY <1>0, <3>2 DEF ResendOf, At
      <3> QED  BY <1>0, <2>9, <3>1, <3>2, <3>3, <3>4, OneResends DEF Refused, KeepsUse, At, IsMint
    <2>10. CASE Invalidate(c)
      <3>1. x \in Call /\ \A d \in Callers \ {c} : call'[d] = call[d]
        BY <1>0, <2>0, <2>10 DEF Invalidate, Goto, At
      <3>2. /\ call'[c].pc = "drop" /\ call'[c].after = x.after /\ call'[c].attempt = x.attempt
        BY <1>0, <2>10, <3>1 DEF Invalidate, Goto, Call
      <3>3. \A m \in Callers : IsMint(call'[m]) => call'[m] = call[m]
        BY <3>1, <3>2 DEF IsMint
      <3>4. credentials \in Objects /\ UNCHANGED <<credentials, refusals>>
        BY <1>0, <2>10 DEF Invalidate
      <3>5. /\ cached'[credentials] = None /\ generation'[credentials] = generation[credentials] + 1
            /\ \A o \in Objects \ {credentials} : cached'[o] = cached[o] /\ generation'[o] = generation[o]
        BY <2>10, <3>4 DEF Invalidate, TypeInv, TypeOK
      <3>6. ASSUME NEW m \in Callers, IsMint(call'[m]), call'[m].of = credentials
            PROVE  call'[m].token.generation # generation'[credentials]
        <4>1. call[m].token.generation \in Nat /\ generation[credentials] \in Nat
          BY <3>3, <3>4, <3>6, MintTypes DEF Token
        <4>2. call[m].token.generation <= generation[credentials]
          BY <3>3, <3>6 DEF MintInv
        <4> QED  BY <3>3, <3>5, <3>6, <4>1, <4>2
      <3>7. \A a \in Nat : FreshNext(credentials, a)
        BY <3>5, <3>6 DEF FreshNext
      <3>8. ASSUME NEW o \in Objects, NEW a \in Nat, Fresh(o, a) PROVE FreshNext(o, a)
        <4>1. CASE o = credentials
          BY <3>7, <4>1
        <4>2. CASE o # credentials
          BY <3>3, <3>5, <3>8, <4>2 DEF Fresh, FreshNext
        <4> QED  BY <4>1, <4>2
      <3>9. KeepsFresh /\ KeepsUse
        BY <3>4, <3>8 DEF KeepsFresh, KeepsUse
      <3>10. x.after \in Nat /\ x.after <= refusals
        BY <2>0, <2>10, <3>1 DEF Invalidate, At, ResendOf, Call
      <3>11. FreshNext(credentials, x.after)
        BY <3>7, <3>10
      <3>12. ResendOf(c)'
        BY <3>2, <3>4, <3>10, <3>11 DEF ResendOf, At, Fresh, FreshNext
      <3> QED  BY <1>a, <2>10, <3>1, <3>4, <3>9, <3>12, OneResends DEF Invalidate, At, IsMint
    <2>11. CASE InvalidateNothing(c)
      <3>1. x \in Call /\ \A d \in Callers \ {c} : call'[d] = call[d]
        BY <1>0, <2>0, <2>11 DEF InvalidateNothing, Goto, At
      <3>2. x.after \in Nat /\ x.after <= refusals /\ UNCHANGED refusals
        BY <2>0, <2>11, <3>1 DEF InvalidateNothing, At, ResendOf, Call
      <3>3. CASE bound
        <4>1. call'[c].pc = "drop" /\ call'[c].after = x.after /\ NewObject
          BY <1>0, <2>11, <3>1, <3>3 DEF InvalidateNothing, Goto, Call
        <4>2. KeepsFresh /\ \A a \in Nat : FreshNext(credentials', a)
          BY <3>1, <4>1, FreshNew DEF IsMint
        <4>3. FreshNext(credentials', x.after)
          BY <3>2, <4>2
        <4>4. ResendOf(c)'
          BY <3>2, <4>1, <4>3 DEF ResendOf, At, Fresh, FreshNext
        <4> QED  BY <1>a, <2>11, <3>1, <3>2, <4>2, <4>4, OneResends DEF InvalidateNothing, KeepsUse, At, IsMint
      <3>4. CASE ~bound
        <4>1. /\ call'[c].pc = "ensure" /\ call'[c].after = x.after /\ credentials' = None
              /\ UNCHANGED <<credentials, generation, cached>>
          BY <1>0, <2>11, <3>1, <3>4 DEF InvalidateNothing, Call
        <4>2. KeepsFresh
          BY <3>1, <4>1, FreshKept DEF IsMint
        <4>3. ResendOf(c)'
          BY <3>2, <4>1 DEF ResendOf, At
        <4> QED  BY <1>a, <2>11, <3>1, <3>2, <4>1, <4>2, <4>3, OneResends DEF InvalidateNothing, KeepsUse, At, IsMint
      <3> QED  BY <3>3, <3>4
    <2>12. CASE Drop(c)
      <3>1. x \in Call /\ x.pc = "drop" /\ \A d \in Callers \ {c} : call'[d] = call[d]
        BY <1>0, <2>0, <2>12 DEF Drop, At
      <3>2. /\ call'[c].pc = "ensure" /\ call'[c].after = x.after
            /\ UNCHANGED <<credentials, generation, cached, refusals>>
        BY <1>0, <2>12, <3>1 DEF Drop, Call
      <3>3. KeepsFresh
        BY <3>1, <3>2, FreshKept DEF IsMint
      <3>4. x.after \in Nat /\ x.after <= refusals
        BY <2>0, <3>1 DEF At, ResendOf, Call
      <3>5. credentials = None \/ FreshNext(credentials, x.after)
        BY <1>0, <2>0, <3>1, <3>3, <3>4 DEF ResendOf, At, KeepsFresh
      <3>6. ResendOf(c)'
        BY <3>2, <3>4, <3>5 DEF ResendOf, At, Fresh, FreshNext
      <3> QED  BY <1>a, <3>1, <3>2, <3>3, <3>6, OneResends DEF KeepsUse, IsMint
    <2>13. CASE Minted(c) \/ MintFails(c)
      <3> DEFINE next == [d \in Callers |-> IF Minted(c) THEN Sending(c, d) ELSE Idle]
      <3>1. IsMint(x) /\ x \in Call
        BY <2>0, <2>13 DEF Minted, MintFails, At, IsMint
      <3>2. /\ UNCHANGED <<generation, credentials, refusals>>
            /\ \A d \in Callers : ~Waiting(d, c) => call'[d] = call[d]
            /\ \A d \in Callers : Waiting(d, c) => call'[d] = Sending(c, d) \/ call'[d] = Idle
        BY <2>13 DEF Minted, MintFails, Settle
      <3>3. ASSUME NEW d \in Callers, Waiting(d, c)
            PROVE  /\ call[d] \in Call
                   /\ call'[d] = Idle \/ (/\ call'[d].pc = "send" /\ call'[d].token = x.token
                                          /\ call'[d].after = call[d].after
                                          /\ call'[d].attempt = call[d].attempt)
        <4>1. call[d] \in Call
          BY <3>1, <3>3, AtWork DEF Waiting, At, TypeInv
        <4> QED  BY <3>2, <3>3, <4>1 DEF Sending, Call
      <3>4. ASSUME NEW d \in Callers, Waiting(d, c) PROVE ResendOf(d)'
        <4>1. ResendOf(d) /\ call[d].pc \in {"asking", "posted", "wait"}
          BY <3>1, <3>4 DEF ResendInv, Waiting, IsMint, At
        <4>2. call[d].attempt = 2 => x.token.since >= call[d].after
          BY <3>1, <3>4, <4>1 DEF Waiting, ResendOf, At, IsMint
        <4> QED  BY <3>2, <3>3, <3>4, <4>1, <4>2 DEF ResendOf, At, Idle
      <3>5. \A d \in Callers : IsMint(call'[d]) => call'[d] = call[d]
        BY <3>2, <3>3 DEF IsMint, Idle
      <3>6. ASSUME NEW o \in Objects, NEW a \in Nat, Fresh(o, a) PROVE FreshNext(o, a)
        <4>1. CASE cached'[o] = cached[o]
          BY <3>2, <3>5, <3>6, <4>1 DEF Fresh, FreshNext
        <4>2. CASE cached'[o] # cached[o]
          <5>1. Minted(c) /\ x.token.of = o /\ x.token.generation = generation[o] /\ cached'[o] = x.token
            BY <2>13, <4>2 DEF Minted, MintFails, TypeInv, TypeOK
          <5>2. x.of = o
            BY <3>1, <5>1, MintTypes
          <5>3. x.token.since >= a
            BY <3>1, <3>6, <5>1, <5>2 DEF Fresh
          <5> QED  BY <3>2, <3>5, <3>6, <5>1, <5>3 DEF Fresh, FreshNext
        <4> QED  BY <4>1, <4>2
      <3>7. KeepsFresh /\ KeepsUse
        BY <3>2, <3>6 DEF KeepsFresh, KeepsUse
      <3>8. ASSUME NEW d \in Callers, ~Waiting(d, c) PROVE ResendOf(d)'
        <4>1. ASSUME At(d, "wait") PROVE call'[call[d].on] = call[call[d].on]
          <5>1. call[d].on \in Callers /\ IsMint(call[call[d].on]) /\ call[d].on # c
            BY <3>8, <4>1, MintTypes DEF MintInv, Waiting, At
          <5> QED  BY <3>2, <5>1 DEF Waiting, At, IsMint
        <4> QED  BY <1>a, <3>2, <3>7, <3>8, <4>1, Others
      <3> QED  BY <3>4, <3>8 DEF ResendInv
    <2> QED
      BY <1>1, <2>1, <2>2, <2>3, <2>4, <2>5, <2>6, <2>7, <2>8, <2>9, <2>10, <2>11, <2>12, <2>13 DEF Proceed
  <1>2. ASSUME UNCHANGED <<generation, call, refusals>>,
               \A o \in Objects : cached'[o] = cached[o] \/ cached'[o] = None,
               credentials' = credentials \/ credentials' = None
        PROVE  ResendInv'
    BY <1>2, FreshKept, NoneResends DEF KeepsUse
  <1>3. ASSUME NEW o \in Objects, Age(o) PROVE ResendInv'
    BY <1>2, <1>3 DEF Age, TypeInv, TypeOK
  <1>4. CASE Attest \/ SessionAges \/ SignOut \/ Forget \/ RemoveIdentity \/ SignIn \/ Bootstrap
    BY <1>2, <1>4 DEF Attest, SessionAges, SignOut, Forget, RemoveIdentity, SignIn, Bootstrap
  <1>5. ASSUME NewObject, UNCHANGED <<call, refusals>> PROVE ResendInv'
    BY <1>5, FreshNew, NoneResends DEF KeepsUse
  <1>6. CASE Impersonate \/ UseDeployer
    BY <1>2, <1>5, <1>6 DEF Impersonate, UseDeployer
  <1>7. CASE UNCHANGED vars
    BY <1>2, <1>7 DEF vars
  <1> QED  BY <1>1, <1>3, <1>4, <1>6, <1>7 DEF Next

----------------------------------------------------------------------------
(* The sign-out.                                                             *)

\* Nothing to hide while somebody is signed in or the worker is about to forget.
LEMMA LeftFree == authorized \/ leaving = "chrome" => LeftInv
  BY DEF LeftInv

LEMMA LeftStep == TypeInv /\ LeftInv /\ [Next]_vars => LeftInv'
  <1> SUFFICES ASSUME TypeInv, LeftInv, [Next]_vars, ~authorized', leaving' # "chrome" PROVE LeftInv'
    BY DEF LeftInv
  <1> USE DEF object, worker, outside
  <1>0. /\ call \in [Callers -> Call \cup {Idle}] /\ credentials \in Objects \cup {None}
        /\ cached \in [Objects -> Token \cup {None}]
    BY DEF TypeInv, TypeOK
  <1>1. ASSUME UNCHANGED <<authorized, leaving, credentials, cached>>, session' = session \/ session' = "none",
               \A m \in Callers : At(m, "posted")' => At(m, "posted") /\ call'[m].of = call[m].of
        PROVE  LeftInv'
    BY <1>1 DEF LeftInv, At
  <1>2. ASSUME NewObject, session' = session, UNCHANGED <<authorized, leaving>>,
               \A m \in Callers : call'[m].pc = "posted" => call'[m] = call[m]
        PROVE  LeftInv'
    <2>1. cached'[credentials'] = None
      BY <1>2, NewStep DEF TypeInv, TypeOK
    <2>2. \A m \in Callers : call'[m].pc = "posted" => call'[m].of # credentials'
      BY <1>2, NewStep
    <2> QED  BY <1>2, <2>1, <2>2 DEF LeftInv, At
  <1>3. ASSUME NEW c \in Callers, Request(c) \/ Proceed(c) PROVE LeftInv'
    <2> DEFINE x == call[c]
    <2>0. x.pc # "idle" => x \in Call
      BY AtWork DEF TypeInv
    <2>1. CASE Request(c) \/ Answered(c)
      BY <1>0, <1>1, <2>1 DEF Request, Answered, At, Idle
    <2>2. CASE Ensure(c)
      <3>1. call'[c].pc # "posted"
        BY <1>0, <2>0, <2>2 DEF Ensure, At, Idle, Call
      <3> QED  BY <1>0, <1>1, <2>2, <3>1 DEF Ensure, At
    <2>3. CASE Reuse(c) \/ BeginMint(c) \/ Join(c) \/ Refused(c) \/ Drop(c)
      <3>1. call'[c].pc # "posted"
        BY <1>0, <2>0, <2>3 DEF Reuse, BeginMint, Join, Refused, Drop, At, Call
      <3> QED  BY <1>0, <1>1, <2>3, <3>1 DEF Reuse, BeginMint, Join, Refused, Drop, At
    <2>4. CASE Make(c)
      <3>1. call'[c].pc # "posted"
        BY <1>0, <2>0, <2>4 DEF Make, At, Call
      <3> QED  BY <1>0, <1>2, <2>4, <3>1 DEF Make
    <2>5. CASE InvalidateNothing(c)
      <3>1. call'[c].pc # "posted"
        BY <1>0, <2>0, <2>5 DEF InvalidateNothing, Goto, At, Call
      <3>2. CASE bound
        BY <1>0, <1>2, <2>5, <3>1, <3>2 DEF InvalidateNothing, Goto
      <3>3. CASE ~bound
        BY <1>0, <1>1, <2>5, <3>1, <3>3 DEF InvalidateNothing, At
      <3> QED  BY <3>2, <3>3
    <2>6. CASE Ask(c)
      BY <2>6 DEF Ask, LeftInv
    <2>7. CASE Minted(c)
      <3> DEFINE t == x.token
      <3>1. t \in Token /\ t.of = x.of
        BY <2>7, MintTypes DEF Minted, At, IsMint
      <3>2. ASSUME NEW d \in Callers, Waiting(d, c) PROVE call'[d].pc # "posted"
        <4>1. call[d] \in Call
          BY <2>0, <2>7, <3>2, AtWork DEF Minted, Waiting, At, TypeInv
        <4> QED  BY <2>7, <3>2, <4>1 DEF Minted, Settle, Sending, Call
      <3>3. \A d \in Callers : ~Waiting(d, c) => call'[d] = call[d]
        BY <2>7 DEF Minted, Settle
      <3>4. credentials # None => cached'[credentials] = cached[credentials]
        BY <1>0, <2>7, <3>1 DEF Minted, LeftInv, At
      <3> QED  BY <1>0, <2>7, <3>2, <3>3, <3>4 DEF Minted, LeftInv, At
    <2>8. CASE MintFails(c)
      <3>1. \A d \in Callers : call'[d] = call[d] \/ call'[d] = Idle
        BY <2>8 DEF MintFails, Settle
      <3> QED  BY <1>1, <2>8, <3>1 DEF MintFails, At, Idle
    <2>9. CASE Invalidate(c)
      <3>1. /\ call'[c].pc = "drop" /\ \A d \in Callers \ {c} : call'[d] = call[d]
        BY <1>0, <2>0, <2>9 DEF Invalidate, Goto, At, Call
      <3>2. cached'[credentials] = None
        BY <1>0, <2>9 DEF Invalidate
      <3> QED  BY <2>9, <3>1, <3>2 DEF Invalidate, LeftInv, At
    <2> QED
      BY <1>3, <2>1, <2>2, <2>3, <2>4, <2>5, <2>6, <2>7, <2>8, <2>9 DEF Proceed
  <1>4. ASSUME NEW o \in Objects, Age(o) PROVE LeftInv'
    BY <1>0, <1>4 DEF Age, LeftInv, At
  <1>5. CASE SessionAges
    BY <1>5 DEF SessionAges, LeftInv
  <1>6. CASE Attest \/ SignOut \/ SignIn \/ Bootstrap
    BY <1>6 DEF Attest, SignOut, SignIn, Bootstrap
  <1>7. CASE Forget
    BY <1>7 DEF Forget, LeftInv
  <1>8. CASE RemoveIdentity
    BY <1>8 DEF RemoveIdentity, LeftInv, At
  <1>9. CASE Impersonate \/ UseDeployer
    BY <1>2, <1>9 DEF Impersonate, UseDeployer, LeftInv
  <1>10. CASE UNCHANGED vars
    BY <1>1, <1>10 DEF vars, At
  <1> QED  BY <1>3, <1>4, <1>5, <1>6, <1>7, <1>8, <1>9, <1>10 DEF Next

----------------------------------------------------------------------------

\* What an object caches was asked for since its last invalidation (accessToken,
\* invalidate): a mint that was under way then does not fill the cache.
THEOREM CachesOnlyCurrent == Spec => []CacheIsCurrent
  <1>1. Init => CacheIsCurrent
    BY DEF Init, CacheIsCurrent
  <1> QED  BY <1>1, TypeInit, TypeStep, CacheStep, PTL DEF Spec

LEMMA MintAlways == Spec => [](TypeInv /\ MintInv)
  BY TypeInit, TypeStep, MintInit, MintStep, PTL DEF Spec

\* A request that was answered 401 goes out again with a token asked for after that
\* answer (makeTransport), whatever mints, objects and other callers there are.
THEOREM ResendsFresh == Spec => []ResendIsFresh
  <1>1. ResendInv => ResendIsFresh
    BY DEF ResendInv, ResendOf, ResendIsFresh, At
  <1> QED  BY <1>1, MintAlways, ResendInit, ResendStep, PTL DEF Spec

\* From the moment the worker forgets until the next sign-in there is neither a
\* session nor a cached token (signOutSafely), and no request brings one back.
THEOREM LeavesNothing == Spec => []SignedOut
  <1>1. LeftInv => SignedOut
    BY DEF LeftInv, SignedOut
  <1>2. Init => LeftInv
    BY DEF Init, LeftInv
  <1> QED  BY <1>1, <1>2, TypeInit, TypeStep, LeftStep, PTL DEF Spec

=============================================================================
