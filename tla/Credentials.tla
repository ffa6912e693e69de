---------------------------- MODULE Credentials ----------------------------
(* The short-lived tokens every Google Cloud call runs under: the cache, the  *)
(* collapsed mint and the generations of DeployerCredentials in auth/tokens.ts *)
(* and, in background/service-worker.ts, the transport that resends once after *)
(* a 401, the object made on first use, the session cache, sign-in, sign-out.  *)
EXTENDS Naturals

CONSTANTS
    Callers,        \* requests that the transport carries, one at a time each
    Objects,        \* DeployerCredentials: as many as are ever referred to, and one
    MaxRefusals,    \* bound: answers 401
    MaxSignOuts,    \* bound: sign-outs
    None

ASSUME BoundsAssumption == MaxRefusals \in Nat /\ MaxSignOuts \in Nat
ASSUME NoneAssumption == None \notin Objects /\ None \notin Callers

\* An object is made whenever one is asked for: whatever the callers and the
\* module variable refer to, there is another.
ASSUME ObjectsAssumption ==
    \A of \in [Callers -> Objects \cup {None}], used \in Objects \cup {None} :
        \E o \in Objects : o # used /\ \A c \in Callers : of[c] # o

VARIABLES
    bound,          \* durable: the state names a deployer
    authorized,     \* external: Chrome holds an administrator session
    session,        \* operatorSessionsByEmail, of the deployer's operator
    credentials,    \* the module variable: the object in use
    generation, cached, inFlight,   \* the fields of each object
    call,           \* what each caller does
    leaving,        \* where signOutSafely stands
    entering,       \* establishAdministratorSession or bootstrap stands before its end
    refusals, signOuts

object == <<generation, cached, inFlight>>
worker == <<session, credentials>>
outside == <<bound, authorized, leaving, entering, refusals, signOuts>>
vars == <<object, worker, outside, call>>

\* A delegated token: the object and generation its mint began in, and how many
\* answers 401 there were when it began.
Token == [of : Objects, generation : Nat, since : Nat]

\* A caller: its attempt, its object, the caller whose mint it awaits, its token
\* (while it mints, the token to come), and the answers 401 before its resend.
Call == [pc : {"ensure", "make", "token", "asking", "posted", "wait", "send", "refused", "drop"},
         attempt : {1, 2}, of : Objects \cup {None}, on : Callers \cup {None},
         token : Token \cup {None}, after : Nat]
Idle == [pc |-> "idle"]

TypeOK ==
    /\ bound \in BOOLEAN /\ authorized \in BOOLEAN
    /\ leaving \in {"no", "chrome", "worker"} /\ entering \in {"no", "signIn", "bootstrap"}
    /\ session \in {"none", "live", "stale"}
    /\ credentials \in Objects \cup {None}
    /\ generation \in [Objects -> Nat]
    /\ cached \in [Objects -> Token \cup {None}]
    /\ inFlight \in [Objects -> Callers \cup {None}]
    /\ call \in [Callers -> Call \cup {Idle}]
    /\ refusals \in Nat /\ signOuts \in Nat

----------------------------------------------------------------------------
(* ensureCredentials and accessToken.                                        *)

At(c, p) == call[c].pc = p

Goto(c, p) == call' = [call EXCEPT ![c].pc = p]

\* An object nobody refers to any longer is as good as one that was never made.
Unused(o) == o # credentials /\ \A c \in Callers : At(c, "idle") \/ call[c].of # o

NewObject ==
    LET o == CHOOSE o \in Objects : Unused(o) IN
    /\ credentials' = o
    /\ generation' = [generation EXCEPT ![o] = 0]
    /\ cached' = [cached EXCEPT ![o] = None]
    /\ inFlight' = [inFlight EXCEPT ![o] = None]

Request(c) ==
    /\ At(c, "idle")
    /\ call' = [call EXCEPT ![c] = [pc |-> "ensure", attempt |-> 1, of |-> None,
                                    on |-> None, token |-> None, after |-> 0]]
    /\ UNCHANGED <<object, worker, outside>>

\* ensureCredentials: there is an object, or the state names no deployer, or it
\* does and the caller goes on to make an object from what it has read.
Ensure(c) ==
    /\ At(c, "ensure")
    /\ call' = [call EXCEPT ![c] = IF credentials # None
                                   THEN [@ EXCEPT !.pc = "token", !.of = credentials]
                                   ELSE IF bound THEN [@ EXCEPT !.pc = "make"]
                                   ELSE Idle]
    /\ UNCHANGED <<object, worker, outside>>

\* By now another caller may have made one, or the operator have signed out.
Make(c) ==
    /\ At(c, "make")
    /\ NewObject
    /\ call' = [call EXCEPT ![c].pc = "token", ![c].of = credentials']
    /\ UNCHANGED <<session, outside>>

\* accessToken. A token inside the renewal margin is as good as none.
Reuse(c) ==
    /\ At(c, "token") /\ cached[call[c].of] # None
    /\ call' = [call EXCEPT ![c].pc = "send", ![c].token = cached[call[c].of]]
    /\ UNCHANGED <<object, worker, outside>>

Age(o) ==
    /\ cached[o] # None /\ cached' = [cached EXCEPT ![o] = None]
    /\ UNCHANGED <<generation, inFlight, worker, outside, call>>

BeginMint(c) ==
    LET o == call[c].of IN
    /\ At(c, "token") /\ cached[o] = None /\ inFlight[o] = None
    /\ inFlight' = [inFlight EXCEPT ![o] = c]
    /\ call' = [call EXCEPT ![c].pc = "asking", ![c].token =
                   [of |-> o, generation |-> generation[o], since |-> refusals]]
    /\ UNCHANGED <<generation, cached, worker, outside>>

Join(c) ==
    LET o == call[c].of IN
    /\ At(c, "token") /\ cached[o] = None /\ inFlight[o] # None
    /\ call' = [call EXCEPT ![c].pc = "wait", ![c].on = inFlight[o]]
    /\ UNCHANGED <<object, worker, outside>>

----------------------------------------------------------------------------
(* mint                                                                      *)

Waiting(c, m) == c = m \/ (At(c, "wait") /\ call[c].on = m)

\* A promise that settles settles for everybody who awaits it, and leaves the
\* field only if it is still there.
Settle(m, next) ==
    /\ call' = [c \in Callers |-> IF Waiting(c, m) THEN next[c] ELSE call[c]]
    /\ inFlight' = [o \in Objects |-> IF inFlight[o] = m THEN None ELSE inFlight[o]]

Sending(m, c) == [call[c] EXCEPT !.pc = "send", !.on = None, !.token = call[m].token]

\* The administrator's token comes from the session cache, else from Chrome.
Ask(m) ==
    /\ At(m, "asking") /\ (session # "none" \/ authorized)
    /\ Goto(m, "posted")
    /\ UNCHANGED <<object, worker, outside>>

\* Bug: whatever mint ends last fills the cache.
MintedMutant(m) ==
    LET t == call[m].token IN
    /\ At(m, "posted")
    /\ Settle(m, [c \in Callers |-> Sending(m, c)])
    /\ cached' = [cached EXCEPT ![t.of] = t]
    /\ UNCHANGED <<generation, worker, outside>>

Minted(m) ==
    LET t == call[m].token IN
    /\ At(m, "posted")
    /\ Settle(m, [c \in Callers |-> Sending(m, c)])
    /\ cached' = [cached EXCEPT ![t.of] = IF t.generation = generation[t.of] THEN t ELSE @]
    /\ UNCHANGED <<generation, worker, outside>>

\* Bug: a mint that fails tells only the caller that began it.
MintFailsMutant(m) ==
    /\ At(m, "posted") \/ (At(m, "asking") /\ session = "none" /\ ~authorized)
    /\ call' = [call EXCEPT ![m] = Idle]
    /\ inFlight' = [o \in Objects |-> IF inFlight[o] = m THEN None ELSE inFlight[o]]
    /\ UNCHANGED <<generation, cached, worker, outside>>

\* Nobody is signed in, the session is stale, or the exchange fails: every caller
\* that awaits the mint fails with it.
MintFails(m) ==
    /\ At(m, "posted") \/ (At(m, "asking") /\ session = "none" /\ ~authorized)
    /\ Settle(m, [c \in Callers |-> Idle])
    /\ UNCHANGED <<generation, cached, worker, outside>>

----------------------------------------------------------------------------
(* makeTransport and invalidate.                                             *)

\* An answer that is not a 401, or a second 401, ends the request.
Answered(c) ==
    /\ At(c, "send")
    /\ call' = [call EXCEPT ![c] = Idle]
    /\ UNCHANGED <<object, worker, outside>>

Refused(c) ==
    /\ At(c, "send") /\ call[c].attempt = 1
    /\ refusals < MaxRefusals /\ refusals' = refusals + 1
    /\ call' = [call EXCEPT ![c].pc = "refused", ![c].token = None, ![c].after = refusals']
    /\ UNCHANGED <<object, worker, bound, authorized, leaving, entering, signOuts>>

\* Bug: the mint that is under way is left for the callers to come.
InvalidateMutant(c) ==
    /\ At(c, "refused") /\ credentials # None
    /\ generation' = [generation EXCEPT ![credentials] = @ + 1]
    /\ cached' = [cached EXCEPT ![credentials] = None]
    /\ Goto(c, "drop")
    /\ UNCHANGED <<inFlight, worker, outside>>

\* The first half of invalidate, at once.
Invalidate(c) ==
    /\ At(c, "refused") /\ credentials # None
    /\ generation' = [generation EXCEPT ![credentials] = @ + 1]
    /\ cached' = [cached EXCEPT ![credentials] = None]
    /\ inFlight' = [inFlight EXCEPT ![credentials] = None]
    /\ Goto(c, "drop")
    /\ UNCHANGED <<worker, outside>>

\* After a sign-out ensureCredentials makes an object, with nothing to invalidate,
\* or finds no deployer.
InvalidateNothing(c) ==
    /\ At(c, "refused") /\ credentials = None
    /\ IF bound THEN NewObject /\ Goto(c, "drop")
       ELSE /\ call' = [call EXCEPT ![c].pc = "ensure", ![c].attempt = 2]
            /\ UNCHANGED <<object, credentials>>
    /\ UNCHANGED <<session, outside>>

\* The second half: the administrator's token goes from both caches, and Chrome
\* gets another when it is asked. Then the request is sent again.
Drop(c) ==
    /\ At(c, "drop")
    /\ session' = "none"
    /\ call' = [call EXCEPT ![c].pc = "ensure", ![c].attempt = 2, ![c].of = None]
    /\ UNCHANGED <<object, credentials, outside>>

----------------------------------------------------------------------------
(* The operator.                                                             *)

\* operatorIdentity, on most requests of the interface.
Attest ==
    /\ authorized /\ session # "live" /\ session' = "live"
    /\ UNCHANGED <<object, credentials, outside, call>>

\* A cached session outlives its token while the operator uses another account.
SessionAges ==
    /\ session = "live" /\ session' = "stale"
    /\ UNCHANGED <<object, credentials, outside, call>>

\* signOutSafely: Chrome is de-authorized first,
SignOut ==
    /\ authorized /\ leaving = "no" /\ signOuts < MaxSignOuts
    /\ signOuts' = signOuts + 1 /\ authorized' = FALSE /\ leaving' = "chrome"
    /\ UNCHANGED <<object, worker, call, bound, entering, refusals>>

\* Bug: the session cache is not cleared.
ForgetMutant ==
    /\ leaving = "chrome" /\ leaving' = "worker"
    /\ credentials' = None
    /\ UNCHANGED <<object, session, call, bound, authorized, entering, refusals, signOuts>>

\* then the worker forgets,
Forget ==
    /\ leaving = "chrome" /\ leaving' = "worker"
    /\ session' = "none" /\ credentials' = None
    /\ UNCHANGED <<object, call, bound, authorized, entering, refusals, signOuts>>

\* and the identity goes last.
RemoveIdentity ==
    /\ leaving = "worker" /\ leaving' = "no" /\ bound' = FALSE
    /\ UNCHANGED <<object, worker, call, authorized, entering, refusals, signOuts>>

\* establishAdministratorSession: consent, and the operator is attested,
SignIn ==
    /\ ~authorized /\ leaving = "no" /\ entering = "no"
    /\ authorized' = TRUE /\ session' = "live" /\ entering' = "signIn"
    /\ UNCHANGED <<object, credentials, call, bound, leaving, refusals, signOuts>>

\* then a deployer that is still named gets an object.
Impersonate ==
    /\ entering = "signIn" /\ entering' = "no"
    /\ IF bound THEN NewObject ELSE credentials' = None /\ UNCHANGED object
    /\ UNCHANGED <<session, call, bound, authorized, leaving, refusals, signOuts>>

\* rememberDeployer: the state first, then the object.
Bootstrap ==
    /\ authorized /\ ~bound /\ entering = "no"
    /\ bound' = TRUE /\ entering' = "bootstrap"
    /\ UNCHANGED <<object, worker, call, authorized, leaving, refusals, signOuts>>

UseDeployer ==
    /\ entering = "bootstrap" /\ entering' = "no"
    /\ NewObject
    /\ UNCHANGED <<session, call, bound, authorized, leaving, refusals, signOuts>>

----------------------------------------------------------------------------

Init ==
    /\ bound = TRUE /\ authorized = TRUE /\ leaving = "no" /\ entering = "no"
    /\ session = "none" /\ credentials = None
    /\ generation = [o \in Objects |-> 0]
    /\ cached = [o \in Objects |-> None] /\ inFlight = [o \in Objects |-> None]
    /\ call = [c \in Callers |-> Idle]
    /\ refusals = 0 /\ signOuts = 0

Proceed(c) ==
    \/ Ensure(c) \/ Make(c) \/ Reuse(c) \/ Join(c) \/ BeginMint(c)
    \/ Ask(c) \/ Minted(c) \/ MintFails(c)
    \/ Answered(c) \/ Refused(c) \/ Invalidate(c) \/ InvalidateNothing(c) \/ Drop(c)

Next ==
    \/ \E c \in Callers : Request(c) \/ Proceed(c)
    \/ \E o \in Objects : Age(o)
    \/ Attest \/ SessionAges
    \/ SignOut \/ Forget \/ RemoveIdentity
    \/ SignIn \/ Impersonate \/ Bootstrap \/ UseDeployer

Spec == Init /\ [][Next]_vars

\* The network answers, and the worker goes on with the answer.
FairSpec == Spec /\ \A c \in Callers : WF_vars(Proceed(c))

----------------------------------------------------------------------------
(* Properties.                                                               *)

\* A mint that was under way when its object was invalidated does not fill the cache
\* when it ends: what is cached was asked for after the last invalidation.
CacheIsCurrent ==
    \A o \in Objects : cached[o] # None =>
        cached[o].of = o /\ cached[o].generation = generation[o]

\* A request that was answered 401 is sent again with a token asked for after that
\* answer, whoever minted it and whatever object was made in between.
ResendIsFresh ==
    \A c \in Callers : At(c, "send") /\ call[c].attempt = 2 =>
        call[c].token.since >= call[c].after

\* After a sign-out, and until the next sign-in, nothing the worker still reaches
\* holds a session or a token: a request that was under way cannot recreate them.
SignedOut ==
    ~authorized /\ leaving # "chrome" =>
        /\ session = "none"
        /\ credentials # None => cached[credentials] = None

\* Every request ends: nobody is left waiting for a mint that failed or was signed out.
RequestsEnd == \A c \in Callers : ~At(c, "idle") ~> At(c, "idle")
=============================================================================
