---------------------------- MODULE ClipboardGuard ----------------------------
(***************************************************************************)
(* The clipboard guard of the local agent, pkg/oshook/clipboard.go, as it   *)
(* runs on Windows: a loop that judges the clipboard for the application in *)
(* front, a keyboard hook that judges it when the user pastes, and the      *)
(* goroutines the hook starts.  They share verdict caches, one quarantine   *)
(* and the scans in flight, under one mutex that no call is made under.     *)
(***************************************************************************)
EXTENDS Naturals

CONSTANTS
    Texts, Files,   \* what a user may copy
    Natives,        \* applications the guard watches
    Apps,           \* applications that come to the front
    Jobs,           \* goroutines of the hook
    Ticker, Hook,   \* the loop and the hook
    Verdict,        \* the scan's answer for a content in an application
    None,
    MaxCopies, MaxSwitches, MaxPresses, \* bounds: what the user does
    MaxFaults       \* bound: scans and clipboard calls that fail

Contents   == Texts \union Files
Bypassed   == {"browser", "shell", "agent"}
Keys       == Contents \X Natives
Evaluators == Jobs \union {Ticker, Hook}

ASSUME ClipboardAssumption ==
    /\ Verdict \in [Keys -> {"allow", "warn", "block"}]
    /\ Texts \intersect Files = {} /\ None \notin Contents \union Natives
    /\ Natives \intersect Bypassed = {} /\ Apps \subseteq Natives \union Bypassed
    /\ Ticker # Hook /\ {Ticker, Hook} \intersect Jobs = {}
    /\ {MaxCopies, MaxSwitches, MaxPresses, MaxFaults} \subseteq Nat

VARIABLES
    clip, app,      \* the clipboard and the application in front
    blind,          \* has the loop an empty read cached under the clipboard's number?
    quarantine,     \* [of, target, told]: the content taken, for which application, was it told?
    blocked,        \* blockedVerdicts: keys with an unexpired refusal
    lastBlocked,    \* lastBlockedHash
    allowed,        \* allowedVerdicts: contents with an unexpired permission
    last,           \* LastEvaluatedHash
    inflight,       \* [by, alert, refused] of each key: who scans it, notifyOnBlock, the result
    work,           \* [pc, text, app] of each evaluator
    pressed,        \* ghost: keys the user has tried to paste
    due,            \* ghost: key of each job whose press has no answer yet
    copies, switches, presses, faults

caches   == <<blocked, lastBlocked, allowed, last>>
user     == <<copies, switches, presses>>
ghosts   == <<pressed, due>>
vars     == <<clip, blind, app, quarantine, caches, inflight, work, ghosts, user, faults>>

Idle      == [pc |-> "idle", text |-> None, app |-> None]
NoScan    == [by |-> None, alert |-> FALSE, refused |-> FALSE]
Released  == [of |-> None, target |-> None, told |-> FALSE]

At(e, l)    == work[e].pc = l
Key(e)      == <<work[e].text, work[e].app>>
Leads(e)    == Key(e) \in Keys /\ inflight[Key(e)].by = e
Notifies(e) == e # Ticker   \* notifyImmediately: the loop is silent, a press is not
ClipText    == IF clip \in Texts THEN clip ELSE None
ClipFile    == IF clip \in Files THEN clip ELSE None

Goto(e, l)  == work' = [work EXCEPT ![e].pc = l]
Start(e, l, t, a) == work' = [work EXCEPT ![e] = [pc |-> l, text |-> t, app |-> a]]
Rest(e)     == work' = [work EXCEPT ![e] = Idle]
Answer(js)  == due' = [j \in Jobs |-> IF j \in js THEN None ELSE due[j]]
Hold(c, a, told) == quarantine' = [of |-> c, target |-> a, told |-> told]

\* writeClip and clearClip, whose errors the guard ignores. A change of the
\* clipboard gives it another number.
SetClip(c) ==
    \/ clip' = c /\ blind' = FALSE /\ UNCHANGED faults
    \/ faults < MaxFaults /\ faults' = faults + 1 /\ UNCHANGED <<clip, blind>>

\* readClip and readClipFiles: a clipboard that another process holds reads as
\* an empty one.
Reads(content, c) ==
    \/ c = content /\ UNCHANGED faults
    \/ c = None /\ content # None /\ faults < MaxFaults /\ faults' = faults + 1

----------------------------------------------------------------------------
(* Run: each tick reads the application, then the clipboard.                *)
Tick ==
    /\ At(Ticker, "idle")
    /\ Start(Ticker, "text", None, app)
    /\ UNCHANGED <<clip, blind, app, quarantine, caches, inflight, ghosts, user, faults>>

\* currentClipboardText: what was read is kept under the number of the clipboard,
\* the empty text of a failed read too.
TickText ==
    /\ At(Ticker, "text")
    /\ \E t \in Texts \union {None} :
         /\ Reads(IF blind THEN None ELSE ClipText, t)
         /\ blind' = (t # ClipText)
         /\ Start(Ticker, "judge", t, work[Ticker].app)
    /\ UNCHANGED <<clip, app, quarantine, caches, inflight, ghosts, user>>

----------------------------------------------------------------------------
(* evaluateClipboardInternal and evaluateClipboardFiles.                    *)

\* In an application the guard does not watch nothing is judged; a browser
\* gets back a text that was taken silently.
RestoreOrRest(e) ==
    IF work[e].app = "browser" /\ quarantine.of \in Texts /\ ~quarantine.told
    THEN quarantine' = Released /\ Start(e, "restore", quarantine.of, "browser")
    ELSE Rest(e) /\ UNCHANGED quarantine

JudgeBypassed(e) ==
    /\ At(e, "judge") /\ work[e].app \in Bypassed
    /\ RestoreOrRest(e)
    /\ UNCHANGED <<clip, blind, app, caches, inflight, ghosts, user, faults>>

Restore(e) ==
    /\ At(e, "restore")
    /\ SetClip(work[e].text) /\ Rest(e)
    /\ UNCHANGED <<app, quarantine, caches, inflight, ghosts, user>>

\* No text: the clipboard may hold a file, or nothing.
JudgeNoText(e) ==
    /\ At(e, "judge") /\ work[e].app \in Natives /\ work[e].text = None
    /\ \E f \in Files \union {None} :
         /\ Reads(ClipFile, f)
         /\ IF f = None THEN Goto(e, "empty") ELSE Start(e, "judge", f, work[e].app)
    /\ UNCHANGED <<clip, blind, app, quarantine, caches, inflight, ghosts, user>>

JudgeEmpty(e) ==
    /\ At(e, "empty")
    /\ last' = IF quarantine.of = None THEN None ELSE last
    /\ Rest(e)
    /\ UNCHANGED <<clip, blind, app, quarantine, blocked, lastBlocked, allowed, inflight, ghosts, user, faults>>

Judges(e) == At(e, "judge") /\ Key(e) \in Keys

\* Another text than the one in quarantine ends the quarantine.
DropStale(e) ==
    quarantine' = IF work[e].text \in Texts /\ quarantine.of # work[e].text
                  THEN Released ELSE quarantine

JudgeBlocked(e) ==
    /\ Judges(e) /\ Key(e) \in blocked
    /\ Hold(work[e].text, work[e].app, Notifies(e))
    /\ last' = None /\ blind' = FALSE
    /\ Goto(e, "refuse")
    /\ UNCHANGED <<clip, app, blocked, lastBlocked, allowed, inflight, ghosts, user, faults>>

JudgeAllowed(e) ==
    /\ Judges(e) /\ Key(e) \notin blocked
    /\ work[e].text \in allowed \union {last}
    /\ last' = IF work[e].text \in Texts THEN work[e].text ELSE last
    /\ DropStale(e) /\ Rest(e) /\ Answer({e})
    /\ UNCHANGED <<clip, blind, app, blocked, lastBlocked, allowed, inflight, pressed, user, faults>>

Unknown(e) == Judges(e) /\ Key(e) \notin blocked /\ work[e].text \notin allowed \union {last}

JoinMutant(e) ==  \* Bug: a press that joins the loop's scan leaves it silent.
    /\ Unknown(e) /\ work[e].text \in Texts /\ inflight[Key(e)].by # None
    /\ DropStale(e) /\ Goto(e, "join")
    /\ UNCHANGED <<clip, blind, app, caches, inflight, ghosts, user, faults>>

\* A text being scanned already is waited for, and a press asks for an alert.
Join(e) ==
    /\ Unknown(e) /\ work[e].text \in Texts /\ inflight[Key(e)].by # None
    /\ inflight' = [inflight EXCEPT ![Key(e)].alert = @ \/ Notifies(e)]
    /\ DropStale(e) /\ Goto(e, "join")
    /\ UNCHANGED <<clip, blind, app, caches, ghosts, user, faults>>

LeadMutant(e) ==  \* Bug: the loop's scan alerts as a press does.
    /\ Unknown(e) /\ work[e].text \in Texts /\ inflight[Key(e)].by = None
    /\ inflight' = [inflight EXCEPT ![Key(e)] = [by |-> e, alert |-> TRUE, refused |-> FALSE]]
    /\ DropStale(e) /\ Goto(e, "scan")
    /\ UNCHANGED <<clip, blind, app, caches, ghosts, user, faults>>

Lead(e) ==
    /\ Unknown(e) /\ work[e].text \in Texts /\ inflight[Key(e)].by = None
    /\ inflight' = [inflight EXCEPT ![Key(e)] = [by |-> e, alert |-> Notifies(e), refused |-> FALSE]]
    /\ DropStale(e) /\ Goto(e, "scan")
    /\ UNCHANGED <<clip, blind, app, caches, ghosts, user, faults>>

\* Files are not shared between evaluators: each scans for itself.
LeadFile(e) ==
    /\ Unknown(e) /\ work[e].text \in Files
    /\ Goto(e, "scan")
    /\ UNCHANGED <<clip, blind, app, quarantine, caches, inflight, ghosts, user, faults>>

Conclude(e) == IF Leads(e) THEN Goto(e, "finish") ELSE Rest(e)

ScanFailsMutant(e) ==  \* Bug: a content that passed for want of an answer counts as allowed.
    /\ At(e, "scan") /\ faults < MaxFaults /\ faults' = faults + 1
    /\ allowed' = allowed \union {work[e].text}
    /\ last' = IF work[e].text \in Texts THEN work[e].text ELSE last
    /\ Conclude(e)
    /\ UNCHANGED <<clip, blind, app, quarantine, blocked, lastBlocked, inflight, ghosts, user>>

\* Scan. Without an answer the content passes, and is scanned again next time.
ScanFails(e) ==
    /\ At(e, "scan") /\ faults < MaxFaults /\ faults' = faults + 1
    /\ Conclude(e)
    /\ UNCHANGED <<clip, blind, app, quarantine, caches, inflight, ghosts, user>>

\* A file with a warning is allowed without a question.
Scan(e) ==
    /\ At(e, "scan")
    /\ Goto(e, CASE Verdict[Key(e)] = "block" -> "clear"
                 [] Verdict[Key(e)] = "warn" /\ work[e].text \in Texts -> "warn"
                 [] OTHER -> "admit")
    /\ UNCHANGED <<clip, blind, app, quarantine, caches, inflight, ghosts, user, faults>>

\* A refusal: the clipboard is cleared, then the mutex taken to record it.
Clear(e) ==
    /\ At(e, "clear")
    /\ SetClip(None) /\ Goto(e, "record")
    /\ UNCHANGED <<app, quarantine, caches, inflight, ghosts, user>>

Record(e) ==
    /\ At(e, "record")
    /\ LET alert == IF Leads(e) THEN inflight[Key(e)].alert ELSE Notifies(e) IN
       /\ Hold(work[e].text, work[e].app, alert)
       /\ IF alert THEN Goto(e, "alert") ELSE Conclude(e)
    /\ blocked' = blocked \union {Key(e)}
    /\ lastBlocked' = work[e].text
    /\ last' = None /\ blind' = FALSE
    /\ inflight' = IF Leads(e) THEN [inflight EXCEPT ![Key(e)].refused = TRUE] ELSE inflight
    /\ UNCHANGED <<clip, app, allowed, ghosts, user, faults>>

\* A refusal that is known: the clipboard is cleared, a press alerted.
Refuse(e) ==
    /\ At(e, "refuse")
    /\ SetClip(None)
    /\ IF Notifies(e) THEN Goto(e, "alert") ELSE Rest(e)
    /\ UNCHANGED <<app, quarantine, caches, inflight, ghosts, user>>

\* NotifyBlock answers every press of this key that is still waiting.
Alert(e) ==
    /\ At(e, "alert")
    /\ Answer({j \in Jobs : due[j] = Key(e)})
    /\ Conclude(e)
    /\ UNCHANGED <<clip, blind, app, quarantine, caches, inflight, pressed, user, faults>>

\* A warning is put to the user only if there was a press.
Warn(e) ==
    /\ At(e, "warn")
    /\ Goto(e, IF inflight[Key(e)].alert THEN "prompt" ELSE "finish")
    /\ UNCHANGED <<clip, blind, app, quarantine, caches, inflight, ghosts, user, faults>>

Accept(e) ==
    /\ At(e, "prompt") /\ Goto(e, "admit")
    /\ UNCHANGED <<clip, blind, app, quarantine, caches, inflight, ghosts, user, faults>>

Decline(e) ==
    /\ At(e, "prompt")
    /\ SetClip(None) /\ Goto(e, "forget")
    /\ UNCHANGED <<app, quarantine, caches, inflight, ghosts, user>>

Forget(e) ==
    /\ At(e, "forget")
    /\ last' = None /\ blind' = FALSE /\ Goto(e, "finish")
    /\ UNCHANGED <<clip, app, quarantine, blocked, lastBlocked, allowed, inflight, ghosts, user, faults>>

Admit(e) ==
    /\ At(e, "admit")
    /\ allowed' = allowed \union {work[e].text}
    /\ IF Leads(e) THEN last' = work[e].text /\ quarantine' = Released
                   ELSE UNCHANGED <<last, quarantine>>
    /\ Conclude(e)
    /\ UNCHANGED <<clip, blind, app, blocked, lastBlocked, inflight, ghosts, user, faults>>

\* The deferred close: the entry goes, and all who joined have the result. Only
\* a refusal leaves a press that is dropped without a word.
Finish(e) ==
    /\ At(e, "finish")
    /\ inflight' = [inflight EXCEPT ![Key(e)] = NoScan]
    /\ work' = [x \in Evaluators |->
                  IF x = e \/ (At(x, "join") /\ Key(x) = Key(e)) THEN Idle ELSE work[x]]
    /\ Answer(IF inflight[Key(e)].refused THEN {}
              ELSE {j \in Jobs : due[j] = Key(e) /\ ~At(j, "judge")})
    /\ UNCHANGED <<clip, blind, app, quarantine, caches, pressed, user, faults>>

\* The context of a job that has joined runs out after five seconds.
GiveUp(j) ==
    /\ At(j, "join") /\ Rest(j)
    /\ UNCHANGED <<clip, blind, app, quarantine, caches, inflight, ghosts, user, faults>>

----------------------------------------------------------------------------
(* HandlePasteAttempt, on the hook's thread: one press at a time.           *)
Press ==
    /\ At(Hook, "idle") /\ presses < MaxPresses /\ presses' = presses + 1
    /\ Start(Hook, "pressed", None, app)
    /\ UNCHANGED <<clip, blind, app, quarantine, caches, inflight, ghosts, copies, switches, faults>>

\* With the guard's own dialog in front the alert is repeated.
PressInDialog ==
    /\ At(Hook, "pressed") /\ work[Hook].app = "agent"
    /\ IF quarantine.of = None THEN Rest(Hook) /\ UNCHANGED pressed
       ELSE /\ Start(Hook, "alert", quarantine.of, quarantine.target)
            /\ pressed' = pressed \union {<<quarantine.of, quarantine.target>>}
    /\ UNCHANGED <<clip, blind, app, quarantine, caches, inflight, due, user, faults>>

PressBypassed ==
    /\ At(Hook, "pressed") /\ work[Hook].app \in {"browser", "shell"}
    /\ RestoreOrRest(Hook)
    /\ UNCHANGED <<clip, blind, app, caches, inflight, ghosts, user, faults>>

\* A text is looked up in the caches, a file judged on the spot, and an empty
\* clipboard may mean that the guard has emptied it.
PressText ==
    /\ At(Hook, "pressed") /\ work[Hook].app \in Natives
    /\ \E t \in Texts \union {None} :
         /\ Reads(ClipText, t)
         /\ Start(Hook, IF t = None THEN "files" ELSE "lookup", t, work[Hook].app)
    /\ UNCHANGED <<clip, blind, app, quarantine, caches, inflight, ghosts, user>>

PressFiles ==
    /\ At(Hook, "files")
    /\ \E f \in Files \union {None} :
         /\ Reads(ClipFile, f)
         /\ IF f = None THEN Goto(Hook, "nothing") /\ UNCHANGED pressed
            ELSE /\ Start(Hook, "judge", f, work[Hook].app)
                 /\ pressed' = pressed \union {<<f, work[Hook].app>>}
    /\ UNCHANGED <<clip, blind, app, quarantine, caches, inflight, due, user>>

PressEmpty ==
    /\ At(Hook, "nothing")
    /\ IF quarantine.of = None THEN Rest(Hook) /\ UNCHANGED <<quarantine, pressed>>
       ELSE /\ Hold(quarantine.of, work[Hook].app, TRUE)
            /\ Start(Hook, "alert", quarantine.of, work[Hook].app)
            /\ pressed' = pressed \union {<<quarantine.of, work[Hook].app>>}
    /\ UNCHANGED <<clip, blind, app, caches, inflight, due, user, faults>>

LookUp == At(Hook, "lookup") /\ pressed' = pressed \union {Key(Hook)}
Refused == Key(Hook) \in blocked \/ work[Hook].text = lastBlocked

PressAllowed ==
    /\ LookUp /\ work[Hook].text \in allowed
    /\ Rest(Hook)
    /\ UNCHANGED <<clip, blind, app, quarantine, caches, inflight, due, user, faults>>

PressBlocked ==
    /\ LookUp /\ work[Hook].text \notin allowed /\ Refused
    /\ Hold(work[Hook].text, work[Hook].app, TRUE)
    /\ last' = None /\ blind' = FALSE
    /\ Goto(Hook, "refuse")
    /\ UNCHANGED <<clip, app, blocked, lastBlocked, allowed, inflight, due, user, faults>>

PressSpawns(j) ==
    /\ LookUp /\ work[Hook].text \notin allowed /\ ~Refused
    /\ At(j, "idle") /\ due[j] = None
    /\ work' = [work EXCEPT ![j] = [work[Hook] EXCEPT !.pc = "judge"], ![Hook].pc = "wait"]
    /\ due' = [due EXCEPT ![j] = Key(Hook)]
    /\ UNCHANGED <<clip, blind, app, quarantine, caches, inflight, user, faults>>

\* The job's result or 800 milliseconds, whichever comes first.
PressEnds ==
    /\ At(Hook, "wait") /\ Rest(Hook)
    /\ UNCHANGED <<clip, blind, app, quarantine, caches, inflight, ghosts, user, faults>>

----------------------------------------------------------------------------
(* The user, and the time to live of the verdicts, which is minutes: nothing *)
(* is under way then but a question that stands open.                        *)
Copy(c) ==
    /\ copies < MaxCopies /\ copies' = copies + 1
    /\ clip' = c /\ blind' = FALSE
    /\ UNCHANGED <<app, quarantine, caches, inflight, work, ghosts, switches, presses, faults>>

Switch(a) ==
    /\ a # app /\ switches < MaxSwitches /\ switches' = switches + 1
    /\ app' = a
    /\ UNCHANGED <<clip, blind, quarantine, caches, inflight, work, ghosts, copies, presses, faults>>

Calm == \A e \in Evaluators : work[e].pc \in {"idle", "prompt", "join"}

ExpireBlocked(k) ==
    /\ Calm /\ k \in blocked
    /\ blocked' = blocked \ {k}
    /\ lastBlocked' = IF blocked = {k} THEN None ELSE lastBlocked
    /\ UNCHANGED <<clip, blind, app, quarantine, allowed, last, inflight, work, ghosts, user, faults>>

ExpireAllowed(c) ==
    /\ Calm /\ c \in allowed
    /\ allowed' = allowed \ {c}
    /\ UNCHANGED <<clip, blind, app, quarantine, blocked, lastBlocked, last, inflight, work, ghosts, user, faults>>

----------------------------------------------------------------------------
Init ==
    /\ clip = None /\ blind = FALSE /\ app \in Apps
    /\ quarantine = Released
    /\ blocked = {} /\ lastBlocked = None /\ allowed = {} /\ last = None
    /\ inflight = [k \in Keys |-> NoScan]
    /\ work = [e \in Evaluators |-> Idle]
    /\ pressed = {} /\ due = [j \in Jobs |-> None]
    /\ copies = 0 /\ switches = 0 /\ presses = 0 /\ faults = 0

Evaluate(e) ==
    \/ JudgeBypassed(e) \/ Restore(e) \/ JudgeNoText(e) \/ JudgeEmpty(e)
    \/ JudgeBlocked(e) \/ JudgeAllowed(e) \/ Join(e) \/ Lead(e) \/ LeadFile(e)
    \/ ScanFails(e) \/ Scan(e) \/ Clear(e) \/ Record(e) \/ Refuse(e) \/ Alert(e)
    \/ Warn(e) \/ Accept(e) \/ Decline(e) \/ Forget(e) \/ Admit(e) \/ Finish(e)

Loop == Tick \/ TickText

HandlePasteAttempt ==
    \/ PressInDialog \/ PressBypassed \/ PressText \/ PressFiles \/ PressEmpty
    \/ PressAllowed \/ PressBlocked \/ (\E j \in Jobs : PressSpawns(j)) \/ PressEnds

Environment ==
    \/ Press \/ (\E c \in Contents : Copy(c)) \/ (\E a \in Apps : Switch(a))
    \/ (\E k \in Keys : ExpireBlocked(k)) \/ (\E c \in Contents : ExpireAllowed(c))
    \/ \E j \in Jobs : GiveUp(j)

Next ==
    \/ Loop \/ HandlePasteAttempt \/ Environment
    \/ \E e \in Evaluators : Evaluate(e)

Spec == Init /\ [][Next]_vars

\* The scheduler runs every goroutine on, the client gives a scan up after its
\* timeout, and a user answers a question. Nothing is assumed of the user
\* otherwise, nor that a deadline passes before an answer comes.
FairSpec ==
    /\ Spec
    /\ WF_vars(Loop \/ Evaluate(Ticker))
    /\ WF_vars(HandlePasteAttempt \/ Evaluate(Hook))
    /\ \A j \in Jobs : WF_vars(Evaluate(j))

----------------------------------------------------------------------------
(* Properties.                                                              *)

\* No dialog opens for a content in an application where the user never tried
\* to paste it: the judgements of the loop are silent, also those a press has
\* missed or joined for another application.
AlertsNeedPress ==
    \A e \in Evaluators : work[e].pc \in {"alert", "prompt"} => Key(e) \in pressed

\* Every press that had to be dropped while its text was being judged gets an
\* answer in the end: it passes, or a question or an alert shows why it did not,
\* whoever leads the scan and although the hook has long returned.
PressesAnswered == (\E j \in Jobs : due[j] # None) ~> (\A j \in Jobs : due[j] = None)

RefusedInFront ==
    app \in Natives /\ clip \in {c \in Contents : \A a \in Natives : Verdict[c, a] = "block"}

\* A content refused in every watched application does not stay on the
\* clipboard while one of them is in front, although scans, reads and clears
\* fail; the one exception is a text that the loop has failed to read, for as
\* long as the clipboard keeps its number.
BlockedLeaves == []<>~(RefusedInFront /\ ~blind)

\* Does not hold: the comment on PrewarmClipboardOnce promises it without the
\* exception. A single failed read of the loop, and a refused text stays.
BlockedAlwaysLeaves == []<>~RefusedInFront

\* Does not hold: a text taken silently is kept until a browser comes to the
\* front or another text is judged; the late end of another scan drops it too.
SilentlyKept ==
    [][quarantine.of \in Texts /\ ~quarantine.told /\ quarantine' = Released =>
        \E e \in Evaluators : work[e].pc \in {"judge", "pressed"} /\ work'[e] # work[e]]_vars
=============================================================================
