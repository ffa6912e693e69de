----------------------- MODULE ClipboardGuardProofs -----------------------
(* Theorems about ClipboardGuard, for every set of texts, files,             *)
(* applications and goroutines, every verdict and every bound.               *)
EXTENDS ClipboardGuard, TLAPS

\* Where an evaluator is at work on a key, after its judgement began.
Judged == {"join", "scan", "clear", "record", "refuse", "alert", "warn", "prompt",
           "forget", "admit", "finish"}

PCs == {"idle", "text", "judge", "empty", "restore", "pressed", "files", "nothing",
        "lookup", "wait"} \union Judged

\* Where an evaluator has found the application to be one that is watched.
Watching == {"empty", "files", "nothing", "lookup"}

WorkInv(w) ==
    /\ w \in [pc : PCs, text : Contents \union {None}, app : Natives \union Bypassed \union {None}]
    /\ w.pc \in Judged \union {"lookup"} => w.text \in Contents
    /\ w.pc \in Judged \union Watching => w.app \in Natives

WorkType ==
    /\ DOMAIN work = Evaluators /\ \A e \in Evaluators : WorkInv(work[e])
    /\ work[Ticker].pc \notin Watching \ {"empty"}

ScanType ==
    inflight \in [Keys -> [by : Evaluators \union {None}, alert : BOOLEAN, refused : BOOLEAN]]

HoldType ==
    /\ quarantine \in [of : Contents \union {None}, target : Natives \union {None}, told : BOOLEAN]
    /\ quarantine.of # None => quarantine.target \in Natives

CacheType ==
    /\ blocked \subseteq Keys /\ allowed \subseteq Contents
    /\ lastBlocked \in Contents \union {None} /\ last \in Contents \union {None}

TypeInv ==
    /\ clip \in Contents \union {None} /\ app \in Apps
    /\ WorkType /\ ScanType /\ HoldType /\ CacheType
    /\ pressed \subseteq Keys
    /\ due \in [Jobs -> Keys \union {None}]
    /\ copies \in Nat /\ switches \in Nat /\ presses \in Nat /\ faults \in Nat

BlindInv == blind \in BOOLEAN

\* Everyone but the loop judges only what the user has tried to paste, and a
\* scan that will alert has been asked to by a press of its key.
PressInv ==
    /\ \A e \in Evaluators \ {Ticker} :
         work[e].pc \in Judged \union {"judge"} => Key(e) \in pressed
    /\ \A k \in Keys : inflight[k].alert => k \in pressed
    /\ AlertsNeedPress

----------------------------------------------------------------------------
(* What the helpers do to the evaluators and the quarantine.                *)

LEMMA StartStep ==
    ASSUME WorkType, NEW e \in Evaluators, NEW l \in PCs, NEW t \in Contents \union {None},
           NEW a \in Natives \union Bypassed \union {None},
           l \in Judged \union {"lookup"} => t \in Contents,
           l \in Judged \union Watching => a \in Natives,
           e = Ticker => l \notin Watching \ {"empty"},
           Start(e, l, t, a)
    PROVE  /\ WorkType'
           /\ work'[e] = [pc |-> l, text |-> t, app |-> a]
           /\ \A x \in Evaluators \ {e} : work'[x] = work[x]
  BY DEF WorkType, WorkInv, Start

LEMMA RestStep ==
    ASSUME WorkType, NEW e \in Evaluators, Rest(e)
    PROVE  /\ WorkType' /\ work'[e] = Idle
           /\ \A x \in Evaluators \ {e} : work'[x] = work[x]
  BY DEF WorkType, WorkInv, Rest, Idle, PCs, Judged, Watching

LEMMA GotoStep ==
    ASSUME WorkType, NEW e \in Evaluators, NEW l \in PCs,
           l \in Judged \union {"lookup"} => work[e].text \in Contents,
           l \in Judged \union Watching => work[e].app \in Natives,
           e = Ticker => l \notin Watching \ {"empty"},
           Goto(e, l)
    PROVE  /\ WorkType'
           /\ work'[e] = [work[e] EXCEPT !.pc = l]
           /\ \A x \in Evaluators \ {e} : work'[x] = work[x]
  BY DEF WorkType, WorkInv, Goto

\* An evaluator past its judgement has a key, and so has one that judges.
LEMMA HasKey ==
    ASSUME WorkType, NEW e \in Evaluators
    PROVE  /\ work[e].pc \in Judged => Key(e) \in Keys
           /\ Key(e) \in Keys <=> work[e].text \in Contents /\ work[e].app \in Natives
  BY DEF WorkType, WorkInv, Key, Keys

LEMMA HoldStep ==
    ASSUME NEW c \in Contents, NEW a \in Natives, NEW told \in BOOLEAN, Hold(c, a, told)
    PROVE  HoldType'
  BY DEF Hold, HoldType

LEMMA ReleaseStep ==
    ASSUME quarantine' = Released
    PROVE  HoldType'
  BY DEF Released, HoldType

LEMMA ClipStep ==
    ASSUME NEW c, SetClip(c), faults \in Nat
    PROVE  (clip' = c \/ clip' = clip) /\ faults' \in Nat
  BY DEF SetClip

\* A read finds what is there, or nothing.
LEMMA ReadStep ==
    ASSUME NEW content, NEW c, Reads(content, c), faults \in Nat
    PROVE  (c = None \/ c = content) /\ faults' \in Nat
  BY DEF Reads

LEMMA AnswerStep ==
    ASSUME NEW js, Answer(js), due \in [Jobs -> Keys \union {None}]
    PROVE  due' \in [Jobs -> Keys \union {None}]
  BY DEF Answer

LEMMA TypeInit == Init => TypeInv
  <1> SUFFICES ASSUME Init PROVE TypeInv
    OBVIOUS
  <1> USE DEF Init
  <1>1. WorkType
    <2>1. Ticker \in Evaluators /\ \A e \in Evaluators : work[e] = Idle
      BY DEF Evaluators
    <2>2. WorkInv(Idle)
      BY DEF WorkInv, Idle, PCs, Judged, Watching
    <2> QED  BY <2>1, <2>2 DEF WorkType, Idle, Watching
  <1>2. ScanType
    BY DEF ScanType, NoScan
  <1>3. HoldType
    BY DEF HoldType, Released
  <1> QED  BY <1>1, <1>2, <1>3 DEF TypeInv, CacheType

\* What a step leaves alone keeps its type.
LEMMA Unmoved ==
    ASSUME TypeInv
    PROVE  /\ UNCHANGED work => WorkType'
           /\ UNCHANGED inflight => ScanType'
           /\ UNCHANGED quarantine => HoldType'
           /\ UNCHANGED caches => CacheType'
  BY DEF TypeInv, WorkType, ScanType, HoldType, CacheType, caches

LEMMA EvaluateType ==
    ASSUME TypeInv, NEW e \in Evaluators, Evaluate(e)
    PROVE  TypeInv'
  <1> USE Unmoved DEF TypeInv, caches, user, ghosts
  <1>0. /\ WorkInv(work[e])
        /\ None \notin Contents /\ None \notin Natives
    BY ClipboardAssumption DEF WorkType, ClipboardAssumption
  <1>1. CASE JudgeBypassed(e) \/ Restore(e) \/ JudgeNoText(e) \/ JudgeEmpty(e)
    <2>1. CASE JudgeBypassed(e)
      <3>1. CASE Rest(e) /\ UNCHANGED quarantine
        BY <3>1, <2>1, RestStep DEF JudgeBypassed
      <3>2. CASE quarantine' = Released /\ Start(e, "restore", quarantine.of, "browser")
        <4>1. WorkType'
          BY <3>2, StartStep DEF HoldType, PCs, Judged, Watching, Bypassed
        <4> QED  BY <3>2, <4>1, <2>1, ReleaseStep DEF JudgeBypassed
      <3> QED  BY <2>1, <3>1, <3>2 DEF JudgeBypassed, RestoreOrRest
    <2>2. CASE Restore(e)
      <3>1. work[e].text \in Contents \union {None}
        BY <1>0 DEF WorkInv
      <3> QED  BY <2>2, <3>1, RestStep, ClipStep DEF Restore
    <2>3. CASE JudgeNoText(e)
      <3>0. PICK f \in Files \union {None} :
              /\ Reads(ClipFile, f)
              /\ IF f = None THEN Goto(e, "empty") ELSE Start(e, "judge", f, work[e].app)
        BY <2>3 DEF JudgeNoText
      <3>1. faults' \in Nat
        BY <3>0, ReadStep
      <3>2. WorkType'
        <4>1. CASE f = None
          BY <1>0, <2>3, <3>0, <4>1, GotoStep DEF JudgeNoText, PCs, Judged, Watching
        <4>2. CASE f # None
          BY <1>0, <2>3, <3>0, <4>2, StartStep DEF JudgeNoText, PCs, Judged, Watching, Contents
        <4> QED  BY <4>1, <4>2
      <3> QED  BY <2>3, <3>1, <3>2 DEF JudgeNoText
    <2>4. CASE JudgeEmpty(e)
      BY <2>4, RestStep DEF JudgeEmpty, CacheType
    <2> QED  BY <1>1, <2>1, <2>2, <2>3, <2>4
  <1>2. ASSUME Judges(e)
        PROVE  /\ work[e].text \in Contents /\ work[e].app \in Natives /\ Key(e) \in Keys
               /\ \A l \in Judged : Goto(e, l) => WorkType'
    <2>1. work[e].text \in Contents /\ work[e].app \in Natives /\ Key(e) \in Keys
      BY <1>2, HasKey DEF Judges
    <2> QED  BY <2>1, GotoStep DEF PCs, Judged, Watching
  <1>3. DropStale(e) => HoldType'
    BY ReleaseStep DEF DropStale
  <1>4. CASE JudgeBlocked(e)
    <2>1. HoldType'
      BY <1>2, <1>4, HoldStep DEF JudgeBlocked, Notifies
    <2> QED  BY <1>2, <1>4, <2>1 DEF JudgeBlocked, CacheType, Judged
  <1>5. CASE JudgeAllowed(e)
    BY <1>2, <1>3, <1>5, RestStep, AnswerStep DEF JudgeAllowed, CacheType
  <1>6. CASE Join(e)
    <2>1. ScanType'
      BY <1>2, <1>6 DEF Join, Unknown, ScanType, Notifies
    <2> QED  BY <1>2, <1>3, <1>6, <2>1 DEF Join, Unknown, Judged
  <1>7. CASE Lead(e)
    <2>1. ScanType'
      BY <1>2, <1>7 DEF Lead, Unknown, ScanType, Notifies
    <2> QED  BY <1>2, <1>3, <1>7, <2>1 DEF Lead, Unknown, Judged
  <1>8. CASE LeadFile(e)
    BY <1>2, <1>8 DEF LeadFile, Unknown, Judged
  <1>9. ASSUME work[e].pc \in Judged
        PROVE  /\ work[e].text \in Contents /\ work[e].app \in Natives /\ Key(e) \in Keys
               /\ \A l \in Judged : Goto(e, l) => WorkType'
               /\ Conclude(e) => WorkType'
    <2>1. work[e].text \in Contents /\ work[e].app \in Natives /\ Key(e) \in Keys
      BY <1>0, <1>9, HasKey DEF WorkInv
    <2>2. \A l \in Judged : Goto(e, l) => WorkType'
      BY <2>1, GotoStep DEF PCs, Judged, Watching
    <2> QED  BY <2>1, <2>2, RestStep DEF Conclude, Judged
  <1>10. CASE ScanFails(e)
    BY <1>9, <1>10 DEF ScanFails, At, Judged
  <1>11. CASE Scan(e)
    BY <1>9, <1>11 DEF Scan, At, Judged
  <1>12. CASE Clear(e)
    BY <1>9, <1>12, ClipStep DEF Clear, At, Judged
  <1>13. CASE Record(e)
    <2> DEFINE alert == IF Leads(e) THEN inflight[Key(e)].alert ELSE Notifies(e)
    <2>0. work[e].text \in Contents /\ work[e].app \in Natives /\ Key(e) \in Keys
      BY <1>9, <1>13 DEF Record, At, Judged
    <2>1. alert \in BOOLEAN
      BY <2>0 DEF Notifies, ScanType
    <2>2. HoldType'
      BY <2>0, <2>1, <1>13, HoldStep DEF Record
    <2>3. ScanType'
      BY <2>0, <1>13 DEF Record, ScanType
    <2>4. WorkType'
      BY <1>9, <1>13 DEF Record, At, Judged
    <2>5. CacheType'
      BY <2>0, <1>13 DEF Record, CacheType
    <2> QED  BY <1>13, <2>2, <2>3, <2>4, <2>5 DEF Record
  <1>14. CASE Refuse(e)
    BY <1>9, <1>14, ClipStep, RestStep DEF Refuse, At, Judged
  <1>15. CASE Alert(e)
    BY <1>9, <1>15, AnswerStep DEF Alert, At, Judged
  <1>16. CASE Warn(e) \/ Accept(e)
    BY <1>9, <1>16 DEF Warn, Accept, At, Judged
  <1>17. CASE Decline(e)
    BY <1>9, <1>17, ClipStep DEF Decline, At, Judged
  <1>18. CASE Forget(e)
    BY <1>9, <1>18 DEF Forget, At, Judged, CacheType
  <1>19. CASE Admit(e)
    <2>1. HoldType'
      BY <1>19, ReleaseStep DEF Admit
    <2> QED  BY <1>9, <1>19, <2>1 DEF Admit, At, Judged, CacheType
  <1>20. CASE Finish(e)
    <2>0. Key(e) \in Keys
      BY <1>9, <1>20 DEF Finish, At, Judged
    <2>1. ScanType'
      BY <2>0, <1>20 DEF Finish, ScanType, NoScan
    <2>2. WorkType'
      <3>1. WorkInv(Idle) /\ Idle.pc = "idle"
        BY DEF WorkInv, Idle, PCs, Judged, Watching
      <3>2. Ticker \in Evaluators /\ \A x \in Evaluators : work'[x] \in {Idle, work[x]}
        BY <1>20 DEF Finish, Evaluators
      <3>3. DOMAIN work' = Evaluators
        BY <1>20 DEF Finish
      <3> QED  BY <3>1, <3>2, <3>3 DEF WorkType, Watching
    <2> QED  BY <1>20, <2>1, <2>2, AnswerStep DEF Finish
  <1> QED
    BY <1>1, <1>4, <1>5, <1>6, <1>7, <1>8, <1>10, <1>11, <1>12, <1>13, <1>14, <1>15, <1>16,
       <1>17, <1>18, <1>19, <1>20 DEF Evaluate

LEMMA PasteType ==
    ASSUME TypeInv, HandlePasteAttempt
    PROVE  TypeInv'
  <1> USE Unmoved DEF TypeInv, caches, user, ghosts
  <1>0. /\ WorkInv(work[Hook]) /\ Hook \in Evaluators /\ Hook # Ticker
        /\ None \notin Contents /\ None \notin Natives
    BY ClipboardAssumption DEF WorkType, ClipboardAssumption, Evaluators
  <1>1. CASE PressInDialog
    <2>1. CASE Rest(Hook) /\ UNCHANGED pressed
      BY <1>0, <1>1, <2>1, RestStep DEF PressInDialog
    <2>2. CASE quarantine.of # None
      <3>1. quarantine.of \in Contents /\ quarantine.target \in Natives
        BY <2>2 DEF HoldType
      <3>2. WorkType'
        BY <1>0, <1>1, <2>2, <3>1, StartStep DEF PressInDialog, PCs, Judged, Watching
      <3> QED  BY <1>1, <2>2, <3>1, <3>2 DEF PressInDialog, Keys
    <2> QED  BY <1>1, <2>1, <2>2 DEF PressInDialog
  <1>2. CASE PressBypassed
    <2>1. CASE Rest(Hook) /\ UNCHANGED quarantine
      BY <1>0, <1>2, <2>1, RestStep DEF PressBypassed
    <2>2. CASE quarantine' = Released /\ Start(Hook, "restore", quarantine.of, "browser")
      <3>1. WorkType'
        BY <1>0, <2>2, StartStep DEF HoldType, PCs, Judged, Watching, Bypassed
      <3> QED  BY <1>2, <2>2, <3>1, ReleaseStep DEF PressBypassed
    <2> QED  BY <1>2, <2>1, <2>2 DEF PressBypassed, RestoreOrRest
  <1>3. CASE PressText
    <2>1. PICK t \in Texts \union {None} :
            /\ Reads(ClipText, t)
            /\ Start(Hook, IF t = None THEN "files" ELSE "lookup", t, work[Hook].app)
      BY <1>3 DEF PressText
    <2>2. faults' \in Nat
      BY <2>1, ReadStep
    <2>3. WorkType'
      BY <1>0, <1>3, <2>1, StartStep DEF PressText, PCs, Judged, Watching, Contents
    <2> QED  BY <1>3, <2>2, <2>3 DEF PressText
  <1>4. CASE PressFiles
    <2>0. work[Hook].app \in Natives
      BY <1>0, <1>4 DEF PressFiles, At, WorkInv, Watching
    <2>1. PICK f \in Files \union {None} :
            /\ Reads(ClipFile, f)
            /\ IF f = None THEN Goto(Hook, "nothing") /\ UNCHANGED pressed
               ELSE /\ Start(Hook, "judge", f, work[Hook].app)
                    /\ pressed' = pressed \union {<<f, work[Hook].app>>}
      BY <1>4 DEF PressFiles
    <2>2. faults' \in Nat
      BY <2>1, ReadStep
    <2>3. CASE f = None
      <3>1. WorkType'
        BY <1>0, <1>4, <2>0, <2>1, <2>3, GotoStep DEF PressFiles, PCs, Judged, Watching
      <3> QED  BY <1>4, <2>1, <2>2, <2>3, <3>1 DEF PressFiles
    <2>4. CASE f # None
      <3>1. f \in Contents /\ <<f, work[Hook].app>> \in Keys
        BY <2>0, <2>4 DEF Contents, Keys
      <3>2. WorkType'
        BY <1>0, <1>4, <2>0, <2>1, <2>4, <3>1, StartStep DEF PressFiles, PCs, Judged, Watching
      <3> QED  BY <1>4, <2>1, <2>2, <2>4, <3>1, <3>2 DEF PressFiles
    <2> QED  BY <2>3, <2>4
  <1>5. CASE PressEmpty
    <2>0. work[Hook].app \in Natives
      BY <1>0, <1>5 DEF PressEmpty, At, WorkInv, Watching
    <2>1. CASE quarantine.of = None
      BY <1>0, <1>5, <2>1, RestStep DEF PressEmpty
    <2>2. CASE quarantine.of # None
      <3>1. quarantine.of \in Contents /\ <<quarantine.of, work[Hook].app>> \in Keys
        BY <2>0, <2>2 DEF HoldType, Keys
      <3>2. WorkType'
        BY <1>0, <1>5, <2>0, <2>2, <3>1, StartStep DEF PressEmpty, PCs, Judged, Watching
      <3>3. HoldType'
        BY <1>5, <2>0, <2>2, <3>1, HoldStep DEF PressEmpty
      <3> QED  BY <1>5, <2>2, <3>1, <3>2, <3>3 DEF PressEmpty
    <2> QED  BY <2>1, <2>2
  <1>6. ASSUME LookUp
        PROVE  /\ Key(Hook) \in Keys /\ pressed' \subseteq Keys
               /\ work[Hook].text \in Contents /\ work[Hook].app \in Natives
    BY <1>0, <1>6, HasKey DEF LookUp, At, WorkInv, Watching
  <1>7. CASE PressAllowed
    BY <1>0, <1>6, <1>7, RestStep DEF PressAllowed
  <1>8. CASE PressBlocked
    <2>1. HoldType'
      BY <1>6, <1>8, HoldStep DEF PressBlocked
    <2>2. WorkType'
      BY <1>0, <1>6, <1>8, GotoStep DEF PressBlocked, PCs, Judged, Watching
    <2> QED  BY <1>6, <1>8, <2>1, <2>2 DEF PressBlocked, CacheType
  <1>9. ASSUME NEW j \in Jobs, PressSpawns(j) PROVE TypeInv'
    <2>1. j \in Evaluators /\ j # Hook /\ j # Ticker
      BY ClipboardAssumption DEF ClipboardAssumption, Evaluators
    <2>2. /\ DOMAIN work' = Evaluators
          /\ work'[j] = [work[Hook] EXCEPT !.pc = "judge"]
          /\ work'[Hook] = [work[Hook] EXCEPT !.pc = "wait"]
          /\ \A x \in Evaluators \ {j, Hook} : work'[x] = work[x]
      BY <1>0, <1>9, <2>1 DEF PressSpawns, WorkType
    <2>3. \A pc \in {"judge", "wait"} : WorkInv([work[Hook] EXCEPT !.pc = pc])
      BY <1>0 DEF WorkInv, PCs, Judged, Watching
    <2>4. WorkType'
      BY <1>0, <2>1, <2>2, <2>3 DEF WorkType, Evaluators
    <2>5. due' \in [Jobs -> Keys \union {None}]
      BY <1>6, <1>9 DEF PressSpawns
    <2> QED  BY <1>6, <1>9, <2>4, <2>5 DEF PressSpawns
  <1>10. CASE PressEnds
    BY <1>0, <1>10, RestStep DEF PressEnds
  <1> QED
    BY <1>1, <1>2, <1>3, <1>4, <1>5, <1>7, <1>8, <1>9, <1>10 DEF HandlePasteAttempt

LEMMA TypeStep == TypeInv /\ [Next]_vars => TypeInv'
  <1> SUFFICES ASSUME TypeInv, [Next]_vars PROVE TypeInv'
    OBVIOUS
  <1> USE Unmoved DEF TypeInv, caches, user, ghosts
  <1>0. {Ticker, Hook} \union Jobs = Evaluators /\ app \in Natives \union Bypassed /\ Ticker # Hook
    BY ClipboardAssumption DEF ClipboardAssumption, Evaluators
  <1>1. CASE Loop
    <2>1. CASE Tick
      BY <1>0, <2>1, StartStep DEF Tick, PCs, Judged, Watching
    <2>2. CASE TickText
      <3>1. PICK t \in Texts \union {None} :
              /\ Reads(IF blind THEN None ELSE ClipText, t)
              /\ Start(Ticker, "judge", t, work[Ticker].app)
        BY <2>2 DEF TickText
      <3>2. work[Ticker].app \in Natives \union Bypassed \union {None}
        BY <1>0 DEF WorkType, WorkInv
      <3>3. faults' \in Nat
        BY <3>1, ReadStep
      <3>4. WorkType'
        BY <1>0, <3>1, <3>2, StartStep DEF PCs, Judged, Watching, Contents
      <3> QED  BY <2>2, <3>3, <3>4 DEF TickText
    <2> QED  BY <1>1, <2>1, <2>2 DEF Loop
  <1>2. CASE Environment
    <2>1. CASE Press
      <3>1. WorkType'
        BY <1>0, <2>1, StartStep DEF Press, PCs, Judged, Watching
      <3> QED  BY <2>1, <3>1 DEF Press
    <2>2. ASSUME NEW c \in Contents, Copy(c) PROVE TypeInv'
      BY <2>2 DEF Copy
    <2>3. ASSUME NEW a \in Apps, Switch(a) PROVE TypeInv'
      BY <2>3 DEF Switch
    <2>4. ASSUME NEW k \in Keys, ExpireBlocked(k) PROVE TypeInv'
      BY <2>4 DEF ExpireBlocked, CacheType
    <2>5. ASSUME NEW c \in Contents, ExpireAllowed(c) PROVE TypeInv'
      BY <2>5 DEF ExpireAllowed, CacheType
    <2>6. ASSUME NEW j \in Jobs, GiveUp(j) PROVE TypeInv'
      BY <1>0, <2>6, RestStep DEF GiveUp
    <2> QED  BY <1>2, <2>1, <2>2, <2>3, <2>4, <2>5, <2>6 DEF Environment
  <1>3. CASE UNCHANGED vars
    BY <1>3 DEF vars
  <1> QED  BY <1>1, <1>2, <1>3, PasteType, EvaluateType DEF Next

LEMMA BlindStep == BlindInv /\ [Next]_vars => BlindInv'
  <1> SUFFICES ASSUME blind \in BOOLEAN, [Next]_vars PROVE blind' \in BOOLEAN
    BY DEF BlindInv
  <1>1. ASSUME NEW c, SetClip(c) PROVE blind' \in BOOLEAN
    BY <1>1 DEF SetClip
  <1>2. ASSUME NEW e \in Evaluators, Evaluate(e) PROVE blind' \in BOOLEAN
    <2>1. CASE JudgeBypassed(e) \/ JudgeNoText(e) \/ JudgeEmpty(e) \/ JudgeBlocked(e) \/ JudgeAllowed(e)
      BY <2>1 DEF JudgeBypassed, JudgeNoText, JudgeEmpty, JudgeBlocked, JudgeAllowed
    <2>2. CASE Join(e) \/ Lead(e) \/ LeadFile(e) \/ ScanFails(e) \/ Scan(e)
      BY <2>2 DEF Join, Lead, LeadFile, ScanFails, Scan
    <2>3. CASE Restore(e) \/ Clear(e) \/ Refuse(e) \/ Decline(e)
      BY <1>1, <2>3 DEF Restore, Clear, Refuse, Decline
    <2>4. CASE Record(e) \/ Alert(e) \/ Warn(e) \/ Accept(e) \/ Forget(e) \/ Admit(e) \/ Finish(e)
      BY <2>4 DEF Record, Alert, Warn, Accept, Forget, Admit, Finish
    <2> QED  BY <1>2, <2>1, <2>2, <2>3, <2>4 DEF Evaluate
  <1>3. CASE Loop \/ HandlePasteAttempt
    BY <1>3 DEF Loop, Tick, TickText, HandlePasteAttempt, PressInDialog, PressBypassed, PressText,
                PressFiles, PressEmpty, PressAllowed, PressBlocked, PressSpawns, PressEnds
  <1>4. CASE Environment
    BY <1>4 DEF Environment, Press, Copy, Switch, ExpireBlocked, ExpireAllowed, GiveUp
  <1>5. CASE UNCHANGED vars
    BY <1>5 DEF vars
  <1> QED  BY <1>2, <1>3, <1>4, <1>5 DEF Next

\* Every variable stays in its type; an evaluator past its judgement has a key,
\* and the hook looks up a text for a watched application only.
THEOREM TypeCorrect == Spec => [](TypeInv /\ BlindInv)
  <1>1. Init => BlindInv
    BY DEF Init, BlindInv
  <1> QED  BY <1>1, TypeInit, TypeStep, BlindStep, PTL DEF Spec

----------------------------------------------------------------------------

LEMMA PressInit == Init => PressInv
  BY DEF Init, PressInv, AlertsNeedPress, Idle, NoScan, Judged, Evaluators

\* A step of an evaluator on its own key.
LEMMA EvaluatePress ==
    ASSUME TypeInv, PressInv, NEW e \in Evaluators, Evaluate(e)
    PROVE  PressInv'
  <1> USE DEF caches, user, ghosts
  <1>0. WorkType /\ ScanType /\ DOMAIN work = Evaluators
    BY DEF TypeInv, WorkType
  \* Moving on from the judgement, with the key.
  <1>a. ASSUME NEW l \in PCs, Goto(e, l), UNCHANGED <<inflight, pressed>>,
               work[e].pc \in Judged \union {"judge"} \/ l \notin Judged \union {"judge"},
               l \in {"alert", "prompt"} => Key(e) \in pressed
        PROVE  PressInv'
    <2>1. /\ work'[e].pc = l /\ Key(e)' = Key(e)
          /\ \A x \in Evaluators \ {e} : work'[x] = work[x]
      BY <1>0, <1>a DEF Goto, Key, WorkType, WorkInv
    <2> QED  BY <1>a, <2>1 DEF PressInv, AlertsNeedPress, Key
  \* Coming to rest, or to a place that is not yet a judgement.
  <1>b. ASSUME UNCHANGED <<inflight, pressed>>, NEW w, work' = [work EXCEPT ![e] = w],
               w.pc \notin Judged, w.pc = "judge" => e = Ticker
        PROVE  PressInv'
    <2>1. work'[e] = w /\ \A x \in Evaluators \ {e} : work'[x] = work[x]
      BY <1>0, <1>b
    <2> QED  BY <1>b, <2>1 DEF PressInv, AlertsNeedPress, Key, Judged
  <1>c. ASSUME Rest(e), UNCHANGED <<inflight, pressed>> PROVE PressInv'
    BY <1>b, <1>c DEF Rest, Idle, Judged
  <1>d. ASSUME Conclude(e), UNCHANGED <<inflight, pressed>>, work[e].pc \in Judged PROVE PressInv'
    BY <1>a, <1>c, <1>d DEF Conclude, PCs, Judged
  <1>1. CASE JudgeBypassed(e)
    BY <1>1, <1>b, <1>c DEF JudgeBypassed, RestoreOrRest, Start, Judged
  <1>2. CASE Restore(e) \/ JudgeEmpty(e) \/ JudgeAllowed(e)
    BY <1>2, <1>c DEF Restore, JudgeEmpty, JudgeAllowed
  <1>3. CASE JudgeNoText(e)
    <2>1. e = Ticker \/ Key(e) \in Keys
      BY <1>3 DEF JudgeNoText, At, PressInv, TypeInv
    <2>2. work[e].text \notin Contents
      BY <1>3, ClipboardAssumption DEF JudgeNoText, ClipboardAssumption
    <2>3. e = Ticker
      BY <1>0, <2>1, <2>2, HasKey
    <2> QED  BY <1>3, <2>3, <1>a, <1>b DEF JudgeNoText, Start, Judged, PCs
  <1>4. CASE JudgeBlocked(e) \/ LeadFile(e)
    BY <1>4, <1>a DEF JudgeBlocked, LeadFile, Unknown, Judges, At, PCs, Judged
  <1>5. CASE Join(e) \/ Lead(e)
    <2>1. Key(e) \in Keys /\ work[e].pc = "judge"
      BY <1>5 DEF Join, Lead, Unknown, Judges, At
    <2>2. \A k \in Keys : inflight'[k].alert => k \in pressed
      BY <1>0, <1>5, <2>1 DEF Join, Lead, ScanType, Notifies, PressInv
    <2>3. /\ work'[e].pc \in {"join", "scan"} /\ Key(e)' = Key(e) /\ pressed' = pressed
          /\ \A x \in Evaluators \ {e} : work'[x] = work[x]
      BY <1>0, <1>5 DEF Join, Lead, Goto, Key, WorkType, WorkInv
    <2> QED  BY <2>1, <2>2, <2>3 DEF PressInv, AlertsNeedPress, Key
  <1>6. CASE ScanFails(e)
    BY <1>6, <1>d DEF ScanFails, At, Judged
  <1>7. CASE Scan(e) \/ Clear(e) \/ Accept(e) \/ Decline(e) \/ Forget(e)
    BY <1>7, <1>a DEF Scan, Clear, Accept, Decline, Forget, At, PCs, Judged
  <1>8. CASE Record(e)
    <2> DEFINE alert == IF Leads(e) THEN inflight[Key(e)].alert ELSE Notifies(e)
    <2>1. Key(e) \in Keys /\ work[e].pc = "record"
      BY <1>0, <1>8, HasKey DEF Record, At, Judged
    <2>2. alert => Key(e) \in pressed
      BY <2>1 DEF PressInv, Notifies, Judged
    <2>3. \A k \in Keys : inflight'[k].alert => k \in pressed
      BY <1>0, <1>8, <2>1 DEF Record, ScanType, PressInv
    <2>4. /\ work'[e].pc \in {"alert", "finish"} \/ work'[e] = Idle
          /\ work'[e].pc # "idle" => Key(e)' = Key(e)
          /\ work'[e].pc = "alert" => alert
          /\ pressed' = pressed
          /\ \A x \in Evaluators \ {e} : work'[x] = work[x]
      BY <1>0, <1>8 DEF Record, Conclude, Goto, Rest, Idle, Key, WorkType, WorkInv
    <2> QED  BY <2>1, <2>2, <2>3, <2>4 DEF PressInv, AlertsNeedPress, Key, Idle, Judged
  <1>9. CASE Refuse(e)
    <2>1. Notifies(e) => Key(e) \in pressed
      BY <1>9 DEF Refuse, At, Notifies, PressInv, Judged
    <2> QED  BY <1>9, <2>1, <1>a, <1>c DEF Refuse, At, PCs, Judged
  <1>10. CASE Alert(e)
    BY <1>10, <1>d DEF Alert, At, Judged
  <1>11. CASE Warn(e)
    <2>1. Key(e) \in Keys
      BY <1>0, <1>11, HasKey DEF Warn, At, Judged
    <2> QED  BY <1>11, <2>1, <1>a DEF Warn, At, PCs, Judged, PressInv
  <1>12. CASE Admit(e)
    BY <1>12, <1>d DEF Admit, At, Judged
  <1>13. CASE Finish(e)
    <2>1. \A x \in Evaluators : work'[x] \in {Idle, work[x]}
      BY <1>13 DEF Finish
    <2>2. pressed' = pressed /\ \A k \in Keys : inflight'[k].alert => inflight[k].alert
      BY <1>0, <1>13 DEF Finish, ScanType, NoScan
    <2> QED  BY <2>1, <2>2 DEF PressInv, AlertsNeedPress, Key, Idle, Judged
  <1> QED
    BY <1>1, <1>2, <1>3, <1>4, <1>5, <1>6, <1>7, <1>8, <1>9, <1>10, <1>11, <1>12, <1>13
       DEF Evaluate

\* A step of the hook: what it starts to judge it has counted as pressed.
LEMMA PastePress ==
    ASSUME TypeInv, PressInv, HandlePasteAttempt
    PROVE  PressInv'
  <1> USE DEF caches, user, ghosts
  <1>0. /\ WorkType /\ HoldType /\ DOMAIN work = Evaluators
        /\ Hook \in Evaluators /\ Hook # Ticker /\ None \notin Contents
    BY ClipboardAssumption DEF TypeInv, WorkType, ClipboardAssumption, Evaluators
  \* Whatever the hook is at next, its key has been pressed or is not judged yet.
  <1>a. ASSUME UNCHANGED inflight, pressed \subseteq pressed',
               NEW w, work' = [work EXCEPT ![Hook] = w],
               w.pc \in Judged \union {"judge"} => <<w.text, w.app>> \in pressed'
        PROVE  PressInv'
    <2>1. work'[Hook] = w /\ \A x \in Evaluators \ {Hook} : work'[x] = work[x]
      BY <1>0, <1>a
    <2> QED  BY <1>a, <2>1 DEF PressInv, AlertsNeedPress, Key, Judged
  <1>b. ASSUME Rest(Hook), UNCHANGED inflight, pressed \subseteq pressed' PROVE PressInv'
    BY <1>a, <1>b DEF Rest, Idle, Judged
  <1>1. CASE PressInDialog
    BY <1>1, <1>a, <1>b DEF PressInDialog, Start
  <1>2. CASE PressBypassed
    BY <1>2, <1>a, <1>b DEF PressBypassed, RestoreOrRest, Start, Judged
  <1>3. CASE PressText
    <2>1. PICK t \in Texts \union {None} :
            work' = [work EXCEPT ![Hook] = [pc   |-> IF t = None THEN "files" ELSE "lookup",
                                            text |-> t, app |-> work[Hook].app]]
      BY <1>3 DEF PressText, Start
    <2> DEFINE w == [pc |-> IF t = None THEN "files" ELSE "lookup", text |-> t, app |-> work[Hook].app]
    <2>2. w.pc \notin Judged \union {"judge"}
      BY DEF Judged
    <2>3. UNCHANGED <<inflight, pressed>>
      BY <1>3 DEF PressText
    <2> QED  BY <1>a, <2>1, <2>2, <2>3
  <1>4. CASE PressFiles
    <2>1. UNCHANGED inflight
      BY <1>4 DEF PressFiles
    <2>2. CASE Goto(Hook, "nothing") /\ UNCHANGED pressed
      BY <1>0, <2>1, <2>2, <1>a DEF Goto, Judged, WorkType, WorkInv
    <2>3. ASSUME NEW f \in Files, Start(Hook, "judge", f, work[Hook].app),
                 pressed' = pressed \union {<<f, work[Hook].app>>}
          PROVE  PressInv'
      BY <2>1, <2>3, <1>a DEF Start
    <2> QED  BY <1>4, <2>2, <2>3 DEF PressFiles
  <1>5. CASE PressEmpty
    BY <1>5, <1>a, <1>b DEF PressEmpty, Start
  <1>6. CASE PressAllowed
    BY <1>6, <1>b DEF PressAllowed, LookUp
  <1>7. CASE PressBlocked
    <2>1. work' = [work EXCEPT ![Hook] = [work[Hook] EXCEPT !.pc = "refuse"]]
      BY <1>7 DEF PressBlocked, Goto
    <2>2. <<[work[Hook] EXCEPT !.pc = "refuse"].text, [work[Hook] EXCEPT !.pc = "refuse"].app>> \in pressed'
      BY <1>0, <1>7 DEF PressBlocked, LookUp, Key, WorkType, WorkInv
    <2> QED  BY <1>7, <2>1, <2>2, <1>a DEF PressBlocked, LookUp
  <1>8. ASSUME NEW j \in Jobs, PressSpawns(j) PROVE PressInv'
    <2>1. j \in Evaluators /\ j # Hook
      BY ClipboardAssumption DEF ClipboardAssumption, Evaluators
    <2>2. /\ work'[j] = [work[Hook] EXCEPT !.pc = "judge"]
          /\ work'[Hook] = [work[Hook] EXCEPT !.pc = "wait"]
          /\ \A x \in Evaluators \ {j, Hook} : work'[x] = work[x]
      BY <1>0, <1>8, <2>1 DEF PressSpawns, WorkType
    <2>3. Key(j)' = Key(Hook) /\ work'[j].pc = "judge" /\ work'[Hook].pc = "wait"
      BY <1>0, <2>2 DEF Key, WorkType, WorkInv
    <2>4. pressed' = pressed \union {Key(Hook)} /\ inflight' = inflight
      BY <1>8 DEF PressSpawns, LookUp
    <2> QED  BY <2>2, <2>3, <2>4 DEF PressInv, AlertsNeedPress, Key, Judged
  <1>9. CASE PressEnds
    BY <1>9, <1>b DEF PressEnds
  <1> QED
    BY <1>1, <1>2, <1>3, <1>4, <1>5, <1>6, <1>7, <1>8, <1>9 DEF HandlePasteAttempt

LEMMA PressStep == TypeInv /\ PressInv /\ [Next]_vars => PressInv'
  <1> SUFFICES ASSUME TypeInv, PressInv, [Next]_vars PROVE PressInv'
    OBVIOUS
  <1> USE DEF caches, user, ghosts
  <1>0. /\ {Ticker, Hook} \union Jobs = Evaluators /\ DOMAIN work = Evaluators
        /\ Hook # Ticker /\ Ticker \notin Jobs
    BY ClipboardAssumption DEF ClipboardAssumption, Evaluators, TypeInv, WorkType
  <1>1. ASSUME UNCHANGED <<inflight, pressed>>, NEW e \in Evaluators, NEW w, work' = [work EXCEPT ![e] = w],
               w.pc \notin Judged, w.pc = "judge" => e = Ticker
        PROVE  PressInv'
    <2>1. work'[e] = w /\ \A x \in Evaluators \ {e} : work'[x] = work[x]
      BY <1>0, <1>1
    <2> QED  BY <1>1, <2>1 DEF PressInv, AlertsNeedPress, Key, Judged
  <1>2. CASE Loop
    BY <1>0, <1>1, <1>2 DEF Loop, Tick, TickText, Start, Judged
  <1>3. CASE Environment
    <2>1. CASE Press
      BY <1>0, <1>1, <2>1 DEF Press, Start, Judged
    <2>2. ASSUME UNCHANGED <<work, inflight, pressed>> PROVE PressInv'
      BY <2>2 DEF PressInv, AlertsNeedPress, Key
    <2>3. ASSUME NEW c \in Contents, Copy(c) \/ ExpireAllowed(c) PROVE PressInv'
      BY <2>2, <2>3 DEF Copy, ExpireAllowed
    <2>4. ASSUME NEW a \in Apps, Switch(a) PROVE PressInv'
      BY <2>2, <2>4 DEF Switch
    <2>5. ASSUME NEW k \in Keys, ExpireBlocked(k) PROVE PressInv'
      BY <2>2, <2>5 DEF ExpireBlocked
    <2>6. ASSUME NEW j \in Jobs, GiveUp(j) PROVE PressInv'
      BY <1>0, <1>1, <2>6 DEF GiveUp, Rest, Idle, Judged
    <2> QED  BY <1>3, <2>1, <2>3, <2>4, <2>5, <2>6 DEF Environment
  <1>4. CASE UNCHANGED vars
    BY <1>4 DEF vars, PressInv, AlertsNeedPress, Key
  <1> QED  BY <1>2, <1>3, <1>4, PastePress, EvaluatePress DEF Next

\* No dialog opens for a content and an application that no press was about,
\* whichever evaluators join, lead and end the scan of it.
THEOREM SilentWithoutPress == Spec => []AlertsNeedPress
  <1>1. PressInv => AlertsNeedPress
    BY DEF PressInv
  <1> QED  BY <1>1, PressInit, PressStep, TypeCorrect, PTL DEF Spec
=============================================================================
