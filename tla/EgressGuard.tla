----------------------------- MODULE EgressGuard -----------------------------
(***************************************************************************)
(* The file watcher of the local agent's egress guard, pkg/egress/watcher.go: *)
(* one loop that discovers a target, walks it, inspects the files that differ *)
(* from its baseline and takes away those that may not stay, while users go  *)
(* on writing to the same paths.                                             *)
(***************************************************************************)
EXTENDS Naturals

CONSTANTS
    Paths,          \* files of the target
    Contents,       \* what a file may hold
    Verdict,        \* the scan's answer for a content: "allow", "warn", "block"
    None,           \* no file, no path
    MaxWrites,      \* bound: writes by users
    MaxFaults,      \* bound: reads and scans that fail, files that cannot be removed
    MaxDeaths,      \* bound: ends of the agent
    MaxExpiries     \* bound: cached permissions that run out

ASSUME EgressAssumption ==
    /\ Verdict \in [Contents -> {"allow", "warn", "block"}]
    /\ None \notin Contents \union Paths
    /\ {MaxWrites, MaxFaults, MaxDeaths, MaxExpiries} \subseteq Nat

VARIABLES
    disk,           \* [content, stamp] of each path; stamp stands for time and size
    clock,          \* the last stamp given
    known,          \* has the guard found the target?
    baseline,       \* stamp last seen of each path, 0 for none
    walk,           \* the files still to compare, with the stamps the walk found
    pc, path, data, \* where the loop is, the file it inspects and what it read
    allowed,        \* allowedHashes: contents with an unexpired permission
    blocked,        \* blockedHashes
    quarantine,     \* contents in the quarantine directory
    taken,          \* ghost: contents the guard has read and then taken away
    confirmed,      \* ghost: contents whose warning a user has confirmed
    excused,        \* ghost: stamps let pass unjudged: there at first, read or scan failed
    writes, faults, deaths, expiries

memory   == <<known, baseline, allowed, blocked>>
loop     == <<walk, pc, path, data>>
ghosts   == <<taken, confirmed, excused>>
counters == <<writes, faults, deaths, expiries>>
vars     == <<disk, clock, memory, loop, quarantine, ghosts, counters>>

Empty    == [content |-> None, stamp |-> 0]
Present  == {p \in Paths : disk[p] # Empty}
Stamps   == [p \in Paths |-> disk[p].stamp]

\* The loop goes on with the same file, or is done with it.
Goto(l)  == pc' = l /\ UNCHANGED <<walk, path, data>>
Done     == pc' = "compare" /\ path' = None /\ data' = None /\ UNCHANGED walk

\* A file system call that may fail, and whose error the guard ignores.
Remove(p) ==
    \/ disk' = [disk EXCEPT ![p] = Empty] /\ UNCHANGED faults
    \/ faults < MaxFaults /\ faults' = faults + 1 /\ UNCHANGED disk

\* What the guard takes away, if it is what it has read.
Take(p) == taken' = IF disk'[p] # disk[p] /\ disk[p].content = data THEN taken \union {data} ELSE taken

----------------------------------------------------------------------------
\* AddTarget, from Run and from every ScanOnce: the files already there become
\* the baseline.
AddTarget ==
    /\ pc = "idle" /\ ~known
    /\ known' = TRUE
    /\ baseline' = [p \in Paths |-> IF p \in Present THEN disk[p].stamp ELSE baseline[p]]
    /\ excused' = excused \union {disk[p].stamp : p \in Present}
    /\ UNCHANGED <<disk, clock, allowed, blocked, loop, quarantine, taken, confirmed, counters>>

\* ScanOnce: a walk notes the files with their stamps,
ScanOnce ==
    /\ pc = "idle" /\ known
    /\ pc' = "compare" /\ walk' = Stamps
    /\ UNCHANGED <<disk, clock, memory, path, data, quarantine, ghosts, counters>>

\* and each one that differs from the baseline enters it before it is inspected.
Unchanged(p) ==
    /\ pc = "compare" /\ walk[p] # 0 /\ walk[p] = baseline[p]
    /\ walk' = [walk EXCEPT ![p] = 0]
    /\ UNCHANGED <<disk, clock, memory, pc, path, data, quarantine, ghosts, counters>>

Changed(p) ==
    /\ pc = "compare" /\ walk[p] # 0 /\ walk[p] # baseline[p]
    /\ walk' = [walk EXCEPT ![p] = 0]
    /\ baseline' = [baseline EXCEPT ![p] = walk[p]]
    /\ pc' = "read" /\ path' = p
    /\ UNCHANGED <<disk, clock, known, allowed, blocked, data, quarantine, ghosts, counters>>

ScanEnds ==
    /\ pc = "compare" /\ \A p \in Paths : walk[p] = 0
    /\ Goto("idle")
    /\ UNCHANGED <<disk, clock, memory, quarantine, ghosts, counters>>

----------------------------------------------------------------------------
(* InspectFileTransfer.                                                      *)

\* The whole file is read. One that has gone needs nothing; a content judged
\* before is not scanned again.
ReadFile ==
    /\ pc = "read"
    /\ LET read == disk[path].content IN
       IF path \notin Present \/ read \in allowed \ blocked THEN Done
       ELSE /\ pc' = IF read \in blocked THEN "remove" ELSE "scan"
            /\ data' = read
            /\ UNCHANGED <<walk, path>>
    /\ UNCHANGED <<disk, clock, memory, quarantine, ghosts, counters>>

\* The error of a read lets the file pass: it stays, and as its state is in the
\* baseline already, it is not read again until it changes.
ReadFails ==
    /\ pc = "read" /\ path \in Present /\ faults < MaxFaults /\ faults' = faults + 1
    /\ Done
    /\ excused' = excused \union {baseline[path]}
    /\ UNCHANGED <<disk, clock, memory, quarantine, taken, confirmed, writes, deaths, expiries>>

ScanMutant ==  \* Bug: the baseline takes the state of the file after its inspection.
    /\ pc = "scan"
    /\ CASE Verdict[data] = "allow" -> Done
         [] Verdict[data] = "warn"  -> Goto("hold")
         [] Verdict[data] = "block" -> Goto("remove")
    /\ allowed' = IF Verdict[data] = "allow" THEN allowed \union {data} ELSE allowed
    /\ blocked' = IF Verdict[data] = "block" THEN blocked \union {data} ELSE blocked
    /\ baseline' = [baseline EXCEPT ![path] = disk[path].stamp]
    /\ UNCHANGED <<disk, clock, known, quarantine, ghosts, counters>>

\* The answer of the scan. A warning is put to the user, the file held back;
\* a refusal is remembered.
Scan ==
    /\ pc = "scan"
    /\ CASE Verdict[data] = "allow" -> Done
         [] Verdict[data] = "warn"  -> Goto("hold")
         [] Verdict[data] = "block" -> Goto("remove")
    /\ allowed' = IF Verdict[data] = "allow" THEN allowed \union {data} ELSE allowed
    /\ blocked' = IF Verdict[data] = "block" THEN blocked \union {data} ELSE blocked
    /\ UNCHANGED <<disk, clock, known, baseline, quarantine, ghosts, counters>>

\* "failing open": the file stays, and is not scanned until it changes.
ScanFails ==
    /\ pc = "scan" /\ faults < MaxFaults /\ faults' = faults + 1
    /\ Done
    /\ excused' = excused \union {baseline[path]}
    /\ UNCHANGED <<disk, clock, memory, quarantine, taken, confirmed, writes, deaths, expiries>>

Hold ==
    /\ pc = "hold"
    /\ Remove(path) /\ Take(path)
    /\ Goto("prompt")
    /\ UNCHANGED <<clock, memory, quarantine, confirmed, excused, writes, deaths, expiries>>

DeclineMutant ==  \* Bug: the file is gone already, so nothing more is done.
    /\ pc = "prompt" /\ Done
    /\ UNCHANGED <<disk, clock, memory, quarantine, ghosts, counters>>

\* PromptWarn is declined,
Decline ==
    /\ pc = "prompt" /\ Goto("remove")
    /\ UNCHANGED <<disk, clock, memory, quarantine, ghosts, counters>>

\* or confirmed: the file is written back as it was read, over whatever the
\* path holds by now, and its content is allowed for a while.
Confirm ==
    /\ pc = "prompt" /\ Done
    /\ clock' = clock + 1
    /\ disk' = [disk EXCEPT ![path] = [content |-> data, stamp |-> clock']]
    /\ allowed' = allowed \union {data}
    /\ taken' = taken \ {data} /\ confirmed' = confirmed \union {data}
    /\ UNCHANGED <<known, baseline, blocked, quarantine, excused, counters>>

RemoveFileMutant ==  \* Bug: the baseline keeps the file, gone or not.
    /\ pc = "remove"
    /\ Remove(path) /\ Take(path)
    /\ Goto("backup")
    /\ UNCHANGED <<clock, memory, quarantine, confirmed, excused, writes, deaths, expiries>>

\* quarantineAndRemove: remove the file, forget its state, so that one that
\* could not be removed is inspected again,
RemoveFile ==
    /\ pc = "remove"
    /\ Remove(path) /\ Take(path)
    /\ baseline' = [baseline EXCEPT ![path] = 0]
    /\ Goto("backup")
    /\ UNCHANGED <<clock, known, allowed, blocked, quarantine, confirmed, excused, writes, deaths, expiries>>

\* and keep what was read.
Backup ==
    /\ pc = "backup" /\ Done
    /\ quarantine' = quarantine \union {data}
    /\ UNCHANGED <<disk, clock, memory, ghosts, counters>>

----------------------------------------------------------------------------
(* The surroundings.                                                         *)

\* Five minutes pass.
Expire(c) ==
    /\ c \in allowed /\ expiries < MaxExpiries
    /\ expiries' = expiries + 1 /\ allowed' = allowed \ {c}
    /\ UNCHANGED <<disk, clock, known, baseline, blocked, loop, quarantine, ghosts, writes, faults, deaths>>

\* The agent ends, and is started again: what it held in memory is lost.
Die ==
    /\ deaths < MaxDeaths /\ deaths' = deaths + 1
    /\ known' = FALSE /\ baseline' = [p \in Paths |-> 0] /\ allowed' = {} /\ blocked' = {}
    /\ walk' = [p \in Paths |-> 0] /\ pc' = "idle" /\ path' = None /\ data' = None
    /\ taken' = taken \intersect quarantine
    /\ UNCHANGED <<disk, clock, quarantine, confirmed, excused, writes, faults, expiries>>

\* External: a user writes or deletes a file.
Write(p, c) ==
    /\ writes < MaxWrites /\ writes' = writes + 1
    /\ clock' = clock + 1
    /\ disk' = [disk EXCEPT ![p] = [content |-> c, stamp |-> clock']]
    /\ UNCHANGED <<memory, loop, quarantine, ghosts, faults, deaths, expiries>>

Delete(p) ==
    /\ p \in Present
    /\ disk' = [disk EXCEPT ![p] = Empty]
    /\ UNCHANGED <<clock, memory, loop, quarantine, ghosts, counters>>

----------------------------------------------------------------------------
Init ==
    /\ disk = [p \in Paths |-> Empty] /\ clock = 0
    /\ known = FALSE /\ baseline = [p \in Paths |-> 0] /\ allowed = {} /\ blocked = {}
    /\ walk = [p \in Paths |-> 0] /\ pc = "idle"
    /\ path = None /\ data = None
    /\ quarantine = {} /\ taken = {} /\ confirmed = {} /\ excused = {}
    /\ writes = 0 /\ faults = 0 /\ deaths = 0 /\ expiries = 0

\* One goroutine does it all.
Guard ==
    \/ AddTarget \/ ScanOnce \/ ScanEnds \/ (\E p \in Paths : Unchanged(p) \/ Changed(p))
    \/ ReadFile \/ ReadFails \/ Scan \/ ScanFails \/ Hold \/ Decline \/ Confirm \/ RemoveFile \/ Backup

Next ==
    \/ Guard \/ Die
    \/ \E c \in Contents : Expire(c)
    \/ \E p \in Paths : Delete(p) \/ \E c \in Contents : Write(p, c)

Spec == Init /\ [][Next]_vars

\* The ticker ticks, the scan answers and the user does.
FairSpec == Spec /\ WF_vars(Guard)

----------------------------------------------------------------------------
(* Properties.                                                               *)

\* The baseline vouches for a file only if its content has been judged and may
\* stay: a write after the walk, after the read or during the prompt, and a file
\* that could not be removed, leave the file different from its baseline. The
\* exceptions are the three the code makes: the file was there before the guard,
\* or its read or its scan failed.
BaselineVouches ==
    \A p \in Present :
        known /\ baseline[p] = disk[p].stamp /\ p # path
            => \/ Verdict[disk[p].content] = "allow"
               \/ Verdict[disk[p].content] = "warn" /\ disk[p].content \in confirmed
               \/ disk[p].stamp \in excused

\* "Backed up locally in QuarantineDir": what the guard has read and taken away
\* is still in its hands, has been written back or is in quarantine, as long as
\* the agent lives.
KeepsRead ==
    \A c \in taken : c \in quarantine \/ c = data

\* A content that may not stay leaves, even if it could not be removed at first,
\* unless it was there before the guard or its read or scan failed.
BlockedLeaves ==
    \A p \in Paths :
        []<>(p \in Present /\ Verdict[disk[p].content] = "block" => disk[p].stamp \in excused)

\* What the comment on InspectFileTransfer says of every file, "If CEP WebProtect
\* returns BLOCK, the file is immediately removed". Refuted even where no file is
\* there before the guard: a read that fails once, and the file stays for good.
BlockedAlwaysLeaves ==
    [](~known => Present = {})
        => \A p \in Paths : []<>(p \in Present => Verdict[disk[p].content] # "block")
=============================================================================
