------------------------- MODULE EgressGuardProofs -------------------------
(* Theorems about EgressGuard, for every set of files and contents, every    *)
(* verdict and every bound.                                                  *)
EXTENDS EgressGuard, TLAPS

\* No stamp is from the future, so that a later write never looks like an
\* earlier one; a path has its file's stamp and content, or neither.
Stamp == 0 .. clock

FileInv(f) ==
    \/ f = Empty
    \/ f.content \in Contents /\ f.stamp \in Stamp \ {0}

Inspecting == {"read", "scan", "hold", "prompt", "remove", "backup"}

TypeInv ==
    /\ clock \in Nat
    /\ disk \in [Paths -> [content : Contents \union {None}, stamp : Nat]]
    /\ \A p \in Paths : FileInv(disk[p])
    /\ known \in BOOLEAN
    /\ baseline \in [Paths -> Stamp] /\ walk \in [Paths -> Stamp]
    /\ pc \in {"idle", "compare"} \union Inspecting
    /\ IF pc \in Inspecting THEN path \in Paths ELSE path = None
    /\ IF pc \in Inspecting \ {"read"} THEN data \in Contents ELSE data = None
    /\ allowed \subseteq Contents /\ blocked \subseteq Contents
    /\ quarantine \subseteq Contents /\ taken \subseteq Contents /\ confirmed \subseteq Contents
    /\ writes \in Nat /\ faults \in Nat /\ deaths \in Nat /\ expiries \in Nat

\* A content that the guard lets stay: the scan allows it, or the user has
\* answered for it.
MayStay(c) ==
    \/ Verdict[c] = "allow"
    \/ Verdict[c] = "warn" /\ c \in confirmed

\* What the loop has established about the file it inspects.
Inspected ==
    /\ pc \in {"hold", "prompt"} => Verdict[data] = "warn"
    /\ pc = "scan" /\ path \in Present /\ disk[path].stamp = baseline[path]
         => disk[path].content = data
    /\ pc = "backup" => baseline[path] = 0

\* What BaselineVouches says of one file: what each step has to show.
Vouched(p) ==
    known /\ p \in Present /\ baseline[p] = disk[p].stamp /\ p # path
        => MayStay(disk[p].content) \/ disk[p].stamp \in excused

VouchInv ==
    /\ \A p \in Paths : Vouched(p)
    /\ Inspected
    /\ \A c \in allowed : MayStay(c)

\* Between its inspections the guard has nothing in its hands.
KeepInv ==
    /\ KeepsRead
    /\ pc \notin {"prompt", "remove", "backup"} => taken \subseteq quarantine

----------------------------------------------------------------------------

LEMMA TypeInit == Init => TypeInv
  <1> SUFFICES ASSUME Init PROVE TypeInv
    OBVIOUS
  <1> USE DEF Init
  <1>1. disk \in [Paths -> [content : Contents \union {None}, stamp : Nat]]
        /\ \A p \in Paths : FileInv(disk[p])
    BY DEF FileInv, Empty
  <1>2. baseline \in [Paths -> Stamp] /\ walk \in [Paths -> Stamp]
    BY DEF Stamp
  <1> QED  BY <1>1, <1>2 DEF TypeInv, Inspecting

\* A removal leaves each path as it was or empty, a write gives it a stamp of
\* its own; the other paths keep theirs.
LEMMA RemoveStep ==
    ASSUME TypeInv, NEW p \in Paths, Remove(p), clock' = clock
    PROVE  /\ disk' \in [Paths -> [content : Contents \union {None}, stamp : Nat]]
           /\ \A q \in Paths : disk'[q] = disk[q] \/ (q = p /\ disk'[q] = Empty)
           /\ (\A q \in Paths : FileInv(disk[q]))'
           /\ faults' \in Nat
  BY DEF TypeInv, Remove, Empty, FileInv, Stamp

LEMMA WriteStep ==
    ASSUME TypeInv, NEW p \in Paths, NEW c \in Contents, clock' = clock + 1,
           disk' = [disk EXCEPT ![p] = [content |-> c, stamp |-> clock']]
    PROVE  /\ clock' \in Nat /\ Stamp \subseteq Stamp'
           /\ disk' \in [Paths -> [content : Contents \union {None}, stamp : Nat]]
           /\ (\A q \in Paths : FileInv(disk[q]))'
           /\ \A q \in Paths \ {p} : disk'[q] = disk[q]
           /\ disk'[p].stamp \notin Stamp
  BY DEF TypeInv, FileInv, Stamp, Empty

\* The stamp of a path is a stamp that was given.
LEMMA GivenStamps ==
    ASSUME TypeInv, NEW p \in Paths
    PROVE  disk[p].stamp \in Stamp /\ (p \in Present => disk[p].content \in Contents /\ disk[p].stamp # 0)
  BY DEF TypeInv, FileInv, Stamp, Empty, Present

LEMMA TypeStep == TypeInv /\ [Next]_vars => TypeInv'
  <1> SUFFICES ASSUME TypeInv, [Next]_vars PROVE TypeInv'
    OBVIOUS
  <1> USE DEF TypeInv, Inspecting, memory, loop, ghosts, counters, Goto, Done
  <1>0. None \notin Contents /\ None \notin Paths /\ 0 \in Stamp
    BY EgressAssumption DEF EgressAssumption, Stamp
  <1>1. CASE AddTarget
    BY <1>1, GivenStamps DEF AddTarget, Stamp, FileInv
  <1>2. CASE ScanOnce
    BY <1>2, GivenStamps DEF ScanOnce, Stamps, Stamp, FileInv
  <1>3. ASSUME NEW p \in Paths, Unchanged(p) \/ Changed(p) PROVE TypeInv'
    BY <1>0, <1>3 DEF Unchanged, Changed, Stamp, FileInv
  <1>4. CASE ScanEnds
    BY <1>4 DEF ScanEnds, Stamp, FileInv
  <1>5. CASE ReadFile
    BY <1>5, GivenStamps DEF ReadFile, Stamp, FileInv
  <1>6. CASE Scan
    BY <1>0, <1>6, EgressAssumption DEF EgressAssumption, Scan, Stamp, FileInv
  <1>16. CASE ReadFails \/ ScanFails
    BY <1>16 DEF ReadFails, ScanFails, Stamp, FileInv
  <1>7. CASE Hold
    BY <1>7, RemoveStep DEF Hold, Take, Stamp, FileInv
  <1>8. CASE Decline \/ Backup
    BY <1>8 DEF Decline, Backup, Stamp, FileInv
  <1>9. CASE Confirm
    BY <1>9, WriteStep DEF Confirm
  <1>10. CASE RemoveFile
    BY <1>0, <1>10, RemoveStep DEF RemoveFile, Take, Stamp, FileInv
  <1>11. ASSUME NEW c \in Contents, Expire(c) PROVE TypeInv'
    BY <1>11 DEF Expire, Stamp, FileInv
  <1>12. CASE Die
    <2>1. baseline' \in [Paths -> Stamp'] /\ walk' \in [Paths -> Stamp']
      BY <1>0, <1>12 DEF Die, Stamp
    <2>2. pc' = "idle" /\ path' = None /\ data' = None /\ known' = FALSE
      BY <1>12 DEF Die
    <2>3. allowed' \subseteq Contents /\ blocked' \subseteq Contents /\ taken' \subseteq Contents
      BY <1>12 DEF Die
    <2>4. (\A p \in Paths : FileInv(disk[p]))' /\ UNCHANGED <<disk, clock, quarantine, confirmed>>
      BY <1>12 DEF Die, FileInv, Stamp
    <2>5. writes' \in Nat /\ faults' \in Nat /\ deaths' \in Nat /\ expiries' \in Nat
      BY <1>12 DEF Die
    <2> QED  BY <2>1, <2>2, <2>3, <2>4, <2>5
  <1>13. ASSUME NEW p \in Paths, NEW c \in Contents, Write(p, c) PROVE TypeInv'
    <2>1. baseline' \in [Paths -> Stamp'] /\ walk' \in [Paths -> Stamp']
      BY <1>13, WriteStep DEF Write
    <2>2. UNCHANGED <<known, pc, path, data, allowed, blocked, quarantine, taken, confirmed>>
      BY <1>13 DEF Write
    <2>3. writes' \in Nat /\ UNCHANGED <<faults, deaths, expiries>>
      BY <1>13 DEF Write
    <2>4. clock' \in Nat /\ disk' \in [Paths -> [content : Contents \union {None}, stamp : Nat]]
          /\ (\A q \in Paths : FileInv(disk[q]))'
      BY <1>13, WriteStep DEF Write
    <2>5. IF pc' \in Inspecting THEN path' \in Paths ELSE path' = None
      BY <2>2
    <2>6. IF pc' \in Inspecting \ {"read"} THEN data' \in Contents ELSE data' = None
      BY <2>2
    <2>7. known' \in BOOLEAN /\ pc' \in {"idle", "compare"} \union Inspecting
      BY <2>2
    <2> QED  BY <2>1, <2>2, <2>3, <2>4, <2>5, <2>6, <2>7
  <1>14. ASSUME NEW p \in Paths, Delete(p) PROVE TypeInv'
    BY <1>14 DEF Delete, Stamp, FileInv, Empty
  <1>15. CASE UNCHANGED vars
    BY <1>15 DEF vars, Stamp, FileInv
  <1> QED
    BY <1>1, <1>2, <1>3, <1>4, <1>5, <1>6, <1>7, <1>8, <1>9, <1>10, <1>11, <1>12, <1>13,
       <1>14, <1>15, <1>16 DEF Next, Guard

\* Every variable stays in its type; no stamp seen is from the future.
THEOREM TypeCorrect == Spec => []TypeInv
  <1> QED  BY TypeInit, TypeStep, PTL DEF Spec

----------------------------------------------------------------------------

LEMMA VouchInit == Init => VouchInv
  BY DEF Init, VouchInv, Vouched, Inspected, Present

LEMMA VouchStep == TypeInv /\ VouchInv /\ [Next]_vars => VouchInv'
  <1> SUFFICES ASSUME TypeInv, VouchInv, [Next]_vars PROVE VouchInv'
    OBVIOUS
  <1>0. None \notin Contents /\ None \notin Paths
    BY EgressAssumption DEF EgressAssumption
  <1> USE DEF VouchInv, Vouched, Inspected, MayStay, Inspecting,
              memory, loop, ghosts, counters, Goto, Done
  <1>1. CASE AddTarget
    BY <1>1, GivenStamps DEF AddTarget, TypeInv, Present
  <1>2. CASE ScanOnce \/ ScanEnds
    BY <1>2 DEF ScanOnce, ScanEnds, TypeInv, Present
  <1>3. ASSUME NEW p \in Paths, Unchanged(p) PROVE VouchInv'
    BY <1>3 DEF Unchanged, TypeInv, Present
  <1>4. ASSUME NEW p \in Paths, Changed(p) PROVE VouchInv'
    BY <1>0, <1>4 DEF Changed, TypeInv, Present
  <1>5. CASE ReadFile
    BY <1>5, GivenStamps DEF ReadFile, TypeInv, Present
  <1>6. CASE Scan
    <2>1. path \in Paths /\ data \in Contents
      BY <1>6 DEF Scan, TypeInv
    <2>2. CASE Verdict[data] = "allow"
      BY <1>0, <1>6, <2>1, <2>2 DEF Scan, Present
    <2>3. CASE Verdict[data] = "warn"
      BY <1>6, <2>1, <2>3 DEF Scan, Present
    <2>4. CASE Verdict[data] = "block"
      BY <1>6, <2>1, <2>4 DEF Scan, Present
    <2> QED  BY <2>1, <2>2, <2>3, <2>4, EgressAssumption DEF EgressAssumption
  <1>7. CASE ReadFails \/ ScanFails
    BY <1>7 DEF ReadFails, ScanFails, TypeInv, Present
  <1>8. CASE Hold
    BY <1>8, RemoveStep DEF Hold, TypeInv, Present
  <1>9. CASE Decline \/ Backup
    BY <1>9, GivenStamps DEF Decline, Backup, TypeInv, Present
  <1>10. CASE Confirm
    BY <1>10, WriteStep DEF Confirm, TypeInv, Present
  <1>11. CASE RemoveFile
    BY <1>11, RemoveStep DEF RemoveFile, TypeInv, Present
  <1>12. ASSUME NEW c \in Contents, Expire(c) PROVE VouchInv'
    BY <1>12 DEF Expire, TypeInv, Present
  <1>13. CASE Die
    BY <1>13 DEF Die, TypeInv, Present
  <1>14. ASSUME NEW p \in Paths, NEW c \in Contents, Write(p, c) PROVE VouchInv'
    <2>1. disk'[p].stamp # baseline'[p] /\ \A q \in Paths \ {p} : disk'[q] = disk[q]
      BY <1>14, WriteStep DEF Write, TypeInv
    <2>2. UNCHANGED <<known, baseline, allowed, pc, path, data, confirmed, excused>>
      BY <1>14 DEF Write
    <2>3. \A q \in Paths : Vouched(q)'
      BY <2>1, <2>2 DEF Present
    <2>4. Inspected'
      BY <2>1, <2>2 DEF Present, TypeInv
    <2> QED  BY <2>2, <2>3, <2>4
  <1>15. ASSUME NEW p \in Paths, Delete(p) PROVE VouchInv'
    BY <1>15 DEF Delete, TypeInv, Present
  <1>16. CASE UNCHANGED vars
    BY <1>16 DEF vars, Present
  <1> QED
    BY <1>1, <1>2, <1>3, <1>4, <1>5, <1>6, <1>7, <1>8, <1>9, <1>10, <1>11, <1>12, <1>13,
       <1>14, <1>15, <1>16 DEF Next, Guard

LEMMA KeepInit == Init => KeepInv
  BY DEF Init, KeepInv, KeepsRead

LEMMA KeepStep == TypeInv /\ KeepInv /\ [Next]_vars => KeepInv'
  <1> SUFFICES ASSUME TypeInv, KeepInv, [Next]_vars PROVE KeepInv'
    OBVIOUS
  <1>0. None \notin Contents
    BY EgressAssumption DEF EgressAssumption
  <1> USE DEF KeepInv, KeepsRead, memory, loop, ghosts, counters, Goto, Done
  <1>1. CASE AddTarget \/ ScanOnce \/ ScanEnds
    BY <1>1 DEF AddTarget, ScanOnce, ScanEnds
  <1>2. ASSUME NEW p \in Paths, Unchanged(p) \/ Changed(p) PROVE KeepInv'
    BY <1>2 DEF Unchanged, Changed
  <1>3. CASE ReadFile \/ ReadFails \/ Scan \/ ScanFails
    BY <1>3 DEF ReadFile, ReadFails, Scan, ScanFails
  <1>4. CASE Hold
    BY <1>4 DEF Hold, Take
  <1>5. CASE Decline \/ Confirm \/ Backup
    BY <1>5 DEF Decline, Confirm, Backup
  <1>6. CASE RemoveFile
    BY <1>6 DEF RemoveFile, Take
  <1>7. ASSUME NEW c \in Contents, Expire(c) PROVE KeepInv'
    BY <1>7 DEF Expire
  <1>8. CASE Die
    BY <1>8 DEF Die
  <1>9. ASSUME NEW p \in Paths, Delete(p) \/ (\E c \in Contents : Write(p, c)) PROVE KeepInv'
    BY <1>9 DEF Delete, Write
  <1>10. CASE UNCHANGED vars
    BY <1>10 DEF vars
  <1> QED
    BY <1>1, <1>2, <1>3, <1>4, <1>5, <1>6, <1>7, <1>8, <1>9, <1>10 DEF Next, Guard

\* A file that looks like its baseline has been judged and may stay, whatever
\* users wrote between the walk, the read, the answer and the removal, unless it
\* was there before the guard or its read or scan failed.
THEOREM BaselineIsRight == Spec => []BaselineVouches
  <1>1. VouchInv => BaselineVouches
    BY DEF VouchInv, Vouched, MayStay, BaselineVouches, Present
  <1> QED  BY <1>1, VouchInit, VouchStep, TypeCorrect, PTL DEF Spec

\* What the guard took away is in its hands or in the quarantine until the user
\* has it back.
THEOREM NothingIsLost == Spec => []KeepsRead
  <1>1. KeepInv => KeepsRead
    BY DEF KeepInv
  <1> QED  BY <1>1, KeepInit, KeepStep, TypeCorrect, PTL DEF Spec
=============================================================================
