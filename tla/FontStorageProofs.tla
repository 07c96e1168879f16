-------------------------- MODULE FontStorageProofs --------------------------
(***************************************************************************)
(* With one upload and one purge at a time, any number of pushes,          *)
(* restorations and confirmations, and any number of restarts and          *)
(* failures, a font that misses its file without saying so was in the      *)
(* hands of a request that was interrupted.  Without faults there is none. *)
(***************************************************************************)
EXTENDS FontStorage, TLAPS

AtMostOne(S) == \A a, b \in S : a = b

OneAtATime == AtMostOne(Uploaders) /\ AtMostOne(Purgers)

WakeSteps == {"recreate", "rewrite", "wake"}

(* The shape of a request's work; without faults nobody cleans up. *)
RequestOK(r, w) ==
  /\ r \in Importers => AtMostOne(w.fonts)
  /\ r \notin Purgers => w.emptied = {}
  /\ w.unlinked => Writing(w)
  /\ Writing(w) => r \in Importers
  /\ w.at \in WakeSteps => r \in Uploaders
  /\ w.at = "cleanup" => MaxFaults # 0

(* The rows of a purge in progress stay, unmarked. *)
PurgeOK(r) ==
  \A f \in work[r].fonts \cup work[r].emptied :
    f \in rows /\ "purged" \notin marks[f] /\ f \notin work[r].lost

(* The file is there, or a request sees to it or was interrupted over it. *)
Fine(f) ==
  file[f] = "whole" \/ f \in cut \/ \E r \in Request : f \in Touched(work[r])

(* An import about to give f a row, or to give it back, has seen to its file. *)
ImportOK(r, f) ==
  /\ work[r].at \in {"write", "insert"} => f \in rows \/ Fine(f)
  /\ work[r].at = "recheck" => f \in rows
  /\ work[r].at \in WakeSteps /\ "purged" \in work[r].seen /\ f \notin work[r].lost =>
       f \in rows /\ "purged" \in marks[f] /\ (work[r].at # "recreate" => Fine(f))

Requests == \A r \in Request : RequestOK(r, work[r])
Purges   == \A r \in Purgers : PurgeOK(r)
Imports  == \A r \in Importers : \A f \in work[r].fonts : ImportOK(r, f)
Files    == \A f \in rows : "purged" \in marks[f] \/ Fine(f)
Quiet    == MaxFaults = 0 => cut = {}

Sound == Requests /\ Purges /\ Imports /\ Files /\ Quiet

IInv == TypeOK /\ Sound

-----------------------------------------------------------------------------
(* Type correctness, faults included. *)

LEMMA BeginType ==
  ASSUME NEW step \in Steps, NEW F \in SUBSET Font, NEW seen \in SUBSET Column
  PROVE  Begin(step, F, seen) \in Work
  BY DEF Begin, Work

LEMMA IdleType == Idle \in Work
  BY BeginType DEF Idle, Steps

LEMMA FoundCases ==
  ASSUME NEW r \in Request, NEW f \in Font
  PROVE  \/ /\ r \in Uploaders /\ "purged" \in marks[f]
            /\ Found(r, f) = Begin("recreate", {f}, marks[f])
         \/ /\ r \in Uploaders /\ "purged" \notin marks[f] /\ "deleted" \in marks[f]
            /\ Found(r, f) = Begin("wake", {f}, marks[f])
         \/ Found(r, f) = Idle
  BY DEF Found

LEMMA FoundType ==
  ASSUME TypeOK, NEW r \in Request, NEW f \in Font
  PROVE  Found(r, f) \in Work
  <1>1. "recreate" \in Steps /\ "wake" \in Steps
    BY DEF Steps
  <1>2. marks[f] \in SUBSET Column
    BY DEF TypeOK
  <1>3. Begin("recreate", {f}, marks[f]) \in Work /\ Begin("wake", {f}, marks[f]) \in Work
    BY <1>1, <1>2, BeginType
  <1> QED BY <1>3, FoundCases, IdleType

LEMMA UnlinkType ==
  ASSUME TypeOK, NEW f \in Font, NEW then \in [Request -> Work], Unlink(f, then)
  PROVE  file' \in [Font -> FileState] /\ work' \in [Request -> Work]
  <1>1. \A w \in Work : [w EXCEPT !.unlinked = TRUE] \in Work
    BY DEF Work
  <1>2. work' \in [Request -> Work]
    BY <1>1 DEF Unlink
  <1>3. file' \in [Font -> FileState]
    BY DEF TypeOK, Unlink, FileState
  <1> QED BY <1>2, <1>3

LEMMA CutType ==
  ASSUME TypeOK, NEW R \in SUBSET Request, Interrupted(R)
  PROVE  cut' \in SUBSET Font
  <1>1. \A r \in R : Touched(work[r]) \subseteq Font
    BY DEF TypeOK, Work, Touched
  <1>2. UNION {Touched(work[r]) : r \in R} \subseteq Font
    BY <1>1
  <1> QED BY <1>2 DEF Interrupted, TypeOK

LEMMA ImportType ==
  ASSUME TypeOK, NEW r \in Importers, NEW f \in Font, ImportStep(r, f)
  PROVE  TypeOK'
  <1> r \in Request
    BY DEF Request
  <1>1. CASE LookUp(r, f)
    <2>1. Begin("create", {f}, {}) \in Work
      BY BeginType DEF Steps
    <2> QED BY <1>1, <2>1, FoundType DEF LookUp, TypeOK
  <1>2. CASE OpenFile(r, f)
    <2>1. work' \in [Request -> Work]
      BY <1>2 DEF OpenFile, Goto, TypeOK, Work, Steps
    <2>2. file' \in [Font -> FileState]
      BY <1>2 DEF OpenFile, TypeOK, FileState
    <2> QED BY <1>2, <2>1, <2>2 DEF OpenFile, TypeOK
  <1>3. CASE WriteFile(r, f)
    <2>1. work' \in [Request -> Work]
      BY <1>3, IdleType DEF WriteFile, Written, Done, TypeOK, Work, Steps
    <2>2. file' \in [Font -> FileState] /\ cut' \in SUBSET Font
      BY <1>3 DEF WriteFile, TypeOK, FileState
    <2> QED BY <1>3, <2>1, <2>2 DEF WriteFile, TypeOK
  <1>4. CASE Insert(r, f)
    BY <1>4, IdleType DEF Insert, Goto, Done, TypeOK, Work, Steps
  <1>5. CASE Recheck(r, f)
    <2>1. Begin("cleanup", {f}, {}) \in Work
      BY BeginType DEF Steps
    <2> QED BY <1>5, <2>1, FoundType DEF Recheck, TypeOK
  <1>6. CASE Cleanup(r, f)
    <2>1. [work EXCEPT ![r] = Idle] \in [Request -> Work]
      BY IdleType DEF TypeOK
    <2> QED BY <1>6, <2>1, UnlinkType DEF Cleanup, TypeOK
  <1>7. CASE Wake(r, f)
    BY <1>7, IdleType DEF Wake, Done, Flushed, TypeOK
  <1>8. CASE StoreFails(r, f)
    BY <1>8, IdleType, CutType, FaultsAssumption DEF StoreFails, Done, Fault, TypeOK
  <1>9. CASE InsertFails(r, f)
    <2>1. Begin("cleanup", {f}, {}) \in Work
      BY BeginType DEF Steps
    <2> QED BY <1>9, <2>1, FaultsAssumption DEF InsertFails, Fault, TypeOK
  <1> QED BY <1>1, <1>2, <1>3, <1>4, <1>5, <1>6, <1>7, <1>8, <1>9 DEF ImportStep

LEMMA PurgeType ==
  ASSUME TypeOK, NEW r \in Purgers, PurgeStep(r)
  PROVE  TypeOK'
  <1> r \in Request
    BY DEF Request
  <1>1. ASSUME NEW F \in SUBSET Font, PurgeLooks(r, F) PROVE TypeOK'
    BY <1>1, BeginType DEF PurgeLooks, TypeOK, Steps
  <1>2. ASSUME NEW f \in Font, PurgeRemoves(r, f) PROVE TypeOK'
    <2>1. [work EXCEPT ![r].fonts = @ \ {f}, ![r].emptied = @ \cup {f}]
            \in [Request -> Work]
      <3> DEFINE w == [work[r] EXCEPT !.fonts = @ \ {f}, !.emptied = @ \cup {f}]
      <3>1. w \in Work
        BY DEF TypeOK, Work
      <3>2. [work EXCEPT ![r].fonts = @ \ {f}, ![r].emptied = @ \cup {f}]
              = [work EXCEPT ![r] = w]
        BY DEF TypeOK
      <3> HIDE DEF w
      <3> QED BY <3>1, <3>2 DEF TypeOK
    <2> QED BY <1>2, <2>1, UnlinkType DEF PurgeRemoves, TypeOK
  <1>3. ASSUME NEW f \in Font, RemoveFails(r, f) PROVE TypeOK'
    BY <1>3, FaultsAssumption DEF RemoveFails, Fault, TypeOK, Work
  <1>4. CASE PurgeCommits(r)
    <2>1. marks' \in [Font -> SUBSET Column]
      BY <1>4 DEF PurgeCommits, Flushed, TypeOK, Column
    <2>2. cut' \in SUBSET Font
      BY <1>4, CutType DEF PurgeCommits, TypeOK
    <2> QED BY <1>4, <2>1, <2>2, IdleType DEF PurgeCommits, Done, TypeOK
  <1> QED BY <1>1, <1>2, <1>3, <1>4 DEF PurgeStep

LEMMA EditType ==
  ASSUME TypeOK, NEW r \in Editors, EditStep(r)
  PROVE  TypeOK'
  <1> r \in Request
    BY DEF Request
  <1>1. ASSUME NEW f \in Font, RestoreLooks(r, f) PROVE TypeOK'
    <2>1. Begin("restore", {f}, marks[f]) \in Work
      BY BeginType DEF Steps, TypeOK
    <2> QED BY <1>1, <2>1 DEF RestoreLooks, TypeOK
  <1>2. ASSUME NEW f \in Font, RestoreCommits(r, f) PROVE TypeOK'
    BY <1>2, IdleType DEF RestoreCommits, Done, Flushed, TypeOK
  <1>3. CASE ConfirmLooks(r)
    <2>1. Begin("confirm", Pending, {}) \in Work
      BY BeginType DEF Steps, TypeOK, Pending
    <2> QED BY <1>3, <2>1 DEF ConfirmLooks, TypeOK
  <1>4. CASE ConfirmCommits(r)
    BY <1>4, IdleType DEF ConfirmCommits, Done, Flushed, TypeOK, Column
  <1> QED BY <1>1, <1>2, <1>3, <1>4 DEF EditStep

LEMMA NextType ==
  ASSUME TypeOK, [Next]_vars
  PROVE  TypeOK'
  <1>1. ASSUME NEW f \in Font, NEW confirmed \in BOOLEAN, Delete(f, confirmed)
        PROVE  TypeOK'
    BY <1>1 DEF Delete, TypeOK, Column
  <1>2. ASSUME NEW f \in Font, Harvest(f) PROVE TypeOK'
    <2>1. \A w \in Work : [w EXCEPT !.lost = @ \cup {f}] \in Work
      BY DEF Work
    <2>2. work' \in [Request -> Work]
      BY <1>2, <2>1 DEF Harvest, TypeOK
    <2> QED BY <1>2, <2>2 DEF Harvest, TypeOK
  <1>3. CASE Restart
    BY <1>3, IdleType, CutType, FaultsAssumption DEF Restart, Fault, TypeOK
  <1>4. CASE UNCHANGED vars
    BY <1>4 DEF vars, TypeOK
  <1> QED BY <1>1, <1>2, <1>3, <1>4, ImportType, PurgeType, EditType DEF Next

(* Type correctness of every run of the storage, restarts and failures      *)
(* included.                                                                *)
THEOREM StorageTypeCorrect == Spec => []TypeOK
  <1>1. Init => TypeOK
    BY IdleType, FaultsAssumption DEF Init, TypeOK, FileState
  <1>2. TypeOK /\ [Next]_vars => TypeOK'
    BY NextType
  <1> QED BY <1>1, <1>2, PTL DEF Spec

-----------------------------------------------------------------------------

-----------------------------------------------------------------------------
(* The inductive invariant, action by action. *)

LEMMA Roles ==
  /\ Importers \subseteq Request /\ Purgers \subseteq Request /\ Editors \subseteq Request
  /\ Uploaders \subseteq Importers
  /\ \A r \in Importers : r \notin Purgers /\ r \notin Editors
  /\ \A r \in Purgers : r \notin Importers /\ r \notin Editors
  BY RequestAssumption DEF Importers, Request

LEMMA IdleOK ==
  /\ \A r \in Request : RequestOK(r, Idle)
  /\ Idle.fonts = {} /\ Idle.emptied = {} /\ Touched(Idle) = {}
  /\ Idle.at = "idle" /\ Idle.lost = {}
  BY DEF RequestOK, Idle, Begin, AtMostOne, Writing, WakeSteps, Touched

(* Nothing else than a purge's commit ends the care of a font. *)
LEMMA ImportKept ==
  ASSUME IInv, NEW q \in Importers, NEW f \in work[q].fonts,
         work'[q].at = work[q].at, work'[q].seen = work[q].seen,
         work[q].lost \subseteq work'[q].lost,
         Fine(f) => Fine(f)' \/ (f \in rows' /\ "purged" \notin marks[f]),
         f \in rows => f \in rows' \/ (work[q].at \in {"recreate", "rewrite", "wake"}
                                          /\ f \in work'[q].lost),
         f \in rows /\ "purged" \in marks[f] =>
           \/ "purged" \in marks'[f]
           \/ f \in work'[q].lost
           \/ work[q].at \notin WakeSteps
  PROVE  ImportOK(q, f)'
  <1>1. ImportOK(q, f)
    BY DEF IInv, Sound, Imports
  <1> QED BY <1>1 DEF ImportOK, WakeSteps

(* A step of r that leaves rows and files alone, and no file unattended. *)
LEMMA OwnStep ==
  ASSUME IInv, NEW r \in Request, UNCHANGED <<rows, file, cut>>,
         \A f \in Font : "purged" \in marks'[f] <=> "purged" \in marks[f],
         \A q \in Request \ {r} : work'[q] = work[q],
         Touched(work[r]) \subseteq Touched(work'[r]),
         RequestOK(r, work'[r]),
         r \in Purgers => PurgeOK(r)',
         r \in Importers => \A f \in work'[r].fonts : ImportOK(r, f)'
  PROVE  Sound'
  <1>1. \A f : Fine(f) => Fine(f)'
    BY DEF Fine
  <1>2. rows \subseteq Font /\ \A q \in Request : work[q].fonts \cup work[q].emptied \subseteq Font
    BY DEF IInv, TypeOK, Work
  <1>3. Requests'
    BY DEF IInv, Sound, Requests
  <1>4. Purges'
    <2> SUFFICES ASSUME NEW q \in Purgers, q # r PROVE PurgeOK(q)'
      BY DEF Purges
    <2>1. q \in Request /\ work'[q] = work[q] /\ PurgeOK(q)
      BY Roles DEF IInv, Sound, Purges
    <2> QED BY <1>2, <2>1 DEF PurgeOK
  <1>5. Imports'
    <2> SUFFICES ASSUME NEW q \in Importers, NEW f \in work'[q].fonts, q # r
                 PROVE  ImportOK(q, f)'
      BY DEF Imports
    <2>1. q \in Request /\ work'[q] = work[q] /\ f \in Font
      BY <1>2, Roles
    <2> QED BY <1>1, <2>1, ImportKept
  <1>6. Files'
    BY <1>1, <1>2 DEF IInv, Sound, Files
  <1>7. Quiet'
    BY DEF IInv, Sound, Quiet
  <1> QED BY <1>3, <1>4, <1>5, <1>6, <1>7 DEF Sound

LEMMA BeginOK ==
  ASSUME NEW r \in Request, NEW step \in Steps, NEW F, NEW seen,
         r \in Importers => AtMostOne(F),
         step \notin {"write", "rewrite"},
         step \in WakeSteps => r \in Uploaders,
         step = "cleanup" => MaxFaults # 0
  PROVE  LET w == Begin(step, F, seen)
         IN  /\ RequestOK(r, w) /\ Touched(w) = {} /\ w.at = step /\ w.fonts = F
             /\ w.emptied = {} /\ w.lost = {} /\ w.seen = seen
  BY DEF RequestOK, Begin, Writing, Touched

LEMMA FoundSound ==
  ASSUME IInv, NEW r \in Importers, NEW f \in rows,
         work' = [work EXCEPT ![r] = Found(r, f)], UNCHANGED <<rows, marks, file, cut>>,
         Touched(work[r]) = {}
  PROVE  Sound'
  <1>1. r \in Request /\ f \in Font /\ work'[r] = Found(r, f) /\ r \notin Purgers
        /\ \A q \in Request \ {r} : work'[q] = work[q]
    BY Roles DEF IInv, TypeOK
  <1>2. CASE /\ r \in Uploaders /\ "purged" \in marks[f]
             /\ Found(r, f) = Begin("recreate", {f}, marks[f])
    <2> DEFINE w == Begin("recreate", {f}, marks[f])
    <2>1. RequestOK(r, w) /\ w.at = "recreate" /\ w.fonts = {f}
      BY <1>1, <1>2, BeginOK DEF AtMostOne, Steps, WakeSteps
    <2>2. work'[r] = w
      BY <1>1, <1>2
    <2> HIDE DEF w
    <2>3. \A g \in work'[r].fonts : ImportOK(r, g)'
      BY <1>2, <2>1, <2>2 DEF ImportOK
    <2> QED BY <1>1, <2>1, <2>2, <2>3, OwnStep
  <1>3. CASE /\ r \in Uploaders /\ "purged" \notin marks[f]
             /\ Found(r, f) = Begin("wake", {f}, marks[f])
    <2> DEFINE w == Begin("wake", {f}, marks[f])
    <2>1. RequestOK(r, w) /\ w.at = "wake" /\ w.fonts = {f} /\ w.seen = marks[f]
      BY <1>1, <1>3, BeginOK DEF AtMostOne, Steps, WakeSteps
    <2>2. work'[r] = w
      BY <1>1, <1>3
    <2> HIDE DEF w
    <2>3. \A g \in work'[r].fonts : ImportOK(r, g)'
      BY <1>3, <2>1, <2>2 DEF ImportOK
    <2> QED BY <1>1, <2>1, <2>2, <2>3, OwnStep
  <1>4. CASE Found(r, f) = Idle
    BY <1>1, <1>4, IdleOK, OwnStep
  <1> QED BY <1>1, <1>2, <1>3, <1>4, FoundCases

LEMMA LookUpSound ==
  ASSUME IInv, NEW r \in Importers, NEW f \in Font, LookUp(r, f)
  PROVE  Sound'
  <1>1. Touched(work[r]) = {}
    BY IdleOK DEF LookUp
  <1>2. CASE f \in rows
    BY <1>1, <1>2, FoundSound DEF LookUp
  <1>3. CASE f \notin rows
    <2> DEFINE w == Begin("create", {f}, {})
    <2>1. r \in Request /\ work'[r] = w /\ r \notin Purgers /\ UNCHANGED <<rows, marks, file, cut>>
          /\ \A q \in Request \ {r} : work'[q] = work[q]
      BY <1>3, Roles DEF LookUp, IInv, TypeOK
    <2>2. RequestOK(r, w) /\ w.at = "create" /\ w.fonts = {f}
      BY <2>1, BeginOK DEF AtMostOne, Steps, WakeSteps
    <2>3. \A g \in w.fonts : ImportOK(r, g)'
      BY <2>1, <2>2 DEF ImportOK, WakeSteps
    <2> HIDE DEF w
    <2> QED BY <1>1, <2>1, <2>2, <2>3, OwnStep
  <1> QED BY <1>2, <1>3

LEMMA RecheckSound ==
  ASSUME IInv, NEW r \in Importers, NEW f \in Font, Recheck(r, f)
  PROVE  Sound'
  <1>1. f \in work[r].fonts /\ work[r].at = "recheck" /\ r \in Request
    BY Roles DEF Recheck, At
  <1>2. f \in rows
    BY <1>1 DEF IInv, Sound, Imports, ImportOK
  <1>3. Touched(work[r]) = {}
    BY <1>1, Roles DEF IInv, Sound, Requests, RequestOK, Touched, Writing
  <1> QED BY <1>2, <1>3, FoundSound DEF Recheck

(* What holds of any request before a step. *)
LEMMA Before ==
  ASSUME IInv
  PROVE  /\ rows \subseteq Font /\ cut \subseteq Font /\ faults \in Nat
         /\ \A f \in Font : file[f] \in FileState /\ marks[f] \subseteq Column
         /\ \A r \in Request : /\ work[r] \in Work /\ RequestOK(r, work[r])
                             /\ work[r].fonts \subseteq Font /\ work[r].emptied \subseteq Font
         /\ \A r \in Purgers : PurgeOK(r)
         /\ \A r \in Importers : \A f \in work[r].fonts : ImportOK(r, f)
         /\ \A f \in rows : "purged" \in marks[f] \/ Fine(f)
         /\ MaxFaults = 0 => cut = {}
  BY FaultsAssumption DEF IInv, TypeOK, Work, Sound, Requests, Purges, Imports, Files, Quiet

(* The work of a request that keeps at, fonts, emptied, seen and lost. *)
LEMMA WorkFields ==
  ASSUME NEW w \in Work, NEW b \in BOOLEAN, NEW F, NEW E
  PROVE  LET u == [w EXCEPT !.unlinked = b]
             l == [w EXCEPT !.lost = F]
             g == [w EXCEPT !.fonts = F, !.emptied = E]
         IN  /\ u.at = w.at /\ u.fonts = w.fonts /\ u.emptied = w.emptied
             /\ u.seen = w.seen /\ u.lost = w.lost /\ u.unlinked = b
             /\ l.at = w.at /\ l.fonts = w.fonts /\ l.emptied = w.emptied
             /\ l.seen = w.seen /\ l.lost = F /\ l.unlinked = w.unlinked
             /\ g.at = w.at /\ g.fonts = F /\ g.emptied = E
             /\ g.seen = w.seen /\ g.lost = w.lost /\ g.unlinked = w.unlinked
  BY DEF Work

(* An import that writes a file has it in hand. *)
LEMMA OpenFileSound ==
  ASSUME IInv, NEW r \in Importers, NEW f \in Font, OpenFile(r, f)
  PROVE  Sound'
  <1>1. r \in Request /\ r \notin Purgers /\ r \notin Editors
    BY Roles
  <1>2. /\ f \in work[r].fonts /\ AtMostOne(work[r].fonts) /\ ~work[r].unlinked
        /\ work[r].emptied = {} /\ UNCHANGED <<rows, marks, cut, faults>>
        /\ \A g \in Font : g # f => file'[g] = file[g]
        /\ work[r].at \in {"create", "recreate"}
    BY <1>1, Before DEF OpenFile, At, RequestOK, Writing, IInv, TypeOK
  <1>3. /\ \A q \in Request \ {r} : work'[q] = work[q]
        /\ work'[r].at = IF work[r].at = "create" THEN "write" ELSE "rewrite"
        /\ work'[r].fonts = work[r].fonts /\ work'[r].emptied = {} /\ ~work'[r].unlinked
        /\ work'[r].seen = work[r].seen /\ work'[r].lost = work[r].lost
    BY <1>1, <1>2, Before DEF OpenFile, At, Goto, IInv, TypeOK, Work
  <1>4. f \in Touched(work'[r])
    BY <1>2, <1>3 DEF Touched, Writing
  <1>5. \A g \in Font : Fine(g) => Fine(g)'
    <2> SUFFICES ASSUME NEW g \in Font, Fine(g), g # f PROVE Fine(g)'
      BY <1>1, <1>4 DEF Fine
    <2>1. g \notin Touched(work[r])
      BY <1>2 DEF Touched, AtMostOne
    <2> QED BY <1>2, <1>3, <2>1 DEF Fine
  <1>6. Requests'
    BY <1>1, <1>2, <1>3, Before DEF Requests, RequestOK, Writing, WakeSteps
  <1>7. Purges'
    BY <1>1, <1>2, <1>3, Before, Roles DEF Purges, PurgeOK
  <1>8. Imports'
    <2> SUFFICES ASSUME NEW q \in Importers, NEW g \in work'[q].fonts PROVE ImportOK(q, g)'
      BY DEF Imports
    <2>1. q \in Request /\ g \in Font /\ g \in work[q].fonts
      BY <1>3, Before, Roles
    <2>2. CASE q # r
      BY <1>2, <1>3, <1>5, <2>1, <2>2, ImportKept
    <2>3. CASE q = r
      <3>1. g = f /\ ImportOK(r, f) /\ Fine(f)'
        BY <1>1, <1>2, <1>4, <2>1, <2>3, Before DEF AtMostOne, Fine
      <3> QED BY <1>2, <1>3, <2>3, <3>1 DEF ImportOK, WakeSteps
    <2> QED BY <2>2, <2>3
  <1>9. Files' /\ Quiet'
    BY <1>2, <1>5, Before DEF Files, Quiet
  <1> QED BY <1>6, <1>7, <1>8, <1>9 DEF Sound

LEMMA WriteFileSound ==
  ASSUME IInv, NEW r \in Importers, NEW f \in Font, WriteFile(r, f)
  PROVE  Sound'
  <1>1. r \in Request /\ r \notin Purgers /\ r \notin Editors
    BY Roles
  <1>2. /\ f \in work[r].fonts /\ AtMostOne(work[r].fonts) /\ work[r].emptied = {}
        /\ UNCHANGED <<rows, marks, faults>> /\ work[r].at \in {"write", "rewrite"}
        /\ cut' \subseteq cut
        /\ \A g \in Font : g # f => file'[g] = file[g] /\ (g \in cut' <=> g \in cut)
    BY <1>1, Before DEF WriteFile, At, RequestOK, IInv, TypeOK
  <1>3. /\ \A q \in Request \ {r} : work'[q] = work[q]
        /\ \/ work'[r] = Idle
           \/ /\ work'[r].at = IF work[r].at = "write" THEN "insert" ELSE "wake"
              /\ work'[r].fonts = work[r].fonts /\ work'[r].emptied = {}
              /\ ~work'[r].unlinked
              /\ work'[r].seen = work[r].seen /\ work'[r].lost = work[r].lost
    BY <1>1, <1>2, Before DEF WriteFile, At, Written, Done, IInv, TypeOK, Work
  <1>4. \/ work[r].unlinked /\ UNCHANGED <<file, cut>>
        \/ file'[f] = "whole"
    BY DEF WriteFile, IInv, TypeOK
  <1>5. \A g \in Font : Fine(g) => Fine(g)'
    <2> SUFFICES ASSUME NEW g \in Font, Fine(g), file'[g] # "whole" PROVE Fine(g)'
      BY DEF Fine
    <2>1. g \notin Touched(work[r])
      BY <1>2, <1>4 DEF Touched, AtMostOne
    <2>2. file'[g] = file[g] /\ (g \in cut => g \in cut')
      BY <1>2, <1>4
    <2> QED BY <1>3, <2>1, <2>2 DEF Fine
  <1>6. Requests'
    <2>1. \A q \in Request \ {r} : RequestOK(q, work'[q])
      BY <1>3, Before
    <2>2. RequestOK(r, work[r]) /\ RequestOK(r, Idle)
      BY <1>1, Before, IdleOK
    <2>3. ASSUME work'[r] # Idle PROVE RequestOK(r, work'[r])
      BY <1>1, <1>2, <1>3, <2>2, <2>3 DEF RequestOK, Writing, WakeSteps
    <2>4. RequestOK(r, work'[r])
      BY <2>2, <2>3
    <2> QED BY <2>1, <2>4 DEF Requests
  <1>7. Purges'
    BY <1>1, <1>2, <1>3, Before, Roles DEF Purges, PurgeOK
  <1>8. Imports'
    <2> SUFFICES ASSUME NEW q \in Importers, NEW g \in work'[q].fonts PROVE ImportOK(q, g)'
      BY DEF Imports
    <2>1. q \in Request /\ g \in Font /\ g \in work[q].fonts
      BY <1>3, Before, Roles, IdleOK
    <2>2. CASE q # r
      BY <1>2, <1>3, <1>5, <2>1, <2>2, ImportKept
    <2>3. CASE q = r
      <3>1. work'[r] # Idle /\ ImportOK(r, g) /\ (Fine(g) => Fine(g)')
        BY <1>5, <2>1, <2>3, Before, IdleOK
      <3>2. work'[r].at = IF work[r].at = "write" THEN "insert" ELSE "wake"
        BY <1>3, <3>1
      <3> QED BY <1>2, <1>3, <2>3, <3>1, <3>2 DEF ImportOK, WakeSteps
    <2> QED BY <2>2, <2>3
  <1>9. Files' /\ Quiet'
    BY <1>2, <1>5, Before DEF Files, Quiet
  <1> QED BY <1>6, <1>7, <1>8, <1>9 DEF Sound

LEMMA InsertSound ==
  ASSUME IInv, NEW r \in Importers, NEW f \in Font, Insert(r, f)
  PROVE  Sound'
  <1>1. r \in Request /\ r \notin Purgers /\ UNCHANGED <<file, cut>>
        /\ f \in work[r].fonts /\ work[r].at = "insert" /\ AtMostOne(work[r].fonts)
        /\ \A q \in Request \ {r} : work'[q] = work[q]
    BY Before, Roles DEF Insert, At, Goto, Done, RequestOK, IInv, TypeOK
  <1>2. Touched(work[r]) = {}
    BY <1>1, Before DEF Touched, RequestOK, Writing
  <1>3. CASE f \in rows
    <2>1. /\ UNCHANGED <<rows, marks>>
          /\ work'[r].at = "recheck" /\ work'[r].fonts = work[r].fonts
          /\ work'[r].emptied = work[r].emptied /\ work'[r].unlinked = work[r].unlinked
      BY <1>1, <1>3, Before DEF Insert, Goto, IInv, TypeOK, Work
    <2>2. RequestOK(r, work'[r])
      BY <1>1, <2>1, Before DEF RequestOK, Writing, WakeSteps
    <2>3. \A g \in work'[r].fonts : ImportOK(r, g)'
      BY <1>1, <1>3, <2>1 DEF ImportOK, WakeSteps, AtMostOne
    <2> QED BY <1>1, <1>2, <2>1, <2>2, <2>3, OwnStep
  <1>4. CASE f \notin rows
    <2>1. /\ rows' = rows \cup {f} /\ work'[r] = Idle
          /\ \A g \in Font : g # f => marks'[g] = marks[g]
      BY <1>1, <1>4 DEF Insert, Done, IInv, TypeOK
    <2>2. \A g \in Font : Fine(g) => Fine(g)'
      BY <1>1, <1>2, <2>1 DEF Fine
    <2>3. Fine(f)
      BY <1>1, <1>4, Before DEF ImportOK
    <2>4. Requests'
      BY <1>1, <2>1, Before, IdleOK DEF Requests
    <2>5. Purges'
      BY <1>1, <1>4, <2>1, Before, Roles DEF Purges, PurgeOK
    <2>6. Imports'
      <3> SUFFICES ASSUME NEW q \in Importers, NEW g \in work'[q].fonts PROVE ImportOK(q, g)'
        BY DEF Imports
      <3>1. q \in Request /\ q # r /\ work'[q] = work[q] /\ g \in Font
        BY <1>1, <2>1, Before, Roles, IdleOK
      <3> QED BY <1>4, <2>1, <2>2, <3>1, ImportKept
    <2>7. Files' /\ Quiet'
      BY <1>1, <2>1, <2>2, <2>3, Before DEF Files, Quiet
    <2> QED BY <2>4, <2>5, <2>6, <2>7 DEF Sound
  <1> QED BY <1>3, <1>4

(* Uploads go one at a time: no other holds the mark this one clears. *)
LEMMA WakeSound ==
  ASSUME IInv, AtMostOne(Uploaders), NEW r \in Importers, NEW f \in Font, Wake(r, f)
  PROVE  Sound'
  <1>1. r \in Request /\ r \notin Purgers /\ UNCHANGED <<rows, file, cut>>
        /\ f \in work[r].fonts /\ work[r].at = "wake" /\ AtMostOne(work[r].fonts)
        /\ work'[r] = Idle /\ r \in Uploaders
        /\ \A q \in Request \ {r} : work'[q] = work[q]
    BY Before, Roles DEF Wake, At, Done, RequestOK, IInv, TypeOK, WakeSteps
  <1>2. Touched(work[r]) = {}
    BY <1>1, Before DEF Touched, RequestOK, Writing
  <1>3. /\ \A g \in Font : g # f => marks'[g] = marks[g]
        /\ marks'[f] \subseteq marks[f]
        /\ "purged" \in marks[f] /\ "purged" \notin marks'[f] =>
             "purged" \in work[r].seen /\ f \notin work[r].lost
    BY DEF Wake, Flushed, IInv, TypeOK
  <1>4. \A g \in Font : Fine(g) => Fine(g)'
    BY <1>1, <1>2 DEF Fine
  <1>5. Requests' /\ work'[r].fonts = {}
    <2>1. RequestOK(r, work'[r]) /\ work'[r].fonts = {}
      <3>1. RequestOK(r, Idle) /\ Idle.fonts = {} /\ work'[r] = Idle
        BY <1>1, IdleOK
      <3> QED BY <3>1
    <2>2. \A q \in Request \ {r} : RequestOK(q, work'[q])
      BY <1>1, Before
    <2> QED BY <2>1, <2>2 DEF Requests
  <1>6. Purges'
    BY <1>1, <1>3, Before, Roles DEF Purges, PurgeOK
  <1>7. Imports'
    <2> SUFFICES ASSUME NEW q \in Importers, NEW g \in work'[q].fonts PROVE ImportOK(q, g)'
      BY DEF Imports
    <2>1. q \in Request /\ q # r /\ work'[q] = work[q] /\ g \in Font
      BY <1>1, <1>5, Before, Roles
    <2>2. work[q].at \notin WakeSteps
      BY <1>1, <2>1, Before DEF RequestOK, AtMostOne
    <2> QED BY <1>1, <1>4, <2>1, <2>2, ImportKept
  <1>8. Files'
    <2> SUFFICES ASSUME NEW g \in rows', "purged" \notin marks'[g] PROVE Fine(g)'
      BY DEF Files
    <2>1. g \in rows /\ g \in Font
      BY <1>1, Before
    <2>2. CASE "purged" \notin marks[g]
      BY <1>4, <2>1, <2>2, Before
    <2>3. CASE "purged" \in marks[g]
      <3>1. g = f /\ "purged" \in work[r].seen /\ f \notin work[r].lost
        BY <1>3, <2>1, <2>3
      <3>2. Fine(f)
        BY <1>1, <3>1, Before DEF ImportOK, WakeSteps
      <3> QED BY <1>4, <3>1, <3>2
    <2> QED BY <2>2, <2>3
  <1>9. Quiet'
    BY <1>1, Before DEF Quiet
  <1> QED BY <1>5, <1>6, <1>7, <1>8, <1>9 DEF Sound

LEMMA UnlinkWork ==
  ASSUME NEW f \in Font, NEW then \in [Request -> Work], Unlink(f, then), NEW q \in Request
  PROVE  /\ work'[q].at = then[q].at /\ work'[q].fonts = then[q].fonts
         /\ work'[q].emptied = then[q].emptied /\ work'[q].seen = then[q].seen
         /\ work'[q].lost = then[q].lost
         /\ work'[q].unlinked <=> then[q].unlinked \/ (Writing(then[q]) /\ f \in then[q].fonts)
  <1>1. then[q] \in Work /\ then[q].unlinked \in BOOLEAN
    BY DEF Work
  <1>2. work'[q] = IF Writing(then[q]) /\ f \in then[q].fonts
                   THEN [then[q] EXCEPT !.unlinked = TRUE] ELSE then[q]
    BY DEF Unlink
  <1>3. [then[q] EXCEPT !.unlinked = TRUE].unlinked = TRUE
    BY <1>1, WorkFields
  <1>4. CASE Writing(then[q]) /\ f \in then[q].fonts
    BY <1>1, <1>2, <1>4, WorkFields
  <1>5. CASE ~(Writing(then[q]) /\ f \in then[q].fonts)
    BY <1>1, <1>2, <1>5
  <1> QED BY <1>4, <1>5

(* A file is removed: only of that font may the care pass to another. *)
LEMMA UnlinkSound ==
  ASSUME IInv, NEW f \in Font, NEW r \in Request, NEW w \in Work,
         Unlink(f, [work EXCEPT ![r] = w]), RequestOK(r, w), ~Writing(w),
         UNCHANGED <<rows, marks>>, cut \subseteq cut',
         Touched(work[r]) \subseteq Touched(w),
         r \in Purgers => \A g \in w.fonts \cup w.emptied :
                             g \in rows /\ "purged" \notin marks[g] /\ g \notin w.lost,
         r \in Importers => w.fonts = {},
         f \in cut' \/ f \in Touched(w),
         MaxFaults = 0 => cut' = {}
  PROVE  Sound'
  <1> DEFINE then == [work EXCEPT ![r] = w]
  <1>1. /\ then \in [Request -> Work] /\ Unlink(f, then)
        /\ then[r] = w /\ \A q \in Request \ {r} : then[q] = work[q]
    BY DEF IInv, TypeOK
  <1> HIDE DEF then
  <1>2. /\ work'[r].at = w.at /\ work'[r].fonts = w.fonts /\ work'[r].emptied = w.emptied
        /\ work'[r].lost = w.lost /\ (work'[r].unlinked <=> w.unlinked)
    BY <1>1, UnlinkWork
  <1>3. ASSUME NEW q \in Request, q # r
        PROVE  /\ work'[q].at = work[q].at /\ work'[q].fonts = work[q].fonts
               /\ work'[q].emptied = work[q].emptied /\ work'[q].seen = work[q].seen
               /\ work'[q].lost = work[q].lost
               /\ work'[q].unlinked <=> work[q].unlinked \/ (Writing(work[q]) /\ f \in work[q].fonts)
    BY <1>1, <1>3, UnlinkWork
  <1>4. \A g \in Font : g # f => file'[g] = file[g]
    BY DEF Unlink, IInv, TypeOK
  <1>5. Touched(work'[r]) = Touched(w)
    BY <1>2 DEF Touched, Writing
  <1>6. ASSUME NEW q \in Request, q # r, NEW g \in Touched(work[q]), g # f
        PROVE  g \in Touched(work'[q])
    <2>1. Writing(work[q]) => AtMostOne(work[q].fonts)
      BY Before DEF RequestOK
    <2>2. Writing(work'[q]) <=> Writing(work[q])
      BY <1>3, <1>6 DEF Writing
    <2> QED BY <1>3, <1>6, <2>1, <2>2 DEF Touched, AtMostOne
  <1>7. \A g \in Font : Fine(g) => Fine(g)'
    <2>1. Fine(f)'
      BY <1>5 DEF Fine
    <2> QED BY <1>4, <1>5, <1>6, <2>1 DEF Fine
  <1>8. Requests'
    BY <1>2, <1>3, Before DEF Requests, RequestOK, Writing
  <1>9. Purges'
    BY <1>2, <1>3, Before, Roles DEF Purges, PurgeOK
  <1>10. Imports'
    <2> SUFFICES ASSUME NEW q \in Importers, NEW g \in work'[q].fonts PROVE ImportOK(q, g)'
      BY DEF Imports
    <2>1. q \in Request /\ q # r /\ g \in work[q].fonts /\ g \in Font
      BY <1>2, <1>3, Before, Roles
    <2>2. /\ work'[q].at = work[q].at /\ work'[q].seen = work[q].seen
          /\ work'[q].lost = work[q].lost
      BY <1>3, <2>1
    <2> QED BY <1>7, <2>1, <2>2, ImportKept
  <1>11. Files' /\ Quiet'
    BY <1>7, Before DEF Files, Quiet
  <1> QED BY <1>8, <1>9, <1>10, <1>11 DEF Sound

LEMMA CleanupSound ==
  ASSUME IInv, NEW r \in Importers, NEW f \in Font, Cleanup(r, f)
  PROVE  Sound'
  <1>1. r \in Request /\ r \notin Purgers /\ work[r].at = "cleanup" /\ MaxFaults # 0
    BY Before, Roles DEF Cleanup, At, RequestOK
  <1>2. Touched(work[r]) = {}
    BY <1>1, Before DEF Touched, RequestOK, Writing
  <1>3. ~Writing(Idle)
    BY DEF Idle, Begin, Writing
  <1> QED BY <1>1, <1>2, <1>3, IdleOK, IdleType, UnlinkSound DEF Cleanup

(* A request that ends without a commit: the fonts it had in hand are cut. *)
LEMMA InterruptedFine ==
  ASSUME IInv, NEW R \in SUBSET Request, Interrupted(R), file' = file,
         \A q \in Request \ R : work'[q] = work[q], NEW g \in Font, Fine(g)
  PROVE  Fine(g)'
  <1>1. CASE file[g] = "whole" \/ g \in cut
    BY <1>1 DEF Fine, Interrupted
  <1>2. ASSUME NEW q \in Request, g \in Touched(work[q]), file[g] # "whole" PROVE Fine(g)'
    <2>1. CASE q \in R
      BY <1>2, <2>1 DEF Fine, Interrupted
    <2>2. CASE q \notin R
      BY <1>2, <2>2 DEF Fine
    <2> QED BY <2>1, <2>2
  <1> QED BY <1>1, <1>2 DEF Fine

LEMMA StopSound ==
  ASSUME IInv, NEW R \in SUBSET Request, Interrupted(R), MaxFaults # 0,
         UNCHANGED <<rows, marks, file>>,
         work' = [q \in Request |-> IF q \in R THEN Idle ELSE work[q]]
  PROVE  Sound'
  <1>1. \A q \in Request : IF q \in R THEN work'[q] = Idle ELSE work'[q] = work[q]
    OBVIOUS
  <1>2. \A g \in Font : Fine(g) => Fine(g)'
    BY <1>1, InterruptedFine
  <1>3. Requests'
    <2> SUFFICES ASSUME NEW q \in Request PROVE RequestOK(q, work'[q])
      BY DEF Requests
    <2>1. RequestOK(q, Idle) /\ RequestOK(q, work[q])
      BY Before, IdleOK
    <2> QED BY <1>1, <2>1
  <1>4. Purges'
    <2> SUFFICES ASSUME NEW q \in Purgers PROVE PurgeOK(q)'
      BY DEF Purges
    <2>1. CASE q \in R
      BY <1>1, <2>1, Roles, IdleOK DEF PurgeOK
    <2>2. CASE q \notin R
      BY <1>1, <2>2, Before, Roles DEF PurgeOK
    <2> QED BY <2>1, <2>2
  <1>5. Imports'
    <2> SUFFICES ASSUME NEW q \in Importers, NEW g \in work'[q].fonts PROVE ImportOK(q, g)'
      BY DEF Imports
    <2>1. q \in Request /\ q \notin R /\ work'[q] = work[q] /\ g \in Font
      BY <1>1, Before, Roles, IdleOK
    <2> QED BY <1>2, <2>1, ImportKept
  <1>6. Files' /\ Quiet'
    BY <1>2, Before DEF Files, Quiet
  <1> QED BY <1>3, <1>4, <1>5, <1>6 DEF Sound

LEMMA FaultBound ==
  ASSUME IInv, Fault
  PROVE  MaxFaults # 0
  BY Before, FaultsAssumption DEF Fault

LEMMA FaultSound ==
  ASSUME IInv, \/ Restart
               \/ \E r \in Importers, f \in Font : StoreFails(r, f)
  PROVE  Sound'
  <1>1. CASE Restart
    <2>1. work' = [q \in Request |-> IF q \in Request THEN Idle ELSE work[q]]
      BY <1>1 DEF Restart
    <2> QED BY <1>1, <2>1, FaultBound, StopSound DEF Restart
  <1>2. ASSUME NEW r \in Importers, NEW f \in Font, StoreFails(r, f) PROVE Sound'
    <2>1. r \in Request /\ work' = [q \in Request |-> IF q \in {r} THEN Idle ELSE work[q]]
      BY <1>2, Roles DEF StoreFails, Done, IInv, TypeOK
    <2> QED BY <1>2, <2>1, FaultBound, StopSound DEF StoreFails
  <1> QED BY <1>1, <1>2

LEMMA InsertFailsSound ==
  ASSUME IInv, NEW r \in Importers, NEW f \in Font, InsertFails(r, f)
  PROVE  Sound'
  <1> DEFINE w == Begin("cleanup", {f}, {})
  <1>1. /\ r \in Request /\ r \notin Purgers /\ work'[r] = w /\ MaxFaults # 0
        /\ UNCHANGED <<rows, marks, file, cut>> /\ work[r].at = "insert"
        /\ \A q \in Request \ {r} : work'[q] = work[q]
    BY FaultBound, Roles DEF InsertFails, At, IInv, TypeOK
  <1>2. RequestOK(r, w) /\ w.at = "cleanup" /\ w.fonts = {f}
    BY <1>1, BeginOK DEF AtMostOne, Steps, WakeSteps
  <1>3. Touched(work[r]) = {}
    BY <1>1, Before DEF Touched, RequestOK, Writing
  <1> HIDE DEF w
  <1>4. \A g \in w.fonts : ImportOK(r, g)'
    BY <1>1, <1>2 DEF ImportOK, WakeSteps
  <1> QED BY <1>1, <1>2, <1>3, <1>4, OwnStep

LEMMA PurgeLooksSound ==
  ASSUME IInv, NEW r \in Purgers, NEW F \in SUBSET Font, PurgeLooks(r, F)
  PROVE  Sound'
  <1> DEFINE w == Begin("remove", F, {})
  <1>1. /\ r \in Request /\ r \notin Importers /\ work'[r] = w /\ work[r] = Idle
        /\ UNCHANGED <<rows, marks, file, cut>> /\ F \subseteq Purgeable
        /\ \A q \in Request \ {r} : work'[q] = work[q]
    BY Roles DEF PurgeLooks, IInv, TypeOK
  <1>2. RequestOK(r, w) /\ w.fonts = F /\ w.emptied = {} /\ w.lost = {}
    BY <1>1, BeginOK DEF Steps, WakeSteps
  <1>3. Touched(work[r]) = {}
    BY <1>1, IdleOK
  <1> HIDE DEF w
  <1>4. PurgeOK(r)'
    BY <1>1, <1>2 DEF PurgeOK, Purgeable
  <1> QED BY <1>1, <1>2, <1>3, <1>4, OwnStep

LEMMA PurgeRemovesSound ==
  ASSUME IInv, NEW r \in Purgers, NEW f \in Font, PurgeRemoves(r, f)
  PROVE  Sound'
  <1> DEFINE w == [work[r] EXCEPT !.fonts = @ \ {f}, !.emptied = @ \cup {f}]
  <1>1. /\ r \in Request /\ r \notin Importers /\ work[r].at = "remove" /\ f \in work[r].fonts
        /\ UNCHANGED <<rows, marks, cut>> /\ work[r] \in Work /\ PurgeOK(r)
        /\ RequestOK(r, work[r]) /\ (MaxFaults = 0 => cut = {})
    BY Before, Roles DEF PurgeRemoves, At
  <1>2. [work EXCEPT ![r].fonts = @ \ {f}, ![r].emptied = @ \cup {f}] = [work EXCEPT ![r] = w]
    BY <1>1 DEF IInv, TypeOK
  <1>3. /\ w \in Work /\ w.at = "remove" /\ w.fonts = work[r].fonts \ {f}
        /\ w.emptied = work[r].emptied \cup {f} /\ w.lost = work[r].lost
        /\ w.unlinked = work[r].unlinked
    BY <1>1 DEF Work
  <1> HIDE DEF w
  <1>4. RequestOK(r, w) /\ ~Writing(w)
    BY <1>1, <1>3 DEF RequestOK, Writing, WakeSteps
  <1>5. Touched(work[r]) \subseteq Touched(w) /\ f \in Touched(w)
    BY <1>1, <1>3 DEF Touched, Writing
  <1>6. \A g \in w.fonts \cup w.emptied : g \in rows /\ "purged" \notin marks[g] /\ g \notin w.lost
    BY <1>1, <1>3 DEF PurgeOK
  <1> QED BY <1>1, <1>2, <1>3, <1>4, <1>5, <1>6, UnlinkSound DEF PurgeRemoves

LEMMA RemoveFailsSound ==
  ASSUME IInv, NEW r \in Purgers, NEW f \in Font, RemoveFails(r, f)
  PROVE  Sound'
  <1>1. /\ r \in Request /\ r \notin Importers /\ work[r] \in Work /\ PurgeOK(r)
        /\ UNCHANGED <<rows, marks, file, cut>> /\ RequestOK(r, work[r])
        /\ work[r].at = "remove"
        /\ \A q \in Request \ {r} : work'[q] = work[q]
        /\ work'[r] = [work[r] EXCEPT !.fonts = @ \ {f}]
    BY Before, Roles DEF RemoveFails, At, IInv, TypeOK
  <1>2. /\ work'[r].at = "remove" /\ work'[r].fonts \subseteq work[r].fonts
        /\ work'[r].emptied = work[r].emptied /\ work'[r].lost = work[r].lost
        /\ work'[r].unlinked = work[r].unlinked
    BY <1>1 DEF Work
  <1>3. RequestOK(r, work'[r])
    BY <1>1, <1>2 DEF RequestOK, Writing, WakeSteps
  <1>4. Touched(work[r]) \subseteq Touched(work'[r])
    BY <1>1, <1>2 DEF Touched, Writing
  <1>5. PurgeOK(r)'
    BY <1>1, <1>2 DEF PurgeOK
  <1> QED BY <1>1, <1>3, <1>4, <1>5, OwnStep

(* No other purge has marked or lost what this one commits. *)
LEMMA PurgeCommitsSound ==
  ASSUME IInv, AtMostOne(Purgers), NEW r \in Purgers, PurgeCommits(r)
  PROVE  Sound'
  <1>1. /\ r \in Request /\ r \notin Importers /\ PurgeOK(r) /\ work[r].at = "remove"
        /\ work[r].emptied \subseteq Font
    BY Before, Roles DEF PurgeCommits
  <1>2. /\ UNCHANGED <<rows, file, cut>> /\ work'[r] = Idle
        /\ \A g \in Font : marks'[g] = IF g \in work[r].emptied
                                       THEN marks[g] \cup {"purged"} ELSE marks[g]
        /\ \A q \in Request \ {r} : work'[q] = work[q]
    <2>1. work[r].emptied \cap work[r].lost = {}
      BY <1>1 DEF PurgeOK
    <2>2. marks \in [Font -> SUBSET Column] /\ work \in [Request -> Work]
      BY DEF IInv, TypeOK
    <2>3. UNCHANGED <<rows, file, cut>> /\ work' = [work EXCEPT ![r] = Idle]
      BY <2>1 DEF PurgeCommits, Done
    <2>4. marks' = [g \in Font |-> IF g \in work[r].emptied
                                   THEN Flushed(g, {}, {}, {"purged"}) ELSE marks[g]]
      BY <2>1 DEF PurgeCommits
    <2>5. \A g \in Font : Flushed(g, {}, {}, {"purged"}) = marks[g] \cup {"purged"}
      BY DEF Flushed
    <2> QED BY <1>1, <2>2, <2>3, <2>4, <2>5
  <1>3. \A g \in Touched(work[r]) : g \in work[r].emptied /\ g \in rows /\ "purged" \notin marks[g]
    BY <1>1 DEF Touched, Writing, PurgeOK
  <1>4. \A g \in Font : Fine(g) => Fine(g)' \/ (g \in rows' /\ "purged" \notin marks[g]
                                                /\ "purged" \in marks'[g])
    BY <1>2, <1>3 DEF Fine
  <1>5. Requests' /\ work'[r].fonts = {} /\ work'[r].emptied = {}
    <2>1. RequestOK(r, work'[r]) /\ work'[r].fonts = {} /\ work'[r].emptied = {}
      <3>1. RequestOK(r, Idle) /\ Idle.fonts = {} /\ Idle.emptied = {} /\ work'[r] = Idle
        BY <1>1, <1>2, IdleOK
      <3> QED BY <3>1
    <2>2. \A q \in Request \ {r} : RequestOK(q, work'[q])
      BY <1>2, Before
    <2> QED BY <2>1, <2>2 DEF Requests
  <1>6. Purges'
    BY <1>5 DEF Purges, PurgeOK, AtMostOne
  <1>7. Imports'
    <2> SUFFICES ASSUME NEW q \in Importers, NEW g \in work'[q].fonts PROVE ImportOK(q, g)'
      BY DEF Imports
    <2>1. q \in Request /\ work'[q] = work[q] /\ g \in Font
      BY <1>1, <1>2, Before, Roles
    <2> QED BY <1>2, <1>4, <2>1, ImportKept
  <1>8. Files' /\ Quiet'
    BY <1>2, <1>4, Before DEF Files, Quiet
  <1> QED BY <1>5, <1>6, <1>7, <1>8 DEF Sound

(* Restorations and confirmations do not touch purged_at. *)
LEMMA EditSound ==
  ASSUME IInv, NEW r \in Editors, EditStep(r)
  PROVE  Sound'
  <1>1. r \in Request /\ r \notin Importers /\ r \notin Purgers /\ RequestOK(r, work[r])
        /\ \A f \in Font : marks[f] \subseteq Column
    BY Before, Roles
  <1>2. Touched(work[r]) = {}
    BY <1>1 DEF Touched, RequestOK
  <1>3. /\ UNCHANGED <<rows, file, cut>>
        /\ \A q \in Request \ {r} : work'[q] = work[q]
    BY <1>1 DEF EditStep, RestoreLooks, RestoreCommits, ConfirmLooks, ConfirmCommits, Done,
                IInv, TypeOK
  <1>4. \A f \in Font : "purged" \in marks'[f] <=> "purged" \in marks[f]
    <2>1. ASSUME NEW f \in Font, RestoreLooks(r, f) \/ ConfirmLooks(r)
          PROVE  marks' = marks
      BY <2>1 DEF RestoreLooks, ConfirmLooks
    <2>2. ASSUME NEW f \in Font, RestoreCommits(r, f)
          PROVE  \A g \in Font : "purged" \in marks'[g] <=> "purged" \in marks[g]
      BY <2>2 DEF RestoreCommits, Flushed, IInv, TypeOK
    <2>3. ASSUME ConfirmCommits(r)
          PROVE  \A g \in Font : "purged" \in marks'[g] <=> "purged" \in marks[g]
      BY <2>3 DEF ConfirmCommits, Flushed, IInv, TypeOK
    <2> QED BY <2>1, <2>2, <2>3 DEF EditStep
  <1>5. RequestOK(r, work'[r])
    <2>1. work'[r] = Idle \/ \E step \in {"restore", "confirm"}, F \in SUBSET Font, seen \in SUBSET Column :
                                work'[r] = Begin(step, F, seen)
      <3>1. ASSUME NEW f \in Font, RestoreLooks(r, f)
            PROVE  work'[r] = Begin("restore", {f}, marks[f]) /\ marks[f] \in SUBSET Column
        BY <1>1, <3>1 DEF RestoreLooks, IInv, TypeOK
      <3>2. ASSUME ConfirmLooks(r)
            PROVE  work'[r] = Begin("confirm", Pending, {}) /\ Pending \in SUBSET Font
        BY <1>1, <3>2 DEF ConfirmLooks, Pending, IInv, TypeOK
      <3>3. ASSUME NEW f \in Font, RestoreCommits(r, f) PROVE work'[r] = Idle
        BY <1>1, <3>3 DEF RestoreCommits, Done, IInv, TypeOK
      <3>4. ASSUME ConfirmCommits(r) PROVE work'[r] = Idle
        BY <1>1, <3>4 DEF ConfirmCommits, Done, IInv, TypeOK
      <3> QED BY <3>1, <3>2, <3>3, <3>4 DEF EditStep
    <2>2. \A step \in {"restore", "confirm"}, F \in SUBSET Font, seen \in SUBSET Column :
            RequestOK(r, Begin(step, F, seen))
      BY <1>1, BeginOK DEF Steps, WakeSteps
    <2>3. RequestOK(r, Idle)
      BY <1>1, IdleOK
    <2> QED BY <2>1, <2>2, <2>3
  <1> QED BY <1>1, <1>2, <1>3, <1>4, <1>5, OwnStep

LEMMA DeleteSound ==
  ASSUME IInv, NEW f \in Font, NEW confirmed \in BOOLEAN, Delete(f, confirmed)
  PROVE  Sound'
  <1>1. /\ UNCHANGED <<rows, file, cut, work>>
        /\ \A g \in Font : "purged" \in marks'[g] => "purged" \in marks[g]
    BY DEF Delete, IInv, TypeOK
  <1>2. \A g \in Font : "purged" \in marks[g] => "purged" \in marks'[g]
    BY DEF Delete, IInv, TypeOK
  <1>3. \A g : Fine(g) => Fine(g)'
    BY <1>1 DEF Fine
  <1>4. Requests' /\ Quiet'
    BY <1>1, Before DEF Requests, Quiet
  <1>5. Purges'
    BY <1>1, Before, Roles DEF Purges, PurgeOK
  <1>6. Imports'
    <2> SUFFICES ASSUME NEW q \in Importers, NEW g \in work'[q].fonts PROVE ImportOK(q, g)'
      BY DEF Imports
    <2>1. q \in Request /\ work'[q] = work[q] /\ g \in Font /\ g \in work[q].fonts
      BY <1>1, Before, Roles
    <2> QED BY <1>1, <1>2, <1>3, <2>1, ImportKept
  <1>7. Files'
    BY <1>1, <1>2, <1>3, Before DEF Files
  <1> QED BY <1>4, <1>5, <1>6, <1>7 DEF Sound

(* A purged row goes: no purge has it in hand, and imports that remember it *)
(* were about to bring it back.                                             *)
LEMMA HarvestSound ==
  ASSUME IInv, NEW f \in Font, Harvest(f)
  PROVE  Sound'
  <1>1. /\ UNCHANGED <<file, cut>> /\ rows' = rows \ {f}
        /\ f \in rows /\ "purged" \in marks[f]
        /\ \A g \in Font : g # f => marks'[g] = marks[g]
        /\ \A q \in Importers : f \in work[q].fonts =>
              work[q].at \in {"recreate", "rewrite", "wake"}
    BY DEF Harvest, Column, IInv, TypeOK
  <1>2. ASSUME NEW q \in Request
        PROVE  /\ work'[q].at = work[q].at /\ work'[q].fonts = work[q].fonts
               /\ work'[q].emptied = work[q].emptied /\ work'[q].seen = work[q].seen
               /\ work'[q].unlinked = work[q].unlinked
               /\ work'[q].lost = IF f \in work[q].fonts \cup work[q].emptied
                                  THEN work[q].lost \cup {f} ELSE work[q].lost
    <2>1. work[q] \in Work
      BY Before
    <2>2. work'[q] = IF f \in work[q].fonts \cup work[q].emptied
                     THEN [work[q] EXCEPT !.lost = @ \cup {f}] ELSE work[q]
      BY DEF Harvest
    <2> QED BY <2>1, <2>2 DEF Work
  <1>3. \A q \in Request : Touched(work'[q]) = Touched(work[q])
    BY <1>2 DEF Touched, Writing
  <1>4. \A g : Fine(g) => Fine(g)'
    BY <1>1, <1>3 DEF Fine
  <1>5. Requests' /\ Quiet'
    <2>1. ASSUME NEW q \in Request PROVE RequestOK(q, work'[q])
      <3>1. RequestOK(q, work[q])
        BY Before
      <3> QED BY <1>2, <3>1 DEF RequestOK, Writing
    <2>2. Quiet'
      BY <1>1, Before DEF Quiet
    <2> QED BY <2>1, <2>2 DEF Requests
  <1>6. Purges'
    <2> SUFFICES ASSUME NEW q \in Purgers, NEW g \in work'[q].fonts \cup work'[q].emptied
                 PROVE  g \in rows' /\ "purged" \notin marks'[g] /\ g \notin work'[q].lost
      BY DEF Purges, PurgeOK
    <2>1. q \in Request /\ g \in work[q].fonts \cup work[q].emptied /\ PurgeOK(q) /\ g \in Font
      BY <1>2, Before, Roles
    <2>2. g # f
      BY <1>1, <2>1 DEF PurgeOK
    <2> QED BY <1>1, <1>2, <2>1, <2>2 DEF PurgeOK
  <1>7. Imports'
    <2> SUFFICES ASSUME NEW q \in Importers, NEW g \in work'[q].fonts PROVE ImportOK(q, g)'
      BY DEF Imports
    <2>1. /\ q \in Request /\ g \in work[q].fonts /\ g \in Font
          /\ work'[q].at = work[q].at /\ work'[q].seen = work[q].seen
          /\ work[q].lost \subseteq work'[q].lost
          /\ g = f => f \in work'[q].lost
      BY <1>2, Before, Roles
    <2> QED BY <1>1, <1>4, <2>1, ImportKept
  <1>8. Files'
    BY <1>1, <1>4, Before DEF Files
  <1> QED BY <1>5, <1>6, <1>7, <1>8 DEF Sound

LEMMA NextSound ==
  ASSUME IInv, OneAtATime, [Next]_vars
  PROVE  Sound'
  <1> USE DEF OneAtATime
  <1>1. ASSUME NEW r \in Importers, NEW f \in Font, ImportStep(r, f) PROVE Sound'
    BY <1>1, LookUpSound, OpenFileSound, WriteFileSound, InsertSound, RecheckSound,
       CleanupSound, WakeSound, FaultSound, InsertFailsSound DEF ImportStep
  <1>2. ASSUME NEW r \in Purgers, PurgeStep(r) PROVE Sound'
    BY <1>2, PurgeLooksSound, PurgeRemovesSound, RemoveFailsSound, PurgeCommitsSound
       DEF PurgeStep
  <1>3. CASE UNCHANGED vars
    BY <1>3 DEF vars, IInv, Sound, Requests, Purges, Imports, Files, Quiet, RequestOK,
                PurgeOK, ImportOK, Fine, Touched, Writing
  <1> QED BY <1>1, <1>2, <1>3, EditSound, DeleteSound, HarvestSound, FaultSound DEF Next

LEMMA InvHolds == OneAtATime => (Spec => []IInv)
  <1> SUFFICES ASSUME OneAtATime PROVE Spec => []IInv
    OBVIOUS
  <1>1. Init => IInv
    <2> SUFFICES ASSUME Init PROVE IInv
      OBVIOUS
    <2>1. TypeOK
      BY IdleType, FaultsAssumption DEF Init, TypeOK, FileState
    <2>2. \A r \in Request : work[r] = Idle
      BY DEF Init
    <2>3. Requests /\ Purges /\ Imports
      BY <2>2, Roles, IdleOK DEF Requests, Purges, PurgeOK, Imports
    <2> QED BY <2>1, <2>3 DEF Init, IInv, Sound, Files, Quiet
  <1>2. IInv /\ [Next]_vars => IInv'
    BY NextType, NextSound DEF IInv
  <1> QED BY <1>1, <1>2, PTL DEF Spec

LEMMA BereftAreCut == IInv => Bereft \subseteq cut
  <1> SUFFICES ASSUME IInv, NEW f \in Bereft PROVE f \in cut
    OBVIOUS
  <1>1. Fine(f) /\ file[f] # "whole" /\ InHand(f) = {}
    BY Before DEF Bereft
  <1>2. \A r \in Request : f \notin Touched(work[r])
    BY <1>1 DEF InHand, Touched
  <1> QED BY <1>1, <1>2 DEF Fine

(* With one upload and one purge at a time, and any number of overlapping   *)
(* pushes, restorations and confirmations, restarts and failures: a font    *)
(* misses its file without saying so only if its own file was being removed *)
(* or written by a request that was interrupted.  The restorations and the  *)
(* uploads that bring such a font back are among the steps.                 *)
THEOREM InterruptionsExplainLosses == OneAtATime => (Spec => []OnlyInterruptionsLoseFiles)
  BY InvHolds, BereftAreCut, PTL DEF OnlyInterruptionsLoseFiles

(* When, besides, nothing stops or fails: no font misses its file without   *)
(* purged_at to say so.                                                     *)
THEOREM MissingFilesStayMarked ==
  OneAtATime /\ MaxFaults = 0 => (Spec => []MissingFilesAreMarked)
  <1> SUFFICES ASSUME OneAtATime, MaxFaults = 0 PROVE Spec => []MissingFilesAreMarked
    OBVIOUS
  <1>1. IInv => MissingFilesAreMarked
    BY BereftAreCut DEF MissingFilesAreMarked, IInv, Sound, Quiet
  <1> QED BY <1>1, InvHolds, PTL
=============================================================================
