------------------------------- MODULE Backup -------------------------------
(***************************************************************************)
(* The automatic backup (services/backup.py): one loop takes a snapshot of *)
(* the database and rotates the old ones, another copies to the mirror the *)
(* font files it lacks, while imports write in the storage and purges      *)
(* empty it.  The server stops anywhere and starts again, which starts     *)
(* both loops again; a copy may fail, which the loops survive.             *)
(*                                                                         *)
(* A snapshot's name is its second and the number that tells it from the   *)
(* others of that second, 0 for none.  The clock does not go back.         *)
(***************************************************************************)
EXTENDS Integers, FiniteSets, SequencesExt

CONSTANTS
  Blob,
  Nothing,       \* no copy under way
  Keep,          \* snapshots kept by the rotation
  PerSecond,     \* bound on the backups that begin in one second
  MaxSecond,     \* bound on the clock
  MaxGestures,   \* bound on imports and purges
  MaxFaults      \* bound on stops and failed copies

ASSUME BackupAssumption ==
  /\ Keep \in Nat \ {0} /\ PerSecond \in Nat \ {0}
  /\ MaxSecond \in Nat /\ MaxGestures \in Nat /\ MaxFaults \in Nat

VARIABLES
  now,        \* the second of the clock
  snapshots,  \* name -> what the snapshot is, for those that exist
  backup,     \* the snapshot being taken, and how far it is
  taken,      \* history: the verified snapshots, in the order they were taken
  stored,     \* per blob, its file in the storage: "absent", "partial", "whole"
  mirror,     \* per blob, its copy, likewise
  pass,       \* the pass of the mirror: what it has yet to meet, what it copies
  torn,       \* history: the blobs of which a copy was made in part
  gestures,   \* imports and purges so far
  faults      \* stops and failures so far

snapshotVars == <<snapshots, backup, taken>>

mirrorVars == <<stored, mirror, pass, torn, gestures>>

vars == <<now, snapshotVars, mirrorVars, faults>>

Name == (0..MaxSecond) \X (0..(PerSecond - 1))

Snapshot == {"none", "partial", "verified"}

File == {"absent", "partial", "whole"}

NoBackup == [at |-> "sleeping", name |-> <<0, 0>>]

NoPass == [todo |-> {}, copying |-> Nothing]

Existing(ss) == {nm \in Name : ss[nm] # "none"}

-----------------------------------------------------------------------------
(* The snapshots *)

(* Mutant: the search goes on past the last number. *)
MutantFreeName(s) == <<s, PerSecond>>

(* The first name of the second that no file has. *)
FreeName(s) == <<s, CHOOSE i \in 0..(PerSecond - 1) :
                      /\ snapshots[<<s, i>>] = "none"
                      /\ \A j \in 0..(i - 1) : snapshots[<<s, j>>] # "none">>

(* The database is opened for the copy: the file exists from now on. *)
BeginBackup ==
  /\ backup.at = "sleeping"
  /\ \E i \in 0..(PerSecond - 1) : snapshots[<<now, i>>] = "none"
  /\ backup' = [at |-> "copying", name |-> FreeName(now)]
  /\ snapshots' = [snapshots EXCEPT ![FreeName(now)] = "partial"]
  /\ UNCHANGED <<now, taken, mirrorVars, faults>>

(* The copy and integrity_check succeed. *)
Verify ==
  /\ backup.at = "copying"
  /\ snapshots' = [snapshots EXCEPT ![backup.name] = "verified"]
  /\ taken' = Append(taken, backup.name)
  /\ backup' = [backup EXCEPT !.at = "rotating"]
  /\ UNCHANGED <<now, mirrorVars, faults>>

(* integrity_check finds a fault: the copy is unlinked. *)
Refuse ==
  /\ backup.at = "copying"
  /\ faults < MaxFaults
  /\ snapshots' = [snapshots EXCEPT ![backup.name] = "none"]
  /\ backup' = NoBackup
  /\ faults' = faults + 1
  /\ UNCHANGED <<now, taken, mirrorVars>>

(* The copy itself raises (disk full): nothing unlinks what it has written.*)
CopyRaises ==
  /\ backup.at = "copying"
  /\ faults < MaxFaults
  /\ backup' = NoBackup
  /\ faults' = faults + 1
  /\ UNCHANGED <<now, snapshots, taken, mirrorVars>>

(* Names are compared as texts.  "-" sorts before ".": in a second, the    *)
(* name without number is last; and "-10" sorts between "-1" and "-2"      *)
(* (a second sees fewer than a hundred).                                   *)
NameOrder(nm) ==
  IF nm[2] = 0 THEN 12 * PerSecond
  ELSE IF nm[2] < 10 THEN 11 * nm[2] ELSE 11 * (nm[2] \div 10) + (nm[2] % 10) + 1

SortsBefore(x, y) ==
  \/ x[1] < y[1]
  \/ x[1] = y[1] /\ NameOrder(x) < NameOrder(y)

(* Mutant: the slice is taken from the other end. *)
MutantStale(ss) ==
  {nm \in Existing(ss) : Cardinality({x \in Existing(ss) : SortsBefore(x, nm)}) >= Keep}

(* _rotate_snapshots: all but the last Keep names. *)
Stale(ss) ==
  {nm \in Existing(ss) : Cardinality({x \in Existing(ss) : SortsBefore(nm, x)}) >= Keep}

Rotate ==
  /\ backup.at = "rotating"
  /\ snapshots' = [nm \in Name |-> IF nm \in Stale(snapshots) THEN "none" ELSE snapshots[nm]]
  /\ backup' = NoBackup
  /\ UNCHANGED <<now, taken, mirrorVars, faults>>

-----------------------------------------------------------------------------
(* The mirror *)

(* A pass walks the storage: it lists each folder as it comes to it. *)
BeginPass ==
  /\ pass = NoPass
  /\ pass' = [NoPass EXCEPT !.todo = Blob]
  /\ UNCHANGED <<now, snapshotVars, stored, mirror, torn, gestures, faults>>

(* Mutant: a file whose copy exists ends the pass. *)
MutantLook(b) ==
  /\ pass.copying = Nothing
  /\ b \in pass.todo
  /\ pass' = IF stored[b] = "absent" THEN [pass EXCEPT !.todo = @ \ {b}]
             ELSE IF mirror[b] # "absent" THEN NoPass
             ELSE [todo |-> pass.todo \ {b}, copying |-> b]
  /\ UNCHANGED <<now, snapshotVars, stored, mirror, torn, gestures, faults>>

(* It comes to a name: what is not a file, or no longer one, and what has  *)
(* a copy are passed over.                                                 *)
Look(b) ==
  /\ pass.copying = Nothing
  /\ b \in pass.todo
  /\ pass' = [todo    |-> pass.todo \ {b},
              copying |-> IF stored[b] # "absent" /\ mirror[b] = "absent" THEN b ELSE Nothing]
  /\ UNCHANGED <<now, snapshotVars, stored, mirror, torn, gestures, faults>>

(* shutil.copy2 opens the source, which ends the pass if a purge has just  *)
(* taken it away, and creates the copy.                                    *)
Open(b) ==
  /\ pass.copying = b /\ mirror[b] = "absent"
  /\ IF stored[b] = "absent"
     THEN pass' = NoPass /\ UNCHANGED mirror
     ELSE mirror' = [mirror EXCEPT ![b] = "partial"] /\ UNCHANGED pass
  /\ UNCHANGED <<now, snapshotVars, stored, torn, gestures, faults>>

(* It comes to the end of the source, which is where an import has got to; *)
(* a source purged meanwhile is read to its end, but its times are not:    *)
(* that ends the pass.                                                     *)
Close(b) ==
  /\ pass.copying = b /\ mirror[b] = "partial"
  /\ IF stored[b] = "partial"
     THEN torn' = torn \cup {b} /\ UNCHANGED mirror
     ELSE mirror' = [mirror EXCEPT ![b] = "whole"] /\ UNCHANGED torn
  /\ pass' = IF stored[b] = "absent" THEN NoPass ELSE [pass EXCEPT !.copying = Nothing]
  /\ UNCHANGED <<now, snapshotVars, stored, gestures, faults>>

(* The copies that are cut if the pass ends now. *)
CutShort == {b \in Blob : pass.copying = b /\ mirror[b] = "partial"}

(* mkdir or the copy raises: the pass ends, the loop goes on, what it has  *)
(* copied stays as it is.                                                  *)
CopyFails ==
  /\ pass.copying # Nothing
  /\ faults < MaxFaults
  /\ pass' = NoPass
  /\ torn' = torn \cup CutShort
  /\ faults' = faults + 1
  /\ UNCHANGED <<now, snapshotVars, stored, mirror, gestures>>

-----------------------------------------------------------------------------
(* Around the loops *)

Tick ==
  /\ now < MaxSecond
  /\ now' = now + 1
  /\ UNCHANGED <<snapshotVars, mirrorVars, faults>>

(* The process stops, and starts again: both loops begin anew. *)
ServerRestarts ==
  /\ backup # NoBackup \/ pass # NoPass
  /\ faults < MaxFaults
  /\ backup' = NoBackup /\ pass' = NoPass
  /\ torn' = torn \cup CutShort
  /\ faults' = faults + 1
  /\ UNCHANGED <<now, snapshots, taken, stored, mirror, gestures>>

(* An import, or the upload that brings a purged font back: storage.store  *)
(* opens the file in place, and may never come to its end.                 *)
BeginStore(b) ==
  /\ gestures < MaxGestures
  /\ stored' = [stored EXCEPT ![b] = "partial"]
  /\ gestures' = gestures + 1
  /\ UNCHANGED <<now, snapshotVars, mirror, pass, torn, faults>>

EndStore(b) ==
  /\ stored[b] = "partial"
  /\ stored' = [stored EXCEPT ![b] = "whole"]
  /\ UNCHANGED <<now, snapshotVars, mirror, pass, torn, gestures, faults>>

(* A purge removes the file, and its folder when it was the last there: a  *)
(* pass that has listed the folder may fail to enter it.                   *)
Purge(b) ==
  /\ stored[b] = "whole"
  /\ gestures < MaxGestures
  /\ stored' = [stored EXCEPT ![b] = "absent"]
  /\ \/ UNCHANGED pass
     \/ pass.copying = Nothing /\ b \in pass.todo /\ pass' = NoPass
  /\ gestures' = gestures + 1
  /\ UNCHANGED <<now, snapshotVars, mirror, torn, faults>>

-----------------------------------------------------------------------------

Init ==
  /\ now = 0
  /\ snapshots = [nm \in Name |-> "none"]
  /\ backup = NoBackup
  /\ taken = <<>>
  /\ stored = [b \in Blob |-> "absent"] /\ mirror = [b \in Blob |-> "absent"]
  /\ pass = NoPass /\ torn = {}
  /\ gestures = 0 /\ faults = 0

SnapshotStep == BeginBackup \/ Verify \/ Refuse \/ CopyRaises \/ Rotate

MirrorStep == BeginPass \/ \E b \in Blob : Look(b) \/ Open(b) \/ Close(b)

Next ==
  \/ SnapshotStep \/ MirrorStep \/ CopyFails
  \/ Tick \/ ServerRestarts
  \/ \E b \in Blob : BeginStore(b) \/ EndStore(b) \/ Purge(b)

Spec == Init /\ [][Next]_vars

(* run_blob_backup_loop never ends: each week it makes another pass. *)
FairSpec == Spec /\ WF_vars(MirrorStep)

-----------------------------------------------------------------------------

(* The type invariant. *)
TypeOK ==
  /\ now \in 0..MaxSecond
  /\ snapshots \in [Name -> Snapshot]
  /\ backup \in [at : {"sleeping", "copying", "rotating"}, name : Name]
  /\ taken \in Seq(Name)
  /\ stored \in [Blob -> File] /\ mirror \in [Blob -> File]
  /\ pass \in [todo : SUBSET Blob, copying : Blob \cup {Nothing}]
  /\ torn \subseteq Blob
  /\ gestures \in 0..MaxGestures /\ faults \in 0..MaxFaults

(* Once a backup has succeeded there is a verified snapshot, the last one  *)
(* that was: stops, failed copies and what they leave in the directory do  *)
(* not make the rotation take it away, as long as no more than Keep        *)
(* backups begin in one second.                                            *)
LastBackupIsKept ==
  taken # <<>> => snapshots[Last(taken)] = "verified"

(* "PRAGMA integrity_check sur la copie avant de la garder": outside a     *)
(* backup, every snapshot of the directory has been verified.              *)
SnapshotsAreVerified ==
  backup = NoBackup => \A nm \in Existing(snapshots) : snapshots[nm] = "verified"

(* "l'ordre lexicographique coincide avec l'ordre chronologique": the      *)
(* rotation removes no snapshot that was taken after one it keeps.         *)
RotationGoesByAge ==
  [][\A i, j \in 1..Len(taken) :
       (/\ i < j
        /\ snapshots[taken[j]] # "none" /\ snapshots'[taken[j]] = "none"
        /\ snapshots[taken[i]] # "none")
       => snapshots'[taken[i]] = "none"]_vars

(* "un fichier deja present cote miroir n'a donc aucune raison d'etre      *)
(* relu": a file of the mirror that no pass is writing is whole.           *)
MirroredFilesAreWhole ==
  \A b \in Blob : mirror[b] = "partial" => pass.copying = b

(* A font whose file stays in the library ends up with a whole copy in the *)
(* mirror, whatever is imported or purged under the passes and however     *)
(* many of them end half way -- unless one of its own copies was cut, or   *)
(* was made while an import was writing the file: that copy is never done  *)
(* again, and torn knows it.                                               *)
FontsAreMirrored ==
  \A b \in Blob : stored[b] = "whole" ~> stored[b] # "whole" \/ mirror[b] = "whole" \/ b \in torn

=============================================================================
