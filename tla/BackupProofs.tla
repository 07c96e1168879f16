---------------------------- MODULE BackupProofs ----------------------------
(***************************************************************************)
(* Proofs about Backup for every bound on the clock, the stops and the     *)
(* failures: the last snapshot that was verified outlives the rotations,   *)
(* whatever failed backups leave in the directory.                         *)
(*                                                                         *)
(* A rotation goes by name.  It runs right after a backup is verified,     *)
(* when no snapshot of a later second exists: only those of the same       *)
(* second can sort after the new one, and there are PerSecond at most.     *)
(***************************************************************************)
EXTENDS Backup, FiniteSetTheorems, WellFoundedInduction, TLAPS

-----------------------------------------------------------------------------
(* Names. *)

LEMMA NameParts ==
  ASSUME NEW nm \in Name
  PROVE  nm[1] \in 0..MaxSecond /\ nm[2] \in 0..(PerSecond - 1) /\ nm = <<nm[1], nm[2]>>
BY DEF Name

LEMMA LeastNatural ==
  ASSUME NEW S \in SUBSET Nat, S # {}
  PROVE  \E i \in S : \A j \in S : ~(j < i)
<1> DEFINE Less == {ss \in Nat \X Nat : ss[1] < ss[2]}
<1>1. IsWellFoundedOn(Less, Nat)
  BY NatLessThanWellFounded DEF OpToRel
<1> HIDE DEF Less
<1>2. PICK i \in S : \A j \in S : <<j, i>> \notin Less
  BY <1>1, WFMin
<1>3. \A j \in S : j < i => <<j, i>> \in Less
  BY DEF Less
<1> QED
  BY <1>2, <1>3

(* As long as the second s has a free name, FreeName gives one. *)
LEMMA FreeNameIsFree ==
  ASSUME NEW s \in 0..MaxSecond, \E i \in 0..(PerSecond - 1) : snapshots[<<s, i>>] = "none"
  PROVE  FreeName(s) \in Name /\ FreeName(s)[1] = s /\ snapshots[FreeName(s)] = "none"
<1> DEFINE Free == {i \in 0..(PerSecond - 1) : snapshots[<<s, i>>] = "none"}
           Least(i) == /\ snapshots[<<s, i>>] = "none"
                       /\ \A j \in 0..(i - 1) : snapshots[<<s, j>>] # "none"
<1>1. PerSecond \in Nat /\ Free \in SUBSET Nat
  BY BackupAssumption
<1>6. Free # {}
  OBVIOUS
<1>2. PICK i \in Free : \A j \in Free : ~(j < i)
  BY <1>1, <1>6, LeastNatural
<1>3. i \in 0..(PerSecond - 1) /\ Least(i)
  <2>1. ASSUME NEW j \in 0..(i - 1) PROVE snapshots[<<s, j>>] # "none"
    BY <1>1, <1>2
  <2> QED
    BY <2>1
<1> DEFINE n == CHOOSE k \in 0..(PerSecond - 1) : Least(k)
<1>4. n \in 0..(PerSecond - 1) /\ Least(n)
  BY <1>3
<1>5. FreeName(s) = <<s, n>>
  BY DEF FreeName
<1> QED
  BY <1>4, <1>5 DEF Name

(* The names of a second that sort after one of them. *)
LEMMA FewSortAfter ==
  ASSUME NEW nm \in Name, NEW S \in SUBSET Name, \A x \in S : x[1] <= nm[1]
  PROVE  Cardinality({x \in S : SortsBefore(nm, x)}) < PerSecond
<1> DEFINE After == {x \in S : SortsBefore(nm, x)}
           Second == {nm[1]} \X (0..(PerSecond - 1))
<1>1. PerSecond \in Nat \ {0}
  BY BackupAssumption
<1>2. nm[1] \in Nat /\ nm \in Second
  BY NameParts
<1>3. IsFiniteSet(0..(PerSecond - 1)) /\ Cardinality(0..(PerSecond - 1)) = PerSecond
  BY <1>1, FS_Interval
<1>4. IsFiniteSet(Second) /\ Cardinality(Second) = PerSecond
  <2> DEFINE One == {nm[1]}
             Numbers == 0..(PerSecond - 1)
  <2>1. IsFiniteSet(One) /\ Cardinality(One) = 1
    BY FS_Singleton
  <2>2. IsFiniteSet(Numbers) /\ Cardinality(Numbers) = PerSecond
    BY <1>3
  <2> HIDE DEF One, Numbers
  <2>3. IsFiniteSet(One \X Numbers) /\ Cardinality(One \X Numbers) = 1 * PerSecond
    BY <2>1, <2>2, FS_Product
  <2> QED
    BY <1>1, <2>3 DEF One, Numbers
<1>5. IsFiniteSet(Second \ {nm}) /\ Cardinality(Second \ {nm}) = PerSecond - 1
  <2> HIDE DEF Second
  <2> QED
    BY <1>2, <1>4, FS_RemoveElement
<1>6. After \in SUBSET (Second \ {nm})
  <2> SUFFICES ASSUME NEW x \in S, SortsBefore(nm, x)
               PROVE  x \in Second \ {nm}
    OBVIOUS
  <2>1. x[1] \in Nat /\ x[1] <= nm[1] /\ x = <<x[1], x[2]>> /\ x[2] \in 0..(PerSecond - 1)
    BY NameParts
  <2>2. x[1] = nm[1] /\ NameOrder(nm) < NameOrder(x)
    BY <1>2, <2>1 DEF SortsBefore
  <2>3. NameOrder(nm) \in Nat
    BY <1>1, NameParts DEF NameOrder
  <2> QED
    BY <2>1, <2>2, <2>3
<1>7. Cardinality(After) <= Cardinality(Second \ {nm}) /\ IsFiniteSet(After)
  BY <1>5, <1>6, FS_Subset
<1>8. Cardinality(After) \in Nat
  BY <1>7, FS_CardinalityType
<1> QED
  BY <1>1, <1>5, <1>7, <1>8

-----------------------------------------------------------------------------
(* The snapshots under way, and the last that was verified. *)

(* No snapshot is of the future, and none is newer than the one being taken. *)
SnapshotsInOrder ==
  /\ \A nm \in Existing(snapshots) : nm[1] <= now
  /\ backup.at # "sleeping" => \A nm \in Existing(snapshots) : nm[1] <= backup.name[1]

(* A backup writes a file of its own until it is verified; the rotation    *)
(* that follows knows the last verified snapshot as its own.               *)
BackupUnderWay ==
  /\ backup.at = "copying" => snapshots[backup.name] = "partial"
  /\ backup.at = "rotating" => taken # <<>> /\ Last(taken) = backup.name

LastKept == PerSecond <= Keep => LastBackupIsKept

BInv == TypeOK /\ SnapshotsInOrder /\ BackupUnderWay /\ LastKept

LEMMA LastAppended ==
  ASSUME NEW s \in Seq(Name), NEW nm \in Name
  PROVE  /\ Append(s, nm) \in Seq(Name) /\ Append(s, nm) # <<>>
         /\ Last(Append(s, nm)) = nm
BY DEF Last

LEMMA LastIsName ==
  ASSUME NEW s \in Seq(Name), s # <<>>
  PROVE  Last(s) \in Name
BY DEF Last

(* A step of the mirror touches no snapshot. *)
LEMMA MirrorSteps ==
  ASSUME BInv, UNCHANGED <<now, snapshotVars>>,
         stored' \in [Blob -> File], mirror' \in [Blob -> File], torn' \subseteq Blob,
         pass' \in [todo : SUBSET Blob, copying : Blob \cup {Nothing}],
         gestures' \in 0..MaxGestures, faults' \in 0..MaxFaults
  PROVE  BInv'
BY DEF BInv, TypeOK, SnapshotsInOrder, BackupUnderWay, LastKept, LastBackupIsKept, snapshotVars, Existing

LEMMA MirrorKeeps ==
  ASSUME BInv, MirrorStep \/ CopyFails \/ \E b \in Blob : BeginStore(b) \/ EndStore(b) \/ Purge(b)
  PROVE  BInv'
<1>1. TypeOK /\ MaxGestures \in Nat /\ MaxFaults \in Nat
      /\ {"absent", "partial", "whole"} \subseteq File /\ CutShort \subseteq Blob
  BY BackupAssumption DEF BInv, File, CutShort
<1>2. CASE BeginPass
  BY <1>1, <1>2, MirrorSteps DEF BeginPass, TypeOK, NoPass
<1>3. ASSUME NEW b \in Blob, Look(b) PROVE BInv'
  BY <1>1, <1>3, MirrorSteps DEF Look, TypeOK
<1>4. ASSUME NEW b \in Blob, Open(b) PROVE BInv'
  BY <1>1, <1>4, MirrorSteps DEF Open, TypeOK, NoPass
<1>5. ASSUME NEW b \in Blob, Close(b) PROVE BInv'
  <2>1. mirror' \in [Blob -> File] /\ torn' \subseteq Blob
        /\ pass' \in [todo : SUBSET Blob, copying : Blob \cup {Nothing}]
    BY <1>1, <1>5 DEF Close, TypeOK, NoPass
  <2> QED
    BY <1>1, <1>5, <2>1, MirrorSteps DEF Close, TypeOK
<1>6. CASE CopyFails
  <2>1. pass' \in [todo : SUBSET Blob, copying : Blob \cup {Nothing}]
        /\ torn' \subseteq Blob /\ faults' \in 0..MaxFaults
    BY <1>1, <1>6 DEF CopyFails, TypeOK, NoPass
  <2> QED
    BY <1>1, <1>6, <2>1, MirrorSteps DEF CopyFails, TypeOK
<1>7. ASSUME NEW b \in Blob, BeginStore(b) \/ EndStore(b) \/ Purge(b) PROVE BInv'
  <2>1. stored' \in [Blob -> File] /\ gestures' \in 0..MaxGestures
        /\ pass' \in [todo : SUBSET Blob, copying : Blob \cup {Nothing}]
    BY <1>1, <1>7 DEF BeginStore, EndStore, Purge, TypeOK, NoPass
  <2> QED
    BY <1>1, <1>7, <2>1, MirrorSteps DEF BeginStore, EndStore, Purge, TypeOK
<1> QED
  BY <1>2, <1>3, <1>4, <1>5, <1>6, <1>7 DEF MirrorStep

LEMMA BeginBackupKeeps ==
  ASSUME BInv, BeginBackup
  PROVE  BInv'
<1> DEFINE nm == FreeName(now)
<1>1. /\ now \in 0..MaxSecond /\ snapshots \in [Name -> Snapshot] /\ taken \in Seq(Name)
      /\ SnapshotsInOrder /\ LastKept
  BY DEF BInv, TypeOK
<1>2. nm \in Name /\ nm[1] = now /\ snapshots[nm] = "none"
  BY <1>1, FreeNameIsFree DEF BeginBackup
<1>3. /\ backup' = [at |-> "copying", name |-> nm] /\ taken' = taken /\ now' = now
      /\ snapshots' = [snapshots EXCEPT ![nm] = "partial"]
  BY DEF BeginBackup
<1> HIDE DEF nm
<1>4. TypeOK'
  <2>1. backup' \in [at : {"sleeping", "copying", "rotating"}, name : Name]
    BY <1>2, <1>3
  <2>2. snapshots' \in [Name -> Snapshot]
    BY <1>1, <1>3 DEF Snapshot
  <2> QED
    BY <1>1, <1>3, <2>1, <2>2 DEF BInv, TypeOK, BeginBackup, mirrorVars
<1>5. /\ \A x \in Name : x # nm => snapshots'[x] = snapshots[x]
      /\ snapshots'[nm] = "partial"
  BY <1>1, <1>2, <1>3
<1>6. SnapshotsInOrder'
  BY <1>1, <1>2, <1>3, <1>5 DEF SnapshotsInOrder, Existing
<1>7. BackupUnderWay'
  BY <1>3, <1>5 DEF BackupUnderWay
<1>8. LastKept'
  <2> SUFFICES ASSUME PerSecond <= Keep, taken # <<>>
               PROVE  snapshots'[Last(taken)] = "verified"
    BY <1>3 DEF LastKept, LastBackupIsKept
  <2>1. snapshots[Last(taken)] = "verified" /\ Last(taken) \in Name
    BY <1>1, LastIsName DEF LastKept, LastBackupIsKept
  <2> QED
    BY <1>2, <1>5, <2>1
<1> QED
  BY <1>4, <1>6, <1>7, <1>8 DEF BInv

LEMMA VerifyKeeps ==
  ASSUME BInv, Verify
  PROVE  BInv'
<1> DEFINE nm == backup.name
<1>1. /\ now \in 0..MaxSecond /\ snapshots \in [Name -> Snapshot] /\ taken \in Seq(Name)
      /\ SnapshotsInOrder /\ BackupUnderWay
      /\ backup \in [at : {"sleeping", "copying", "rotating"}, name : Name]
  BY DEF BInv, TypeOK
<1>2. nm \in Name /\ backup.at = "copying" /\ snapshots[nm] = "partial"
  BY <1>1 DEF Verify, BackupUnderWay
<1>3. /\ snapshots' = [snapshots EXCEPT ![nm] = "verified"]
      /\ taken' = Append(taken, nm) /\ now' = now
      /\ backup' = [backup EXCEPT !.at = "rotating"]
  BY DEF Verify
<1>4. /\ backup'.at = "rotating" /\ backup'.name = nm
      /\ backup' \in [at : {"sleeping", "copying", "rotating"}, name : Name]
  BY <1>1, <1>3
<1> HIDE DEF nm
<1>5. taken' \in Seq(Name) /\ taken' # <<>> /\ Last(taken') = nm
  BY <1>1, <1>2, <1>3, LastAppended
<1>6. /\ snapshots' \in [Name -> Snapshot] /\ snapshots'[nm] = "verified"
      /\ Existing(snapshots') = Existing(snapshots)
  BY <1>1, <1>2, <1>3 DEF Snapshot, Existing
<1>7. TypeOK'
  BY <1>1, <1>3, <1>4, <1>5, <1>6 DEF BInv, TypeOK, Verify, mirrorVars
<1>8. SnapshotsInOrder'
  BY <1>1, <1>2, <1>3, <1>4, <1>6 DEF SnapshotsInOrder, nm
<1>9. BackupUnderWay' /\ LastKept'
  BY <1>4, <1>5, <1>6 DEF BackupUnderWay, LastKept, LastBackupIsKept
<1> QED
  BY <1>7, <1>8, <1>9 DEF BInv

(* A failed backup takes away its own file, or nothing. *)
LEMMA FailureKeeps ==
  ASSUME BInv, Refuse \/ CopyRaises \/ ServerRestarts
  PROVE  BInv'
<1>1. /\ now \in 0..MaxSecond /\ snapshots \in [Name -> Snapshot] /\ taken \in Seq(Name)
      /\ SnapshotsInOrder /\ BackupUnderWay /\ LastKept
      /\ backup \in [at : {"sleeping", "copying", "rotating"}, name : Name]
      /\ MaxFaults \in Nat
  BY BackupAssumption DEF BInv, TypeOK
<1>2. /\ backup' = NoBackup /\ taken' = taken /\ now' = now
      /\ UNCHANGED <<stored, mirror, gestures>>
      /\ faults < MaxFaults /\ faults' = faults + 1 /\ (pass' = pass \/ pass' = NoPass)
      /\ torn' = torn \/ torn' = torn \cup CutShort
  BY DEF Refuse, CopyRaises, ServerRestarts, mirrorVars
<1>3. /\ snapshots' \in [Name -> Snapshot]
      /\ Existing(snapshots') \subseteq Existing(snapshots)
      /\ \A nm \in Name : snapshots[nm] = "verified" => snapshots'[nm] = "verified"
  <2>1. CASE Refuse
    <3>1. backup.name \in Name /\ snapshots[backup.name] = "partial"
          /\ snapshots' = [snapshots EXCEPT ![backup.name] = "none"]
      BY <1>1, <2>1 DEF Refuse, BackupUnderWay
    <3> QED
      BY <1>1, <3>1 DEF Snapshot, Existing
  <2>2. CASE CopyRaises \/ ServerRestarts
    BY <1>1, <2>2 DEF CopyRaises, ServerRestarts
  <2> QED
    BY <2>1, <2>2
<1>4. NoBackup \in [at : {"sleeping", "copying", "rotating"}, name : Name]
      /\ NoBackup.at = "sleeping"
  BY BackupAssumption DEF NoBackup, Name
<1>5. TypeOK'
  <2>1. faults' \in 0..MaxFaults
    BY <1>1, <1>2 DEF BInv, TypeOK
  <2>2. pass' \in [todo : SUBSET Blob, copying : Blob \cup {Nothing}]
    BY <1>2 DEF BInv, TypeOK, NoPass
  <2>3. torn' \subseteq Blob
    BY <1>2 DEF BInv, TypeOK, CutShort
  <2> QED
    BY <1>1, <1>2, <1>3, <1>4, <2>1, <2>2, <2>3 DEF BInv, TypeOK
<1>6. SnapshotsInOrder'
  BY <1>1, <1>2, <1>3, <1>4 DEF SnapshotsInOrder
<1>7. BackupUnderWay'
  BY <1>2, <1>4 DEF BackupUnderWay
<1>8. LastKept'
  BY <1>1, <1>2, <1>3, LastIsName DEF LastKept, LastBackupIsKept
<1> QED
  BY <1>5, <1>6, <1>7, <1>8 DEF BInv

(* The rotation spares the snapshot that has just been verified. *)
LEMMA RotateKeeps ==
  ASSUME BInv, Rotate
  PROVE  BInv'
<1> DEFINE nm == backup.name
<1>1. /\ now \in 0..MaxSecond /\ snapshots \in [Name -> Snapshot] /\ taken \in Seq(Name)
      /\ SnapshotsInOrder /\ BackupUnderWay /\ LastKept
      /\ backup \in [at : {"sleeping", "copying", "rotating"}, name : Name]
  BY DEF BInv, TypeOK
<1>2. /\ nm \in Name /\ taken # <<>> /\ Last(taken) = nm
      /\ PerSecond <= Keep => snapshots[nm] = "verified"
      /\ \A x \in Existing(snapshots) : x[1] <= nm[1]
  BY <1>1 DEF Rotate, BackupUnderWay, LastKept, LastBackupIsKept, SnapshotsInOrder
<1>3. /\ snapshots' = [x \in Name |-> IF x \in Stale(snapshots) THEN "none" ELSE snapshots[x]]
      /\ backup' = NoBackup /\ taken' = taken /\ now' = now
  BY DEF Rotate
<1>4. NoBackup \in [at : {"sleeping", "copying", "rotating"}, name : Name]
      /\ NoBackup.at = "sleeping"
  BY BackupAssumption DEF NoBackup, Name
<1> HIDE DEF nm
<1>5. PerSecond <= Keep => nm \notin Stale(snapshots)
  <2> SUFFICES ASSUME PerSecond <= Keep PROVE nm \notin Stale(snapshots)
    OBVIOUS
  <2>1. Existing(snapshots) \in SUBSET Name
    BY DEF Existing
  <2>2. Cardinality({x \in Existing(snapshots) : SortsBefore(nm, x)}) < PerSecond
    BY <1>2, <2>1, FewSortAfter
  <2>3. IsFiniteSet({x \in Existing(snapshots) : SortsBefore(nm, x)})
    <3>1. IsFiniteSet(0..MaxSecond) /\ IsFiniteSet(0..(PerSecond - 1))
      BY BackupAssumption, FS_Interval
    <3>2. IsFiniteSet(Name)
      BY <3>1, FS_Product DEF Name
    <3>3. {x \in Existing(snapshots) : SortsBefore(nm, x)} \in SUBSET Name
      BY <2>1
    <3> QED
      BY <3>2, <3>3, FS_Subset
  <2>4. Cardinality({x \in Existing(snapshots) : SortsBefore(nm, x)}) \in Nat
    BY <2>3, FS_CardinalityType
  <2>5. ~(Cardinality({x \in Existing(snapshots) : SortsBefore(nm, x)}) >= Keep)
    BY <2>2, <2>4, BackupAssumption
  <2> QED
    BY <2>5 DEF Stale
<1>6. /\ snapshots' \in [Name -> Snapshot]
      /\ PerSecond <= Keep => snapshots'[nm] = "verified"
      /\ Existing(snapshots') \subseteq Existing(snapshots)
  BY <1>1, <1>2, <1>3, <1>5 DEF Snapshot, Existing
<1>7. TypeOK'
  BY <1>1, <1>3, <1>4, <1>6 DEF BInv, TypeOK, Rotate, mirrorVars
<1>8. SnapshotsInOrder'
  BY <1>1, <1>3, <1>4, <1>6 DEF SnapshotsInOrder
<1>9. BackupUnderWay' /\ LastKept'
  BY <1>2, <1>3, <1>4, <1>6 DEF BackupUnderWay, LastKept, LastBackupIsKept
<1> QED
  BY <1>7, <1>8, <1>9 DEF BInv

LEMMA TickKeeps ==
  ASSUME BInv, Tick
  PROVE  BInv'
<1>1. now \in 0..MaxSecond /\ MaxSecond \in Nat /\ now' = now + 1 /\ now' \in 0..MaxSecond
  BY BackupAssumption DEF BInv, TypeOK, Tick
<1>2. TypeOK' /\ BackupUnderWay' /\ LastKept'
  BY <1>1 DEF BInv, TypeOK, BackupUnderWay, LastKept, LastBackupIsKept, Tick, snapshotVars, mirrorVars
<1>3. SnapshotsInOrder'
  <2>1. \A nm \in Existing(snapshots) : nm[1] \in Nat /\ nm[1] <= now
    BY NameParts DEF BInv, SnapshotsInOrder, Existing
  <2> QED
    BY <1>1, <2>1 DEF BInv, SnapshotsInOrder, Tick, snapshotVars, Existing
<1> QED
  BY <1>2, <1>3 DEF BInv

LEMMA BackupInvariance == Spec => []BInv
<1>1. Init => BInv
  <2> SUFFICES ASSUME Init PROVE BInv
    OBVIOUS
  <2>1. TypeOK
    BY BackupAssumption DEF Init, TypeOK, NoBackup, NoPass, Snapshot, Name, File
  <2>2. Existing(snapshots) = {}
    BY DEF Init, Existing
  <2> QED
    BY <2>1, <2>2 DEF Init, BInv, SnapshotsInOrder, BackupUnderWay, LastKept,
                       LastBackupIsKept, NoBackup
<1>2. BInv /\ [Next]_vars => BInv'
  <2> SUFFICES ASSUME BInv, [Next]_vars PROVE BInv'
    OBVIOUS
  <2>1. CASE UNCHANGED vars
    BY <2>1 DEF vars, snapshotVars, mirrorVars, BInv, TypeOK, SnapshotsInOrder, BackupUnderWay,
                LastKept, LastBackupIsKept, Existing
  <2> QED
    BY <2>1, BeginBackupKeeps, VerifyKeeps, FailureKeeps, RotateKeeps, MirrorKeeps, TickKeeps
       DEF Next, SnapshotStep
<1> QED
  BY <1>1, <1>2, PTL DEF Spec

(* The snapshots, the passes of the mirror and the bounds keep their types. *)
THEOREM BackupTypeCorrect == Spec => []TypeOK
<1>1. BInv => TypeOK
  BY DEF BInv
<1> QED
  BY <1>1, BackupInvariance, PTL

(* Once a backup has been verified, a verified one is there to restore:    *)
(* the rotation of _rotate_snapshots, which sorts names and knows nothing  *)
(* of what they hold, never takes the last one, however many backups were  *)
(* refused, interrupted or left half written, as long as a second sees no  *)
(* more backups than are kept.                                             *)
THEOREM LastBackupStays == PerSecond <= Keep => (Spec => []LastBackupIsKept)
<1> SUFFICES ASSUME PerSecond <= Keep PROVE Spec => []LastBackupIsKept
  OBVIOUS
<1>1. BInv => LastBackupIsKept
  BY DEF BInv, LastKept
<1> QED
  BY <1>1, BackupInvariance, PTL
=============================================================================
