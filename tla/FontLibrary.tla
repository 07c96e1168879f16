----------------------------- MODULE FontLibrary -----------------------------
(***************************************************************************)
(* The server's library: the rows of the tables fonts, devices and         *)
(* device_fonts, the stored font files, and the handlers that change them. *)
(* Each handler is one step here (one transaction); a font is its hash.    *)
(*                                                                         *)
(* The declarations are arbitrary: this module states what the server      *)
(* guarantees whatever the devices say.                                    *)
(*                                                                         *)
(* Times are kept as what the code compares them for.  "Declared since f   *)
(* was deleted" (last_declaration_at > deleted_at) is the set              *)
(* seenDeletion[f] of devices, "declared since the candidacy opened" is    *)
(* seenCandidacy[f]; "older than the grace period" and "older than the     *)
(* retention" are membership in ripe and expired, entered by steps of      *)
(* their own.  A NULL last_declaration_at is being in no such set.         *)
(***************************************************************************)
EXTENDS Integers, FiniteSets

CONSTANTS
  Device,           \* device identities (devices.id)
  Font,             \* font files, by content (fonts.file_hash)
  Valid,            \* the files whose extension and header import_font accepts
  FaceOf,           \* the face (family, style) each font file draws
  MinFonts,         \* settings.deletion_propagation_min_fonts
  MaxFonts,         \* settings.deletion_propagation_max_fonts
  RatioNum,         \* settings.deletion_propagation_max_ratio is
  RatioDen,         \*   RatioNum / RatioDen
  MaxPerPass,       \* settings.tombstone_harvest_max_per_pass
  HarvestEnabled    \* settings.tombstone_harvest_enabled

ASSUME LimitsAssumption ==
  /\ MinFonts \in Nat /\ MaxFonts \in Nat
  /\ RatioNum \in Nat /\ RatioDen \in Nat \ {0}
  /\ MaxPerPass \in Nat

ASSUME ValidAssumption == Valid \subseteq Font

ASSUME HarvestAssumption == HarvestEnabled \in BOOLEAN

VARIABLES
  db,      \* the database
  blobs    \* the fonts whose file is in the storage

vars == <<db, blobs>>

Database ==
  [rows          : SUBSET Font,   \* fonts: one row per known hash
   deleted       : SUBSET Font,   \* deleted_at IS NOT NULL
   confirmed     : SUBSET Font,   \* deletion_confirmed
   purged        : SUBSET Font,   \* purged_at IS NOT NULL
   expired       : SUBSET Font,   \* deleted_at older than the retention
   candidate     : SUBSET Font,   \* harvest_candidate_since IS NOT NULL
   ripe          : SUBSET Font,   \* harvest_candidate_since older than the grace
   seenDeletion  : [Font -> SUBSET Device],  \* declared since deleted_at
   seenCandidacy : [Font -> SUBSET Device],  \* declared since the candidacy
   holds         : SUBSET (Device \X Font),  \* device_fonts rows
   systemOnly    : SUBSET (Device \X Font),  \* ... with ingestible = 0
   inactive      : SUBSET (Device \X Font),  \* ... with active = 0
   devices       : SUBSET Device, \* rows of devices
   retired       : SUBSET Device] \* ... with deleted_at IS NOT NULL

Init ==
  /\ db = [rows |-> {}, deleted |-> {}, confirmed |-> {}, purged |-> {},
           expired |-> {}, candidate |-> {}, ripe |-> {},
           seenDeletion |-> [f \in Font |-> {}],
           seenCandidacy |-> [f \in Font |-> {}],
           holds |-> {}, systemOnly |-> {}, inactive |-> {},
           devices |-> {}, retired |-> {}]
  /\ blobs = {}

-----------------------------------------------------------------------------
(* Reading the database. *)

Live(s) == s.devices \ s.retired

Active(s) == s.rows \ s.deleted

HeldBy(s, d) == {f \in Font : <<d, f>> \in s.holds}

IngestibleHolders(s, f) ==
  {d \in Device : <<d, f>> \in s.holds /\ <<d, f>> \notin s.systemOnly}

(* Parts shared by several handlers. *)

Release(s, pairs) ==
  [s EXCEPT !.holds = @ \ pairs, !.systemOnly = @ \ pairs, !.inactive = @ \ pairs]

Bury(s, F) ==   \* deleted_at = now on the rows F
  [s EXCEPT !.deleted = @ \cup F,
            !.expired = @ \ F,
            !.seenDeletion = [f \in Font |-> IF f \in F THEN {} ELSE @[f]]]

Withdraw(s, F) ==   \* harvest_candidate_since = NULL on the rows F
  [s EXCEPT !.candidate = @ \ F,
            !.ripe = @ \ F,
            !.seenCandidacy = [f \in Font |-> IF f \in F THEN {} ELSE @[f]]]

(* Mutant: the pair is written the wrong way round. *)
MutantAssociate(s, d, f) == [s EXCEPT !.holds = @ \cup {<<f, d>>}]

(* register_device_font: a row that exists only has its path updated. *)
Associate(s, d, f) == [s EXCEPT !.holds = @ \cup {<<d, f>>}]

-----------------------------------------------------------------------------
(* Detection of local deletions. *)

PropagationLimit(n) ==
  LET byRatio == (n * RatioNum) \div RatioDen
      capped  == IF byRatio < MaxFonts THEN byRatio ELSE MaxFonts
  IN  IF MinFonts > capped THEN MinFonts ELSE capped

(* Mutant: fonts already deleted are detected again. *)
MutantDisappeared(s, d, decl) == HeldBy(s, d) \ decl

Disappeared(s, d, decl) == (HeldBy(s, d) \cap Active(s)) \ decl

Suspicious(s, d, decl) ==
  Cardinality(Disappeared(s, d, decl)) > PropagationLimit(Cardinality(decl))

Detect(s, d, decl) ==
  LET gone   == Disappeared(s, d, decl)
      buried == Bury(Release(s, {d} \X gone), gone)
  IN  [buried EXCEPT !.confirmed = IF Suspicious(s, d, decl)
                                   THEN @ \ gone ELSE @ \cup gone]

(* Mutant: a deleted font that a device still declares is not an arrival. *)
MutantArrivals(s, d, decl, ingestible) ==
  LET held     == HeldBy(s, d)
      arrivals == (decl \cap Active(s)) \ held
      declared == arrivals \cup (held \cap decl)
      kept     == Release(s, {d} \X ((held \cap s.deleted) \ decl))
  IN  [kept EXCEPT
         !.holds = @ \cup ({d} \X arrivals),
         !.systemOnly = (@ \ ({d} \X declared)) \cup ({d} \X (declared \ ingestible))]

(* Mutant: an arrival leaves the candidacy open. *)
MutantReconcile(s, d, decl, ingestible) ==
  LET held     == HeldBy(s, d)
      arrivals == (decl \cap s.rows) \ held
      declared == arrivals \cup (held \cap decl)
      kept     == Release(s, {d} \X ((held \cap s.deleted) \ decl))
  IN  [kept EXCEPT
         !.holds = @ \cup ({d} \X arrivals),
         !.systemOnly = (@ \ ({d} \X declared)) \cup ({d} \X (declared \ ingestible))]

(* The inventory becomes the mirror of the declaration. *)
Reconcile(s, d, decl, ingestible) ==
  LET held       == HeldBy(s, d)
      arrivals   == (decl \cap s.rows) \ held
      departures == (held \cap s.deleted) \ decl
      declared   == arrivals \cup (held \cap decl)
      kept       == Withdraw(Release(s, {d} \X departures), arrivals \cap s.deleted)
  IN  [kept EXCEPT
         !.holds = @ \cup ({d} \X arrivals),
         !.systemOnly = (@ \ ({d} \X declared)) \cup ({d} \X (declared \ ingestible))]

(* last_declaration_at = now. *)
Stamp(s, d) ==
  [s EXCEPT
     !.seenDeletion = [f \in Font |-> IF f \in s.deleted THEN @[f] \cup {d} ELSE @[f]],
     !.seenCandidacy = [f \in Font |-> IF f \in s.candidate THEN @[f] \cup {d} ELSE @[f]]]

-----------------------------------------------------------------------------
(* Harvest of the tombstones. *)

(* Guards G3, G4, G5 and G6, which both phases share. *)
Orphans(s) ==
  {f \in s.deleted \cap s.purged \cap s.confirmed :
     Live(s) # {} /\ IngestibleHolders(s, f) = {}}

(* Phase 1: G7, every live device has declared since the deletion. *)
OpenCandidacies(s) ==
  LET opened == {f \in Orphans(s) \ s.candidate : Live(s) \subseteq s.seenDeletion[f]}
  IN  [s EXCEPT !.candidate = @ \cup opened,
                !.ripe = @ \ opened,
                !.seenCandidacy = [f \in Font |-> IF f \in opened THEN {} ELSE @[f]]]

(* Mutant: the grace period alone makes a candidate harvestable. *)
MutantHarvestable(s) == Orphans(s) \cap s.candidate \cap s.ripe

(* Phase 2: G8, the grace period is over and every live device has declared *)
(* since the candidacy opened.                                              *)
Harvestable(s) ==
  {f \in Orphans(s) \cap s.candidate \cap s.ripe : Live(s) \subseteq s.seenCandidacy[f]}

(* G9: LIMIT without ORDER BY. *)
HarvestPasses(s) ==
  LET ready == Harvestable(s)
      n     == Cardinality(ready)
  IN  {H \in SUBSET ready : Cardinality(H) = IF n < MaxPerPass THEN n ELSE MaxPerPass}

(* Mutant: the associations of a harvested font stay. *)
MutantDeleteFonts(s, H) ==
  LET t == Withdraw(s, H)
  IN  [t EXCEPT !.rows = @ \ H, !.deleted = @ \ H, !.confirmed = @ \ H,
                !.purged = @ \ H, !.expired = @ \ H,
                !.seenDeletion = [f \in Font |-> IF f \in H THEN {} ELSE @[f]]]

DeleteFonts(s, H) ==
  LET t == Release(Withdraw(s, H), Device \X H)
  IN  [t EXCEPT !.rows = @ \ H, !.deleted = @ \ H, !.confirmed = @ \ H,
                !.purged = @ \ H, !.expired = @ \ H,
                !.seenDeletion = [f \in Font |-> IF f \in H THEN {} ELSE @[f]]]

(* harvest_tombstones: disabled, it only counts. *)
HarvestOutcomes(s) ==
  IF HarvestEnabled
  THEN LET opened == OpenCandidacies(s)
       IN  {DeleteFonts(opened, H) : H \in HarvestPasses(opened)}
  ELSE {s}

-----------------------------------------------------------------------------
(* POST /sync/delta.  An empty declaration changes nothing. *)

(* Too many disappearances: quarantined, unconfirmed, and nothing else. *)
SuspiciousDelta(d, decl) ==
  /\ d \in Live(db)
  /\ decl # {}
  /\ Suspicious(db, d, decl)
  /\ db' = Detect(db, d, decl)
  /\ UNCHANGED blobs

CredibleDelta(d, decl, ingestible) ==
  /\ d \in Live(db)
  /\ decl # {}
  /\ ~Suspicious(db, d, decl)
  /\ db' \in HarvestOutcomes(
                Stamp(Reconcile(Detect(db, d, decl), d, decl, ingestible), d))
  /\ UNCHANGED blobs

(* The answer, computed after the commit. *)
UnknownToServer(s, ingestible) == ingestible \ s.rows
MissingOnDevice(s, decl) == Active(s) \ decl
ToUninstall(s, decl) == decl \cap s.deleted \cap s.confirmed
ToDeactivate(s, d, decl) ==
  {f \in decl \cap Active(s) : <<d, f>> \in s.inactive}

-----------------------------------------------------------------------------
(* Imports. *)

(* Mutant: the woken row stays a confirmed deletion. *)
MutantRevive(s, f) ==
  Release([s EXCEPT !.deleted = @ \ {f}, !.purged = @ \ {f},
                    !.expired = @ \ {f}, !.seenDeletion[f] = {}],
          Device \X {f})

Revive(s, f) ==
  Release([s EXCEPT !.deleted = @ \ {f}, !.confirmed = @ \ {f}, !.purged = @ \ {f},
                    !.expired = @ \ {f}, !.seenDeletion[f] = {}],
          Device \X {f})

(* import_font on a valid file; only an upload wakes a deleted row. *)
Import(s, f, reviveDeleted) ==
  IF f \notin s.rows THEN [s EXCEPT !.rows = @ \cup {f}]
  ELSE IF reviveDeleted /\ f \in s.deleted THEN Revive(s, f)
  ELSE s

ImportedFiles(s, f, reviveDeleted) ==
  IF f \notin s.rows \/ (reviveDeleted /\ f \in s.purged) THEN {f} ELSE {}

Upload(f) ==
  /\ f \in Valid
  /\ f \notin Active(db)        \* otherwise a plain duplicate: nothing changes
  /\ db' = Import(db, f, TRUE)
  /\ blobs' = blobs \cup ImportedFiles(db, f, TRUE)

Push(d, f) ==
  /\ d \in Live(db)
  /\ f \in Valid
  /\ f \notin Import(db, f, FALSE).deleted     \* otherwise refused_deleted
  /\ db' = Associate(Import(db, f, FALSE), d, f)
  /\ blobs' = blobs \cup ImportedFiles(db, f, FALSE)

Pull(d, f) ==
  /\ d \in Live(db)
  /\ f \in Active(db) \cap blobs
  /\ db' = Associate(db, d, f)
  /\ UNCHANGED blobs

-----------------------------------------------------------------------------
(* The user's gestures on fonts. *)

ToTrash(s, F) ==
  LET t == Release(Bury(s, F), Device \X F)
  IN  [t EXCEPT !.confirmed = @ \cup F]

DeleteFont(f) ==
  /\ f \in Active(db)
  /\ db' = ToTrash(db, {f})
  /\ UNCHANGED blobs

(* The redundant files of some faces; each face keeps a file, or several    *)
(* when they cover several styles.  Which one ranks first is left open.     *)
ResolveDuplicates(F) ==
  /\ F # {}
  /\ F \subseteq Active(db)
  /\ \A f \in F : \E keeper \in Active(db) \ F : FaceOf[keeper] = FaceOf[f]
  /\ db' = ToTrash(db, F)
  /\ UNCHANGED blobs

(* Mutant: the associations survive the restoration. *)
MutantRestoreFont(f) ==
  /\ f \in db.deleted \ db.purged
  /\ db' = [db EXCEPT !.deleted = @ \ {f}, !.confirmed = @ \ {f},
                      !.expired = @ \ {f}, !.seenDeletion[f] = {}]
  /\ UNCHANGED blobs

RestoreFont(f) ==
  /\ f \in db.deleted \ db.purged
  /\ db' = Release([db EXCEPT !.deleted = @ \ {f}, !.confirmed = @ \ {f},
                              !.expired = @ \ {f}, !.seenDeletion[f] = {}],
                   Device \X {f})
  /\ UNCHANGED blobs

Pending(s) == s.deleted \ s.confirmed

ConfirmPendingDeletions ==
  /\ Pending(db) # {}
  /\ db' = [db EXCEPT !.confirmed = @ \cup Pending(db)]
  /\ UNCHANGED blobs

(* Mutant: a row is marked purged though the storage failed. *)
MutantPurgeFiles(F, failed) ==
  /\ F \ failed # {}
  /\ db' = [db EXCEPT !.purged = @ \cup F]
  /\ blobs' = blobs \ (F \ failed)

(* purge_font over the rows F, of which the storage fails to delete some. *)
PurgeFiles(F, failed) ==
  /\ F \ failed # {}
  /\ db' = [db EXCEPT !.purged = @ \cup (F \ failed)]
  /\ blobs' = blobs \ (F \ failed)

Purgeable(s) == (s.deleted \cap s.confirmed) \ s.purged

EmptyTrash(failed) == PurgeFiles(Purgeable(db), failed)

PurgeFont(f) == f \in Purgeable(db) /\ PurgeFiles({f}, {})

PurgeExpired(failed) == PurgeFiles(Purgeable(db) \cap db.expired, failed)

ActivateFont(d, f) ==
  /\ d \in Live(db)
  /\ f \in Active(db)
  /\ <<d, f>> \in db.holds
  /\ db' = [db EXCEPT !.inactive = @ \ {<<d, f>>}]
  /\ UNCHANGED blobs

DeactivateFont(d, f) ==
  /\ d \in Live(db)
  /\ f \in Active(db)
  /\ <<d, f>> \in db.holds
  /\ db' = [db EXCEPT !.inactive = @ \cup {<<d, f>>}]
  /\ UNCHANGED blobs

-----------------------------------------------------------------------------
(* Devices. *)

RegisterDevice(d) ==
  /\ d \notin Live(db)
  /\ db' = [db EXCEPT !.devices = @ \cup {d}, !.retired = @ \ {d}]
  /\ UNCHANGED blobs

DeleteDevice(d) ==
  /\ d \in Live(db)
  /\ db' = [db EXCEPT !.retired = @ \cup {d}]
  /\ UNCHANGED blobs

(* The target takes the associations it lacks, with the columns' defaults. *)
MergeDevices(target, sources) ==
  LET moved == UNION {HeldBy(db, src) : src \in sources} \ HeldBy(db, target)
      freed == Release(db, sources \X Font)
  IN  /\ target \in Live(db)
      /\ sources # {}
      /\ sources \subseteq Live(db) \ {target}
      /\ db' = [freed EXCEPT !.holds = @ \cup ({target} \X moved),
                             !.retired = @ \cup sources]
      /\ UNCHANGED blobs

-----------------------------------------------------------------------------
(* The passing of time. *)

GraceElapses(f) ==
  /\ f \in db.candidate \ db.ripe
  /\ db' = [db EXCEPT !.ripe = @ \cup {f}]
  /\ UNCHANGED blobs

RetentionElapses(f) ==
  /\ f \in (db.deleted \ db.purged) \ db.expired
  /\ db' = [db EXCEPT !.expired = @ \cup {f}]
  /\ UNCHANGED blobs

-----------------------------------------------------------------------------
DeviceStep(d) ==
  \/ RegisterDevice(d)
  \/ DeleteDevice(d)
  \/ \E decl \in SUBSET Font : SuspiciousDelta(d, decl)
  \/ \E decl \in SUBSET Font : \E ingestible \in SUBSET decl :
       CredibleDelta(d, decl, ingestible)
  \/ \E f \in Font : Push(d, f)
  \/ \E f \in Font : Pull(d, f)
  \/ \E f \in Font : ActivateFont(d, f)
  \/ \E f \in Font : DeactivateFont(d, f)
  \/ \E sources \in SUBSET Device : MergeDevices(d, sources)

FontStep(f) ==
  \/ Upload(f)
  \/ DeleteFont(f)
  \/ RestoreFont(f)
  \/ PurgeFont(f)
  \/ GraceElapses(f)
  \/ RetentionElapses(f)

BulkStep ==
  \/ ConfirmPendingDeletions
  \/ \E F \in SUBSET Font : ResolveDuplicates(F)
  \/ \E failed \in SUBSET Purgeable(db) : EmptyTrash(failed)
  \/ \E failed \in SUBSET Purgeable(db) : PurgeExpired(failed)

Next ==
  \/ \E d \in Device : DeviceStep(d)
  \/ \E f \in Font : FontStep(f)
  \/ BulkStep

Spec == Init /\ [][Next]_vars

-----------------------------------------------------------------------------
(* Type invariant: every column keeps its type. *)
TypeOK ==
  /\ db \in Database
  /\ blobs \in SUBSET Font

RowsAgree(s) ==
  /\ s.purged \subseteq s.confirmed
  /\ s.confirmed \subseteq s.deleted
  /\ s.deleted \subseteq s.rows

RegistryAgrees(s) ==
  /\ s.holds \subseteq s.devices \X s.rows
  /\ s.systemOnly \subseteq s.holds
  /\ s.inactive \subseteq s.holds
  /\ s.ripe \subseteq s.candidate
  /\ s.candidate \subseteq s.rows
  /\ s.retired \subseteq s.devices

(* The three columns that tell where a font is in its life agree: a purged  *)
(* row is a confirmed deletion, a confirmed row is a deletion.  Nothing     *)
(* pending is ever purged, hence ever harvested (PLAN-ETATS-FONTS 3.3), and *)
(* a restored font keeps no trace of its deletion.                          *)
LifecycleConsistent == RowsAgree(db)

(* Every row that is not purged has its file: an active font can be pulled, *)
(* a font in the trash or awaiting confirmation can be restored.  And no    *)
(* other file stays behind, harvest included.                               *)
FilesKept == blobs = db.rows \ db.purged

(* Associations and candidacies belong to rows: harvest leaves no dangling  *)
(* device_fonts line (foreign keys are enforced), and the flags of an       *)
(* association do not outlive it.                                           *)
RegistryConsistent == RegistryAgrees(db)

(* Deletions that spread: what devices that declare it are told to remove. *)
Condemned(s) == s.deleted \cap s.confirmed

(* The thresholds of detect_local_deletions: no declaration has more fonts  *)
(* removed from the other devices than the larger of the two absolute       *)
(* limits, and a suspicious one has none removed.                           *)
DeltasAreContained ==
  [][\A d \in Device, decl \in SUBSET Font : \A ingestible \in SUBSET decl :
       /\ SuspiciousDelta(d, decl) => Condemned(db') \subseteq Condemned(db)
       /\ CredibleDelta(d, decl, ingestible) =>
            \E n \in {MinFonts, MaxFonts} :
              Cardinality(Condemned(db') \ Condemned(db)) <= n]_vars

-----------------------------------------------------------------------------
(* The library implements the life cycle of each font. *)

StatusOf(s, f) ==
  CASE f \in s.purged                 -> "tombstone"
    [] f \in s.confirmed \ s.purged  -> "trash"
    [] f \in s.deleted \ s.confirmed -> "pending"
    [] f \in s.rows \ s.deleted      -> "library"
    [] OTHER                         -> "unknown"

Lifecycle == INSTANCE FontLifecycle WITH
  status <- [f \in Font |-> StatusOf(db, f)], stored <- blobs

(* Whatever the devices declare and the user does, a font moves through its *)
(* life only along the transitions of FontLifecycle, its file with it.      *)
ImplementsLifecycle == Lifecycle!Spec
=============================================================================
