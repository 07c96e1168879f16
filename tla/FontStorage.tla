----------------------------- MODULE FontStorage -----------------------------
(***************************************************************************)
(* The handlers that touch the font files, cut where they let others run.  *)
(* FontLibrary takes each of them as one step; here a request reads its    *)
(* row, works on the storage and commits later, while other requests, a    *)
(* restart of the server or a failure come in between.                     *)
(*                                                                         *)
(* A read starts no transaction (the driver begins one at the first        *)
(* write), so nothing a request has read is locked until it commits.  A    *)
(* commit writes only the columns whose value differs from what was read.  *)
(***************************************************************************)
EXTENDS Integers, FiniteSets

CONSTANTS
  Font,        \* font files, by content
  Uploaders,   \* requests POST /fonts/upload
  Pushers,     \* requests POST /sync/push
  Purgers,     \* passes of the purge: one font, the trash, what has expired
  Editors,     \* requests restoring a font or confirming the deletions
  MaxFaults    \* bound on restarts and failures

Importers == Uploaders \cup Pushers
Request   == Importers \cup Purgers \cup Editors

ASSUME RequestAssumption ==
  /\ Uploaders \cap Pushers = {}
  /\ Importers \cap (Purgers \cup Editors) = {}
  /\ Purgers \cap Editors = {}

ASSUME FaultsAssumption == MaxFaults \in Nat

VARIABLES
  rows,     \* the fonts that have a row
  marks,    \* the columns of a row that are set
  file,     \* the state of the file in the storage
  work,     \* what each request is doing
  cut,      \* history: fonts whose file a request had removed or opened when it
            \*   was interrupted, and that have not been written again since
  faults    \* restarts and failures so far

vars == <<rows, marks, file, work, cut, faults>>

Column == {"deleted", "confirmed", "purged"}

FileState == {"absent", "partial", "whole"}

Steps == {"idle", "create", "write", "insert", "recheck", "cleanup",
          "recreate", "rewrite", "wake", "remove", "restore", "confirm"}

Work ==
  [at      : Steps,
   fonts   : SUBSET Font,   \* the fonts in hand
   emptied : SUBSET Font,   \* of a purge: those whose file is gone
   lost    : SUBSET Font,   \* those whose row, read before, has been harvested
   seen    : SUBSET Column, \* the columns of the row, as read
   unlinked : BOOLEAN]      \* the file it has open has been removed

(* Mutant: the arguments are swapped. *)
MutantBegin(step, F, seen) ==
  [at |-> step, fonts |-> seen, emptied |-> {}, lost |-> {}, seen |-> F,
   unlinked |-> FALSE]

Begin(step, F, seen) ==
  [at |-> step, fonts |-> F, emptied |-> {}, lost |-> {}, seen |-> seen,
   unlinked |-> FALSE]

Idle == Begin("idle", {}, {})

Init ==
  /\ rows = {}
  /\ marks = [f \in Font |-> {}]
  /\ file = [f \in Font |-> "absent"]
  /\ work = [r \in Request |-> Idle]
  /\ cut = {}
  /\ faults = 0

-----------------------------------------------------------------------------
Active == {f \in rows : "deleted" \notin marks[f]}

Purgeable == {f \in rows : {"deleted", "confirmed"} \subseteq marks[f]
                             /\ "purged" \notin marks[f]}

At(r, step, f) == work[r].at = step /\ f \in work[r].fonts

Goto(r, step) == work' = [work EXCEPT ![r].at = step]

Done(r) == work' = [work EXCEPT ![r] = Idle]

Writing(w) == w.at \in {"write", "rewrite"}

(* The file of f is removed; who is writing it goes on in a file without a *)
(* name.  then is what the removal makes of work.                          *)
Unlink(f, then) ==
  /\ file' = [file EXCEPT ![f] = "absent"]
  /\ work' = [r \in Request |->
                IF Writing(then[r]) /\ f \in then[r].fonts
                THEN [then[r] EXCEPT !.unlinked = TRUE] ELSE then[r]]

(* The files that a request has removed, or is writing. *)
Touched(w) ==
  w.emptied \cup (IF Writing(w) /\ ~w.unlinked THEN w.fonts ELSE {})

(* The requests of R go no further, and do not commit. *)
Interrupted(R) ==
  cut' = cut \cup {f \in UNION {Touched(work[r]) : r \in R} : file[f] # "whole"}

(* The columns of f after a commit that assigns FALSE or NULL to clear and *)
(* a value to set, by a session that had read seen.                        *)
Flushed(f, seen, clear, set) == (marks[f] \ (clear \cap seen)) \cup (set \ seen)

-----------------------------------------------------------------------------
(* Imports: look up the hash, store the file, insert the row. *)

(* Mutant: a purged row is woken without its file. *)
MutantFound(r, f) ==
  IF r \in Uploaders /\ "deleted" \in marks[f]
  THEN Begin("wake", {f}, marks[f]) ELSE Idle

(* What an import does of a row it has found. *)
Found(r, f) ==
  CASE r \in Uploaders /\ "purged" \in marks[f]  -> Begin("recreate", {f}, marks[f])
    [] r \in Uploaders /\ marks[f] \cap {"purged", "deleted"} = {"deleted"}
                                                 -> Begin("wake", {f}, marks[f])
    [] OTHER                                     -> Idle   \* duplicate or refusal

(* Mutant: the row is inserted before the file is stored. *)
MutantLookUp(r, f) ==
  /\ work[r] = Idle
  /\ work' = [work EXCEPT ![r] = IF f \in rows THEN Found(r, f)
                                 ELSE Begin("insert", {f}, {})]
  /\ UNCHANGED <<rows, marks, file, cut, faults>>

LookUp(r, f) ==
  /\ work[r] = Idle
  /\ work' = [work EXCEPT ![r] = IF f \in rows THEN Found(r, f)
                                 ELSE Begin("create", {f}, {})]
  /\ UNCHANGED <<rows, marks, file, cut, faults>>

(* store: opening the file for writing empties it ... *)
OpenFile(r, f) ==
  /\ \/ At(r, "create", f)   /\ Goto(r, "write")
     \/ At(r, "recreate", f) /\ Goto(r, "rewrite")
  /\ file' = [file EXCEPT ![f] = "partial"]
  /\ UNCHANGED <<rows, marks, cut, faults>>

Written(r, step) == work' = [work EXCEPT ![r].at = step, ![r].unlinked = FALSE]

(* ... then the content is written.  Only a deleted row is then woken. *)
WriteFile(r, f) ==
  /\ \/ At(r, "write", f) /\ Written(r, "insert")
     \/ At(r, "rewrite", f) /\ "deleted" \in work[r].seen /\ Written(r, "wake")
     \/ At(r, "rewrite", f) /\ "deleted" \notin work[r].seen /\ Done(r)
  /\ IF work[r].unlinked THEN UNCHANGED <<file, cut>>
     ELSE file' = [file EXCEPT ![f] = "whole"] /\ cut' = cut \ {f}
  /\ UNCHANGED <<rows, marks, faults>>

(* The hash is unique: the insertion fails on a row that came meanwhile. *)
Insert(r, f) ==
  /\ At(r, "insert", f)
  /\ IF f \in rows
     THEN Goto(r, "recheck") /\ UNCHANGED <<rows, marks>>
     ELSE /\ rows' = rows \cup {f}
          /\ marks' = [marks EXCEPT ![f] = {}]
          /\ Done(r)
  /\ UNCHANGED <<file, cut, faults>>

Recheck(r, f) ==
  /\ At(r, "recheck", f)
  /\ work' = [work EXCEPT ![r] = IF f \in rows THEN Found(r, f)
                                 ELSE Begin("cleanup", {f}, {})]
  /\ UNCHANGED <<rows, marks, file, cut, faults>>

(* _safe_delete_storage, then the error is raised. *)
Cleanup(r, f) ==
  /\ At(r, "cleanup", f)
  /\ Unlink(f, [work EXCEPT ![r] = Idle])
  /\ cut' = cut \cup {f}
  /\ UNCHANGED <<rows, marks, faults>>

(* The commit of _revive_if_deleted; it fails on a row that has gone. *)
Wake(r, f) ==
  /\ At(r, "wake", f)
  /\ marks' = IF f \in work[r].lost THEN marks
              ELSE [marks EXCEPT ![f] = Flushed(f, work[r].seen, Column, {})]
  /\ Done(r)
  /\ UNCHANGED <<rows, file, cut, faults>>

-----------------------------------------------------------------------------
(* The purge: read the rows, remove the files one by one, mark and commit. *)

PurgeLooks(r, F) ==
  /\ work[r] = Idle
  /\ F # {}
  /\ F \subseteq Purgeable
  /\ work' = [work EXCEPT ![r] = Begin("remove", F, {})]
  /\ UNCHANGED <<rows, marks, file, cut, faults>>

(* Mutant: a file that is already gone is an error. *)
MutantPurgeRemoves(r, f) ==
  /\ At(r, "remove", f)
  /\ Unlink(f, [work EXCEPT ![r].fonts = @ \ {f},
                            ![r].emptied = IF file[f] = "absent" THEN @ ELSE @ \cup {f}])
  /\ UNCHANGED <<rows, marks, cut, faults>>

(* A file that is already gone counts as removed. *)
PurgeRemoves(r, f) ==
  /\ At(r, "remove", f)
  /\ Unlink(f, [work EXCEPT ![r].fonts = @ \ {f}, ![r].emptied = @ \cup {f}])
  /\ UNCHANGED <<rows, marks, cut, faults>>

(* One commit for the whole pass; a row that has gone makes all of it fail. *)
PurgeCommits(r) ==
  /\ work[r].at = "remove"
  /\ work[r].fonts = {}
  /\ IF work[r].emptied \cap work[r].lost # {} THEN Interrupted({r}) /\ UNCHANGED marks
     ELSE /\ marks' = [f \in Font |-> IF f \in work[r].emptied
                                      THEN Flushed(f, {}, {}, {"purged"})
                                      ELSE marks[f]]
          /\ UNCHANGED cut
  /\ Done(r)
  /\ UNCHANGED <<rows, file, faults>>

-----------------------------------------------------------------------------
(* Restoration and confirmation. *)

RestoreLooks(r, f) ==
  /\ work[r] = Idle
  /\ f \in rows
  /\ marks[f] \cap {"deleted", "purged"} = {"deleted"}
  /\ work' = [work EXCEPT ![r] = Begin("restore", {f}, marks[f])]
  /\ UNCHANGED <<rows, marks, file, cut, faults>>

RestoreCommits(r, f) ==
  /\ At(r, "restore", f)
  /\ marks' = IF f \in work[r].lost THEN marks
              ELSE [marks EXCEPT
                      ![f] = Flushed(f, work[r].seen, {"deleted", "confirmed"}, {})]
  /\ Done(r)
  /\ UNCHANGED <<rows, file, cut, faults>>

Pending == {f \in rows : marks[f] \cap {"deleted", "confirmed"} = {"deleted"}}

ConfirmLooks(r) ==
  /\ work[r] = Idle
  /\ Pending # {}
  /\ work' = [work EXCEPT ![r] = Begin("confirm", Pending, {})]
  /\ UNCHANGED <<rows, marks, file, cut, faults>>

ConfirmCommits(r) ==
  /\ work[r].at = "confirm"
  /\ marks' = IF work[r].fonts \cap work[r].lost # {} THEN marks
              ELSE [f \in Font |-> IF f \in work[r].fonts
                                   THEN Flushed(f, {}, {}, {"confirmed"})
                                   ELSE marks[f]]
  /\ Done(r)
  /\ UNCHANGED <<rows, file, cut, faults>>

-----------------------------------------------------------------------------
(* Handlers that touch no file and write the same whatever happens between  *)
(* their read and their commit: one step each.                              *)

(* By the user, a credible declaration (confirmed) or a suspicious one. *)
Delete(f, confirmed) ==
  /\ f \in Active
  /\ marks' = [marks EXCEPT
                 ![f] = (@ \ {"confirmed"}) \cup
                        IF confirmed THEN {"deleted", "confirmed"} ELSE {"deleted"}]
  /\ UNCHANGED <<rows, file, work, cut, faults>>

(* The other guards of the harvest are left open, except that the grace     *)
(* period of a new row outlasts the imports that began before it came.      *)
Harvest(f) ==
  /\ f \in rows
  /\ marks[f] = Column
  /\ \A r \in Importers : f \in work[r].fonts =>
                            work[r].at \in {"recreate", "rewrite", "wake"}
  /\ rows' = rows \ {f}
  /\ marks' = [marks EXCEPT ![f] = {}]
  /\ work' = [r \in Request |->
       IF f \in work[r].fonts \cup work[r].emptied
       THEN [work[r] EXCEPT !.lost = @ \cup {f}] ELSE work[r]]
  /\ UNCHANGED <<file, cut, faults>>

-----------------------------------------------------------------------------
(* Faults. *)

Fault == faults < MaxFaults /\ faults' = faults + 1

(* The server stops: requests vanish, files and committed rows stay. *)
Restart ==
  /\ Fault
  /\ work' = [r \in Request |-> Idle]
  /\ Interrupted(Request)
  /\ UNCHANGED <<rows, marks, file>>

(* The file cannot be opened or written: the error is raised, nothing is    *)
(* cleaned.                                                                 *)
StoreFails(r, f) ==
  /\ Fault
  /\ \E step \in {"create", "write", "recreate", "rewrite"} : At(r, step, f)
  /\ Done(r)
  /\ Interrupted({r})
  /\ UNCHANGED <<rows, marks, file>>

(* The insertion fails for another reason than a duplicate. *)
InsertFails(r, f) ==
  /\ Fault
  /\ At(r, "insert", f)
  /\ work' = [work EXCEPT ![r] = Begin("cleanup", {f}, {})]
  /\ UNCHANGED <<rows, marks, file, cut>>

(* The storage fails to remove a file: the row is left alone. *)
RemoveFails(r, f) ==
  /\ Fault
  /\ At(r, "remove", f)
  /\ work' = [work EXCEPT ![r].fonts = @ \ {f}]
  /\ UNCHANGED <<rows, marks, file, cut>>

-----------------------------------------------------------------------------
ImportStep(r, f) ==
  \/ LookUp(r, f)
  \/ OpenFile(r, f)
  \/ WriteFile(r, f)
  \/ Insert(r, f)
  \/ Recheck(r, f)
  \/ Cleanup(r, f)
  \/ Wake(r, f)
  \/ StoreFails(r, f)
  \/ InsertFails(r, f)

PurgeStep(r) ==
  \/ \E F \in SUBSET Font : PurgeLooks(r, F)
  \/ \E f \in Font : PurgeRemoves(r, f)
  \/ \E f \in Font : RemoveFails(r, f)
  \/ PurgeCommits(r)

EditStep(r) ==
  \/ \E f \in Font : RestoreLooks(r, f)
  \/ \E f \in Font : RestoreCommits(r, f)
  \/ ConfirmLooks(r)
  \/ ConfirmCommits(r)

Next ==
  \/ \E r \in Importers, f \in Font : ImportStep(r, f)
  \/ \E r \in Purgers : PurgeStep(r)
  \/ \E r \in Editors : EditStep(r)
  \/ \E f \in Font, confirmed \in BOOLEAN : Delete(f, confirmed)
  \/ \E f \in Font : Harvest(f)
  \/ Restart

Spec == Init /\ [][Next]_vars

(* The purge loop runs as long as the server does, and a deletion that      *)
(* stays in the trash ends up older than the retention.                     *)
Fairness ==
  \A r \in Purgers :
    /\ WF_vars(\E f \in Font : PurgeRemoves(r, f))
    /\ WF_vars(PurgeCommits(r))
    /\ \A f \in Font : SF_vars(\E F \in SUBSET Font : f \in F /\ PurgeLooks(r, F))

FairSpec == Spec /\ Fairness

-----------------------------------------------------------------------------
(* Type invariant. *)
TypeOK ==
  /\ rows \in SUBSET Font
  /\ marks \in [Font -> SUBSET Column]
  /\ file \in [Font -> FileState]
  /\ work \in [Request -> Work]
  /\ cut \in SUBSET Font
  /\ faults \in 0 .. MaxFaults

InHand(f) == {r \in Request : f \in work[r].fonts \cup work[r].emptied}

(* A row not marked purged that has lost its file, with nobody at work on it. *)
Bereft == {f \in rows : InHand(f) = {} /\ "purged" \notin marks[f] /\ file[f] # "whole"}

(* However requests overlap (one upload and one purge at a time), a font    *)
(* whose file is missing carries purged_at, even one that a restoration or  *)
(* an upload has put back in the library while its file was being removed:  *)
(* purged_at is what an upload of the same file looks at to write it again. *)
MissingFilesAreMarked == Bereft = {}

(* Whatever stops or fails while uploads, pushes, purges and restorations   *)
(* overlap (one upload and one purge at a time), a font that misses its     *)
(* file without saying so is one whose own file was being removed or        *)
(* written by a request that was interrupted.  Such a font is in the trash, *)
(* where the next purge marks it, until a restoration or an upload brings   *)
(* it back as it is: no row tells that its file has gone.                   *)
OnlyInterruptionsLoseFiles == Bereft \subseteq cut

(* Whatever was interrupted, what stays in the trash is marked purged in    *)
(* the end: removing a file that is already gone counts as a success.       *)
TrashEmpties == \A f \in Font : f \in Purgeable ~> f \notin Purgeable

-----------------------------------------------------------------------------
(* What comments of the code say and interleavings refute. *)

(* "Refuse une font active : on ne supprime pas le fichier d'une police que *)
(* la bibliotheque reference encore" (purge_font_file).                     *)
PurgeSparesActiveFonts ==
  [][\A f \in Active : file[f] = "whole" => file'[f] # "absent"]_vars

(* "Impossible si la corbeille a ete videe : le fichier n'existe plus"      *)
(* (restore_font): what can be restored has its file.                       *)
RestorableFontsHaveFiles ==
  \A f \in rows : InHand(f) = {} /\ marks[f] \cap {"deleted", "purged"} = {"deleted"}
                    => file[f] = "whole"

(* "En cas de doublon concurrent, le fichier appartient legitimement a la   *)
(* font existante" (import_font): an import that fails leaves it alone.     *)
FailedImportSparesFile ==
  [][\A f \in rows, r \in Importers :
       At(r, "cleanup", f) /\ file[f] = "whole" => file'[f] # "absent"]_vars
=============================================================================
