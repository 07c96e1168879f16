---------------------------- MODULE FontLifecycle ----------------------------
(***************************************************************************)
(* What the library promises of a font, whatever the devices do: the life  *)
(* of a font seen by its user, with the file the server keeps for it.      *)
(*                                                                         *)
(*   unknown --> library --> trash ----> tombstone --> unknown             *)
(*                  |   \      ^  \          |                             *)
(*                  |    pending   +---------+--> library                  *)
(*                                                                         *)
(* "pending" is a deletion nobody has confirmed yet.  It never loses its   *)
(* file and is never forgotten; only a confirmation moves it on.           *)
(***************************************************************************)
CONSTANT Font

VARIABLES
  status,   \* status[f]: where f is in its life
  stored    \* the fonts whose file the server holds

vars == <<status, stored>>

Status == {"unknown", "library", "pending", "trash", "tombstone"}

InState(st) == {f \in Font : status[f] = st}

TypeOK ==
  /\ status \in [Font -> Status]
  /\ stored \in SUBSET Font

Init ==
  /\ status = [f \in Font |-> "unknown"]
  /\ stored = {}

Move(F, st) == [f \in Font |-> IF f \in F THEN st ELSE status[f]]

(* A font enters the library with its file: new, or uploaded again. *)
Enter(f) ==
  /\ status[f] # "library"
  /\ status' = Move({f}, "library")
  /\ stored' = stored \cup {f}

(* A user moves fonts to the trash, or confirms what was pending. *)
Discard(F) ==
  /\ F \subseteq InState("library") \cup InState("pending")
  /\ status' = Move(F, "trash")
  /\ UNCHANGED stored

(* One device's declaration: the fonts G it lost leave the library, for     *)
(* good or until somebody confirms, and the tombstones H are forgotten.     *)
(* A declaration that only leaves deletions pending forgets nothing.        *)
Sweep(G, H, st) ==
  /\ G \subseteq InState("library")
  /\ H \subseteq InState("tombstone")
  /\ st = "pending" => H = {}
  /\ status' = [f \in Font |-> IF f \in G THEN st
                               ELSE IF f \in H THEN "unknown" ELSE status[f]]
  /\ UNCHANGED stored

(* The files of trashed fonts go; their fingerprints stay. *)
Purge(F) ==
  /\ F \subseteq InState("trash")
  /\ status' = Move(F, "tombstone")
  /\ stored' = stored \ F

Next ==
  \/ \E f \in Font : Enter(f)
  \/ \E F \in SUBSET Font : Discard(F) \/ Purge(F)
  \/ \E G, H \in SUBSET Font, st \in {"trash", "pending"} : Sweep(G, H, st)

Spec == Init /\ [][Next]_vars

(* A file is kept exactly as long as the font can still be used or restored. *)
FileKeptWhileUsable ==
  stored = {f \in Font : status[f] \in {"library", "pending", "trash"}}
=============================================================================
