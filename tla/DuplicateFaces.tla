--------------------------- MODULE DuplicateFaces ---------------------------
(***************************************************************************)
(* Duplicate faces (services/duplicate_faces.py and the two endpoints of   *)
(* routers/fonts.py): the review of the fonts that carry one face in       *)
(* several files, and its resolution, which trashes all but the best.      *)
(*                                                                         *)
(* A font is the rank of its hash.  completeness stands for the criteria   *)
(* of _rank between coverage and hash: glyphs, scripts, code points,       *)
(* format, size; smaller is better.                                        *)
(***************************************************************************)
EXTENDS Integers, FiniteSets, SequencesExt

CONSTANTS
  Font,
  Face,
  NoFace,       \* the face of a font whose family or style is empty
  Nothing,      \* no review, no request
  MaxChanges    \* bound on other gestures

ASSUME FaceAssumption ==
  /\ Font \subseteq Nat /\ IsFiniteSet(Font)
  /\ NoFace \notin Face
  /\ MaxChanges \in Nat

VARIABLES
  face,          \* per font, the normalised family and style of its row
  several,       \* the variable fonts and the collections
  completeness,
  status,        \* per font, its row: "active", "trash", "absent"
  review,        \* the groups a user was shown last, or Nothing
  current,       \* history: nothing has changed since the review
  request,       \* the resolution that has read the library, or Nothing
  changes        \* other gestures so far

files == <<several, completeness>>

vars == <<files, face, status, review, current, request, changes>>

Group == [face : Face, keeper : Font, redundant : SUBSET Font, alsoKept : SUBSET Font]

(* touched (history): the fonts other requests changed since the choice. *)
Request == [keys : SUBSET Face, groups : SUBSET Group, touched : SUBSET Font]

ASSUME NothingAssumption == Nothing \notin Request

Active(st) == {f \in Font : st[f] = "active"}

-----------------------------------------------------------------------------
(* group_by_face *)

Position(rows, f) == CHOOSE i \in 1..Len(rows) : rows[i] = f

(* Mutant: the hash does not decide between equals. *)
MutantRanksBefore(f, g) == completeness[f] < completeness[g]

(* _rank, among fonts of one coverage. *)
RanksBefore(f, g) ==
  \/ completeness[f] < completeness[g]
  \/ completeness[f] = completeness[g] /\ f < g

(* The first of M once sorted by _rank; sorting keeps the order of rows.   *)
First(M, rows) ==
  CHOOSE f \in M : \A g \in M \ {f} :
    \/ RanksBefore(f, g)
    \/ ~RanksBefore(g, f) /\ Position(rows, f) < Position(rows, g)

(* Mutant: a file of several styles is a file like another. *)
MutantCoversSeveralStyles(M) == {}

CoversSeveralStyles(M) == M \cap several

(* Mutant: an incomplete identity is an identity. *)
MutantBuckets(S) ==
  {{f \in S : face[f] = k} : k \in Face \cup {NoFace}}

(* face_key, and the faces that several fonts carry. *)
Buckets(S) == {{f \in S : face[f] = k} : k \in Face}

(* Mutant: only the worst file of a face goes. *)
MutantRedundant(M, keeper) ==
  LET rest == (M \ CoversSeveralStyles(M)) \ {keeper}
  IN  {f \in rest : \A g \in rest : ~RanksBefore(f, g)}

(* Mutant: the keeper is listed with the others. *)
MutantKeeper(M, keeper) == M \ CoversSeveralStyles(M)

Redundant(M, keeper) == (M \ CoversSeveralStyles(M)) \ {keeper}

GroupOf(M, rows) ==
  LET protected == CoversSeveralStyles(M)
      keeper    == First(IF protected = {} THEN M ELSE protected, rows)
  IN  [face      |-> face[keeper],
       keeper    |-> keeper,
       redundant |-> Redundant(M, keeper),
       alsoKept  |-> protected \ {keeper}]

(* A group with nothing to take away is not shown. *)
GroupByFace(rows) ==
  {g \in {GroupOf(M, rows) : M \in {N \in Buckets(Range(rows)) : Cardinality(N) >= 2}} :
     g.redundant # {}}

-----------------------------------------------------------------------------
(* The endpoints.  SELECT has no ORDER BY: rows come in any order.         *)

(* list_duplicate_faces, and a resolution with dry_run. *)
Review ==
  /\ \E rows \in SetToSeqs(Active(status)) : review' = GroupByFace(rows)
  /\ current' = TRUE
  /\ UNCHANGED <<files, face, status, request, changes>>

(* resolve_duplicate_faces: read the active fonts and choose; keys may *)
(* name faces that are duplicates no more; Face stands for no keys at all. *)
Choose ==
  /\ request = Nothing
  /\ \E rows \in SetToSeqs(Active(status)), keys \in SUBSET Face \ {{}} :
       request' = [keys    |-> keys,
                   groups  |-> {g \in GroupByFace(rows) : keys = Face \/ g.face \in keys},
                   touched |-> {}]
  /\ UNCHANGED <<files, face, status, review, current, changes>>

Doomed == UNION {g.redundant : g \in request.groups}

(* Trash what was chosen and commit, whatever happened to the rows since.  *)
Resolve ==
  /\ request # Nothing
  /\ \A f \in Doomed : status[f] # "absent"
  /\ status' = [f \in Font |-> IF f \in Doomed THEN "trash" ELSE status[f]]
  /\ current' = (current /\ Doomed = {})
  /\ request' = Nothing
  /\ UNCHANGED <<files, face, review, changes>>

(* A row has gone: the flush matches nothing, all is rolled back. *)
ResolveFails ==
  /\ request # Nothing
  /\ \E f \in Doomed : status[f] = "absent"
  /\ request' = Nothing
  /\ UNCHANGED <<files, face, status, review, current, changes>>

(* Other requests commit, between the choice and the write too. *)
OtherGesture(f) ==
  /\ changes < MaxChanges
  /\ current' = FALSE
  /\ changes' = changes + 1
  /\ request' = IF request = Nothing THEN Nothing
                ELSE [request EXCEPT !.touched = @ \cup {f}]
  /\ UNCHANGED <<files, review>>

(* An import: the names are those its analysis finds, not those a user may *)
(* have given to the row that was purged.                                  *)
Import(f) ==
  /\ OtherGesture(f)
  /\ status[f] = "absent"
  /\ status' = [status EXCEPT ![f] = "active"]
  /\ \E k \in Face \cup {NoFace} : face' = [face EXCEPT ![f] = k]

(* Deletion, restoration and purge. *)
Moves(f, before, after) ==
  /\ OtherGesture(f)
  /\ status[f] = before
  /\ status' = [status EXCEPT ![f] = after]
  /\ UNCHANGED face

(* update_font: other names, for a font that was active when it was read. *)
Rename(f) ==
  /\ OtherGesture(f)
  /\ status[f] # "absent"
  /\ \E k \in Face \cup {NoFace} : face' = [face EXCEPT ![f] = k]
  /\ UNCHANGED status

-----------------------------------------------------------------------------

Init ==
  /\ face \in [Font -> Face \cup {NoFace}]
  /\ several \in SUBSET Font
  /\ completeness \in [Font -> 1..2]
  /\ status \in [Font -> {"active", "absent"}]
  /\ review = Nothing /\ current = FALSE
  /\ request = Nothing /\ changes = 0

Next ==
  \/ Review \/ Choose \/ Resolve \/ ResolveFails
  \/ \E f \in Font : \/ Import(f) \/ Rename(f)
                     \/ Moves(f, "active", "trash")
                     \/ Moves(f, "trash", "active")
                     \/ Moves(f, "trash", "absent")

Spec == Init /\ [][Next]_vars

-----------------------------------------------------------------------------

(* The type invariant. *)
TypeOK ==
  /\ face \in [Font -> Face \cup {NoFace}]
  /\ several \subseteq Font
  /\ completeness \in [Font -> 1..2]
  /\ status \in [Font -> {"active", "trash", "absent"}]
  /\ review \in (SUBSET Group) \cup {Nothing}
  /\ current \in BOOLEAN
  /\ request \in Request \cup {Nothing}
  /\ changes \in 0..MaxChanges

(* What only this file may hold, when nothing else carries its face. *)
Styles(f) ==
  (IF face[f] = NoFace THEN {<<"unknown", f>>} ELSE {<<"face", face[f]>>})
    \cup (IF f \in several THEN {<<"more", f>>} ELSE {})

Resolves == request # Nothing /\ request' = Nothing /\ status' # status

Fresh == request.touched = {}

(* The three rules against loss in the header of duplicate_faces.py: a     *)
(* resolution leaves an active file for every face, every variable font    *)
(* and collection, and every font it cannot identify, unless the library   *)
(* changes between its choice and its write.                               *)
ResolutionLosesNothing ==
  [][Resolves /\ Fresh => UNION {Styles(f) : f \in Active(status)}
                   = UNION {Styles(f) : f \in Active(status')}]_vars

(* When others commit between the choice and the write, a resolution still *)
(* takes no variable font and no collection, and a font that none of them  *)
(* touched it takes only for another file of the same face, which stays    *)
(* active, unless that file is one they touched.                           *)
OnlyTouchedFacesAreLost ==
  [][Resolves => \A f \in Active(status) \ Active(status') :
       /\ f \notin several
       /\ \/ f \in request.touched
          \/ \E g \in request.groups :
               /\ face[f] = g.face
               /\ \/ g.keeper \in request.touched
                  \/ g.keeper \in Active(status') /\ face[g.keeper] = g.face]_vars

(* A bulk yes to the review trashes exactly what the review showed, as     *)
(* long as the library has not changed: the proposal is reproducible.      *)
ReviewIsWhatHappens ==
  [][Resolves /\ Fresh /\ current =>
       Active(status) \ Active(status')
         = UNION {g.redundant : g \in {h \in review : h.face \in request.keys}}]_vars

(* A resolved face is not proposed again while nothing else happens: a     *)
(* second resolution finds nothing to trash.                               *)
ResolutionIsFinal ==
  [][Resolves /\ Fresh => \A k \in request.keys :
       Cardinality({f \in Active(status') \ several : face[f] = k}) <= 1]_vars

=============================================================================
