--------------------------- MODULE FamilyGrouping ---------------------------
(***************************************************************************)
(* The families of the library: the tables font_families and               *)
(* font_family_members, the grouping that follows each import, and the     *)
(* user's gestures on families.                                            *)
(*                                                                         *)
(* An import commits its row first and groups it in a second transaction,  *)
(* best effort: group_font reads the family of the font's slug, reads the  *)
(* font's membership, then writes.  The reads hold no lock, so imports     *)
(* interleave there; the write is refused by the unique slug, the primary  *)
(* key of a membership (one family per font) or the foreign keys, and      *)
(* style_count is written from the value read.  The gestures that place,   *)
(* remove or merge read in the same way before they write, so each is a    *)
(* request of its own; a regrouping writes first and is one step.          *)
(***************************************************************************)
EXTENDS Integers, FiniteSets

CONSTANTS
  Font,       \* font files
  Slug,       \* family slugs, the identity of a family for the grouping
  SlugOf,     \* the slug of the family name each font resolves to
  Family,     \* ids of font_families
  NoFamily,   \* no family
  Request,    \* imports and gestures that can be under way at the same time
  MaxCount,   \* bound: no style_count is written beyond it
  MaxGestures \* bound on the user's gestures on families

ASSUME SlugAssumption == SlugOf \in [Font -> Slug]

ASSUME FontAssumption == IsFiniteSet(Font)

ASSUME FamilyAssumption == NoFamily \notin Family

ASSUME GroupingBoundsAssumption == MaxCount \in Nat /\ MaxGestures \in Nat

VARIABLES
  active,     \* rows of fonts with deleted_at NULL
  trashed,    \* the other rows of fonts
  family,     \* the rows of font_families, by id
  member,     \* font_family_members: the family of each font
  drifted,    \* history: families whose members were changed by a request with a
              \*   stale reading, or that got trashed fonts in a merge, since
              \*   their members were last counted
  work,       \* what each import or gesture has read so far
  gestures    \* the user's gestures on families so far

fontVars == <<active, trashed>>
famVars  == <<family, member, drifted>>
vars     == <<active, trashed, family, member, drifted, work, gestures>>

(* handmade is is_auto_grouped = 0, count is style_count. *)
Row == [slug : Slug, handmade : BOOLEAN, count : Nat]

Idle == [phase |-> "idle"]

ImportWork ==
       [phase : {"inserted"}, font : Font]
  \cup [phase : {"found"}, font : Font, family : Family \cup {NoFamily}, count : Nat]
  \cup [phase : {"ready"}, font : Font, family : Family, count : Nat,
        old : Family \cup {NoFamily}]

(* left is the row of the family the font leaves, if it was still there. *)
EditWork ==
       [phase : {"chosen"}, family : Family, count : Nat]
  \cup [phase : {"placing"}, font : Font, family : Family, count : Nat,
        old : Family \cup {NoFamily}]
  \cup [phase : {"adding"}, font : Font, family : Family, count : Nat,
        old : Family \cup {NoFamily}, left : Family \cup {NoFamily}, leftCount : Nat]
  \cup [phase : {"removing"}, font : Font, family : Family, count : Nat]

MergeWork ==
       [phase : {"merging"}, family : Family, count : Nat, sources : SUBSET Family]
  \cup [phase : {"merged"}, family : Family, count : Nat, sources : SUBSET Family,
        first : Family, moved : SUBSET Font]
  \cup [phase : {"counted"}, family : Family, count : Nat, members : Nat]

Work == {Idle} \cup ImportWork \cup EditWork \cup MergeWork

Init ==
  /\ active = {} /\ trashed = {}
  /\ family = << >>
  /\ member = [f \in Font |-> NoFamily]
  /\ drifted = {}
  /\ work = [r \in Request |-> Idle]
  /\ gestures = 0

-----------------------------------------------------------------------------
(* Reading the tables. *)

families == DOMAIN family

Handmade == {m \in families : family[m].handmade}

Members(m) == {f \in Font : member[f] = m}

WithSlug(s) == {m \in families : family[m].slug = s}

FreeSlugs == {s \in Slug : WithSlug(s) = {}}

Busy(r) == work[r].phase # "idle"

(* The requests that work on a font they found in the library. *)
Handles(r, f) ==
  /\ work[r].phase \in {"inserted", "found", "ready", "placing", "adding"}
  /\ work[r].font = f

(* Ids are never used twice: one a request still remembers is not fresh. *)
RememberedBy(w) ==
  CASE w.phase \in {"found", "chosen", "removing", "counted"} -> {w.family}
    [] w.phase \in {"ready", "placing", "adding"} -> {w.family, w.old}
    [] w.phase \in {"merging", "merged"} -> w.sources \cup {w.family}
    [] OTHER -> {}

Remembered == UNION {RememberedBy(work[r]) : r \in Request}

Fresh == (Family \ families) \ Remembered

(* The rows of S, where each has lost some of its members. *)
Without(S, lost) ==
  [m \in S |-> [family[m] EXCEPT !.count = IF @ > lost[m] THEN @ - lost[m] ELSE 0]]

(* The rows t, with the row of m written. *)
Write(t, m, row) == [k \in DOMAIN t \cup {m} |-> IF k = m THEN row ELSE t[k]]

(* The members of counted have just been counted, the counts of wrong come *)
(* from a stale reading or leave trashed fonts out.                        *)
Drift(counted, wrong) ==
  drifted' = ((drifted \ counted) \cup wrong) \cap DOMAIN family'

-----------------------------------------------------------------------------
(* Import of a font, in the order of import_font and group_font. *)

(* The row is committed; the font is new, or an upload wakes it. *)
ImportFont(r, f) ==
  /\ ~Busy(r)
  /\ f \notin active
  /\ active' = active \cup {f}
  /\ trashed' = trashed \ {f}
  /\ work' = [work EXCEPT ![r] = [phase |-> "inserted", font |-> f]]
  /\ UNCHANGED famVars

FindFamily(r) ==
  /\ work[r].phase = "inserted"
  /\ LET f     == work[r].font
         named == WithSlug(SlugOf[f])
     IN  \/ /\ named = {}
            /\ work' = [work EXCEPT ![r] =
                 [phase |-> "found", font |-> f, family |-> NoFamily, count |-> 0]]
         \/ \E m \in named :
              work' = [work EXCEPT ![r] =
                 [phase |-> "found", font |-> f, family |-> m, count |-> family[m].count]]
  /\ UNCHANGED <<fontVars, famVars>>

FindMember(r) ==
  /\ work[r].phase = "found"
  /\ work[r].family # NoFamily
  /\ work' = [work EXCEPT ![r] =
       [phase |-> "ready", font |-> work[r].font, family |-> work[r].family,
        count |-> work[r].count, old |-> member[work[r].font]]]
  /\ UNCHANGED <<fontVars, famVars>>

(* The font leaves the family old, if it is in one, and joins m, whose row *)
(* is written.                                                             *)
Join(f, old, m, row) ==
  LET lost == [k \in families |-> IF k = old THEN 1 ELSE 0]
  IN  /\ member' = [member EXCEPT ![f] = m]
      /\ family' = Write(Without(families, lost), m, row)

(* Mutant: the slug is not unique in the table. *)
MutantCreateFamily(r) ==
  /\ work[r].phase = "found"
  /\ work[r].family = NoFamily
  /\ \E m \in Fresh :
       Join(work[r].font, member[work[r].font], m,
            [slug |-> SlugOf[work[r].font], handmade |-> FALSE, count |-> 1])
  /\ Drift({}, {})
  /\ work' = [work EXCEPT ![r] = Idle]
  /\ UNCHANGED fontVars

(* No family had the slug: it is created, which takes the write lock, and *)
(* the membership is read under it.                                       *)
CreateFamily(r) ==
  /\ work[r].phase = "found"
  /\ work[r].family = NoFamily
  /\ SlugOf[work[r].font] \in FreeSlugs
  /\ \E m \in Fresh :
       Join(work[r].font, member[work[r].font], m,
            [slug |-> SlugOf[work[r].font], handmade |-> FALSE, count |-> 1])
  /\ Drift({}, {})
  /\ work' = [work EXCEPT ![r] = Idle]
  /\ UNCHANGED fontVars

(* The write of a membership passes the constraints of the tables. *)
Accepted(r) ==
  /\ work[r].family \in families
  /\ work[r].old = NoFamily => member[work[r].font] = NoFamily

(* What the import has read of the two families is not so any more. *)
Stale(r) ==
  \/ family[work[r].family].count # work[r].count
  \/ member[work[r].font] # work[r].old

(* style_count is the one read when the family was found, plus one. *)
JoinFamily(r) ==
  /\ work[r].phase = "ready"
  /\ work[r].old # work[r].family
  /\ work[r].count < MaxCount
  /\ Accepted(r)
  /\ Join(work[r].font, work[r].old, work[r].family,
          [family[work[r].family] EXCEPT !.count = work[r].count + 1])
  /\ Drift({}, IF Stale(r) THEN {work[r].family, work[r].old, member[work[r].font]} ELSE {})
  /\ work' = [work EXCEPT ![r] = Idle]
  /\ UNCHANGED fontVars

(* The font is already where it belongs: only its sort_order is written. *)
StayInFamily(r) ==
  /\ work[r].phase = "ready"
  /\ work[r].old = work[r].family
  /\ work' = [work EXCEPT ![r] = Idle]
  /\ UNCHANGED <<fontVars, famVars>>

(* The write is refused: the grouping is rolled back, the import stands. *)
GroupingFails(r) ==
  /\ \/ /\ work[r].phase = "found"
        /\ work[r].family = NoFamily
        /\ SlugOf[work[r].font] \notin FreeSlugs
     \/ /\ work[r].phase = "ready"
        /\ work[r].old # work[r].family
        /\ ~Accepted(r)
  /\ work' = [work EXCEPT ![r] = Idle]
  /\ UNCHANGED <<fontVars, famVars>>

(* The server stops between the two transactions. *)
ServerStop ==
  /\ \E r \in Request : Busy(r)
  /\ work' = [r \in Request |-> Idle]
  /\ UNCHANGED <<fontVars, famVars>>

-----------------------------------------------------------------------------
(* The trash and the harvest, as far as families see them. *)

TrashFont(f) ==
  /\ f \in active
  /\ active' = active \ {f}
  /\ trashed' = trashed \cup {f}
  /\ UNCHANGED <<famVars, work>>

(* Mutant: deleted_at stays. *)
MutantRestoreFont(f) ==
  /\ f \in trashed
  /\ active' = active \cup {f}
  /\ UNCHANGED <<trashed, famVars, work>>

(* restore_font clears deleted_at and groups nothing. *)
RestoreFont(f) ==
  /\ f \in trashed
  /\ active' = active \cup {f}
  /\ trashed' = trashed \ {f}
  /\ UNCHANGED <<famVars, work>>

(* Mutant: the families that look empty go, with the count they had. *)
MutantEmptied(H, touched) == {m \in touched \ Handmade : family[m].count <= 1}

(* Mutant: families made by hand go like the others. *)
MutantAllEmptied(H, touched) == {m \in touched : Members(m) \subseteq H}

(* The automatic families that the harvest of H leaves without a member. *)
Emptied(H, touched) == {m \in touched \ Handmade : Members(m) \subseteq H}

(* _delete_fonts: which tombstones go is FontLibrary's business.  The count *)
(* of the families they leave is computed again.                           *)
Harvest(H) ==
  LET touched == {member[f] : f \in H} \ {NoFamily}
  IN  /\ H # {}
      /\ H \subseteq trashed
      /\ trashed' = trashed \ H
      /\ member' = [f \in Font |-> IF f \in H THEN NoFamily ELSE member[f]]
      /\ family' = [m \in families \ Emptied(H, touched) |->
                      IF m \in touched
                      THEN [family[m] EXCEPT !.count = Cardinality(Members(m) \ H)]
                      ELSE family[m]]
      /\ Drift(touched, {})
      /\ UNCHANGED <<active, work>>

-----------------------------------------------------------------------------
(* The user's gestures on families. *)

(* The fonts regroup_all places: members of families made by hand stay. *)
ToRegroup == {f \in active : member[f] \notin Handmade}

(* POST /regroup: the automatic families are deleted with their memberships, *)
(* those of trashed fonts too, and the active fonts are placed by slug, in   *)
(* families made by hand when these have the slug.                           *)
RegroupAll ==
  LET moved  == ToRegroup
      needed == {SlugOf[f] : f \in moved}
      Named(s) == Handmade \cap WithSlug(s)
  IN  \E place \in [needed -> Family] :
        /\ \A s \in needed : place[s] \in
             IF Named(s) # {} THEN Named(s) ELSE Family \ (Handmade \cup Remembered)
        /\ \A s, t \in needed : place[s] = place[t] => s = t
        /\ LET Arrivals(m) == {f \in moved : place[SlugOf[f]] = m}
           IN  family' = [m \in Handmade \cup {place[s] : s \in needed} |->
                 IF m \in Handmade
                 THEN [family[m] EXCEPT !.count = @ + Cardinality(Arrivals(m))]
                 ELSE [slug |-> CHOOSE s \in needed : place[s] = m,
                       handmade |-> FALSE, count |-> Cardinality(Arrivals(m))]]
        /\ member' = [f \in Font |-> IF f \in moved THEN place[SlugOf[f]]
                                      ELSE IF member[f] \in Handmade THEN member[f]
                                      ELSE NoFamily]
        /\ Drift(families \ Handmade, {})
        /\ UNCHANGED <<fontVars, work>>

(* POST /merge.  The survivor is the one the user names, or the family with *)
(* the largest style_count: any of them.  Each family is read.              *)
BeginMerge(r, m, S) ==
  /\ ~Busy(r)
  /\ m \in families
  /\ S \subseteq families \ {m}
  /\ work' = [work EXCEPT ![r] = [phase |-> "merging", family |-> m,
                                 count |-> family[m].count, sources |-> S]]
  /\ UNCHANGED <<fontVars, famVars>>

(* The members of the first source are listed before anything is written. *)
ListMembers(r) ==
  /\ work[r].phase = "merging"
  /\ \E m \in work[r].sources :
       work' = [work EXCEPT ![r] =
         [phase |-> "merged", family |-> work[r].family, count |-> work[r].count,
          sources |-> work[r].sources, first |-> m, moved |-> Members(m)]]
  /\ UNCHANGED <<fontVars, famVars>>

(* One family is merged with nothing: its fonts are counted all the same. *)
CountMembers(r) ==
  /\ work[r].phase = "merging"
  /\ work[r].sources = {}
  /\ work' = [work EXCEPT ![r] =
       [phase |-> "counted", family |-> work[r].family, count |-> work[r].count,
        members |-> Cardinality(Members(work[r].family) \cap active)]]
  /\ UNCHANGED <<fontVars, famVars>>

(* A count that has not changed since it was read is not written. *)
Counted(row, read, n) == [row EXCEPT !.count = IF n = read THEN @ ELSE n]

(* Of the members F, n are counted: trashed ones are left out, or n is not *)
(* written because it is what a stale reading said.                        *)
Miscounted(r, F, n) ==
  \/ ~(F \subseteq active)
  \/ n = work[r].count /\ family[work[r].family].count # n

(* The fonts listed move, wherever they are by now; a font that joined the *)
(* first source since leaves it with the family; the other sources are     *)
(* read under the lock.  The count leaves trashed members out.             *)
MergeFamilies(r) ==
  LET m      == work[r].family
      gone   == work[r].sources
      moved  == work[r].moved \cup {f \in Font : member[f] \in gone \ {work[r].first}}
      all    == Members(m) \cup moved
      n      == Cardinality(all \cap active)
      lost   == {member[f] : f \in work[r].moved} \ {m, work[r].first}
  IN  /\ work[r].phase = "merged"
      /\ m \in families
      /\ \A f \in work[r].moved : member[f] # NoFamily
      /\ member' = [f \in Font |-> IF f \in moved THEN m
                                    ELSE IF member[f] = work[r].first THEN NoFamily
                                    ELSE member[f]]
      /\ family' = [k \in families \ gone |->
                      IF k = m THEN Counted(family[m], work[r].count, n) ELSE family[k]]
      /\ Drift({m}, lost \cup (IF Miscounted(r, all, n) THEN {m} ELSE {}))
      /\ work' = [work EXCEPT ![r] = Idle]
      /\ UNCHANGED fontVars

RecountFamily(r) ==
  LET m == work[r].family
      n == work[r].members
  IN  /\ work[r].phase = "counted"
      /\ m \in families
      /\ UNCHANGED <<fontVars, member>>
      /\ family' = [family EXCEPT ![m] = Counted(@, work[r].count, n)]
      /\ Drift({m}, IF Miscounted(r, Members(m), n) \/ n # Cardinality(Members(m))
                    THEN {m} ELSE {})
      /\ work' = [work EXCEPT ![r] = Idle]

(* POST: ensure_unique_slug gives the name's slug or a suffixed one. *)
CreateByHand(m, s) ==
  /\ m \in Fresh
  /\ s \in FreeSlugs
  /\ family' = Write(family, m, [slug |-> s, handmade |-> TRUE, count |-> 0])
  /\ Drift({}, {})
  /\ UNCHANGED <<fontVars, member, work>>

(* PATCH with a name: the slug in use counts as taken, even by m itself. *)
Rename(m, s) ==
  /\ m \in families
  /\ s \in FreeSlugs
  /\ family' = [family EXCEPT ![m].slug = s]
  /\ Drift({}, {})
  /\ UNCHANGED <<fontVars, member, work>>

DeleteFamily(m) ==
  /\ m \in families
  /\ family' = [k \in families \ {m} |-> family[k]]
  /\ member' = [f \in Font |-> IF member[f] = m THEN NoFamily ELSE member[f]]
  /\ Drift({}, {})
  /\ UNCHANGED <<fontVars, work>>

(* POST fonts and DELETE fonts: the family is read first.  A request for   *)
(* several fonts is that many, the others under the lock of the first.     *)
BeginEdit(r, m) ==
  /\ ~Busy(r)
  /\ m \in families
  /\ work' = [work EXCEPT ![r] =
       [phase |-> "chosen", family |-> m, count |-> family[m].count]]
  /\ UNCHANGED <<fontVars, famVars>>

FindPlaced(r, f) ==
  /\ work[r].phase = "chosen"
  /\ f \in active
  /\ member[f] # work[r].family
  /\ work' = [work EXCEPT ![r] =
       [phase |-> "placing", font |-> f, family |-> work[r].family,
        count |-> work[r].count, old |-> member[f]]]
  /\ UNCHANGED <<fontVars, famVars>>

FindLeft(r) ==
  /\ work[r].phase = "placing"
  /\ LET old == work[r].old
         left == IF old \in families THEN old ELSE NoFamily
     IN  work' = [work EXCEPT ![r] =
           [phase |-> "adding", font |-> work[r].font, family |-> work[r].family,
            count |-> work[r].count, old |-> old, left |-> left,
            leftCount |-> IF left = NoFamily THEN 0 ELSE family[left].count]]
  /\ UNCHANGED <<fontVars, famVars>>

FindRemoved(r, f) ==
  /\ work[r].phase = "chosen"
  /\ member[f] = work[r].family
  /\ work' = [work EXCEPT ![r] =
       [phase |-> "removing", font |-> f, family |-> work[r].family,
        count |-> work[r].count]]
  /\ UNCHANGED <<fontVars, famVars>>

(* Mutant: the font stays in its old family's count. *)
MutantOneLess(row, read) == row

(* The row, one member less than the count read; at 0 nothing is written. *)
OneLess(row, read) == [row EXCEPT !.count = IF read = 0 THEN @ ELSE read - 1]

(* The memberships the gesture changes, or a count it writes from, are not *)
(* what it has read.                                                       *)
Overtaken(r) ==
  LET w == work[r]
  IN  \/ family[w.family].count # w.count
      \/ w.phase = "adding" /\ member[w.font] # w.old
      \/ w.phase = "adding" /\ w.left # w.old
      \/ w.phase = "adding" /\ w.left # NoFamily /\ family[w.left].count # w.leftCount
      \/ w.phase = "removing" /\ member[w.font] # w.family

(* A write to a family that is gone is refused, and so is a second          *)
(* membership, unless the one that was read is deleted first.               *)
AddFont(r) ==
  LET w == work[r]
  IN  /\ w.phase = "adding"
      /\ w.count < MaxCount
      /\ w.family \in families
      /\ w.left \in families \cup {NoFamily}
      /\ w.old = NoFamily => member[w.font] = NoFamily
      /\ member' = [member EXCEPT ![w.font] = w.family]
      /\ family' = [k \in families |->
                      IF k = w.family THEN [family[k] EXCEPT !.count = w.count + 1]
                      ELSE IF k = w.left THEN OneLess(family[k], w.leftCount)
                      ELSE family[k]]
      /\ Drift({}, IF Overtaken(r) THEN {w.family, w.old, member[w.font]} ELSE {})
      /\ work' = [work EXCEPT ![r] = Idle]
      /\ UNCHANGED fontVars

(* The membership goes by its key, the font, whatever family it names now. *)
RemoveFont(r) ==
  LET w == work[r]
  IN  /\ w.phase = "removing"
      /\ w.family \in families
      /\ member' = [member EXCEPT ![w.font] = NoFamily]
      /\ family' = [family EXCEPT ![w.family] = OneLess(@, w.count)]
      /\ Drift({}, IF Overtaken(r) THEN {w.family, member[w.font]} ELSE {})
      /\ work' = [work EXCEPT ![r] = Idle]
      /\ UNCHANGED fontVars

(* A font not found, a write refused, a lock not had in 30 seconds: what   *)
(* the gesture has written is rolled back.                                 *)
GestureFails(r) ==
  /\ work[r] \in EditWork \cup MergeWork
  /\ work' = [work EXCEPT ![r] = Idle]
  /\ UNCHANGED <<fontVars, famVars>>

-----------------------------------------------------------------------------
ImportStep(r) ==
  \/ \E f \in Font : ImportFont(r, f)
  \/ FindFamily(r)
  \/ FindMember(r)
  \/ CreateFamily(r)
  \/ JoinFamily(r)
  \/ StayInFamily(r)
  \/ GroupingFails(r)

GestureStep(r) ==
  \/ \E f \in Font : FindPlaced(r, f) \/ FindRemoved(r, f)
  \/ FindLeft(r)
  \/ AddFont(r)
  \/ RemoveFont(r)
  \/ ListMembers(r)
  \/ CountMembers(r)
  \/ MergeFamilies(r)
  \/ RecountFamily(r)
  \/ GestureFails(r)

(* A font is harvested a day at least after it was trashed: no request that *)
(* found it in the library is still under way.                              *)
FontStep ==
  \/ \E f \in Font : TrashFont(f)
  \/ \E f \in Font : RestoreFont(f)
  \/ \E H \in SUBSET {f \in trashed : \A r \in Request : ~Handles(r, f)} : Harvest(H)

Gesture ==
  \/ RegroupAll
  \/ \E r \in Request, m \in families, S \in SUBSET families : BeginMerge(r, m, S)
  \/ \E m \in Family, s \in Slug : CreateByHand(m, s)
  \/ \E m \in families, s \in Slug : Rename(m, s)
  \/ \E m \in families : DeleteFamily(m)
  \/ \E r \in Request, m \in families : BeginEdit(r, m)

Next ==
  \/ /\ (\E r \in Request : ImportStep(r) \/ GestureStep(r)) \/ FontStep \/ ServerStop
     /\ UNCHANGED gestures
  \/ /\ gestures < MaxGestures
     /\ gestures' = gestures + 1
     /\ Gesture

Spec == Init /\ [][Next]_vars

-----------------------------------------------------------------------------
(* Type invariant. *)
TypeOK ==
  /\ active \in SUBSET Font /\ trashed \in SUBSET (Font \ active)
  /\ families \in SUBSET Family /\ family \in [families -> Row]
  /\ member \in [Font -> Family \cup {NoFamily}]
  /\ drifted \subseteq families
  /\ work \in [Request -> Work]
  /\ gestures \in 0..MaxGestures

(* A membership belongs to a row of fonts and leads to a row of families,  *)
(* whatever the counts say: harvest, merge and regroup never remove a      *)
(* family that still has a member, trashed or not, although style_count,   *)
(* which harvest reads to find the empty families, is wrong by then.       *)
MembersHaveFamilies ==
  \A f \in Font : member[f] # NoFamily =>
    member[f] \in families /\ f \in active \cup trashed

(* A slug names one family, however many imports look for it at once: two  *)
(* fonts of a name meet in one family.                                     *)
OneFamilyPerSlug ==
  \A m, k \in families : family[m].slug = family[k].slug => m = k

(* style_count is the number of members, those in the trash included,     *)
(* unless a request that wrote from a stale reading, or a merge of trashed *)
(* fonts, touched the family since its members were last counted: imports  *)
(* and gestures that overlap without harm keep it exact, and the harvest,  *)
(* a merge or a regrouping that counts again makes it exact.               *)
CountsAreExact ==
  \A m \in families \ drifted : family[m].count = Cardinality(Members(m))

(* A family made by hand goes only when the user deletes it or merges it   *)
(* into another: neither the harvest of its last font nor a regrouping     *)
(* takes it.                                                               *)
HandmadeFamiliesStay ==
  [][\A m \in Handmade \ families' :
       \/ DeleteFamily(m)
       \/ \E r \in Request : MergeFamilies(r) /\ m \in work[r].sources]_vars
=============================================================================
