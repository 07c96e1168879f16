-------------------------- MODULE FamilyGroupingProofs --------------------------
(***************************************************************************)
(* Proofs about FamilyGrouping for every set of fonts, slugs, families and *)
(* requests under way: whatever these have read before they write, slugs   *)
(* stay unique, memberships lead somewhere, a family made by hand goes     *)
(* only by a gesture of the user on it, and style_count is exact until a   *)
(* stale reading or the merge of a trashed font is written.                *)
(***************************************************************************)
EXTENDS FamilyGrouping, FiniteSetTheorems, TLAPS

(* What a request has read holds together: the font it places has a row, in *)
(* another family than the one it goes to, and a family is not merged into  *)
(* itself.                                                                  *)
Handling == {"inserted", "found", "ready", "placing", "adding"}

Sound(w) ==
  /\ w.phase \in Handling => w.font \in active \cup trashed
  /\ w.phase \in {"placing", "adding"} => w.old # w.family
  /\ w.phase = "adding" => w.left \in {w.old, NoFamily}
  /\ w.phase \in {"merging", "merged"} => w.family \notin w.sources
  /\ w.phase = "merged" => w.first \in w.sources

WorkIsSound == \A r \in Request : Sound(work[r])

IInv == TypeOK /\ MembersHaveFamilies /\ OneFamilyPerSlug /\ WorkIsSound

(***************************************************************************)
(* Values.                                                                 *)
(***************************************************************************)

LEMMA CountType ==
  ASSUME NEW S \in SUBSET Font
  PROVE  Cardinality(S) \in Nat
<1>1. IsFiniteSet(S)
  BY FontAssumption, FS_Subset
<1> QED
  BY <1>1, FS_CardinalityType

LEMMA WithoutType ==
  ASSUME TypeOK, NEW S \in SUBSET families, NEW lost \in [S -> Nat]
  PROVE  /\ Without(S, lost) \in [S -> Row]
         /\ DOMAIN Without(S, lost) = S
         /\ \A m \in S : /\ Without(S, lost)[m].slug = family[m].slug
                         /\ Without(S, lost)[m].handmade = family[m].handmade
<1>1. ASSUME NEW m \in S
      PROVE  /\ Without(S, lost)[m] \in Row
             /\ Without(S, lost)[m].slug = family[m].slug
             /\ Without(S, lost)[m].handmade = family[m].handmade
  <2>1. family[m] \in Row /\ lost[m] \in Nat
    BY DEF TypeOK
  <2>2. Without(S, lost)[m] =
          [family[m] EXCEPT !.count = IF @ > lost[m] THEN @ - lost[m] ELSE 0]
    BY DEF Without
  <2>3. (IF family[m].count > lost[m] THEN family[m].count - lost[m] ELSE 0) \in Nat
    BY <2>1 DEF Row
  <2> QED
    BY <2>1, <2>2, <2>3 DEF Row
<1>2. Without(S, lost) = [m \in S |-> Without(S, lost)[m]]
  BY DEF Without
<1> QED
  BY <1>1, <1>2

(* What a request has read. *)
LEMMA WorkTypes ==
  ASSUME TypeOK, NEW r \in Request
  PROVE  /\ work[r].phase \in Handling \cup {"removing"} => work[r].font \in Font
         /\ work[r].phase \in {"found", "counted"} \cup {"ready", "chosen"} =>
              work[r].count \in Nat
         /\ work[r].phase \in {"placing", "adding", "removing", "merging", "merged"} =>
              work[r].count \in Nat /\ work[r].family \in Family
         /\ work[r].phase \in {"ready", "chosen", "counted"} => work[r].family \in Family
         /\ work[r].phase = "found" => work[r].family \in Family \cup {NoFamily}
         /\ work[r].phase \in {"ready", "placing", "adding"} =>
              work[r].old \in Family \cup {NoFamily}
         /\ work[r].phase = "adding" =>
              work[r].left \in Family \cup {NoFamily} /\ work[r].leftCount \in Nat
         /\ work[r].phase = "counted" => work[r].members \in Nat
         /\ work[r].phase \in {"merging", "merged"} => work[r].sources \in SUBSET Family
         /\ work[r].phase = "merged" => work[r].moved \in SUBSET Font
<1>1. work[r] \in Work
  BY DEF TypeOK
<1>2. CASE work[r] \in {Idle} \cup ImportWork
  BY <1>2 DEF ImportWork, Idle, Handling
<1>3. CASE work[r] \in EditWork
  BY <1>3 DEF EditWork, Handling
<1>4. CASE work[r] \in MergeWork
  BY <1>4 DEF MergeWork, Handling
<1> QED
  BY <1>1, <1>2, <1>3, <1>4 DEF Work

(***************************************************************************)
(* What a step must show of the tables and of the requests under way.      *)
(***************************************************************************)

TablesKept ==
  /\ families' \in SUBSET Family /\ family' \in [families' -> Row]
  /\ member' \in [Font -> Family \cup {NoFamily}]
  /\ drifted' \subseteq families'
  /\ MembersHaveFamilies'
  /\ OneFamilyPerSlug'

WorkKept ==
  /\ active' \in SUBSET Font /\ trashed' \in SUBSET (Font \ active')
  /\ work' \in [Request -> Work]
  /\ WorkIsSound'

LEMMA KeptTogether ==
  ASSUME TablesKept, WorkKept, gestures' \in 0..MaxGestures
  PROVE  IInv'
BY DEF TablesKept, WorkKept, IInv, TypeOK

LEMMA SameTables ==
  ASSUME IInv, UNCHANGED famVars, active \cup trashed \subseteq active' \cup trashed'
  PROVE  TablesKept
BY DEF IInv, TypeOK, famVars, families, MembersHaveFamilies, OneFamilyPerSlug, TablesKept

LEMMA SameWork ==
  ASSUME IInv, UNCHANGED fontVars, work' = work
  PROVE  WorkKept
BY DEF IInv, TypeOK, fontVars, WorkKept, WorkIsSound, Sound

LEMMA IdleWork ==
  ASSUME IInv, UNCHANGED fontVars, NEW r \in Request, work' = [work EXCEPT ![r] = Idle]
  PROVE  WorkKept
<1>1. work \in [Request -> Work] /\ Idle \in Work
  BY DEF IInv, TypeOK, Work
<1>2. \A q \in Request : work'[q] = IF q = r THEN Idle ELSE work[q]
  BY <1>1
<1>3. WorkIsSound'
  BY <1>2 DEF IInv, fontVars, WorkIsSound, Sound, Idle, Handling
<1> QED
  BY <1>1, <1>3 DEF IInv, TypeOK, fontVars, WorkKept

(* A request remembers what it has read. *)
LEMMA ReadingWork ==
  ASSUME IInv, UNCHANGED fontVars, NEW r \in Request, NEW w \in Work, Sound(w),
         work' = [work EXCEPT ![r] = w]
  PROVE  WorkKept
<1>1. work \in [Request -> Work]
  BY DEF IInv, TypeOK
<1>2. \A q \in Request : work'[q] = IF q = r THEN w ELSE work[q]
  BY <1>1
<1>3. WorkIsSound'
  BY <1>2 DEF IInv, fontVars, WorkIsSound, Sound
<1> QED
  BY <1>1, <1>3 DEF IInv, TypeOK, fontVars, WorkKept

(***************************************************************************)
(* The steps of an import.                                                 *)
(***************************************************************************)

LEMMA ReadsKeep ==
  ASSUME IInv, NEW r \in Request,
         FindFamily(r) \/ FindMember(r) \/ StayInFamily(r) \/ GroupingFails(r)
  PROVE  TablesKept /\ WorkKept
<1>1. TypeOK /\ Sound(work[r]) /\ member \in [Font -> Family \cup {NoFamily}]
      /\ families \in SUBSET Family /\ family \in [families -> Row]
  BY DEF IInv, TypeOK, WorkIsSound
<1>2. TablesKept
  BY SameTables DEF FindFamily, FindMember, StayInFamily, GroupingFails, fontVars
<1>3. CASE FindFamily(r)
  <2>1. work[r].font \in Font /\ work[r].font \in active \cup trashed
    BY <1>1, <1>3, WorkTypes DEF FindFamily, Sound, Handling
  <2>2. \A m \in WithSlug(SlugOf[work[r].font]) : m \in Family /\ family[m].count \in Nat
    BY <1>1 DEF WithSlug, Row
  <2>3. \E m \in Family \cup {NoFamily}, n \in Nat :
          work' = [work EXCEPT ![r] =
            [phase |-> "found", font |-> work[r].font, family |-> m, count |-> n]]
    BY <1>3, <2>2 DEF FindFamily
  <2>4. PICK m \in Family \cup {NoFamily}, n \in Nat :
          work' = [work EXCEPT ![r] =
            [phase |-> "found", font |-> work[r].font, family |-> m, count |-> n]]
    BY <2>3
  <2> DEFINE w == [phase |-> "found", font |-> work[r].font, family |-> m, count |-> n]
  <2>5. w \in Work /\ Sound(w)
    BY <2>1 DEF Work, ImportWork, Sound
  <2>6. work' = [work EXCEPT ![r] = w] /\ UNCHANGED fontVars
    BY <1>3, <2>4 DEF FindFamily
  <2> HIDE DEF w
  <2> QED
    BY <1>2, <2>5, <2>6, ReadingWork
<1>4. CASE FindMember(r)
  <2> DEFINE w == [phase |-> "ready", font |-> work[r].font, family |-> work[r].family,
                   count |-> work[r].count, old |-> member[work[r].font]]
  <2>1. /\ work[r].font \in Font /\ work[r].font \in active \cup trashed
        /\ work[r].count \in Nat /\ work[r].family \in Family
    BY <1>1, <1>4, WorkTypes DEF FindMember, Sound, Handling
  <2>2. w \in Work /\ Sound(w)
    BY <1>1, <2>1 DEF Work, ImportWork, Sound
  <2>3. work' = [work EXCEPT ![r] = w] /\ UNCHANGED fontVars
    BY <1>4 DEF FindMember
  <2> HIDE DEF w
  <2> QED
    BY <1>2, <2>2, <2>3, ReadingWork
<1>5. CASE StayInFamily(r) \/ GroupingFails(r)
  BY <1>2, <1>5, IdleWork DEF StayInFamily, GroupingFails
<1> QED
  BY <1>3, <1>4, <1>5

LEMMA ImportKeeps ==
  ASSUME IInv, NEW r \in Request, NEW f \in Font, ImportFont(r, f)
  PROVE  TablesKept /\ WorkKept
<1> DEFINE w == [phase |-> "inserted", font |-> f]
<1>1. /\ work \in [Request -> Work] /\ w \in Work /\ WorkIsSound
      /\ active \in SUBSET Font /\ trashed \in SUBSET (Font \ active)
  BY DEF IInv, TypeOK, Work, ImportWork
<1>2. /\ active' = active \cup {f} /\ trashed' = trashed \ {f}
      /\ work' = [work EXCEPT ![r] = w] /\ UNCHANGED famVars
  BY DEF ImportFont
<1>3. w.phase = "inserted" /\ w.font = f
  OBVIOUS
<1> HIDE DEF w
<1>4. \A q \in Request : work'[q] = IF q = r THEN w ELSE work[q]
  BY <1>1, <1>2
<1>5. WorkIsSound'
  BY <1>1, <1>2, <1>3, <1>4 DEF WorkIsSound, Sound
<1> QED
  BY <1>1, <1>2, <1>5, SameTables DEF WorkKept

(* Fonts move to the family m; its row is written, with the slug it has or *)
(* with a slug no family has, and the other rows keep theirs.              *)
LEMMA PlaceKeeps ==
  ASSUME IInv, NEW F \in SUBSET (active \cup trashed), NEW m \in Family, NEW row \in Row,
         NEW t \in [families -> Row], \A k \in families : t[k].slug = family[k].slug,
         m \in families => row.slug = family[m].slug,
         m \notin families => row.slug \in FreeSlugs,
         member' \in [Font -> Family \cup {NoFamily}],
         \A g \in Font : member'[g] = IF g \in F THEN m ELSE member[g],
         family' = Write(t, m, row), NEW C, NEW S, Drift(C, S), UNCHANGED fontVars
  PROVE  TablesKept /\ families \subseteq families'
<1>1. /\ OneFamilyPerSlug /\ MembersHaveFamilies
      /\ families \in SUBSET Family /\ family \in [families -> Row]
  BY DEF IInv, TypeOK
<1>2. /\ family' \in [families \cup {m} -> Row]
      /\ families' = families \cup {m}
      /\ family'[m] = row
      /\ \A k \in families \ {m} : family'[k] = t[k]
  <2>1. /\ Write(t, m, row) \in [families \cup {m} -> Row]
        /\ DOMAIN Write(t, m, row) = families \cup {m}
        /\ Write(t, m, row)[m] = row
        /\ \A k \in families \ {m} : Write(t, m, row)[k] = t[k]
    BY <1>1 DEF Write
  <2>2. families' = DOMAIN family'
    BY DEF families
  <2> QED
    BY <2>1, <2>2
<1>3. ASSUME NEW k \in families', NEW l \in families', family'[k].slug = family'[l].slug
      PROVE  k = l
  <2>1. ASSUME NEW x \in families \ {m} PROVE family'[x].slug = family[x].slug
    BY <1>2
  <2>2. ASSUME NEW x \in families \ {m}, family'[x].slug = row.slug PROVE FALSE
    <3>1. family[x].slug = row.slug
      BY <2>1, <2>2
    <3>2. m \in families
      BY <3>1, <2>2 DEF FreeSlugs, WithSlug
    <3> QED
      BY <1>1, <2>2, <3>1, <3>2 DEF OneFamilyPerSlug
  <2> QED
    BY <1>1, <1>2, <1>3, <2>1, <2>2 DEF OneFamilyPerSlug
<1>4. OneFamilyPerSlug'
  BY <1>3 DEF OneFamilyPerSlug
<1>5. MembersHaveFamilies'
  <2>1. active' = active /\ trashed' = trashed
    BY DEF fontVars
  <2> QED
    BY <1>1, <1>2, <2>1 DEF MembersHaveFamilies
<1>6. drifted' \subseteq families'
  BY DEF Drift, families
<1> QED
  BY <1>1, <1>2, <1>4, <1>5, <1>6 DEF TablesKept

LEMMA JoinKeeps ==
  ASSUME IInv, NEW f \in active \cup trashed, NEW old, NEW m \in Family, NEW row \in Row,
         m \in families => row.slug = family[m].slug,
         m \notin families => row.slug \in FreeSlugs,
         Join(f, old, m, row), NEW C, NEW S, Drift(C, S), UNCHANGED fontVars
  PROVE  TablesKept /\ families \subseteq families'
<1> DEFINE lost == [k \in families |-> IF k = old THEN 1 ELSE 0]
<1>1. TypeOK /\ f \in Font /\ member \in [Font -> Family \cup {NoFamily}]
  BY DEF IInv, TypeOK
<1>2. lost \in [families -> Nat]
  OBVIOUS
<1>3. /\ member' = [member EXCEPT ![f] = m]
      /\ family' = Write(Without(families, lost), m, row)
  BY DEF Join
<1> HIDE DEF lost
<1>4. PICK t \in [families -> Row] :
        (\A k \in families : t[k].slug = family[k].slug) /\ family' = Write(t, m, row)
  BY <1>1, <1>2, <1>3, WithoutType
<1>5. /\ member' \in [Font -> Family \cup {NoFamily}]
      /\ \A g \in Font : member'[g] = IF g \in {f} THEN m ELSE member[g]
  BY <1>1, <1>3
<1>6. {f} \in SUBSET (active \cup trashed)
  OBVIOUS
<1> QED
  BY <1>4, <1>5, <1>6, PlaceKeeps

LEMMA WritesKeep ==
  ASSUME IInv, NEW r \in Request, CreateFamily(r) \/ JoinFamily(r)
  PROVE  TablesKept /\ WorkKept /\ families \subseteq families'
<1> DEFINE f == work[r].font
<1>1. TypeOK /\ WorkIsSound /\ families \in SUBSET Family /\ family \in [families -> Row]
  BY DEF IInv, TypeOK
<1>2. WorkKept
  BY IdleWork DEF CreateFamily, JoinFamily
<1>3. f \in active \cup trashed /\ f \in Font
  BY <1>1, WorkTypes DEF CreateFamily, JoinFamily, WorkIsSound, Sound, Handling
<1>4. CASE CreateFamily(r)
  <2> DEFINE row == [slug |-> SlugOf[f], handmade |-> FALSE, count |-> 1]
  <2>1. PICK m \in Fresh : Join(f, member[f], m, row)
    BY <1>4 DEF CreateFamily
  <2>2. row \in Row /\ row.slug \in FreeSlugs
    BY <1>3, <1>4, SlugAssumption DEF Row, CreateFamily
  <2>3. m \in Family /\ m \notin families
    BY DEF Fresh
  <2> HIDE DEF row
  <2>4. Drift({}, {}) /\ UNCHANGED fontVars
    BY <1>4 DEF CreateFamily
  <2> HIDE DEF f
  <2> QED
    BY <1>2, <1>3, <2>1, <2>2, <2>3, <2>4, JoinKeeps
<1>5. CASE JoinFamily(r)
  <2> DEFINE m == work[r].family
             row == [family[m] EXCEPT !.count = work[r].count + 1]
             S == IF Stale(r) THEN {work[r].family, work[r].old, member[f]} ELSE {}
  <2>1. work[r].count \in Nat /\ work[r].family \in Family
    BY <1>1, <1>5, WorkTypes DEF JoinFamily
  <2>2. /\ Join(f, work[r].old, m, row) /\ m \in families
        /\ Drift({}, S) /\ UNCHANGED fontVars
    BY <1>5 DEF JoinFamily, Accepted
  <2>3. family[m] \in Row
    BY <1>1, <2>2
  <2>4. row \in Row /\ row.slug = family[m].slug /\ m \in Family
    BY <2>1, <2>3 DEF Row
  <2> HIDE DEF f, m, row, S
  <2> QED
    BY <1>2, <1>3, <2>2, <2>4, JoinKeeps
<1> QED
  BY <1>4, <1>5

(***************************************************************************)
(* The gestures of the user, and the harvest.                              *)
(***************************************************************************)

(* Families go, the others keep their slugs, and no font stays in a family *)
(* that went.                                                              *)
LEMMA ShrinkKeeps ==
  ASSUME IInv, NEW R \in SUBSET families, family' \in [R -> Row],
         \A k \in R : family'[k].slug = family[k].slug,
         member' \in [Font -> Family \cup {NoFamily}],
         \A g \in Font : member'[g] # NoFamily =>
           member'[g] \in R /\ g \in active' \cup trashed',
         NEW C, NEW S, Drift(C, S)
  PROVE  TablesKept /\ families' = R
<1>1. families \in SUBSET Family /\ OneFamilyPerSlug
  BY DEF IInv, TypeOK
<1>2. families' = R
  BY DEF families
<1>3. OneFamilyPerSlug' /\ MembersHaveFamilies'
  BY <1>1, <1>2 DEF OneFamilyPerSlug, MembersHaveFamilies
<1>4. drifted' \subseteq families'
  BY DEF Drift, families
<1> QED
  BY <1>1, <1>2, <1>3, <1>4 DEF TablesKept

LEMMA CreateByHandKeeps ==
  ASSUME IInv, NEW m \in Family, NEW s \in Slug, CreateByHand(m, s)
  PROVE  TablesKept /\ WorkKept /\ families \subseteq families'
<1> DEFINE row == [slug |-> s, handmade |-> TRUE, count |-> 0]
<1>1. /\ family \in [families -> Row] /\ member \in [Font -> Family \cup {NoFamily}]
      /\ m \notin families /\ s \in FreeSlugs /\ UNCHANGED fontVars
      /\ member' = member /\ Drift({}, {}) /\ work' = work
      /\ family' = Write(family, m, row)
  BY DEF IInv, TypeOK, CreateByHand, Fresh
<1>2. row \in Row /\ row.slug = s
  BY DEF Row
<1> HIDE DEF row
<1>3. PICK t \in [families -> Row] :
        (\A k \in families : t[k].slug = family[k].slug) /\ family' = Write(t, m, row)
  BY <1>1
<1>4. {} \in SUBSET (active \cup trashed)
      /\ \A g \in Font : member'[g] = IF g \in {} THEN m ELSE member[g]
  BY <1>1
<1>5. TablesKept /\ families \subseteq families'
  BY <1>1, <1>2, <1>3, <1>4, PlaceKeeps
<1> QED
  BY <1>1, <1>5, SameWork

LEMMA RenameKeeps ==
  ASSUME IInv, NEW m \in families, NEW s \in Slug, Rename(m, s)
  PROVE  TablesKept /\ WorkKept /\ families \subseteq families'
<1>1. /\ families \in SUBSET Family /\ family \in [families -> Row]
      /\ OneFamilyPerSlug /\ MembersHaveFamilies
      /\ member \in [Font -> Family \cup {NoFamily}]
  BY DEF IInv, TypeOK
<1>2. /\ s \in FreeSlugs /\ UNCHANGED fontVars /\ member' = member /\ work' = work
      /\ Drift({}, {}) /\ family' = [family EXCEPT ![m].slug = s]
  BY DEF Rename
<1>3. /\ \A k \in families : family'[k] = IF k = m THEN [family[m] EXCEPT !.slug = s]
                                         ELSE family[k]
      /\ families' = families
  BY <1>1, <1>2 DEF families
<1>4. family' \in [families' -> Row]
  <2>1. [family[m] EXCEPT !.slug = s] \in Row /\ [family[m] EXCEPT !.slug = s].slug = s
    BY <1>1 DEF Row
  <2> QED
    BY <1>1, <1>2, <1>3, <2>1
<1>5. \A k \in families : family'[k].slug = IF k = m THEN s ELSE family[k].slug
  BY <1>1, <1>3 DEF Row
<1>6. \A k \in families : family[k].slug # s
  BY <1>2 DEF FreeSlugs, WithSlug
<1>7. OneFamilyPerSlug'
  BY <1>1, <1>3, <1>5, <1>6 DEF OneFamilyPerSlug
<1>8. MembersHaveFamilies' /\ drifted' \subseteq families'
  BY <1>1, <1>2, <1>3 DEF MembersHaveFamilies, fontVars, Drift, families
<1> QED
  BY <1>1, <1>2, <1>3, <1>4, <1>7, <1>8, SameWork DEF TablesKept

LEMMA DeleteFamilyKeeps ==
  ASSUME IInv, NEW m \in families, DeleteFamily(m)
  PROVE  TablesKept /\ WorkKept /\ families' = families \ {m}
<1>1. /\ family \in [families -> Row] /\ MembersHaveFamilies
      /\ member \in [Font -> Family \cup {NoFamily}]
  BY DEF IInv, TypeOK
<1>2. /\ UNCHANGED fontVars /\ work' = work /\ Drift({}, {})
      /\ family' = [k \in families \ {m} |-> family[k]]
      /\ member' = [f \in Font |-> IF member[f] = m THEN NoFamily ELSE member[f]]
  BY DEF DeleteFamily
<1>3. /\ families \ {m} \in SUBSET families
      /\ family' \in [families \ {m} -> Row]
      /\ \A k \in families \ {m} : family'[k].slug = family[k].slug
      /\ member' \in [Font -> Family \cup {NoFamily}]
      /\ \A g \in Font : member'[g] # NoFamily =>
           member'[g] \in families \ {m} /\ g \in active' \cup trashed'
  BY <1>1, <1>2 DEF MembersHaveFamilies, fontVars
<1> QED
  BY <1>2, <1>3, ShrinkKeeps, SameWork

(* The counts a gesture writes. *)
LEMMA CountWritten ==
  ASSUME NEW row \in Row, NEW c \in Nat
  PROVE  /\ [row EXCEPT !.count = c] \in Row
         /\ [row EXCEPT !.count = c].slug = row.slug
         /\ [row EXCEPT !.count = c].count = c
BY DEF Row

LEMMA OneLessWritten ==
  ASSUME NEW row \in Row, NEW read \in Nat
  PROVE  /\ OneLess(row, read) \in Row /\ OneLess(row, read).slug = row.slug
         /\ OneLess(row, read).count = IF read = 0 THEN row.count ELSE read - 1
<1> DEFINE c == IF read = 0 THEN row.count ELSE read - 1
<1>1. c \in Nat
  BY DEF Row
<1>2. OneLess(row, read) = [row EXCEPT !.count = c]
  BY DEF OneLess
<1>3. OneLess(row, read) \in Row /\ OneLess(row, read).slug = row.slug
      /\ OneLess(row, read).count = c
  <2> HIDE DEF c
  <2> QED
    BY <1>1, <1>2, CountWritten
<1> QED
  BY <1>3

LEMMA CountedWritten ==
  ASSUME NEW old \in Row, NEW read \in Nat, NEW num \in Nat
  PROVE  /\ Counted(old, read, num) \in Row /\ Counted(old, read, num).slug = old.slug
         /\ Counted(old, read, num).count = IF num = read THEN old.count ELSE num
<1> DEFINE c == IF num = read THEN old.count ELSE num
<1>1. c \in Nat
  BY DEF Row
<1>2. Counted(old, read, num) = [old EXCEPT !.count = c]
  BY DEF Counted
<1>3. Counted(old, read, num) \in Row /\ Counted(old, read, num).slug = old.slug
      /\ Counted(old, read, num).count = c
  <2> HIDE DEF c
  <2> QED
    BY <1>1, <1>2, CountWritten
<1> QED
  BY <1>3

LEMMA EditReadsKeep ==
  ASSUME IInv, NEW r \in Request,
         \/ \E m \in families : BeginEdit(r, m)
         \/ \E f \in Font : FindPlaced(r, f) \/ FindRemoved(r, f)
         \/ FindLeft(r)
  PROVE  TablesKept /\ WorkKept /\ UNCHANGED famVars
<1>1. TypeOK /\ Sound(work[r]) /\ member \in [Font -> Family \cup {NoFamily}]
      /\ families \in SUBSET Family /\ family \in [families -> Row]
      /\ \A m \in families : family[m].count \in Nat
  BY DEF IInv, TypeOK, WorkIsSound, Row
<1>2. TablesKept /\ UNCHANGED famVars /\ UNCHANGED fontVars
  BY SameTables DEF BeginEdit, FindPlaced, FindRemoved, FindLeft, fontVars
<1>3. ASSUME NEW m \in families, BeginEdit(r, m) PROVE WorkKept
  <2> DEFINE w == [phase |-> "chosen", family |-> m, count |-> family[m].count]
  <2>1. w \in Work /\ Sound(w)
    BY <1>1 DEF Work, EditWork, Sound, Handling
  <2>2. work' = [work EXCEPT ![r] = w]
    BY <1>3 DEF BeginEdit
  <2> HIDE DEF w
  <2> QED
    BY <1>2, <2>1, <2>2, ReadingWork
<1>4. ASSUME NEW f \in Font, FindPlaced(r, f) PROVE WorkKept
  <2> DEFINE w == [phase |-> "placing", font |-> f, family |-> work[r].family,
                   count |-> work[r].count, old |-> member[f]]
  <2>1. /\ f \in active /\ member[f] # work[r].family
        /\ work[r].count \in Nat /\ work[r].family \in Family
    BY <1>1, <1>4, WorkTypes DEF FindPlaced
  <2>2. w \in Work /\ Sound(w)
    BY <1>1, <2>1 DEF Work, EditWork, Sound, Handling
  <2>3. work' = [work EXCEPT ![r] = w]
    BY <1>4 DEF FindPlaced
  <2> HIDE DEF w
  <2> QED
    BY <1>2, <2>2, <2>3, ReadingWork
<1>5. ASSUME NEW f \in Font, FindRemoved(r, f) PROVE WorkKept
  <2> DEFINE w == [phase |-> "removing", font |-> f, family |-> work[r].family,
                   count |-> work[r].count]
  <2>1. work[r].count \in Nat /\ work[r].family \in Family
    BY <1>1, <1>5, WorkTypes DEF FindRemoved
  <2>2. w \in Work /\ Sound(w)
    BY <2>1 DEF Work, EditWork, Sound, Handling
  <2>3. work' = [work EXCEPT ![r] = w]
    BY <1>5 DEF FindRemoved
  <2> HIDE DEF w
  <2> QED
    BY <1>2, <2>2, <2>3, ReadingWork
<1>6. CASE FindLeft(r)
  <2> DEFINE left == IF work[r].old \in families THEN work[r].old ELSE NoFamily
             n == IF left = NoFamily THEN 0 ELSE family[left].count
             w == [phase |-> "adding", font |-> work[r].font, family |-> work[r].family,
                   count |-> work[r].count, old |-> work[r].old, left |-> left,
                   leftCount |-> n]
  <2>1. /\ work[r].font \in Font /\ work[r].font \in active \cup trashed
        /\ work[r].count \in Nat /\ work[r].family \in Family
        /\ work[r].old \in Family \cup {NoFamily} /\ work[r].old # work[r].family
    BY <1>1, <1>6, WorkTypes DEF FindLeft, Sound, Handling
  <2>2. left \in Family \cup {NoFamily} /\ n \in Nat
    BY <1>1, <2>1
  <2>3. work' = [work EXCEPT ![r] = w]
    BY <1>6 DEF FindLeft
  <2>5. left \in {work[r].old, NoFamily}
    OBVIOUS
  <2> HIDE DEF left, n
  <2>6. w \in [phase : {"adding"}, font : Font, family : Family, count : Nat,
               old : Family \cup {NoFamily}, left : Family \cup {NoFamily}, leftCount : Nat]
    BY <2>1, <2>2
  <2>4. w \in Work /\ Sound(w)
    <3>1. /\ w.phase = "adding" /\ w.font = work[r].font /\ w.old = work[r].old
          /\ w.family = work[r].family /\ w.left = left
      OBVIOUS
    <3>2. Sound(w)
      <4> HIDE DEF w
      <4> QED
        BY <2>1, <2>5, <3>1 DEF Sound
    <3> HIDE DEF w
    <3> QED
      BY <2>6, <3>2 DEF Work, EditWork
  <2> HIDE DEF w
  <2> QED
    BY <1>2, <2>3, <2>4, ReadingWork
<1> QED
  BY <1>2, <1>3, <1>4, <1>5, <1>6

LEMMA MergeReadsKeep ==
  ASSUME IInv, NEW r \in Request,
         \/ \E m \in families, S \in SUBSET families : BeginMerge(r, m, S)
         \/ ListMembers(r)
         \/ CountMembers(r)
         \/ GestureFails(r)
  PROVE  TablesKept /\ WorkKept /\ UNCHANGED famVars
<1>1. TypeOK /\ Sound(work[r]) /\ families \in SUBSET Family
      /\ \A m \in families : family[m].count \in Nat
  BY DEF IInv, TypeOK, WorkIsSound, Row
<1>2. TablesKept /\ UNCHANGED famVars /\ UNCHANGED fontVars
  BY SameTables DEF BeginMerge, ListMembers, CountMembers, GestureFails, fontVars
<1>3. ASSUME NEW m \in families, NEW S \in SUBSET families, BeginMerge(r, m, S)
      PROVE  WorkKept
  <2> DEFINE w == [phase |-> "merging", family |-> m, count |-> family[m].count,
                   sources |-> S]
  <2>1. m \notin S /\ S \in SUBSET Family
    BY <1>1, <1>3 DEF BeginMerge
  <2>2. w \in Work /\ Sound(w)
    BY <1>1, <2>1 DEF Work, MergeWork, Sound, Handling
  <2>3. work' = [work EXCEPT ![r] = w]
    BY <1>3 DEF BeginMerge
  <2> HIDE DEF w
  <2> QED
    BY <1>2, <2>2, <2>3, ReadingWork
<1>4. CASE ListMembers(r)
  <2>1. PICK m \in work[r].sources :
          work' = [work EXCEPT ![r] =
            [phase |-> "merged", family |-> work[r].family, count |-> work[r].count,
             sources |-> work[r].sources, first |-> m, moved |-> Members(m)]]
    BY <1>4 DEF ListMembers
  <2> DEFINE w == [phase |-> "merged", family |-> work[r].family, count |-> work[r].count,
                   sources |-> work[r].sources, first |-> m, moved |-> Members(m)]
  <2>2. /\ work[r].count \in Nat /\ work[r].family \in Family
        /\ work[r].sources \in SUBSET Family /\ work[r].family \notin work[r].sources
        /\ Members(m) \in SUBSET Font
    BY <1>1, <1>4, WorkTypes DEF ListMembers, Sound, Members
  <2>3. w \in Work /\ Sound(w)
    BY <2>2 DEF Work, MergeWork, Sound, Handling
  <2>4. work' = [work EXCEPT ![r] = w]
    BY <2>1
  <2> HIDE DEF w
  <2> QED
    BY <1>2, <2>3, <2>4, ReadingWork
<1>5. CASE CountMembers(r)
  <2> DEFINE n == Cardinality(Members(work[r].family) \cap active)
             w == [phase |-> "counted", family |-> work[r].family,
                   count |-> work[r].count, members |-> n]
  <2>1. Members(work[r].family) \cap active \in SUBSET Font
    BY DEF Members
  <2>2. n \in Nat /\ work[r].count \in Nat /\ work[r].family \in Family
    BY <1>1, <1>5, <2>1, CountType, WorkTypes DEF CountMembers
  <2>3. work' = [work EXCEPT ![r] = w]
    BY <1>5 DEF CountMembers
  <2> HIDE DEF n
  <2>4. w \in Work /\ Sound(w)
    BY <2>2 DEF Work, MergeWork, Sound, Handling
  <2> HIDE DEF w
  <2> QED
    BY <1>2, <2>3, <2>4, ReadingWork
<1>6. CASE GestureFails(r)
  BY <1>2, <1>6, IdleWork DEF GestureFails
<1> QED
  BY <1>2, <1>3, <1>4, <1>5, <1>6

LEMMA RemoveFontKeeps ==
  ASSUME IInv, NEW r \in Request, RemoveFont(r)
  PROVE  TablesKept /\ WorkKept /\ families \subseteq families'
<1> DEFINE m == work[r].family
           f == work[r].font
           S == IF Overtaken(r) THEN {m, member[f]} ELSE {}
<1>1. /\ family \in [families -> Row] /\ MembersHaveFamilies
      /\ member \in [Font -> Family \cup {NoFamily}]
      /\ f \in Font /\ work[r].count \in Nat
  BY WorkTypes DEF IInv, TypeOK, RemoveFont
<1>2. /\ UNCHANGED fontVars /\ work' = [work EXCEPT ![r] = Idle] /\ Drift({}, S)
      /\ m \in families
      /\ family' = [family EXCEPT ![m] = OneLess(@, work[r].count)]
      /\ member' = [member EXCEPT ![f] = NoFamily]
  BY DEF RemoveFont
<1> HIDE DEF S, m, f
<1>3. /\ OneLess(family[m], work[r].count) \in Row
      /\ OneLess(family[m], work[r].count).slug = family[m].slug
  BY <1>1, <1>2, OneLessWritten
<1>4. /\ family' \in [families -> Row]
      /\ \A k \in families : family'[k].slug = family[k].slug
  BY <1>1, <1>2, <1>3
<1>5. /\ member' \in [Font -> Family \cup {NoFamily}]
      /\ \A g \in Font : member'[g] # NoFamily =>
           member'[g] \in families /\ g \in active' \cup trashed'
  BY <1>1, <1>2 DEF MembersHaveFamilies, fontVars
<1>6. TablesKept /\ families' = families
  <2>1. families \in SUBSET families
    OBVIOUS
  <2> QED
    BY <1>2, <1>4, <1>5, <2>1, ShrinkKeeps
<1> QED
  BY <1>2, <1>6, IdleWork

LEMMA AddFontKeeps ==
  ASSUME IInv, NEW r \in Request, AddFont(r)
  PROVE  TablesKept /\ WorkKept /\ families \subseteq families'
<1> DEFINE m == work[r].family
           f == work[r].font
           l == work[r].left
           row == [family[m] EXCEPT !.count = work[r].count + 1]
           less == OneLess(family[l], work[r].leftCount)
           S == IF Overtaken(r) THEN {m, work[r].old, member[f]} ELSE {}
<1>1. /\ family \in [families -> Row] /\ MembersHaveFamilies
      /\ families \in SUBSET Family /\ member \in [Font -> Family \cup {NoFamily}]
      /\ f \in Font /\ f \in active \cup trashed
      /\ work[r].count \in Nat /\ work[r].leftCount \in Nat
  BY WorkTypes DEF IInv, TypeOK, AddFont, WorkIsSound, Sound, Handling
<1>2. /\ UNCHANGED fontVars /\ work' = [work EXCEPT ![r] = Idle] /\ Drift({}, S)
      /\ m \in families /\ l \in families \cup {NoFamily}
      /\ family' = [k \in families |-> IF k = m THEN row ELSE IF k = l THEN less
                                          ELSE family[k]]
      /\ member' = [member EXCEPT ![f] = m]
  BY DEF AddFont
<1>3. row \in Row /\ row.slug = family[m].slug
  BY <1>1, <1>2 DEF Row
<1>4. l \in families => less \in Row /\ less.slug = family[l].slug
  BY <1>1, OneLessWritten
<1> HIDE DEF S, m, f, l, row, less
<1>5. /\ family' \in [families -> Row]
      /\ \A k \in families : family'[k].slug = family[k].slug
  BY <1>1, <1>2, <1>3, <1>4
<1>6. /\ member' \in [Font -> Family \cup {NoFamily}]
      /\ \A g \in Font : member'[g] # NoFamily =>
           member'[g] \in families /\ g \in active' \cup trashed'
  BY <1>1, <1>2 DEF MembersHaveFamilies, fontVars
<1>7. TablesKept /\ families' = families
  <2>1. families \in SUBSET families
    OBVIOUS
  <2> QED
    BY <1>2, <1>5, <1>6, <2>1, ShrinkKeeps
<1> QED
  BY <1>2, <1>7, IdleWork

LEMMA MergeKeeps ==
  ASSUME IInv, NEW r \in Request, MergeFamilies(r)
  PROVE  TablesKept /\ WorkKept /\ families' = families \ work[r].sources
<1> DEFINE m == work[r].family
           gone == work[r].sources
           first == work[r].first
           moved == work[r].moved \cup {f \in Font : member[f] \in gone \ {first}}
           all == Members(m) \cup moved
           n == Cardinality(all \cap active)
           lost == {member[f] : f \in work[r].moved} \ {m, first}
           S == lost \cup (IF Miscounted(r, all, n) THEN {m} ELSE {})
           row == Counted(family[m], work[r].count, n)
<1>1. /\ family \in [families -> Row] /\ MembersHaveFamilies
      /\ member \in [Font -> Family \cup {NoFamily}] /\ families \in SUBSET Family
      /\ active \in SUBSET Font
      /\ work[r].count \in Nat /\ work[r].moved \in SUBSET Font
      /\ m \notin gone /\ first \in gone
  BY WorkTypes DEF IInv, TypeOK, MergeFamilies, WorkIsSound, Sound
<1>2. /\ UNCHANGED fontVars /\ work' = [work EXCEPT ![r] = Idle] /\ Drift({m}, S)
      /\ m \in families /\ \A f \in work[r].moved : member[f] # NoFamily
      /\ member' = [f \in Font |-> IF f \in moved THEN m
                                    ELSE IF member[f] = first THEN NoFamily ELSE member[f]]
      /\ family' = [k \in families \ gone |-> IF k = m THEN row ELSE family[k]]
  BY DEF MergeFamilies
<1>3. n \in Nat
  <2>1. all \cap active \in SUBSET Font
    BY <1>1
  <2> QED
    BY <2>1, CountType
<1>4. /\ \A f \in Font : member[f] \in gone \ {first} => f \in moved
      /\ \A f \in moved : member[f] # NoFamily \/ NoFamily \in gone
      /\ gone \in SUBSET Family
  BY <1>2, WorkTypes DEF IInv, MergeFamilies
<1>5. row \in Row /\ row.slug = family[m].slug
  <2> DEFINE was == family[m]
             read == work[r].count
  <2>1. was \in Row /\ read \in Nat /\ n \in Nat
    BY <1>1, <1>2, <1>3
  <2>2. /\ Counted(was, read, n) \in Row
        /\ Counted(was, read, n).slug = was.slug
    <3> HIDE DEF was, read, n
    <3> QED
      BY <2>1, CountedWritten
  <2> QED
    BY <2>2
<1> HIDE DEF S, row, moved, gone, first, m, n, all, lost
<1>6. /\ families \ gone \in SUBSET families
      /\ family' \in [families \ gone -> Row]
      /\ \A k \in families \ gone : family'[k].slug = family[k].slug
  BY <1>1, <1>2, <1>5
<1>7. /\ member' \in [Font -> Family \cup {NoFamily}]
      /\ \A g \in Font : member'[g] # NoFamily =>
           member'[g] \in families \ gone /\ g \in active' \cup trashed'
  BY <1>1, <1>2, <1>4, FamilyAssumption DEF MembersHaveFamilies, fontVars
<1>8. TablesKept /\ families' = families \ gone
  BY <1>2, <1>6, <1>7, ShrinkKeeps
<1> QED
  BY <1>2, <1>8, IdleWork DEF gone

LEMMA RecountKeeps ==
  ASSUME IInv, NEW r \in Request, RecountFamily(r)
  PROVE  TablesKept /\ WorkKept /\ families \subseteq families'
<1> DEFINE m == work[r].family
           n == work[r].members
           row == Counted(family[m], work[r].count, n)
           S == IF Miscounted(r, Members(m), n) \/ n # Cardinality(Members(m))
                THEN {m} ELSE {}
<1>1. /\ family \in [families -> Row] /\ MembersHaveFamilies
      /\ member \in [Font -> Family \cup {NoFamily}]
      /\ work[r].count \in Nat /\ n \in Nat
  BY WorkTypes DEF IInv, TypeOK, RecountFamily
<1>2. /\ UNCHANGED fontVars /\ work' = [work EXCEPT ![r] = Idle] /\ Drift({m}, S)
      /\ m \in families /\ member' = member
      /\ family' = [family EXCEPT ![m] = row]
  BY DEF RecountFamily
<1>3. row \in Row /\ row.slug = family[m].slug
  <2> DEFINE was == family[m]
             read == work[r].count
  <2>1. was \in Row /\ read \in Nat /\ n \in Nat
    BY <1>1, <1>2
  <2>2. /\ Counted(was, read, n) \in Row
        /\ Counted(was, read, n).slug = was.slug
    <3> HIDE DEF was, read, n
    <3> QED
      BY <2>1, CountedWritten
  <2> QED
    BY <2>2
<1> HIDE DEF S, row, m, n
<1>4. /\ family' \in [families -> Row]
      /\ \A k \in families : family'[k].slug = family[k].slug
  BY <1>1, <1>2, <1>3
<1>5. /\ member' \in [Font -> Family \cup {NoFamily}]
      /\ \A g \in Font : member'[g] # NoFamily =>
           member'[g] \in families /\ g \in active' \cup trashed'
  BY <1>1, <1>2 DEF MembersHaveFamilies, fontVars
<1>6. TablesKept /\ families' = families
  <2>1. families \in SUBSET families
    OBVIOUS
  <2> QED
    BY <1>2, <1>4, <1>5, <2>1, ShrinkKeeps
<1> QED
  BY <1>2, <1>6, IdleWork

LEMMA HarvestKeeps ==
  ASSUME IInv, NEW H \in SUBSET trashed,
         \A r \in Request, f \in H : ~Handles(r, f), Harvest(H)
  PROVE  TablesKept /\ WorkKept /\ Handmade \subseteq families'
<1> DEFINE touched == {member[f] : f \in H} \ {NoFamily}
           gone == Emptied(H, touched)
<1>1. /\ family \in [families -> Row] /\ MembersHaveFamilies
      /\ member \in [Font -> Family \cup {NoFamily}] /\ families \in SUBSET Family
      /\ active \in SUBSET Font /\ trashed \in SUBSET (Font \ active)
      /\ work \in [Request -> Work] /\ WorkIsSound
  BY DEF IInv, TypeOK
<1>2. /\ trashed' = trashed \ H /\ active' = active /\ work' = work /\ Drift(touched, {})
      /\ member' = [f \in Font |-> IF f \in H THEN NoFamily ELSE member[f]]
      /\ family' = [m \in families \ gone |->
                      IF m \in touched
                      THEN [family[m] EXCEPT !.count = Cardinality(Members(m) \ H)]
                      ELSE family[m]]
  BY DEF Harvest
<1>3. /\ gone \cap Handmade = {} /\ Handmade \subseteq families
      /\ \A f \in Font \ H : member[f] \notin gone
  BY DEF Emptied, Members, Handmade
<1> HIDE DEF touched, gone
<1>4. \A k \in families : /\ [family[k] EXCEPT !.count = Cardinality(Members(k) \ H)] \in Row
                          /\ [family[k] EXCEPT !.count = Cardinality(Members(k) \ H)].slug
                               = family[k].slug
  <2> SUFFICES ASSUME NEW k \in families
               PROVE  /\ [family[k] EXCEPT !.count = Cardinality(Members(k) \ H)] \in Row
                      /\ [family[k] EXCEPT !.count = Cardinality(Members(k) \ H)].slug
                           = family[k].slug
    OBVIOUS
  <2>1. Cardinality(Members(k) \ H) \in Nat
    BY CountType DEF Members
  <2> QED
    BY <1>1, <2>1 DEF Row
<1>5. /\ families \ gone \in SUBSET families
      /\ family' \in [families \ gone -> Row]
      /\ \A k \in families \ gone : family'[k].slug = family[k].slug
  BY <1>1, <1>2, <1>4
<1>6. /\ member' \in [Font -> Family \cup {NoFamily}]
      /\ \A g \in Font : member'[g] # NoFamily =>
           member'[g] \in families \ gone /\ g \in active' \cup trashed'
  BY <1>1, <1>2, <1>3 DEF MembersHaveFamilies
<1>7. TablesKept /\ families' = families \ gone
  BY <1>2, <1>5, <1>6, ShrinkKeeps
<1>8. WorkKept
  BY <1>1, <1>2 DEF WorkKept, WorkIsSound, Sound, Handles, Handling
<1> QED
  BY <1>3, <1>7, <1>8

LEMMA RegroupKeeps ==
  ASSUME IInv, RegroupAll
  PROVE  TablesKept /\ WorkKept /\ Handmade \subseteq families'
<1> DEFINE moved == ToRegroup
           needed == {SlugOf[f] : f \in moved}
           Named(s) == Handmade \cap WithSlug(s)
<1>1. /\ family \in [families -> Row] /\ MembersHaveFamilies /\ OneFamilyPerSlug
      /\ member \in [Font -> Family \cup {NoFamily}] /\ families \in SUBSET Family
      /\ active \in SUBSET Font
  BY DEF IInv, TypeOK
<1>2. /\ moved \in SUBSET active /\ moved \in SUBSET Font
      /\ \A f \in active \ moved : member[f] \in Handmade
      /\ needed \in SUBSET Slug /\ \A f \in moved : SlugOf[f] \in needed
      /\ Handmade \in SUBSET families
  BY <1>1, SlugAssumption DEF ToRegroup, Handmade
<1>3. PICK place \in [needed -> Family] :
        /\ \A s \in needed : place[s] \in
             IF Named(s) # {} THEN Named(s) ELSE Family \ (Handmade \cup Remembered)
        /\ \A s, t \in needed : place[s] = place[t] => s = t
        /\ LET Arrivals(m) == {f \in moved : place[SlugOf[f]] = m}
           IN  family' = [m \in Handmade \cup {place[s] : s \in needed} |->
                 IF m \in Handmade
                 THEN [family[m] EXCEPT !.count = @ + Cardinality(Arrivals(m))]
                 ELSE [slug |-> CHOOSE s \in needed : place[s] = m,
                       handmade |-> FALSE, count |-> Cardinality(Arrivals(m))]]
        /\ member' = [f \in Font |-> IF f \in moved THEN place[SlugOf[f]]
                                      ELSE IF member[f] \in Handmade THEN member[f]
                                      ELSE NoFamily]
        /\ Drift(families \ Handmade, {})
        /\ UNCHANGED <<fontVars, work>>
  BY DEF RegroupAll
<1> DEFINE D == Handmade \cup {place[s] : s \in needed}
           n(m) == Cardinality({f \in moved : place[SlugOf[f]] = m})
<1>4. \A s \in needed : (\E k \in Handmade : family[k].slug = s) => place[s] \in Handmade
  BY <1>3 DEF WithSlug, Handmade
<1>5. \A m : n(m) \in Nat
  <2> SUFFICES ASSUME NEW m PROVE n(m) \in Nat
    OBVIOUS
  <2>1. {f \in moved : place[SlugOf[f]] = m} \in SUBSET Font
    BY <1>2
  <2> QED
    BY <2>1, CountType
<1>6. /\ DOMAIN family' = D /\ family' = [m \in D |-> family'[m]]
      /\ \A m \in Handmade : family'[m] = [family[m] EXCEPT !.count = @ + n(m)]
      /\ \A m \in D \ Handmade :
           family'[m] = [slug |-> CHOOSE s \in needed : place[s] = m,
                         handmade |-> FALSE, count |-> n(m)]
  BY <1>3
<1>7. /\ D \in SUBSET Family /\ \A s \in needed : place[s] \in D /\ Handmade \subseteq D
      /\ \A m \in D \ Handmade : \E s \in needed : place[s] = m
      /\ families' = D
  BY <1>1, <1>2, <1>3, <1>6 DEF families
<1>8. \A s, t \in needed : place[s] = place[t] => s = t
  BY <1>3
<1>9. /\ member' = [f \in Font |-> IF f \in moved THEN place[SlugOf[f]]
                                    ELSE IF member[f] \in Handmade THEN member[f]
                                    ELSE NoFamily]
      /\ Drift(families \ Handmade, {}) /\ UNCHANGED fontVars /\ work' = work
  BY <1>3
<1> HIDE DEF D, n, moved, needed, Named
<1>10. \A m \in Handmade : family'[m] \in Row /\ family'[m].slug = family[m].slug
  <2> SUFFICES ASSUME NEW m \in Handmade
               PROVE  family'[m] \in Row /\ family'[m].slug = family[m].slug
    OBVIOUS
  <2> DEFINE c == family[m].count + n(m)
  <2>1. family[m] \in Row
    BY <1>1, <1>2
  <2>2. c \in Nat
    BY <1>5, <2>1 DEF Row
  <2>3. family'[m] = [family[m] EXCEPT !.count = c]
    BY <1>6
  <2> HIDE DEF c
  <2> QED
    BY <2>1, <2>2, <2>3 DEF Row
<1>11. ASSUME NEW m \in D \ Handmade
       PROVE  \E s \in needed : place[s] = m /\ family'[m].slug = s /\ family'[m] \in Row
  <2>1. PICK s \in needed : place[s] = m
    BY <1>7
  <2>2. (CHOOSE t \in needed : place[t] = m) = s
    BY <1>8, <2>1
  <2>3. family'[m] = [slug |-> s, handmade |-> FALSE, count |-> n(m)]
    BY <1>6, <2>2
  <2> QED
    BY <1>2, <1>5, <2>1, <2>3 DEF Row
<1>12. family' \in [families' -> Row]
  BY <1>6, <1>7, <1>10, <1>11
<1>13. OneFamilyPerSlug'
  <2> SUFFICES ASSUME NEW m \in D, NEW k \in D, family'[m].slug = family'[k].slug
               PROVE  m = k
    BY <1>7 DEF OneFamilyPerSlug
  <2>1. CASE m \in Handmade /\ k \in Handmade
    BY <1>1, <1>2, <1>10, <2>1 DEF OneFamilyPerSlug
  <2>2. CASE m \in Handmade /\ k \notin Handmade
    BY <1>4, <1>10, <1>11, <2>2
  <2>3. CASE m \notin Handmade /\ k \in Handmade
    BY <1>4, <1>10, <1>11, <2>3
  <2>4. CASE m \notin Handmade /\ k \notin Handmade
    BY <1>11, <2>4
  <2> QED
    BY <2>1, <2>2, <2>3, <2>4
<1>14. member' \in [Font -> Family \cup {NoFamily}]
  BY <1>1, <1>2, <1>3, <1>9
<1>15. MembersHaveFamilies'
  <2> SUFFICES ASSUME NEW f \in Font, member'[f] # NoFamily
               PROVE  member'[f] \in D /\ f \in active \cup trashed
    BY <1>7, <1>9 DEF MembersHaveFamilies, fontVars
  <2>1. CASE f \in moved
    BY <1>2, <1>7, <1>9, <2>1
  <2>2. CASE f \notin moved /\ member[f] \in Handmade
    <3>1. member'[f] = member[f] /\ member[f] # NoFamily
      BY <1>9, <2>2
    <3> QED
      BY <1>1, <1>2, <1>7, <2>2, <3>1 DEF MembersHaveFamilies, D
  <2> QED
    BY <1>9, <2>1, <2>2
<1>16. drifted' \subseteq families'
  BY <1>9 DEF Drift, families
<1>17. WorkKept
  BY <1>9, SameWork
<1> QED
  BY <1>7, <1>12, <1>13, <1>14, <1>15, <1>16, <1>17 DEF TablesKept, D

(***************************************************************************)
(* Every step.                                                             *)
(***************************************************************************)

(* A family made by hand goes only with a gesture on it. *)
HandmadeKept ==
  \A m \in Handmade \ families' :
    \/ DeleteFamily(m)
    \/ \E r \in Request : MergeFamilies(r) /\ m \in work[r].sources

LEMMA NothingGone ==
  ASSUME families \subseteq families' \/ Handmade \subseteq families'
  PROVE  HandmadeKept
BY DEF HandmadeKept, Handmade

LEMMA SameFamilies ==
  ASSUME UNCHANGED famVars
  PROVE  HandmadeKept
BY NothingGone DEF famVars, families

LEMMA ImportStepKeeps ==
  ASSUME IInv, NEW r \in Request, ImportStep(r)
  PROVE  TablesKept /\ WorkKept /\ HandmadeKept
<1>1. CASE \E f \in Font : ImportFont(r, f)
  BY <1>1, ImportKeeps, SameFamilies DEF ImportFont
<1>2. CASE FindFamily(r) \/ FindMember(r) \/ StayInFamily(r) \/ GroupingFails(r)
  BY <1>2, ReadsKeep, SameFamilies DEF FindFamily, FindMember, StayInFamily, GroupingFails
<1>3. CASE CreateFamily(r) \/ JoinFamily(r)
  BY <1>3, WritesKeep, NothingGone
<1> QED
  BY <1>1, <1>2, <1>3 DEF ImportStep

LEMMA FontStepKeeps ==
  ASSUME IInv, FontStep \/ ServerStop
  PROVE  TablesKept /\ WorkKept /\ HandmadeKept
<1>1. /\ work \in [Request -> Work] /\ WorkIsSound
      /\ active \in SUBSET Font /\ trashed \in SUBSET (Font \ active)
  BY DEF IInv, TypeOK
<1>2. CASE \E f \in Font : TrashFont(f)
  <2>1. TablesKept /\ HandmadeKept
    BY <1>2, SameTables, SameFamilies DEF TrashFont
  <2>2. WorkKept
    BY <1>1, <1>2 DEF TrashFont, WorkKept, WorkIsSound, Sound
  <2> QED
    BY <2>1, <2>2
<1>3. CASE \E f \in Font : RestoreFont(f)
  <2>1. TablesKept /\ HandmadeKept
    BY <1>3, SameTables, SameFamilies DEF RestoreFont
  <2>2. WorkKept
    BY <1>1, <1>3 DEF RestoreFont, WorkKept, WorkIsSound, Sound
  <2> QED
    BY <2>1, <2>2
<1>4. ASSUME NEW H \in SUBSET {f \in trashed : \A r \in Request : ~Handles(r, f)}, Harvest(H)
      PROVE  TablesKept /\ WorkKept /\ HandmadeKept
  <2>1. H \in SUBSET trashed /\ \A r \in Request, f \in H : ~Handles(r, f)
    OBVIOUS
  <2> QED
    BY <1>4, <2>1, HarvestKeeps, NothingGone
<1>5. CASE ServerStop
  <2>1. TablesKept /\ HandmadeKept
    BY <1>5, SameTables, SameFamilies DEF ServerStop, fontVars
  <2>2. WorkKept
    BY <1>1, <1>5 DEF ServerStop, WorkKept, WorkIsSound, Sound, fontVars, Work, Idle, Handling
  <2> QED
    BY <2>1, <2>2
<1> QED
  BY <1>2, <1>3, <1>4, <1>5 DEF FontStep

LEMMA GestureStepKeeps ==
  ASSUME IInv, NEW r \in Request, GestureStep(r)
  PROVE  TablesKept /\ WorkKept /\ HandmadeKept
<1>1. CASE (\E f \in Font : FindPlaced(r, f) \/ FindRemoved(r, f)) \/ FindLeft(r)
  BY <1>1, EditReadsKeep, SameFamilies
<1>2. CASE ListMembers(r) \/ CountMembers(r) \/ GestureFails(r)
  BY <1>2, MergeReadsKeep, SameFamilies
<1>3. CASE AddFont(r)
  BY <1>3, AddFontKeeps, NothingGone
<1>4. CASE RemoveFont(r)
  BY <1>4, RemoveFontKeeps, NothingGone
<1>5. CASE MergeFamilies(r)
  BY <1>5, MergeKeeps DEF HandmadeKept, Handmade
<1>6. CASE RecountFamily(r)
  BY <1>6, RecountKeeps, NothingGone
<1> QED
  BY <1>1, <1>2, <1>3, <1>4, <1>5, <1>6 DEF GestureStep

LEMMA GestureKeeps ==
  ASSUME IInv, Gesture
  PROVE  TablesKept /\ WorkKept /\ HandmadeKept
<1>1. CASE RegroupAll
  BY <1>1, RegroupKeeps, NothingGone
<1>2. CASE \E r \in Request, m \in families, S \in SUBSET families : BeginMerge(r, m, S)
  BY <1>2, MergeReadsKeep, SameFamilies
<1>3. CASE \E m \in Family, s \in Slug : CreateByHand(m, s)
  BY <1>3, CreateByHandKeeps, NothingGone
<1>4. CASE \E m \in families, s \in Slug : Rename(m, s)
  BY <1>4, RenameKeeps, NothingGone
<1>5. ASSUME NEW m \in families, DeleteFamily(m)
      PROVE  TablesKept /\ WorkKept /\ HandmadeKept
  BY <1>5, DeleteFamilyKeeps DEF HandmadeKept, Handmade
<1>6. CASE \E r \in Request, m \in families : BeginEdit(r, m)
  BY <1>6, EditReadsKeep, SameFamilies
<1> QED
  BY <1>1, <1>2, <1>3, <1>4, <1>5, <1>6 DEF Gesture

LEMMA NextKeeps ==
  ASSUME IInv, [Next]_vars
  PROVE  IInv' /\ [HandmadeKept]_vars
<1>1. gestures \in 0..MaxGestures /\ MaxGestures \in Nat
  BY GroupingBoundsAssumption DEF IInv, TypeOK
<1>2. CASE (\E r \in Request : ImportStep(r) \/ GestureStep(r)) /\ UNCHANGED gestures
  BY <1>1, <1>2, ImportStepKeeps, GestureStepKeeps, KeptTogether
<1>3. CASE (FontStep \/ ServerStop) /\ UNCHANGED gestures
  BY <1>1, <1>3, FontStepKeeps, KeptTogether
<1>4. CASE gestures < MaxGestures /\ gestures' = gestures + 1 /\ Gesture
  <2>1. gestures' \in 0..MaxGestures
    BY <1>1, <1>4
  <2> QED
    BY <1>4, <2>1, GestureKeeps, KeptTogether
<1>5. CASE UNCHANGED vars
  BY <1>5 DEF vars, IInv, TypeOK, MembersHaveFamilies, OneFamilyPerSlug, WorkIsSound,
              families, Sound
<1> QED
  BY <1>2, <1>3, <1>4, <1>5 DEF Next

LEMMA Invariance == Spec => []IInv
<1>1. Init => IInv
  <2> SUFFICES ASSUME Init PROVE IInv
    OBVIOUS
  <2>1. families = {}
    BY DEF Init, families
  <2>2. TypeOK
    BY <2>1, GroupingBoundsAssumption DEF Init, TypeOK, Row, Work, Idle
  <2> QED
    BY <2>1, <2>2 DEF Init, IInv, MembersHaveFamilies, OneFamilyPerSlug, WorkIsSound, Sound,
                      Idle, Handling
<1>2. IInv /\ [Next]_vars => IInv'
  BY NextKeeps
<1> QED
  BY <1>1, <1>2, PTL DEF Spec

(* The tables and the requests under way keep their types. *)
THEOREM FamiliesTypeCorrect == Spec => []TypeOK
<1>1. IInv => TypeOK
  BY DEF IInv
<1> QED
  BY <1>1, Invariance, PTL

(* Two fonts whose names give one slug never open two families, however    *)
(* many imports look for it at once (the unique slug of font_families and  *)
(* the rollback of group_font), and no gesture makes two of one.           *)
THEOREM SlugsStayUnique == Spec => []OneFamilyPerSlug
<1>1. IInv => OneFamilyPerSlug
  BY DEF IInv
<1> QED
  BY <1>1, Invariance, PTL

(* No membership is left behind: not by a harvest, which decides from the  *)
(* members and never from style_count, nor by a regrouping or a merge.     *)
THEOREM MembershipsLeadSomewhere == Spec => []MembersHaveFamilies
<1>1. IInv => MembersHaveFamilies
  BY DEF IInv
<1> QED
  BY <1>1, Invariance, PTL

(* Neither a harvest nor a regrouping takes a family made by hand. *)
THEOREM HandmadeFamiliesAreKept == Spec => HandmadeFamiliesStay
<1>1. IInv /\ [Next]_vars =>
        [\A m \in Handmade \ families' :
           \/ DeleteFamily(m)
           \/ \E r \in Request : MergeFamilies(r) /\ m \in work[r].sources]_vars
  BY NextKeeps DEF HandmadeKept
<1> QED
  BY <1>1, Invariance, PTL DEF Spec, HandmadeFamiliesStay

(***************************************************************************)
(* The counts.  A step changes the members of the families it touches, and *)
(* writes for each of them a count that follows its members.               *)
(***************************************************************************)

(* Counting fonts. *)
LEMMA CountJoined ==
  ASSUME NEW S \in SUBSET Font, NEW T \in SUBSET Font, S \cap T = {}
  PROVE  Cardinality(S \cup T) = Cardinality(S) + Cardinality(T)
<1>1. IsFiniteSet(S) /\ IsFiniteSet(T)
  BY FontAssumption, FS_Subset
<1>2. Cardinality(S \cup T) = Cardinality(S) + Cardinality(T) - Cardinality({})
  BY <1>1, FS_Union
<1>3. Cardinality({}) = 0 /\ Cardinality(S) \in Nat /\ Cardinality(T) \in Nat
  BY FS_EmptySet, CountType
<1> QED
  BY <1>2, <1>3

LEMMA CountLeft ==
  ASSUME NEW S \in SUBSET Font, NEW T \in SUBSET Font
  PROVE  /\ Cardinality(S \ T) = Cardinality(S) - Cardinality(S \cap T)
         /\ Cardinality(S \cap T) <= Cardinality(S)
         /\ Cardinality(S) \in Nat /\ Cardinality(S \cap T) \in Nat
<1>1. IsFiniteSet(S)
  BY FontAssumption, FS_Subset
<1>2. S \cap T \in SUBSET S /\ S \cap T \in SUBSET Font
  OBVIOUS
<1> QED
  BY <1>1, <1>2, FS_Difference, FS_Subset, CountType

(* The members of k as a step leaves them. *)
LEMMA MembersAfter ==
  ASSUME NEW k
  PROVE  Members(k)' = {f \in Font : member'[f] = k}
BY DEF Members

(* A family with an exact count that loses the fonts of F keeps one. *)
LEMMA ExactWithout ==
  ASSUME TypeOK, CountsAreExact, NEW k \in families, k \notin drifted,
         NEW F \in SUBSET Font, NEW lost \in [families -> Nat],
         lost[k] = Cardinality(Members(k) \cap F)
  PROVE  Without(families, lost)[k].count = Cardinality(Members(k) \ F)
<1> DEFINE n == Cardinality(Members(k))
           l == Cardinality(Members(k) \cap F)
<1>1. family[k] \in Row /\ family[k].count = n
  BY DEF TypeOK, CountsAreExact
<1>2. Members(k) \in SUBSET Font
  BY DEF Members
<1>3. n \in Nat /\ l \in Nat /\ l <= n /\ Cardinality(Members(k) \ F) = n - l
  BY <1>2, CountLeft
<1>4. Without(families, lost)[k] = [family[k] EXCEPT !.count = IF @ > l THEN @ - l ELSE 0]
  BY DEF Without
<1> HIDE DEF n, l
<1>5. Without(families, lost)[k].count = IF n > l THEN n - l ELSE 0
  BY <1>1, <1>4 DEF Row
<1> QED
  BY <1>3, <1>5

(* A step that writes the tables leaves every family it does not touch. *)
Untouched(k) == family'[k] = family[k] /\ Members(k)' = Members(k)

LEMMA ExactUntouched ==
  ASSUME CountsAreExact, NEW k \in families, k \notin drifted, Untouched(k)
  PROVE  family'[k].count = Cardinality(Members(k)')
BY DEF CountsAreExact, Untouched

LEMMA CountsFromRows ==
  ASSUME \A k \in families' \ drifted' : family'[k].count = Cardinality(Members(k)')
  PROVE  CountsAreExact'
BY DEF CountsAreExact

LEMMA CountsSame ==
  ASSUME CountsAreExact, UNCHANGED famVars
  PROVE  CountsAreExact'
BY DEF CountsAreExact, famVars, families, Members

(* The fonts of F join the family m, and every other family whose count is *)
(* still vouched for loses those it had.                                   *)
Placed(F, m) == \A g \in Font : member'[g] = IF g \in F THEN m ELSE member[g]

Accounted(F, m, lost) ==
  \A k \in families : k \notin drifted' /\ k # m => lost[k] = Cardinality(Members(k) \cap F)

LEMMA ExactPlacement ==
  ASSUME IInv, CountsAreExact, NEW F \in SUBSET Font, NEW m \in Family,
         NEW row \in Row, NEW lost \in [families -> Nat],
         F \cap Members(m) = {},
         Placed(F, m), Accounted(F, m, lost), drifted \subseteq drifted',
         family' = Write(Without(families, lost), m, row),
         m \notin drifted' => row.count = Cardinality(Members(m)) + Cardinality(F)
  PROVE  CountsAreExact'
<1>1. TypeOK
  BY DEF IInv
<1>2. /\ families' = families \cup {m}
      /\ family'[m] = row
      /\ \A k \in families \ {m} : family'[k] = Without(families, lost)[k]
  BY DEF Write, Without, families
<1>3. Members(m)' = Members(m) \cup F /\ Members(m) \in SUBSET Font
  BY MembersAfter DEF Members, Placed
<1>4. \A k : k # m => Members(k)' = Members(k) \ F
  BY MembersAfter DEF Members, Placed
<1> SUFFICES ASSUME NEW k \in families', k \notin drifted'
             PROVE  family'[k].count = Cardinality(Members(k)')
  BY CountsFromRows
<1>5. CASE k = m
  <2>1. row.count = Cardinality(Members(m)) + Cardinality(F)
    BY <1>5
  <2>2. Cardinality(Members(m) \cup F) = Cardinality(Members(m)) + Cardinality(F)
    BY <1>3, CountJoined
  <2> QED
    BY <1>2, <1>3, <1>5, <2>1, <2>2
<1>6. CASE k # m
  <2>1. k \in families /\ k \notin drifted
        /\ lost[k] = Cardinality(Members(k) \cap F)
    BY <1>2, <1>6 DEF Accounted
  <2>2. Without(families, lost)[k].count = Cardinality(Members(k) \ F)
    BY <1>1, <2>1, ExactWithout
  <2> QED
    BY <1>2, <1>4, <1>6, <2>1, <2>2
<1> QED
  BY <1>5, <1>6

(* One font moves, out of the family old. *)
LEMMA ExactJoin ==
  ASSUME IInv, CountsAreExact, NEW f \in Font, NEW old, NEW m \in Family,
         NEW row \in Row,
         Join(f, old, m, row), drifted \subseteq drifted',
         member[f] # m,
         \A k \in families : k \notin drifted' /\ k # m => (k = old <=> member[f] = k),
         m \notin drifted' => row.count = Cardinality(Members(m)) + 1
  PROVE  CountsAreExact'
<1> DEFINE lost == [k \in families |-> IF k = old THEN 1 ELSE 0]
<1>1. member \in [Font -> Family \cup {NoFamily}]
  BY DEF IInv, TypeOK
<1>2. /\ \A g \in Font : member'[g] = IF g \in {f} THEN m ELSE member[g]
      /\ family' = Write(Without(families, lost), m, row)
  BY <1>1 DEF Join
<1>3. {f} \cap Members(m) = {} /\ {f} \in SUBSET Font
  BY DEF Members
<1>4. Cardinality({f}) = 1 /\ Cardinality({}) = 0
  BY FS_Singleton, FS_EmptySet
<1>5. ASSUME NEW k \in families, k \notin drifted', k # m
      PROVE  lost[k] = Cardinality(Members(k) \cap {f})
  <2>1. CASE k = old
    <3>1. Members(k) \cap {f} = {f}
      BY <1>5, <2>1 DEF Members
    <3> QED
      BY <1>4, <2>1, <3>1
  <2>2. CASE k # old
    <3>1. Members(k) \cap {f} = {}
      BY <1>5, <2>2 DEF Members
    <3> QED
      BY <1>4, <2>2, <3>1
  <2> QED
    BY <2>1, <2>2
<1>7. lost \in [families -> Nat]
  OBVIOUS
<1> HIDE DEF lost
<1>6. m \notin drifted' => row.count = Cardinality(Members(m)) + Cardinality({f})
  BY <1>4
<1>8. Placed({f}, m) /\ Accounted({f}, m, lost)
  BY <1>2, <1>5 DEF Placed, Accounted
<1> QED
  BY <1>2, <1>3, <1>6, <1>7, <1>8, ExactPlacement

LEMMA FreshIsEmpty ==
  ASSUME IInv, NEW m \in Family, m \notin families
  PROVE  Members(m) = {} /\ m \notin drifted
BY FamilyAssumption DEF IInv, TypeOK, MembersHaveFamilies, Members

LEMMA CreateFamilyCounts ==
  ASSUME IInv, CountsAreExact, NEW r \in Request, CreateFamily(r)
  PROVE  CountsAreExact'
<1> DEFINE f == work[r].font
           row == [slug |-> SlugOf[f], handmade |-> FALSE, count |-> 1]
<1>1. f \in Font
  BY WorkTypes DEF IInv, CreateFamily, Handling
<1>2. PICK m \in Fresh : Join(f, member[f], m, row)
  BY DEF CreateFamily
<1>3. m \in Family /\ m \notin families
  BY DEF Fresh
<1>4. Members(m) = {} /\ m \notin drifted
  BY <1>3, FreshIsEmpty
<1>5. Drift({}, {}) /\ TypeOK
  BY DEF CreateFamily, IInv
<1>6. families' = families \cup {m}
  BY <1>2 DEF Join, Write, Without, families
<1>7. drifted' = drifted
  BY <1>5, <1>6 DEF Drift, TypeOK, families
<1>8. row.count = Cardinality(Members(m)) + 1
  BY <1>4, FS_EmptySet
<1>9. member[f] # m
  BY <1>1, <1>4 DEF Members
<1>10. row \in Row
  BY <1>1, SlugAssumption DEF Row
<1> HIDE DEF f, row
<1> QED
  BY <1>1, <1>2, <1>3, <1>7, <1>8, <1>9, <1>10, ExactJoin

LEMMA JoinFamilyCounts ==
  ASSUME IInv, CountsAreExact, NEW r \in Request, JoinFamily(r)
  PROVE  CountsAreExact'
<1> DEFINE f == work[r].font
           m == work[r].family
           old == work[r].old
           row == [family[m] EXCEPT !.count = work[r].count + 1]
           S == IF Stale(r) THEN {m, old, member[f]} ELSE {}
<1>1. f \in Font /\ TypeOK /\ m \in families /\ m \in Family /\ old # m
      /\ work[r].count \in Nat
  BY WorkTypes DEF IInv, TypeOK, JoinFamily, Handling, Accepted
<1>2. Join(f, old, m, row) /\ Drift({}, S)
  BY DEF JoinFamily
<1>3. families' = families \cup {m}
  BY <1>2 DEF Join, Write, Without, families
<1>4. drifted' = drifted \cup (S \cap families)
  BY <1>1, <1>2, <1>3 DEF Drift, TypeOK, families
<1>5. row \in Row /\ row.count = work[r].count + 1
  BY <1>1 DEF TypeOK, Row
<1>6. CASE ~Stale(r)
  <2>1. family[m].count = work[r].count /\ member[f] = old /\ S = {}
    BY <1>6 DEF Stale
  <2>2. m \notin drifted' => row.count = Cardinality(Members(m)) + 1
    BY <1>1, <1>4, <1>5, <2>1 DEF CountsAreExact
  <2>3. member[f] # m /\ drifted \subseteq drifted'
    BY <1>1, <1>4, <2>1
  <2>4. \A k \in families : k \notin drifted' /\ k # m => (k = old <=> member[f] = k)
    BY <2>1
  <2> HIDE DEF f, m, old, row, S
  <2> QED
    BY <1>1, <1>2, <1>5, <2>2, <2>3, <2>4, ExactJoin
<1>7. CASE Stale(r) /\ member[f] # m
  <2>1. S = {m, old, member[f]}
    BY <1>7
  <2>2. m \in drifted' /\ drifted \subseteq drifted'
    BY <1>1, <1>4, <2>1
  <2>3. \A k \in families : k \notin drifted' /\ k # m => (k = old <=> member[f] = k)
    BY <1>4, <2>1
  <2> HIDE DEF f, m, old, row, S
  <2> QED
    BY <1>1, <1>2, <1>5, <1>7, <2>2, <2>3, ExactJoin
<1>8. CASE Stale(r) /\ member[f] = m
  <2> DEFINE lost == [k \in families |-> IF k = old THEN 1 ELSE 0]
  <2>1. S = {m, old, member[f]}
    BY <1>8
  <2>3. Placed({}, m) /\ family' = Write(Without(families, lost), m, row)
    BY <1>1, <1>2, <1>8 DEF Join, TypeOK, Placed
  <2>4. Accounted({}, m, lost)
    BY <1>4, <2>1, FS_EmptySet DEF Accounted
  <2>5. {} \in SUBSET Font /\ {} \cap Members(m) = {} /\ m \in drifted'
        /\ drifted \subseteq drifted' /\ lost \in [families -> Nat]
    BY <1>1, <1>4, <2>1
  <2> HIDE DEF f, m, old, row, S, lost
  <2> QED
    BY <1>1, <1>5, <2>3, <2>4, <2>5, ExactPlacement
<1> QED
  BY <1>6, <1>7, <1>8

LEMMA HarvestCounts ==
  ASSUME IInv, CountsAreExact, NEW H \in SUBSET trashed, Harvest(H)
  PROVE  CountsAreExact'
<1> DEFINE touched == {member[f] : f \in H} \ {NoFamily}
           gone == Emptied(H, touched)
<1>1. /\ family \in [families -> Row] /\ families \in SUBSET Family /\ H \in SUBSET Font
  BY DEF IInv, TypeOK
<1>2. /\ Drift(touched, {})
      /\ member' = [f \in Font |-> IF f \in H THEN NoFamily ELSE member[f]]
      /\ family' = [m \in families \ gone |->
                      IF m \in touched
                      THEN [family[m] EXCEPT !.count = Cardinality(Members(m) \ H)]
                      ELSE family[m]]
  BY DEF Harvest
<1>3. \A k \in families : k # NoFamily
  BY <1>1, FamilyAssumption
<1>4. \A k \in families : Members(k)' = Members(k) \ H
  BY <1>2, <1>3, MembersAfter DEF Members
<1>5. \A k \in families \ touched : Members(k) \cap H = {}
  BY <1>3 DEF Members
<1> HIDE DEF touched, gone
<1>6. families' = families \ gone /\ drifted' = (drifted \ touched) \cap families'
  BY <1>2 DEF Drift, families
<1> SUFFICES ASSUME NEW k \in families', k \notin drifted'
             PROVE  family'[k].count = Cardinality(Members(k)')
  BY CountsFromRows
<1>7. k \in families \ gone /\ (k \in touched \/ k \notin drifted)
  BY <1>6
<1>8. CASE k \in touched
  BY <1>1, <1>2, <1>4, <1>7, <1>8 DEF Row
<1>9. CASE k \notin touched
  <2>1. Untouched(k)
    <3>1. k \in families /\ k \notin gone
      BY <1>7
    <3>2. Members(k)' = Members(k)
      BY <1>4, <1>5, <1>9, <3>1
    <3>3. family'[k] = family[k]
      BY <1>2, <1>9, <3>1
    <3> QED
      BY <3>2, <3>3 DEF Untouched
  <2> QED
    BY <1>7, <1>9, <2>1, ExactUntouched
<1> QED
  BY <1>8, <1>9

LEMMA MergeCounts ==
  ASSUME IInv, CountsAreExact, NEW r \in Request, MergeFamilies(r)
  PROVE  CountsAreExact'
<1> DEFINE m == work[r].family
           gone == work[r].sources
           first == work[r].first
           moved == work[r].moved \cup {f \in Font : member[f] \in gone \ {first}}
           all == Members(m) \cup moved
           n == Cardinality(all \cap active)
           lost == {member[f] : f \in work[r].moved} \ {m, first}
           S == lost \cup (IF Miscounted(r, all, n) THEN {m} ELSE {})
           row == Counted(family[m], work[r].count, n)
<1>1. /\ family \in [families -> Row] /\ families \in SUBSET Family
      /\ work[r].count \in Nat /\ work[r].moved \in SUBSET Font
      /\ m \notin gone /\ first \in gone
  BY WorkTypes DEF IInv, TypeOK, MergeFamilies, WorkIsSound, Sound
<1>2. /\ Drift({m}, S) /\ m \in families
      /\ member' = [f \in Font |-> IF f \in moved THEN m
                                    ELSE IF member[f] = first THEN NoFamily ELSE member[f]]
      /\ family' = [k \in families \ gone |-> IF k = m THEN row ELSE family[k]]
  BY DEF MergeFamilies
<1>3. /\ families' = families \ gone
      /\ drifted' = ((drifted \ {m}) \cup S) \cap families'
  BY <1>2 DEF Drift, families
<1>4. NoFamily \notin families
  BY <1>1, FamilyAssumption
<1>5. {f \in Font : member'[f] = m} = all
  <2>1. \A f \in Font : member'[f] = IF f \in moved THEN m
                                     ELSE IF member[f] = first THEN NoFamily ELSE member[f]
    BY <1>2
  <2>2. m # first /\ m # NoFamily /\ moved \in SUBSET Font
    BY <1>1, <1>2, <1>4
  <2> HIDE DEF moved, m, first
  <2> QED
    BY <2>1, <2>2 DEF Members
<1>6. ASSUME NEW k \in families \ gone, k # m, k \notin lost
      PROVE  Untouched(k)
  <2>1. \A f \in Font : f \in moved => member[f] # k
    BY <1>1, <1>6
  <2>2. \A f \in Font : member'[f] = IF f \in moved THEN m
                                     ELSE IF member[f] = first THEN NoFamily ELSE member[f]
    BY <1>2
  <2>3. k # first /\ k # NoFamily
    BY <1>1, <1>4
  <2>4. family'[k] = family[k]
    BY <1>2, <1>6
  <2>5. {f \in Font : member'[f] = k} = {f \in Font : member[f] = k}
    <3> HIDE DEF moved, m, first
    <3> QED
      BY <1>6, <2>1, <2>2, <2>3
  <2> QED
    BY <2>4, <2>5, MembersAfter DEF Untouched, Members
<1> SUFFICES ASSUME NEW k \in families', k \notin drifted'
             PROVE  family'[k].count = Cardinality(Members(k)')
  BY CountsFromRows
<1>7. k \in families \ gone /\ k \notin S /\ (k = m \/ k \notin drifted)
  BY <1>3
<1>8. CASE k = m
  <2>1. all \subseteq active /\ (n = work[r].count => family[m].count = n)
    BY <1>7, <1>8 DEF Miscounted
  <2>2. n = Cardinality(all) /\ n \in Nat
    <3>1. all \cap active = all /\ all \in SUBSET Font
      BY <1>1, <2>1 DEF Members
    <3> QED
      BY <3>1, CountType
  <2>3. family[m] \in Row /\ family'[m] = row
    BY <1>1, <1>2, <1>7, <1>8
  <2>4. row.count = IF n = work[r].count THEN family[m].count ELSE n
    <3> DEFINE was == family[m]
               read == work[r].count
    <3>1. was \in Row /\ read \in Nat /\ n \in Nat
      BY <1>1, <2>2, <2>3
    <3>2. Counted(was, read, n).count = IF n = read THEN was.count ELSE n
      <4> HIDE DEF was, read, n
      <4> QED
        BY <3>1, CountedWritten
    <3> QED
      BY <3>2
  <2>5. family'[m].count = Cardinality(all)
    <3> HIDE DEF m, n, row, all
    <3> QED
      BY <2>1, <2>2, <2>3, <2>4
  <2> QED
    BY <1>5, <1>8, <2>5, MembersAfter
<1>9. CASE k # m
  <2>1. k \notin lost /\ k \notin drifted
    BY <1>7, <1>9
  <2> QED
    BY <1>6, <1>7, <1>9, <2>1, ExactUntouched
<1> QED
  BY <1>8, <1>9

LEMMA RecountCounts ==
  ASSUME IInv, CountsAreExact, NEW r \in Request, RecountFamily(r)
  PROVE  CountsAreExact'
<1> DEFINE m == work[r].family
           n == work[r].members
           row == Counted(family[m], work[r].count, n)
           S == IF Miscounted(r, Members(m), n) \/ n # Cardinality(Members(m))
                THEN {m} ELSE {}
<1>1. /\ family \in [families -> Row] /\ work[r].count \in Nat /\ n \in Nat
  BY WorkTypes DEF IInv, TypeOK, RecountFamily
<1>2. /\ Drift({m}, S) /\ m \in families /\ member' = member
      /\ family' = [family EXCEPT ![m] = row]
  BY DEF RecountFamily
<1>3. families' = families /\ drifted' = ((drifted \ {m}) \cup S) \cap families
  BY <1>1, <1>2 DEF Drift, families
<1>4. \A k : Members(k)' = Members(k)
  BY <1>2 DEF Members
<1> SUFFICES ASSUME NEW k \in families', k \notin drifted'
             PROVE  family'[k].count = Cardinality(Members(k)')
  BY CountsFromRows
<1>5. CASE k = m
  <2>1. n = Cardinality(Members(m)) /\ (n = work[r].count => family[m].count = n)
    BY <1>2, <1>3, <1>5 DEF Miscounted
  <2>2. family[m] \in Row /\ family'[m] = row
    BY <1>1, <1>2
  <2>3. row.count = IF n = work[r].count THEN family[m].count ELSE n
    <3> DEFINE was == family[m]
               read == work[r].count
    <3>1. was \in Row /\ read \in Nat /\ n \in Nat
      BY <1>1, <2>2
    <3>2. Counted(was, read, n).count = IF n = read THEN was.count ELSE n
      <4> HIDE DEF was, read, n
      <4> QED
        BY <3>1, CountedWritten
    <3> QED
      BY <3>2
  <2>4. family'[m].count = Cardinality(Members(m))
    <3> HIDE DEF m, n, row
    <3> QED
      BY <2>1, <2>2, <2>3
  <2> QED
    BY <1>4, <1>5, <2>4
<1>6. CASE k # m
  <2>1. k \in families /\ k \notin drifted /\ Untouched(k)
    BY <1>1, <1>2, <1>3, <1>4, <1>6 DEF Untouched
  <2> QED
    BY <2>1, ExactUntouched
<1> QED
  BY <1>5, <1>6

LEMMA RegroupCounts ==
  ASSUME IInv, CountsAreExact, RegroupAll
  PROVE  CountsAreExact'
<1> DEFINE moved == ToRegroup
           needed == {SlugOf[f] : f \in moved}
           Named(s) == Handmade \cap WithSlug(s)
<1>1. /\ family \in [families -> Row] /\ families \in SUBSET Family
      /\ Handmade \in SUBSET families /\ active \in SUBSET Font
  BY DEF IInv, TypeOK, Handmade
<1>2. /\ moved \in SUBSET Font /\ \A f \in moved : member[f] \notin Handmade
  BY <1>1 DEF ToRegroup
<1>3. PICK place \in [needed -> Family] :
        /\ \A s \in needed : place[s] \in
             IF Named(s) # {} THEN Named(s) ELSE Family \ (Handmade \cup Remembered)
        /\ \A s, t \in needed : place[s] = place[t] => s = t
        /\ LET Arrivals(m) == {f \in moved : place[SlugOf[f]] = m}
           IN  family' = [m \in Handmade \cup {place[s] : s \in needed} |->
                 IF m \in Handmade
                 THEN [family[m] EXCEPT !.count = @ + Cardinality(Arrivals(m))]
                 ELSE [slug |-> CHOOSE s \in needed : place[s] = m,
                       handmade |-> FALSE, count |-> Cardinality(Arrivals(m))]]
        /\ member' = [f \in Font |-> IF f \in moved THEN place[SlugOf[f]]
                                      ELSE IF member[f] \in Handmade THEN member[f]
                                      ELSE NoFamily]
        /\ Drift(families \ Handmade, {})
        /\ UNCHANGED <<fontVars, work>>
  BY DEF RegroupAll
<1> DEFINE D == Handmade \cup {place[s] : s \in needed}
           A(m) == {f \in moved : place[SlugOf[f]] = m}
<1>4. /\ DOMAIN family' = D
      /\ \A m \in Handmade :
           family'[m] = [family[m] EXCEPT !.count = @ + Cardinality(A(m))]
      /\ \A m \in D \ Handmade : family'[m].count = Cardinality(A(m))
  BY <1>3
<1>5. D \in SUBSET Family
  BY <1>1, <1>3
<1>6. \A f \in Font : member'[f] = IF f \in moved THEN place[SlugOf[f]]
                                   ELSE IF member[f] \in Handmade THEN member[f]
                                   ELSE NoFamily
  BY <1>3
<1>7. families' = D /\ drifted' = (drifted \ (families \ Handmade)) \cap D
  BY <1>3, <1>4 DEF Drift, families
<1>8. \A m : A(m) \in SUBSET Font
  BY <1>2
<1>9. \A m \in Handmade : Members(m)' = Members(m) \cup A(m) /\ Members(m) \cap A(m) = {}
  BY <1>1, <1>2, <1>5, <1>6, MembersAfter, FamilyAssumption DEF Members
<1>10. \A m \in D \ Handmade : Members(m)' = A(m)
  <2> SUFFICES ASSUME NEW m \in D, m \notin Handmade
               PROVE  {f \in Font : member'[f] = m} = A(m)
    BY MembersAfter
  <2>1. m # NoFamily
    BY <1>5, FamilyAssumption
  <2> QED
    BY <1>2, <1>6, <2>1
<1> HIDE DEF D, A, moved, needed, Named
<1> SUFFICES ASSUME NEW k \in families', k \notin drifted'
             PROVE  family'[k].count = Cardinality(Members(k)')
  BY CountsFromRows
<1>11. CASE k \in Handmade
  <2>1. k \in families /\ k \notin drifted
    BY <1>1, <1>7, <1>11
  <2>2. family[k] \in Row /\ family[k].count = Cardinality(Members(k))
    BY <1>1, <2>1 DEF CountsAreExact
  <2>3. family'[k].count = Cardinality(Members(k)) + Cardinality(A(k))
    BY <1>4, <1>11, <2>2 DEF Row
  <2>4. Members(k) \in SUBSET Font
    BY DEF Members
  <2>5. Cardinality(Members(k) \cup A(k)) = Cardinality(Members(k)) + Cardinality(A(k))
    BY <1>8, <1>9, <1>11, <2>4, CountJoined
  <2> QED
    BY <1>9, <1>11, <2>3, <2>5
<1>12. CASE k \notin Handmade
  BY <1>4, <1>7, <1>10, <1>12
<1> QED
  BY <1>11, <1>12

LEMMA CreateByHandCounts ==
  ASSUME IInv, CountsAreExact, NEW m \in Family, NEW s \in Slug, CreateByHand(m, s)
  PROVE  CountsAreExact'
<1>1. /\ m \notin families /\ member' = member /\ Drift({}, {})
      /\ family' = Write(family, m, [slug |-> s, handmade |-> TRUE, count |-> 0])
  BY DEF CreateByHand, Fresh
<1>2. Members(m) = {} /\ m \notin drifted
  BY <1>1, FreshIsEmpty
<1>3. /\ families' = families \cup {m} /\ family'[m].count = 0
      /\ \A k \in families : family'[k] = family[k]
  BY <1>1 DEF Write, families
<1>4. drifted' = drifted /\ \A k : Members(k)' = Members(k)
  BY <1>1, <1>3 DEF Drift, families, Members, IInv, TypeOK
<1> SUFFICES ASSUME NEW k \in families', k \notin drifted'
             PROVE  family'[k].count = Cardinality(Members(k)')
  BY CountsFromRows
<1>5. CASE k = m
  BY <1>2, <1>3, <1>4, <1>5, FS_EmptySet
<1>6. CASE k # m
  <2>1. k \in families /\ k \notin drifted /\ Untouched(k)
    BY <1>3, <1>4, <1>6 DEF Untouched
  <2> QED
    BY <2>1, ExactUntouched
<1> QED
  BY <1>5, <1>6

LEMMA RenameCounts ==
  ASSUME IInv, CountsAreExact, NEW m \in families, NEW s \in Slug, Rename(m, s)
  PROVE  CountsAreExact'
<1>1. /\ family' = [family EXCEPT ![m].slug = s] /\ member' = member /\ Drift({}, {})
      /\ family \in [families -> Row]
  BY DEF Rename, IInv, TypeOK
<1>2. /\ families' = families /\ drifted' = drifted
      /\ \A k \in families : family'[k].count = family[k].count /\ Members(k)' = Members(k)
  BY <1>1 DEF Drift, families, Members, IInv, TypeOK, Row
<1> QED
  BY <1>2, CountsFromRows DEF CountsAreExact

LEMMA DeleteFamilyCounts ==
  ASSUME IInv, CountsAreExact, NEW m \in families, DeleteFamily(m)
  PROVE  CountsAreExact'
<1>1. /\ Drift({}, {}) /\ NoFamily \notin families
      /\ family' = [k \in families \ {m} |-> family[k]]
      /\ member' = [f \in Font |-> IF member[f] = m THEN NoFamily ELSE member[f]]
  BY FamilyAssumption DEF DeleteFamily, IInv, TypeOK
<1>2. families' = families \ {m} /\ drifted' = drifted \cap families'
  BY <1>1 DEF Drift, families
<1>3. \A k \in families \ {m} : Untouched(k)
  BY <1>1, MembersAfter DEF Untouched, Members
<1> QED
  BY <1>2, <1>3, CountsFromRows, ExactUntouched

(* One font more, one font less. *)
LEMMA CountMore ==
  ASSUME NEW S \in SUBSET Font, NEW f \in Font, f \notin S
  PROVE  Cardinality(S \cup {f}) = Cardinality(S) + 1
<1>1. Cardinality({f}) = 1 /\ {f} \in SUBSET Font /\ S \cap {f} = {}
  BY FS_Singleton
<1> QED
  BY <1>1, CountJoined

LEMMA CountLess ==
  ASSUME NEW S \in SUBSET Font, NEW f \in S
  PROVE  Cardinality(S \ {f}) = Cardinality(S) - 1 /\ Cardinality(S) \in Nat \ {0}
<1>1. S \ {f} \in SUBSET Font /\ f \notin S \ {f} /\ (S \ {f}) \cup {f} = S
  OBVIOUS
<1>2. Cardinality(S) = Cardinality(S \ {f}) + 1
  BY <1>1, CountMore
<1>3. Cardinality(S \ {f}) \in Nat
  BY <1>1, CountType
<1> QED
  BY <1>2, <1>3

LEMMA AddFontCounts ==
  ASSUME IInv, CountsAreExact, NEW r \in Request, AddFont(r)
  PROVE  CountsAreExact'
<1> DEFINE m == work[r].family
           f == work[r].font
           old == work[r].old
           l == work[r].left
           row == [family[m] EXCEPT !.count = work[r].count + 1]
           less == OneLess(family[l], work[r].leftCount)
           S == IF Overtaken(r) THEN {m, old, member[f]} ELSE {}
<1>1. /\ family \in [families -> Row] /\ families \in SUBSET Family
      /\ member \in [Font -> Family \cup {NoFamily}] /\ NoFamily \notin families
      /\ f \in Font /\ old # m /\ l \in {old, NoFamily}
      /\ work[r].count \in Nat /\ work[r].leftCount \in Nat
      /\ drifted \subseteq families
  BY WorkTypes, FamilyAssumption
     DEF IInv, TypeOK, AddFont, WorkIsSound, Sound, Handling
<1>2. /\ Drift({}, S) /\ m \in families
      /\ family' = [k \in families |-> IF k = m THEN row ELSE IF k = l THEN less
                                          ELSE family[k]]
      /\ member' = [member EXCEPT ![f] = m]
  BY DEF AddFont
<1>3. families' = families /\ drifted' = drifted \cup (S \cap families)
  BY <1>1, <1>2 DEF Drift, families
<1>4. \A g \in Font : member'[g] = IF g = f THEN m ELSE member[g]
  BY <1>1, <1>2
<1> SUFFICES ASSUME NEW k \in families', k \notin drifted'
             PROVE  family'[k].count = Cardinality(Members(k)')
  BY CountsFromRows
<1>5. k \in families /\ k \notin drifted /\ k \notin S
      /\ family[k].count = Cardinality(Members(k)) /\ family[k] \in Row
      /\ Members(k) \in SUBSET Font
  BY <1>1, <1>3 DEF CountsAreExact, Members
<1>6. CASE k # m /\ member[f] # k /\ k # l
  <2>1. {g \in Font : member'[g] = k} = {g \in Font : member[g] = k}
    BY <1>4, <1>6
  <2>2. family'[k] = family[k]
    BY <1>2, <1>5, <1>6
  <2> QED
    BY <1>5, <2>1, <2>2, MembersAfter DEF Members
<1>7. CASE k = m
  <2>1. ~Overtaken(r)
    BY <1>5, <1>7
  <2>2. family[m].count = work[r].count /\ member[f] # m
    BY <1>1, <2>1 DEF Overtaken, AddFont
  <2>3. {g \in Font : member'[g] = m} = Members(m) \cup {f} /\ f \notin Members(m)
    BY <1>1, <1>4, <2>2 DEF Members
  <2>4. family'[m] = row
    <3> HIDE DEF m, f, l, row, less, S
    <3> QED
      BY <1>2
  <2>5. row.count = work[r].count + 1
    BY <1>5, <1>7 DEF Row
  <2>6. Cardinality(Members(m) \cup {f}) = Cardinality(Members(m)) + 1
    BY <1>1, <1>5, <1>7, <2>3, CountMore
  <2>7. family'[m].count = Cardinality(Members(m) \cup {f})
    <3> HIDE DEF m, f, row
    <3> QED
      BY <1>5, <1>7, <2>2, <2>4, <2>5, <2>6
  <2> QED
    BY <1>7, <2>3, <2>7, MembersAfter
<1>8. CASE k # m /\ (member[f] = k \/ k = l)
  <2>1. ~Overtaken(r) /\ k # NoFamily
    BY <1>1, <1>5, <1>8
  <2>2. member[f] = k /\ l = k /\ family[k].count = work[r].leftCount
    BY <1>1, <1>8, <2>1 DEF Overtaken, AddFont
  <2>3. {g \in Font : member'[g] = k} = Members(k) \ {f} /\ f \in Members(k)
    BY <1>1, <1>4, <1>8, <2>2 DEF Members
  <2>4. Cardinality(Members(k) \ {f}) = Cardinality(Members(k)) - 1
        /\ Cardinality(Members(k)) \in Nat \ {0}
    BY <1>5, <2>3, CountLess
  <2>5. family'[k] = less
    <3> HIDE DEF m, f, l, row, less, S
    <3> QED
      BY <1>2, <1>5, <1>8, <2>2
  <2>6. less.count = IF work[r].leftCount = 0 THEN family[l].count ELSE work[r].leftCount - 1
    <3> HIDE DEF l
    <3> QED
      BY <1>1, <1>5, <2>2, OneLessWritten
  <2>7. family'[k].count = Cardinality(Members(k) \ {f})
    <3> HIDE DEF l, less, f
    <3> QED
      BY <1>5, <2>2, <2>4, <2>5, <2>6
  <2> QED
    BY <2>3, <2>7, MembersAfter
<1> QED
  BY <1>6, <1>7, <1>8

LEMMA RemoveFontCounts ==
  ASSUME IInv, CountsAreExact, NEW r \in Request, RemoveFont(r)
  PROVE  CountsAreExact'
<1> DEFINE m == work[r].family
           f == work[r].font
           row == OneLess(family[m], work[r].count)
           S == IF Overtaken(r) THEN {m, member[f]} ELSE {}
<1>1. /\ family \in [families -> Row] /\ NoFamily \notin families
      /\ member \in [Font -> Family \cup {NoFamily}]
      /\ f \in Font /\ work[r].count \in Nat /\ drifted \subseteq families
  BY WorkTypes, FamilyAssumption DEF IInv, TypeOK, RemoveFont
<1>2. /\ Drift({}, S) /\ m \in families
      /\ family' = [family EXCEPT ![m] = row]
      /\ member' = [member EXCEPT ![f] = NoFamily]
  BY DEF RemoveFont
<1>3. families' = families /\ drifted' = drifted \cup (S \cap families)
  BY <1>1, <1>2 DEF Drift, families
<1>4. \A g \in Font : member'[g] = IF g = f THEN NoFamily ELSE member[g]
  BY <1>1, <1>2
<1> SUFFICES ASSUME NEW k \in families', k \notin drifted'
             PROVE  family'[k].count = Cardinality(Members(k)')
  BY CountsFromRows
<1>5. k \in families /\ k \notin drifted /\ k \notin S
      /\ family[k].count = Cardinality(Members(k)) /\ family[k] \in Row
      /\ Members(k) \in SUBSET Font
  BY <1>1, <1>3 DEF CountsAreExact, Members
<1>6. CASE k # m /\ member[f] # k
  <2>1. {g \in Font : member'[g] = k} = {g \in Font : member[g] = k}
    BY <1>1, <1>4, <1>5, <1>6
  <2>2. family'[k] = family[k]
    BY <1>1, <1>2, <1>5, <1>6
  <2> QED
    BY <1>5, <2>1, <2>2, MembersAfter DEF Members
<1>7. CASE k = m \/ member[f] = k
  <2>1. ~Overtaken(r)
    BY <1>5, <1>7
  <2>2. member[f] = k /\ m = k /\ family[k].count = work[r].count
    BY <1>7, <2>1 DEF Overtaken, RemoveFont
  <2>3. {g \in Font : member'[g] = k} = Members(k) \ {f} /\ f \in Members(k)
    BY <1>1, <1>4, <1>5, <2>2 DEF Members
  <2>4. Cardinality(Members(k) \ {f}) = Cardinality(Members(k)) - 1
        /\ Cardinality(Members(k)) \in Nat \ {0}
    BY <1>5, <2>3, CountLess
  <2>5. family'[k] = row
    BY <1>1, <1>2, <1>5, <2>2
  <2>6. row.count = IF work[r].count = 0 THEN family[m].count ELSE work[r].count - 1
    <3> HIDE DEF m
    <3> QED
      BY <1>1, <1>5, <2>2, OneLessWritten
  <2>7. family'[k].count = Cardinality(Members(k) \ {f})
    <3> HIDE DEF m, row, f
    <3> QED
      BY <1>5, <2>2, <2>4, <2>5, <2>6
  <2> QED
    BY <2>3, <2>7, MembersAfter
<1> QED
  BY <1>6, <1>7

LEMMA CountsStep ==
  ASSUME IInv, CountsAreExact, [Next]_vars
  PROVE  CountsAreExact'
<1>1. ASSUME NEW r \in Request, ImportStep(r) PROVE CountsAreExact'
  <2>1. CASE CreateFamily(r)
    BY <2>1, CreateFamilyCounts
  <2>2. CASE JoinFamily(r)
    BY <2>2, JoinFamilyCounts
  <2>3. CASE UNCHANGED famVars
    BY <2>3, CountsSame
  <2> QED
    BY <1>1, <2>1, <2>2, <2>3
       DEF ImportStep, ImportFont, FindFamily, FindMember, StayInFamily, GroupingFails
<1>2. ASSUME NEW r \in Request, GestureStep(r) PROVE CountsAreExact'
  <2>1. CASE AddFont(r) \/ RemoveFont(r)
    BY <2>1, AddFontCounts, RemoveFontCounts
  <2>2. CASE MergeFamilies(r) \/ RecountFamily(r)
    BY <2>2, MergeCounts, RecountCounts
  <2>3. CASE UNCHANGED famVars
    BY <2>3, CountsSame
  <2> QED
    BY <1>2, <2>1, <2>2, <2>3
       DEF GestureStep, FindPlaced, FindRemoved, FindLeft, ListMembers, CountMembers,
           GestureFails
<1>3. ASSUME NEW H \in SUBSET {f \in trashed : \A r \in Request : ~Handles(r, f)}, Harvest(H)
      PROVE  CountsAreExact'
  BY <1>3, HarvestCounts
<1>4. CASE (\E f \in Font : TrashFont(f)) \/ (\E f \in Font : RestoreFont(f)) \/ ServerStop
  BY <1>4, CountsSame DEF TrashFont, RestoreFont, ServerStop
<1>5. CASE Gesture
  <2>1. CASE UNCHANGED famVars
    BY <2>1, CountsSame
  <2> QED
    BY <1>5, <2>1, RegroupCounts, CreateByHandCounts, RenameCounts, DeleteFamilyCounts
       DEF Gesture, BeginMerge, BeginEdit
<1>6. CASE UNCHANGED vars
  BY <1>6, CountsSame DEF vars, famVars
<1> QED
  BY <1>1, <1>2, <1>3, <1>4, <1>5, <1>6 DEF Next, FontStep

(* style_count is the number of members of a family, trash included, for   *)
(* any number of imports and gestures that read and write in any order,    *)
(* unless one of them wrote from a stale reading or merged fonts of the    *)
(* trash since the members were last counted.                              *)
THEOREM CountsStayExact == Spec => []CountsAreExact
<1>1. Init => CountsAreExact
  BY DEF Init, CountsAreExact, families
<1>2. IInv /\ CountsAreExact /\ [Next]_vars => CountsAreExact'
  BY CountsStep
<1> QED
  BY <1>1, <1>2, Invariance, PTL DEF Spec
=============================================================================
