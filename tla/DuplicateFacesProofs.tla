------------------------ MODULE DuplicateFacesProofs ------------------------
(***************************************************************************)
(* Proofs about DuplicateFaces for every set of fonts and faces and every  *)
(* number of changes by other requests.                                    *)
(*                                                                         *)
(* The argument: the ranks order the fonts of a face totally, so the order *)
(* in which the rows come decides nothing, and the groups are a function   *)
(* of the active fonts (Groups).  What a request chose, and what a user    *)
(* was shown, are then the groups of the library for as long as it does    *)
(* not change.                                                             *)
(***************************************************************************)
EXTENDS DuplicateFaces, FiniteSetTheorems, WellFoundedInduction, TLAPS

-----------------------------------------------------------------------------
(* The ranks. *)

LEMMA LeastNatural ==
  ASSUME NEW S \in SUBSET Nat, S # {}
  PROVE  \E i \in S : \A j \in S : ~(j < i)
<1> DEFINE Less == {ss \in Nat \X Nat : ss[1] < ss[2]}
<1>1. IsWellFoundedOn(Less, Nat)
  BY NatLessThanWellFounded DEF OpToRel
<1> HIDE DEF Less
<1>2. PICK i \in S : \A j \in S : <<j, i>> \notin Less
  BY <1>1, WFMin
<1>3. \A j \in S : j < i => <<j, i>> \in Less
  BY DEF Less
<1> QED
  BY <1>2, <1>3

IsBest(f, M) == f \in M /\ \A g \in M \ {f} : RanksBefore(f, g)

(* The best of M, however the rows come. *)
Best(M) == CHOOSE f \in M : IsBest(f, M)

LEMMA RanksAreTotal ==
  ASSUME TypeOK, NEW f \in Font, NEW g \in Font, f # g
  PROVE  RanksBefore(f, g) <=> ~RanksBefore(g, f)
<1>1. completeness[f] \in 1..2 /\ completeness[g] \in 1..2 /\ f \in Nat /\ g \in Nat
  BY FaceAssumption DEF TypeOK
<1> QED
  BY <1>1 DEF RanksBefore

LEMMA BestExists ==
  ASSUME TypeOK, NEW M \in SUBSET Font, M # {}
  PROVE  \E f \in M : IsBest(f, M)
<1> DEFINE Fullest == {f \in M : completeness[f] = 1}
<1>1. \A f \in M : completeness[f] \in 1..2 /\ f \in Nat
  BY FaceAssumption DEF TypeOK
<1>2. M \in SUBSET Nat /\ Fullest \in SUBSET Nat
  BY <1>1
<1>3. CASE Fullest # {}
  <2>1. PICK f \in Fullest : \A g \in Fullest : ~(g < f)
    BY <1>2, <1>3, LeastNatural
  <2>2. ASSUME NEW g \in M \ {f} PROVE RanksBefore(f, g)
    <3>1. CASE g \in Fullest
      BY <1>1, <2>1, <3>1 DEF RanksBefore
    <3>2. CASE g \notin Fullest
      BY <1>1, <2>1, <3>2 DEF RanksBefore
    <3> QED
      BY <3>1, <3>2
  <2> QED
    BY <2>1, <2>2 DEF IsBest
<1>4. CASE Fullest = {}
  <2>1. PICK f \in M : \A g \in M : ~(g < f)
    BY <1>2, LeastNatural
  <2>2. \A g \in M : completeness[g] = 2
    BY <1>1, <1>4
  <2>3. ASSUME NEW g \in M \ {f} PROVE RanksBefore(f, g)
    BY <1>1, <2>1, <2>2 DEF RanksBefore
  <2> QED
    BY <2>1, <2>3 DEF IsBest
<1> QED
  BY <1>3, <1>4

LEMMA BestIsUnique ==
  ASSUME TypeOK, NEW M \in SUBSET Font, NEW f, NEW g, IsBest(f, M), IsBest(g, M)
  PROVE  f = g
BY RanksAreTotal DEF IsBest

(* First finds it. *)
LEMMA FirstIsBest ==
  ASSUME TypeOK, NEW M \in SUBSET Font, M # {}, NEW rows
  PROVE  First(M, rows) = Best(M) /\ Best(M) \in M /\ IsBest(Best(M), M)
<1> DEFINE Ahead(f) == \A g \in M \ {f} :
             \/ RanksBefore(f, g)
             \/ ~RanksBefore(g, f) /\ Position(rows, f) < Position(rows, g)
<1>1. ASSUME NEW f \in M PROVE Ahead(f) <=> IsBest(f, M)
  BY RanksAreTotal DEF IsBest
<1>2. \E f \in M : IsBest(f, M)
  BY BestExists
<1>3. Best(M) \in M /\ IsBest(Best(M), M)
  BY <1>2 DEF Best
<1>4. First(M, rows) = CHOOSE f \in M : Ahead(f)
  BY DEF First
<1> HIDE DEF Ahead
<1>5. First(M, rows) \in M /\ Ahead(First(M, rows))
  BY <1>1, <1>2, <1>4
<1> QED
  BY <1>1, <1>3, <1>5, BestIsUnique

-----------------------------------------------------------------------------
(* The groups of a set of fonts. *)

KeeperOf(M) ==
  Best(IF CoversSeveralStyles(M) = {} THEN M ELSE CoversSeveralStyles(M))

GroupFor(M) ==
  [face      |-> face[KeeperOf(M)],
   keeper    |-> KeeperOf(M),
   redundant |-> Redundant(M, KeeperOf(M)),
   alsoKept  |-> CoversSeveralStyles(M) \ {KeeperOf(M)}]

(* The fonts of S that carry a face several do. *)
Repeated(S) == {N \in Buckets(S) : Cardinality(N) >= 2}

Groups(S) == {g \in {GroupFor(M) : M \in Repeated(S)} : g.redundant # {}}

LEMMA BucketFacts ==
  ASSUME NEW S \in SUBSET Font, NEW M \in Buckets(S)
  PROVE  /\ M \in SUBSET S /\ M \in SUBSET Font
         /\ \E k \in Face : M = {f \in S : face[f] = k}
BY DEF Buckets

LEMMA KeeperFacts ==
  ASSUME TypeOK, NEW M \in SUBSET Font, M # {}, NEW rows
  PROVE  /\ KeeperOf(M) \in M
         /\ GroupOf(M, rows) = GroupFor(M)
         /\ \A f \in M \ several : f = KeeperOf(M) \/ f \in Redundant(M, KeeperOf(M))
         /\ KeeperOf(M) \notin Redundant(M, KeeperOf(M))
         /\ Redundant(M, KeeperOf(M)) \subseteq M \ several
<1> DEFINE P == IF CoversSeveralStyles(M) = {} THEN M ELSE CoversSeveralStyles(M)
<1>1. P \in SUBSET Font /\ P # {} /\ P \subseteq M
  BY DEF CoversSeveralStyles
<1>2. KeeperOf(M) = Best(P)
  BY DEF KeeperOf
<1>3. First(P, rows) = Best(P) /\ Best(P) \in P
  BY <1>1, FirstIsBest
<1>4. GroupOf(M, rows) = [face      |-> face[First(P, rows)],
                          keeper    |-> First(P, rows),
                          redundant |-> Redundant(M, First(P, rows)),
                          alsoKept  |-> CoversSeveralStyles(M) \ {First(P, rows)}]
  BY DEF GroupOf
<1> HIDE DEF P
<1>5. GroupOf(M, rows) = GroupFor(M)
  BY <1>2, <1>3, <1>4 DEF GroupFor
<1> QED
  BY <1>1, <1>2, <1>3, <1>5 DEF Redundant, CoversSeveralStyles

LEMMA RepeatedFacts ==
  ASSUME NEW S \in SUBSET Font, NEW M \in Repeated(S)
  PROVE  M \in Buckets(S) /\ M \in SUBSET Font /\ M # {}
<1>1. M \in Buckets(S) /\ Cardinality(M) >= 2
  BY DEF Repeated
<1>2. M # {}
  BY <1>1, FS_EmptySet
<1> QED
  BY <1>1, <1>2, BucketFacts

(* What a group of S says. *)
LEMMA GroupFacts ==
  ASSUME TypeOK, NEW S \in SUBSET Font, NEW g \in Groups(S)
  PROVE  /\ g \in Group
         /\ g.keeper \in S /\ face[g.keeper] = g.face
         /\ g.redundant = {f \in S \ several : face[f] = g.face /\ f # g.keeper}
<1>1. PICK M \in Repeated(S) : g = GroupFor(M)
  BY DEF Groups
<1>2. M \in Buckets(S) /\ M \in SUBSET Font /\ M # {}
  BY RepeatedFacts
<1>3. PICK k \in Face : M = {f \in S : face[f] = k}
  BY <1>2, BucketFacts
<1>4. /\ KeeperOf(M) \in M
      /\ \A f \in M \ several : f = KeeperOf(M) \/ f \in Redundant(M, KeeperOf(M))
      /\ KeeperOf(M) \notin Redundant(M, KeeperOf(M))
      /\ Redundant(M, KeeperOf(M)) \subseteq M \ several
  BY <1>2, KeeperFacts
<1>5. /\ g.keeper = KeeperOf(M) /\ g.face = face[KeeperOf(M)] /\ g.face = k
      /\ g.redundant = Redundant(M, KeeperOf(M))
  BY <1>1, <1>3, <1>4 DEF GroupFor
<1>6. g \in Group
  BY <1>1, <1>2, <1>3, <1>4, <1>5 DEF Group, GroupFor, CoversSeveralStyles
<1> QED
  BY <1>3, <1>4, <1>5, <1>6

LEMMA OneGroupPerFace ==
  ASSUME TypeOK, NEW S \in SUBSET Font, NEW g \in Groups(S), NEW l \in Groups(S),
         g.face = l.face
  PROVE  g = l
<1>1. PICK M \in Repeated(S) : g = GroupFor(M)
  BY DEF Groups
<1>2. PICK N \in Repeated(S) : l = GroupFor(N)
  BY DEF Groups
<1>3. /\ M \in Buckets(S) /\ M \in SUBSET Font /\ M # {}
      /\ N \in Buckets(S) /\ N \in SUBSET Font /\ N # {}
  BY RepeatedFacts
<1>4. PICK k \in Face : M = {f \in S : face[f] = k}
  BY <1>3, BucketFacts
<1>5. PICK j \in Face : N = {f \in S : face[f] = j}
  BY <1>3, BucketFacts
<1>6. KeeperOf(M) \in M /\ KeeperOf(N) \in N
  BY <1>3, KeeperFacts
<1>7. g.face = k /\ l.face = j
  BY <1>1, <1>2, <1>4, <1>5, <1>6 DEF GroupFor
<1> QED
  BY <1>1, <1>2, <1>4, <1>5, <1>7

(* Every font of S of a face that several carry is in a group, or kept. *)
LEMMA GroupOfFace ==
  ASSUME TypeOK, NEW S \in SUBSET Font, NEW k \in Face,
         NEW f \in S \ several, NEW h \in S \ several, f # h, face[f] = k, face[h] = k
  PROVE  \E g \in Groups(S) : g.face = k
<1> DEFINE M == {e \in S : face[e] = k}
<1>1. M \in Buckets(S) /\ M \in SUBSET Font /\ f \in M /\ h \in M
  BY DEF Buckets
<1>2. Cardinality(M) >= 2
  <2>1. IsFiniteSet(M)
    BY <1>1, FaceAssumption, FS_Subset
  <2>2. Cardinality({f, h}) <= Cardinality(M) /\ IsFiniteSet({f, h})
    BY <1>1, <2>1, FS_Subset
  <2>3. Cardinality({f, h}) = 2
    <3> DEFINE One == {f}
    <3>1. IsFiniteSet(One) /\ Cardinality(One) = 1 /\ h \notin One
      BY FS_Singleton
    <3>2. {f, h} = One \cup {h}
      OBVIOUS
    <3> HIDE DEF One
    <3>3. Cardinality(One \cup {h}) = 2
      <4>1. Cardinality(One \cup {h}) =
              IF h \in One THEN Cardinality(One) ELSE Cardinality(One) + 1
        BY <3>1, FS_AddElement
      <4> QED
        BY <3>1, <4>1
    <3> QED
      BY <3>2, <3>3
  <2>4. Cardinality(M) \in Nat
    BY <2>1, FS_CardinalityType
  <2> QED
    BY <2>2, <2>3, <2>4
<1>3. M \in Repeated(S)
  BY <1>1, <1>2 DEF Repeated
<1>4. /\ KeeperOf(M) \in M
      /\ \A e \in M \ several : e = KeeperOf(M) \/ e \in Redundant(M, KeeperOf(M))
  BY <1>1, KeeperFacts
<1>5. Redundant(M, KeeperOf(M)) # {}
  BY <1>1, <1>4
<1>6. GroupFor(M).redundant # {} /\ GroupFor(M).face = k
  BY <1>4, <1>5 DEF GroupFor
<1> HIDE DEF M
<1> QED
  BY <1>3, <1>6 DEF Groups

(* The rows are the fonts of S, in some order. *)
LEMMA RowsAreTheFonts ==
  ASSUME NEW S \in SUBSET Font, NEW rows \in SetToSeqs(S)
  PROVE  Range(rows) = S
<1> DEFINE D == 1..Cardinality(S)
<1>1. IsFiniteSet(S) /\ Cardinality(S) \in Nat
  BY FaceAssumption, FS_Subset, FS_CardinalityType
<1>2. rows \in [D -> S] /\ \A i, j \in D : i # j => rows[i] # rows[j]
  BY DEF SetToSeqs
<1>3. IsFiniteSet(D) /\ Cardinality(D) = Cardinality(S)
  BY <1>1, FS_Interval
<1> HIDE DEF D
<1>4. rows \in Injection(D, S)
  BY <1>2 DEF Injection, IsInjective
<1>5. rows \in Surjection(D, S)
  BY <1>1, <1>3, <1>4, FS_Injection
<1> QED
  BY <1>2, <1>5 DEF Surjection, Range

(* The order of the rows decides nothing. *)
LEMMA OrderDecidesNothing ==
  ASSUME TypeOK, NEW S \in SUBSET Font, NEW rows \in SetToSeqs(S)
  PROVE  GroupByFace(rows) = Groups(S)
<1>1. Range(rows) = S
  BY RowsAreTheFonts
<1>2. \A M \in Repeated(S) : GroupOf(M, rows) = GroupFor(M)
  BY RepeatedFacts, KeeperFacts
<1>3. {GroupOf(M, rows) : M \in Repeated(S)} = {GroupFor(M) : M \in Repeated(S)}
  BY <1>2
<1>4. GroupByFace(rows) = {g \in {GroupOf(M, rows) : M \in Repeated(S)} : g.redundant # {}}
  BY <1>1 DEF GroupByFace, Repeated
<1> QED
  BY <1>3, <1>4 DEF Groups

-----------------------------------------------------------------------------
(* The requests. *)

(* The group g can be resolved, but for the fonts of T.                    *)
GroupOK(g, T) ==
  /\ g.redundant \subseteq Font \ several
  /\ \A f \in g.redundant \ T : face[f] = g.face
  /\ g.keeper \in Font
  /\ g.keeper \notin T => status[g.keeper] = "active" /\ face[g.keeper] = g.face

(* What a request has chosen can go, but for the fonts that others         *)
(* touched, and is the choice of the library as long as they touch none.   *)
Chosen ==
  request # Nothing =>
    /\ \A g \in request.groups : GroupOK(g, request.touched) /\ g.keeper \notin Doomed
    /\ Fresh => request.groups =
         {g \in Groups(Active(status)) : request.keys = Face \/ g.face \in request.keys}

(* What a user was shown is the library's, as long as nothing has changed. *)
Shown == current => review = Groups(Active(status))

DInv == TypeOK /\ Chosen /\ Shown

LEMMA ActiveFonts == Active(status) \in SUBSET Font
BY DEF Active

LEMMA GroupsAreGroups ==
  ASSUME TypeOK
  PROVE  Groups(Active(status)) \in SUBSET Group
BY ActiveFonts, GroupFacts

(* The fonts are the same files in the next state. *)
LEMMA SameFiles ==
  ASSUME UNCHANGED <<files, face>>, Active(status') = Active(status)
  PROVE  Groups(Active(status))' = Groups(Active(status))
<1>1. \A S : /\ Repeated(S)' = Repeated(S)
             /\ CoversSeveralStyles(S)' = CoversSeveralStyles(S)
             /\ \A f : Redundant(S, f)' = Redundant(S, f)
  BY DEF files, Repeated, Buckets, CoversSeveralStyles, Redundant
<1>2. \A f, M : IsBest(f, M)' <=> IsBest(f, M)
  BY DEF files, IsBest, RanksBefore
<1>3. \A M : Best(M)' = Best(M)
  BY <1>2 DEF Best
<1>4. \A M : KeeperOf(M)' = KeeperOf(M)
  BY <1>1, <1>3 DEF KeeperOf
<1>5. \A M : GroupFor(M)' = GroupFor(M)
  BY <1>1, <1>4 DEF GroupFor, files
<1>6. \A S : Groups(S)' = Groups(S)
  BY <1>1, <1>5 DEF Groups
<1> QED
  BY <1>6

(* No group takes what another keeps. *)
LEMMA KeepersAreSafe ==
  ASSUME TypeOK, NEW S \in SUBSET Font, NEW g \in Groups(S), NEW l \in Groups(S)
  PROVE  g.keeper \notin l.redundant
<1> SUFFICES ASSUME g.keeper \in l.redundant PROVE FALSE
  OBVIOUS
<1>1. /\ face[g.keeper] = g.face
      /\ l.redundant = {f \in S \ several : face[f] = l.face /\ f # l.keeper}
  BY GroupFacts
<1>2. g.face = l.face /\ g.keeper # l.keeper
  BY <1>1
<1>3. g = l
  BY <1>2, OneGroupPerFace
<1> QED
  BY <1>2, <1>3

(* What becomes of the fonts a fresh request takes. *)
LEMMA DoomedFacts ==
  ASSUME DInv, request # Nothing, Fresh
  PROVE  /\ Doomed \subseteq Active(status)
         /\ \A f \in Doomed : /\ f \notin several /\ face[f] \in Face
                              /\ \E h \in Active(status) \ Doomed : face[h] = face[f]
         /\ \A k \in request.keys : \A f, h \in (Active(status) \ Doomed) \ several :
              face[f] = k /\ face[h] = k => f = h
<1> DEFINE A == Active(status)
<1>1. /\ TypeOK /\ A \in SUBSET Font /\ request \in Request
      /\ request.groups = {g \in Groups(A) : request.keys = Face \/ g.face \in request.keys}
      /\ \A g \in request.groups : g.keeper \notin Doomed
  BY ActiveFonts DEF DInv, TypeOK, Chosen
<1> HIDE DEF A
<1>2. \A g \in request.groups :
        /\ g \in Groups(A) /\ g.face \in Face
        /\ g.keeper \in A /\ face[g.keeper] = g.face
        /\ g.redundant = {f \in A \ several : face[f] = g.face /\ f # g.keeper}
  BY <1>1, GroupFacts DEF Group
<1>3. \A f : f \in Doomed <=> \E g \in request.groups : f \in g.redundant
  BY DEF Doomed
<1>4. \A f \in Doomed : f \notin several /\ face[f] \in Face
  BY <1>2, <1>3
<1>5. ASSUME NEW f \in Doomed
      PROVE  f \in A /\ \E h \in A \ Doomed : face[h] = face[f]
  <2>1. PICK g \in request.groups : f \in g.redundant
    BY <1>3
  <2>2. f \in A /\ g.keeper \in A \ Doomed /\ face[g.keeper] = face[f]
    BY <1>1, <1>2, <2>1
  <2> QED
    BY <2>2
<1>6. ASSUME NEW k \in request.keys, NEW f \in (A \ Doomed) \ several,
             NEW h \in (A \ Doomed) \ several, face[f] = k, face[h] = k, f # h
      PROVE  FALSE
  <2>1. k \in Face /\ f \in A \ several /\ h \in A \ several
    BY <1>1 DEF Request
  <2>2. PICK g \in Groups(A) : g.face = k
    BY <1>1, <1>6, <2>1, GroupOfFace
  <2>3. g \in request.groups
    BY <1>1, <2>2
  <2>4. f \in g.redundant \/ h \in g.redundant
    BY <1>2, <1>6, <2>1, <2>2, <2>3
  <2> QED
    BY <1>3, <2>3, <2>4
<1> QED
  BY <1>1, <1>4, <1>5, <1>6 DEF A

-----------------------------------------------------------------------------
(* The steps. *)

LEMMA ReviewKeeps ==
  ASSUME DInv, Review
  PROVE  DInv'
<1>1. TypeOK /\ Active(status) \in SUBSET Font
  BY ActiveFonts DEF DInv
<1>2. PICK rows \in SetToSeqs(Active(status)) : review' = GroupByFace(rows)
  BY DEF Review
<1>3. review' = Groups(Active(status)) /\ review' \in SUBSET Group
  BY <1>1, <1>2, OrderDecidesNothing, GroupsAreGroups
<1>4. UNCHANGED <<files, face, status, request, changes>> /\ current' = TRUE
  BY DEF Review
<1>5. Groups(Active(status))' = Groups(Active(status))
  BY <1>4, SameFiles
<1>6. TypeOK'
  BY <1>1, <1>3, <1>4 DEF TypeOK, files
<1>7. Chosen'
  BY <1>4, <1>5 DEF DInv, Chosen, GroupOK, Fresh, Doomed, files
<1> QED
  BY <1>3, <1>5, <1>6, <1>7 DEF DInv, Shown

LEMMA ChooseKeeps ==
  ASSUME DInv, Choose
  PROVE  DInv'
<1>1. TypeOK /\ Active(status) \in SUBSET Font
  BY ActiveFonts DEF DInv
<1>2. PICK rows \in SetToSeqs(Active(status)), keys \in SUBSET Face \ {{}} :
        request' = [keys    |-> keys,
                    groups  |-> {g \in GroupByFace(rows) : keys = Face \/ g.face \in keys},
                    touched |-> {}]
  BY DEF Choose
<1>3. /\ request'.keys = keys /\ request'.touched = {}
      /\ request'.groups = {g \in Groups(Active(status)) : keys = Face \/ g.face \in keys}
  BY <1>1, <1>2, OrderDecidesNothing
<1>4. UNCHANGED <<files, face, status, review, current, changes>>
  BY DEF Choose
<1>5. Groups(Active(status))' = Groups(Active(status))
  BY <1>4, SameFiles
<1>6. request' \in Request
  <2>1. request'.groups \in SUBSET Group
    BY <1>1, <1>3, GroupsAreGroups
  <2> QED
    BY <1>2, <2>1 DEF Request
<1>7. TypeOK'
  BY <1>1, <1>4, <1>6 DEF TypeOK, files
<1>8. ASSUME NEW g \in request'.groups
      PROVE  GroupOK(g, {})' /\ g.keeper \notin Doomed'
  <2>1. g \in Groups(Active(status))
    BY <1>3
  <2>2. /\ g \in Group
        /\ g.keeper \in Active(status) /\ face[g.keeper] = g.face
        /\ g.redundant = {h \in Active(status) \ several : face[h] = g.face /\ h # g.keeper}
    BY <1>1, <2>1, GroupFacts
  <2>3. GroupOK(g, {})
    BY <1>1, <2>2 DEF GroupOK, Active
  <2>4. \A l \in request'.groups : g.keeper \notin l.redundant
    BY <1>1, <1>3, <2>1, KeepersAreSafe
  <2> QED
    BY <1>4, <2>3, <2>4 DEF GroupOK, Doomed, files
<1>9. Chosen'
  <2>1. \A g \in request'.groups : GroupOK(g, request.touched)' /\ g.keeper \notin Doomed'
    BY <1>3, <1>8 DEF GroupOK
  <2> QED
    BY <1>3, <1>4, <1>5, <2>1 DEF Chosen, files
<1>10. Shown'
  BY <1>4, <1>5 DEF DInv, Shown
<1> QED
  BY <1>7, <1>9, <1>10 DEF DInv

LEMMA ResolveKeeps ==
  ASSUME DInv, Resolve \/ ResolveFails
  PROVE  DInv'
<1>1. /\ status \in [Font -> {"active", "trash", "absent"}] /\ UNCHANGED <<files, face, review, changes>>
      /\ request' = Nothing
  BY DEF DInv, TypeOK, Resolve, ResolveFails
<1>2. status' \in [Font -> {"active", "trash", "absent"}] /\ current' \in BOOLEAN
  BY <1>1 DEF DInv, TypeOK, Resolve, ResolveFails
<1>3. current' => current /\ status' = status
  <2>1. CASE Resolve
    <3> SUFFICES ASSUME current' PROVE current /\ status' = status
      OBVIOUS
    <3>1. current /\ Doomed = {}
      BY <2>1 DEF Resolve
    <3>2. status' = [f \in Font |-> status[f]]
      BY <2>1, <3>1 DEF Resolve
    <3> QED
      BY <1>1, <3>1, <3>2
  <2>2. CASE ResolveFails
    BY <2>2 DEF ResolveFails
  <2> QED
    BY <2>1, <2>2
<1>4. TypeOK'
  BY <1>1, <1>2 DEF DInv, TypeOK, files
<1>5. Shown'
  <2> SUFFICES ASSUME current' PROVE review' = Groups(Active(status))'
    BY DEF Shown
  <2>1. Groups(Active(status))' = Groups(Active(status))
    BY <1>1, <1>3, SameFiles
  <2> QED
    BY <1>1, <1>3, <2>1 DEF DInv, Shown
<1> QED
  BY <1>1, <1>4, <1>5 DEF DInv, Chosen

(* What the other requests have in common. *)
Gesture(f) ==
  /\ OtherGesture(f)
  /\ status' \in [Font -> {"active", "trash", "absent"}]
  /\ face' \in [Font -> Face \cup {NoFace}]
  /\ \A h \in Font \ {f} : status'[h] = status[h] /\ face'[h] = face[h]

LEMMA Gestures ==
  ASSUME TypeOK, NEW f \in Font,
         \/ Import(f) \/ Rename(f)
         \/ Moves(f, "active", "trash") \/ Moves(f, "trash", "active")
         \/ Moves(f, "trash", "absent")
  PROVE  Gesture(f)
<1>1. OtherGesture(f)
  BY DEF Import, Rename, Moves
<1>2. \/ status' = status
      \/ \E s \in {"active", "trash", "absent"} : status' = [status EXCEPT ![f] = s]
  BY DEF Import, Rename, Moves
<1>3. \/ face' = face
      \/ \E k \in Face \cup {NoFace} : face' = [face EXCEPT ![f] = k]
  BY DEF Import, Rename, Moves
<1>4. /\ status' \in [Font -> {"active", "trash", "absent"}]
      /\ \A h \in Font \ {f} : status'[h] = status[h]
  BY <1>2 DEF TypeOK
<1>5. /\ face' \in [Font -> Face \cup {NoFace}]
      /\ \A h \in Font \ {f} : face'[h] = face[h]
  BY <1>3 DEF TypeOK
<1> QED
  BY <1>1, <1>4, <1>5 DEF Gesture

LEMMA GestureKeeps ==
  ASSUME DInv, NEW f \in Font, Gesture(f)
  PROVE  DInv'
<1>1. /\ TypeOK /\ UNCHANGED <<files, review>> /\ current' = FALSE
      /\ request' = IF request = Nothing THEN Nothing
                    ELSE [request EXCEPT !.touched = @ \cup {f}]
      /\ changes < MaxChanges /\ changes' = changes + 1
  BY DEF DInv, Gesture, OtherGesture
<1>2. request # Nothing =>
        /\ request' \in Request /\ request'.groups = request.groups
        /\ request'.touched = request.touched \cup {f}
  BY <1>1 DEF TypeOK, Request
<1>3. TypeOK'
  <2>1. changes' \in 0..MaxChanges
    BY <1>1, FaceAssumption DEF TypeOK
  <2> QED
    BY <1>1, <1>2, <2>1 DEF Gesture, TypeOK, files
<1>4. Chosen'
  <2>1. CASE request = Nothing
    BY <1>1, <2>1 DEF Chosen
  <2>2. CASE request # Nothing
    <3>1. request' # Nothing => ~Fresh'
      BY <1>2, <2>2 DEF Fresh
    <3>2. Doomed' = Doomed
      BY <1>2, <2>2 DEF Doomed
    <3>3. ASSUME NEW g \in request.groups
          PROVE  GroupOK(g, request.touched)' /\ g.keeper \notin Doomed
      <4>1. GroupOK(g, request.touched) /\ g.keeper \notin Doomed
        BY <2>2 DEF DInv, Chosen
      <4>2. \A h \in Font : h \notin request'.touched =>
              h \notin request.touched /\ status'[h] = status[h] /\ face'[h] = face[h]
        BY <1>2, <2>2 DEF Gesture
      <4>3. several' = several
        BY <1>1 DEF files
      <4> QED
        BY <4>1, <4>2, <4>3 DEF GroupOK
    <3> QED
      BY <1>2, <2>2, <3>1, <3>2, <3>3 DEF Chosen
  <2> QED
    BY <2>1, <2>2
<1> QED
  BY <1>1, <1>3, <1>4 DEF DInv, Shown

LEMMA NextKeeps ==
  ASSUME DInv, [Next]_vars
  PROVE  DInv'
<1>1. CASE UNCHANGED vars
  <2>1. UNCHANGED <<files, face>> /\ Active(status') = Active(status)
    BY <1>1 DEF vars, files
  <2>2. Groups(Active(status))' = Groups(Active(status))
    BY <2>1, SameFiles
  <2> QED
    BY <1>1, <2>2 DEF vars, files, DInv, TypeOK, Chosen, GroupOK, Fresh, Shown, Doomed
<1>2. ASSUME NEW f \in Font,
             \/ Import(f) \/ Rename(f)
             \/ Moves(f, "active", "trash") \/ Moves(f, "trash", "active")
             \/ Moves(f, "trash", "absent")
      PROVE  DInv'
  BY <1>2, Gestures, GestureKeeps DEF DInv
<1> QED
  BY <1>1, <1>2, ReviewKeeps, ChooseKeeps, ResolveKeeps DEF Next

LEMMA Invariance == Spec => []DInv
<1>1. Init => DInv
  <2> SUFFICES ASSUME Init PROVE DInv
    OBVIOUS
  <2>1. status \in [Font -> {"active", "trash", "absent"}]
    BY DEF Init
  <2>2. changes \in 0..MaxChanges
    BY FaceAssumption DEF Init
  <2>3. TypeOK
    BY <2>1, <2>2 DEF Init, TypeOK
  <2> QED
    BY <2>3 DEF Init, DInv, Chosen, Shown
<1>2. DInv /\ [Next]_vars => DInv'
  BY NextKeeps
<1> QED
  BY <1>1, <1>2, PTL DEF Spec

(* What a step that resolves does. *)
LEMMA ResolvesIsResolve ==
  ASSUME DInv, [Next]_vars, Resolves
  PROVE  /\ Resolve /\ UNCHANGED <<files, face>>
         /\ Active(status') = Active(status) \ Doomed
<1>1. request # Nothing /\ request' = Nothing /\ status' # status
  BY DEF Resolves
<1>2. ASSUME NEW f \in Font, OtherGesture(f)
      PROVE  FALSE
  <2>1. request' = [request EXCEPT !.touched = @ \cup {f}] /\ request \in Request
    BY <1>1, <1>2 DEF OtherGesture, DInv, TypeOK
  <2>2. request' \in Request
    BY <2>1 DEF Request
  <2> QED
    BY <1>1, <2>2, NothingAssumption
<1>3. Resolve
  BY <1>1, <1>2 DEF Next, Review, Choose, ResolveFails, Import, Rename, Moves, vars
<1> QED
  BY <1>3 DEF Resolve, Active, DInv, TypeOK

-----------------------------------------------------------------------------

(* The reviews, the requests and the rows keep their types: the keeper of  *)
(* a group is always one of its fonts.                                     *)
THEOREM FacesTypeCorrect == Spec => []TypeOK
<1>1. DInv => TypeOK
  BY DEF DInv
<1> QED
  BY <1>1, Invariance, PTL

(* A resolution loses no face, no variable font, no collection and no font *)
(* without an identity, unless the library changes between its choice and  *)
(* its write: the font kept for each face is not taken for another.        *)
THEOREM NothingIsLost == Spec => ResolutionLosesNothing
<1>1. ASSUME DInv, [Next]_vars, Resolves, Fresh
      PROVE  UNION {Styles(f) : f \in Active(status)}
               = UNION {Styles(f) : f \in Active(status')}
  <2>1. request # Nothing /\ Active(status') = Active(status) \ Doomed
    BY <1>1, ResolvesIsResolve DEF Resolves
  <2>2. \A f \in Doomed : /\ f \notin several /\ face[f] \in Face
                          /\ \E h \in Active(status) \ Doomed : face[h] = face[f]
    BY <1>1, <2>1, DoomedFacts
  <2>3. ASSUME NEW f \in Doomed
        PROVE  \E h \in Active(status) \ Doomed : Styles(f) \subseteq Styles(h)
    <3>1. PICK h \in Active(status) \ Doomed : face[h] = face[f]
      BY <2>2
    <3>2. face[f] # NoFace /\ f \notin several
      BY <2>2, FaceAssumption
    <3> QED
      BY <3>1, <3>2 DEF Styles
  <2>4. \A f \in Active(status) :
          \E h \in Active(status) \ Doomed : Styles(f) \subseteq Styles(h)
    BY <2>3
  <2> QED
    BY <2>1, <2>4
<1>2. DInv /\ [Next]_vars =>
        [Resolves /\ Fresh => UNION {Styles(f) : f \in Active(status)}
           = UNION {Styles(f) : f \in Active(status')}]_vars
  BY <1>1
<1> QED
  BY <1>2, Invariance, PTL DEF Spec, ResolutionLosesNothing

(* Whatever other requests commit between the choice and the write, and    *)
(* whatever names they give: a resolution takes no variable font and no    *)
(* collection, and no untouched font without another of its face that      *)
(* stays, unless that one is touched.                                      *)
THEOREM UntouchedFacesStay == Spec => OnlyTouchedFacesAreLost
<1>1. ASSUME DInv, [Next]_vars, Resolves, NEW f \in Active(status) \ Active(status')
      PROVE  /\ f \notin several
             /\ \/ f \in request.touched
                \/ \E g \in request.groups :
                     /\ face[f] = g.face
                     /\ \/ g.keeper \in request.touched
                        \/ g.keeper \in Active(status') /\ face[g.keeper] = g.face
  <2>1. request # Nothing /\ Active(status') = Active(status) \ Doomed
    BY <1>1, ResolvesIsResolve DEF Resolves
  <2>2. PICK g \in request.groups : f \in g.redundant
    BY <1>1, <2>1 DEF Doomed
  <2>3. GroupOK(g, request.touched) /\ g.keeper \notin Doomed
    BY <1>1, <2>1, <2>2 DEF DInv, Chosen
  <2>4. g.keeper \notin request.touched =>
          g.keeper \in Active(status') /\ face[g.keeper] = g.face
    BY <2>1, <2>3 DEF GroupOK, Active
  <2> QED
    BY <2>2, <2>3, <2>4 DEF GroupOK
<1>2. DInv /\ [Next]_vars =>
        [Resolves => \A f \in Active(status) \ Active(status') :
           /\ f \notin several
           /\ \/ f \in request.touched
              \/ \E g \in request.groups :
                   /\ face[f] = g.face
                   /\ \/ g.keeper \in request.touched
                      \/ g.keeper \in Active(status') /\ face[g.keeper] = g.face]_vars
  BY <1>1
<1> QED
  BY <1>2, Invariance, PTL DEF Spec, OnlyTouchedFacesAreLost

(* A bulk yes trashes exactly what the review showed, in whatever order    *)
(* the database gave the rows to the one and to the other.                 *)
THEOREM ReviewsArePerformed == Spec => ReviewIsWhatHappens
<1>1. ASSUME DInv, [Next]_vars, Resolves, Fresh, current
      PROVE  Active(status) \ Active(status')
               = UNION {g.redundant : g \in {h \in review : h.face \in request.keys}}
  <2>1. request # Nothing /\ Active(status') = Active(status) \ Doomed
    BY <1>1, ResolvesIsResolve DEF Resolves
  <2>2. Doomed \subseteq Active(status)
    BY <1>1, <2>1, DoomedFacts
  <2>3. /\ review = Groups(Active(status)) /\ TypeOK
        /\ request.groups = {g \in review : request.keys = Face \/ g.face \in request.keys}
    BY <1>1, <2>1 DEF DInv, Chosen, Shown
  <2>4. \A g \in review : g.face \in Face
    BY <2>3, GroupsAreGroups DEF Group
  <2>5. request.groups = {h \in review : h.face \in request.keys}
    BY <2>3, <2>4
  <2> QED
    BY <2>1, <2>2, <2>5 DEF Doomed
<1>2. DInv /\ [Next]_vars =>
        [Resolves /\ Fresh /\ current =>
           Active(status) \ Active(status')
             = UNION {g.redundant : g \in {h \in review : h.face \in request.keys}}]_vars
  BY <1>1
<1> QED
  BY <1>2, Invariance, PTL DEF Spec, ReviewIsWhatHappens

(* A resolution leaves one font of each face it was asked for, but for the *)
(* variable fonts and collections: the next one finds nothing to take.     *)
THEOREM ResolutionsAreFinal == Spec => ResolutionIsFinal
<1>1. ASSUME DInv, [Next]_vars, Resolves, Fresh, NEW k \in request.keys
      PROVE  Cardinality({f \in Active(status') \ several : face[f] = k}) <= 1
  <2> DEFINE Left == {f \in Active(status') \ several : face[f] = k}
  <2>1. request # Nothing /\ Active(status') = Active(status) \ Doomed
    BY <1>1, ResolvesIsResolve DEF Resolves
  <2>2. \A f, h \in (Active(status) \ Doomed) \ several : face[f] = k /\ face[h] = k => f = h
    BY <1>1, <2>1, DoomedFacts
  <2>3. \A f, h \in Left : f = h
    BY <2>1, <2>2
  <2> HIDE DEF Left
  <2>4. Left = {} \/ \E f : Left = {f}
    BY <2>3
  <2>5. Cardinality(Left) <= 1
    <3>1. CASE Left = {}
      BY <3>1, FS_EmptySet
    <3>2. ASSUME NEW f, Left = {f} PROVE Cardinality(Left) <= 1
      <4>1. Cardinality(Left) = 1
        BY <3>2, FS_Singleton
      <4> QED
        BY <4>1
    <3> QED
      BY <2>4, <3>1, <3>2
  <2> QED
    BY <2>5 DEF Left
<1>2. DInv /\ [Next]_vars =>
        [Resolves /\ Fresh => \A k \in request.keys :
           Cardinality({f \in Active(status') \ several : face[f] = k}) <= 1]_vars
  BY <1>1
<1> QED
  BY <1>2, Invariance, PTL DEF Spec, ResolutionIsFinal
=============================================================================
