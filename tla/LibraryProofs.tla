---------------------------- MODULE LibraryProofs ----------------------------
(***************************************************************************)
(* Proofs about the font library, for every set of devices, processes and  *)
(* fonts and every setting of the limits, in three parts:                  *)
(*   1. FontLibrary: each function on the database keeps it well typed and *)
(*      its columns in agreement;                                          *)
(*   2. LibraryHistory: the decisions of the library agree with what the   *)
(*      devices really said;                                               *)
(*   3. FontSync: the library and the disks, when the agents' runs         *)
(*      interleave.  Its server steps are steps of FontLibrary.            *)
(***************************************************************************)
EXTENDS FontSync, LibraryHistory, FiniteSetTheorems, TLAPS

(***************************************************************************)
(*                                                                         *)
(* Part 1. The library.  The handlers are compositions of functions on the *)
(* database, so each function gets a lemma that says which rows it moves.  *)
(*                                                                         *)
(***************************************************************************)

Agrees(s) == RowsAgree(s) /\ RegistryAgrees(s)

(* What a function that touches neither the rows nor their life cycle keeps. *)
SameRows(s, t) ==
  /\ t.rows = s.rows
  /\ t.deleted = s.deleted
  /\ t.confirmed = s.confirmed
  /\ t.purged = s.purged

(***************************************************************************)
(* The shared parts.                                                       *)
(***************************************************************************)

LEMMA ReleaseLemma ==
  ASSUME NEW s \in Database, NEW pairs
  PROVE  /\ Release(s, pairs) \in Database
         /\ SameRows(s, Release(s, pairs))
         /\ Agrees(s) => Agrees(Release(s, pairs))
BY DEF Release, Database, SameRows, Agrees, RowsAgree, RegistryAgrees

LEMMA WithdrawLemma ==
  ASSUME NEW s \in Database, NEW F \in SUBSET Font
  PROVE  /\ Withdraw(s, F) \in Database
         /\ SameRows(s, Withdraw(s, F))
         /\ Agrees(s) => Agrees(Withdraw(s, F))
BY DEF Withdraw, Database, SameRows, Agrees, RowsAgree, RegistryAgrees

LEMMA BuryLemma ==
  ASSUME NEW s \in Database, NEW F \in SUBSET Font
  PROVE  /\ Bury(s, F) \in Database
         /\ Bury(s, F).rows = s.rows
         /\ Bury(s, F).deleted = s.deleted \cup F
         /\ Bury(s, F).confirmed = s.confirmed
         /\ Bury(s, F).purged = s.purged
         /\ Agrees(s) /\ F \subseteq s.rows => Agrees(Bury(s, F))
BY DEF Bury, Database, Agrees, RowsAgree, RegistryAgrees

LEMMA AssociateLemma ==
  ASSUME NEW s \in Database, NEW d \in Device, NEW f \in Font
  PROVE  /\ Associate(s, d, f) \in Database
         /\ SameRows(s, Associate(s, d, f))
         /\ Agrees(s) /\ d \in s.devices /\ f \in s.rows
              => Agrees(Associate(s, d, f))
BY DEF Associate, Database, SameRows, Agrees, RowsAgree, RegistryAgrees

(***************************************************************************)
(* The stages of a delta.                                                  *)
(***************************************************************************)

LEMMA DetectLemma ==
  ASSUME NEW s \in Database, Agrees(s), NEW d \in Device, NEW decl \in SUBSET Font
  PROVE  LET t == Detect(s, d, decl)
             gone == Disappeared(s, d, decl)
         IN  /\ t \in Database
             /\ Agrees(t)
             /\ gone \subseteq s.rows \ s.deleted
             /\ t.rows = s.rows
             /\ t.purged = s.purged
             /\ t.deleted = s.deleted \cup gone
             /\ Suspicious(s, d, decl) => t.confirmed = s.confirmed \ gone
             /\ ~Suspicious(s, d, decl) => t.confirmed = s.confirmed \cup gone
<1> DEFINE gone == Disappeared(s, d, decl)
           freed == Release(s, {d} \X gone)
           sunk == Bury(freed, gone)
           t == Detect(s, d, decl)
<1>1. gone \subseteq s.rows \ s.deleted /\ gone \in SUBSET Font
  BY DEF Disappeared, HeldBy, Active, Database
<1>2. freed \in Database /\ SameRows(s, freed) /\ Agrees(freed)
  BY ReleaseLemma
<1>3. /\ sunk \in Database
      /\ sunk.rows = s.rows
      /\ sunk.deleted = s.deleted \cup gone
      /\ sunk.confirmed = s.confirmed
      /\ sunk.purged = s.purged
      /\ Agrees(sunk)
  BY <1>1, <1>2, BuryLemma DEF SameRows
<1>4. t = [sunk EXCEPT !.confirmed = IF Suspicious(s, d, decl)
                                       THEN @ \ gone ELSE @ \cup gone]
  BY DEF Detect
<1> HIDE DEF gone, freed, sunk, t
<1>5. /\ t \in Database
      /\ t.rows = s.rows
      /\ t.purged = s.purged
      /\ t.deleted = s.deleted \cup gone
      /\ t.confirmed = IF Suspicious(s, d, decl)
                       THEN s.confirmed \ gone ELSE s.confirmed \cup gone
  BY <1>1, <1>3, <1>4 DEF Database
<1>6. RowsAgree(t)
  BY <1>1, <1>5 DEF Agrees, RowsAgree
<1>7. RegistryAgrees(t)
  BY <1>3, <1>4 DEF Agrees, RegistryAgrees, Database
<1> QED
  BY <1>1, <1>5, <1>6, <1>7 DEF Agrees, gone, t

LEMMA DetectKeepsDevices ==
  ASSUME NEW s \in Database, NEW d \in Device, NEW decl \in SUBSET Font
  PROVE  Detect(s, d, decl).devices = s.devices
BY DEF Detect, Bury, Release, Database

LEMMA ReconcileLemma ==
  ASSUME NEW s \in Database, Agrees(s), NEW d \in Device, d \in s.devices,
         NEW decl \in SUBSET Font, NEW ingestible \in SUBSET decl
  PROVE  LET t == Reconcile(s, d, decl, ingestible)
         IN  t \in Database /\ SameRows(s, t) /\ Agrees(t)
<1> DEFINE held == HeldBy(s, d)
           arrivals == (decl \cap s.rows) \ held
           departures == (held \cap s.deleted) \ decl
           declared == arrivals \cup (held \cap decl)
           freed == Release(s, {d} \X departures)
           kept == Withdraw(freed, arrivals \cap s.deleted)
           t == Reconcile(s, d, decl, ingestible)
<1>1. /\ held \in SUBSET Font /\ held \subseteq s.rows
      /\ arrivals \in SUBSET Font /\ arrivals \subseteq s.rows
      /\ declared \in SUBSET Font
      /\ \A f \in held : <<d, f>> \in s.holds
      /\ departures \cap declared = {}
  BY DEF HeldBy, Agrees, RegistryAgrees, Database
<1>2. freed \in Database /\ SameRows(s, freed) /\ Agrees(freed)
  BY ReleaseLemma
<1>3. kept \in Database /\ SameRows(freed, kept) /\ Agrees(kept)
  BY <1>1, <1>2, WithdrawLemma
<1>4. kept.holds = s.holds \ ({d} \X departures) /\ kept.devices = s.devices
  BY DEF Release, Withdraw, Database
<1>5. t = [kept EXCEPT
             !.holds = @ \cup ({d} \X arrivals),
             !.systemOnly = (@ \ ({d} \X declared))
                              \cup ({d} \X (declared \ ingestible))]
  BY DEF Reconcile
<1>6. \A f \in declared : <<d, f>> \in kept.holds \cup ({d} \X arrivals)
  <2> SUFFICES ASSUME NEW f \in held \cap decl
               PROVE  <<d, f>> \in kept.holds
    OBVIOUS
  <2>1. f \notin departures /\ <<d, f>> \in s.holds
    BY <1>1
  <2> QED
    BY <2>1, <1>4
<1> HIDE DEF held, arrivals, departures, declared, freed, kept, t
<1>7. t \in Database
  <2> DEFINE h == kept.holds \cup ({d} \X arrivals)
             o == (kept.systemOnly \ ({d} \X declared))
                    \cup ({d} \X (declared \ ingestible))
  <2>1. h \in SUBSET (Device \X Font)
    BY <1>1, <1>3 DEF Database
  <2>2. o \in SUBSET (Device \X Font)
    BY <1>1, <1>3 DEF Database
  <2>3. t = [kept EXCEPT !.holds = h, !.systemOnly = o]
    BY <1>3, <1>5 DEF Database
  <2> HIDE DEF h, o
  <2> QED
    BY <1>3, <2>1, <2>2, <2>3 DEF Database
<1>8. SameRows(s, t)
  BY <1>2, <1>3, <1>5 DEF SameRows, Database
<1>9. RowsAgree(t)
  BY <1>8 DEF Agrees, RowsAgree, SameRows
<1>10. RegistryAgrees(t)
  <2>1. t.holds \subseteq t.devices \X t.rows
    BY <1>1, <1>3, <1>4, <1>5, <1>8 DEF Agrees, RegistryAgrees, Database, SameRows
  <2>2. t.systemOnly \subseteq t.holds
    BY <1>3, <1>5, <1>6 DEF Agrees, RegistryAgrees, Database
  <2>3. t.inactive \subseteq t.holds
    BY <1>3, <1>5 DEF Agrees, RegistryAgrees, Database
  <2> QED
    BY <2>1, <2>2, <2>3, <1>3, <1>5 DEF Agrees, RegistryAgrees, Database
<1> QED
  BY <1>7, <1>8, <1>9, <1>10 DEF Agrees, t

LEMMA StampLemma ==
  ASSUME NEW s \in Database, Agrees(s), NEW d \in Device
  PROVE  Stamp(s, d) \in Database /\ SameRows(s, Stamp(s, d)) /\ Agrees(Stamp(s, d))
<1> DEFINE t == Stamp(s, d)
<1>1. t \in Database
  BY DEF Stamp, Database
<1>2. SameRows(s, t)
  BY DEF Stamp, Database, SameRows
<1>3. /\ t.holds = s.holds /\ t.systemOnly = s.systemOnly /\ t.inactive = s.inactive
      /\ t.candidate = s.candidate /\ t.ripe = s.ripe
      /\ t.devices = s.devices /\ t.retired = s.retired
  BY DEF Stamp, Database
<1> HIDE DEF t
<1>4. Agrees(t)
  BY <1>2, <1>3 DEF SameRows, Agrees, RowsAgree, RegistryAgrees
<1> QED
  BY <1>1, <1>2, <1>4 DEF t

LEMMA OpenCandidaciesLemma ==
  ASSUME NEW s \in Database, Agrees(s)
  PROVE  LET t == OpenCandidacies(s)
         IN  t \in Database /\ SameRows(s, t) /\ Agrees(t)
<1> DEFINE opened == {f \in Orphans(s) \ s.candidate : Live(s) \subseteq s.seenDeletion[f]}
<1>1. opened \in SUBSET Font /\ opened \subseteq s.rows /\ opened \cap s.candidate = {}
  BY DEF Orphans, Agrees, RowsAgree, Database
<1>2. OpenCandidacies(s) =
        [s EXCEPT !.candidate = @ \cup opened,
                  !.ripe = @ \ opened,
                  !.seenCandidacy = [f \in Font |-> IF f \in opened THEN {} ELSE @[f]]]
  BY DEF OpenCandidacies
<1> DEFINE t == OpenCandidacies(s)
<1> HIDE DEF opened, t
<1>3. t \in Database /\ SameRows(s, t)
  <2> DEFINE seen == [f \in Font |-> IF f \in opened THEN {} ELSE s.seenCandidacy[f]]
  <2>1. seen \in [Font -> SUBSET Device]
    BY DEF Database
  <2>2. s.candidate \cup opened \in SUBSET Font /\ s.ripe \ opened \in SUBSET Font
    BY <1>1 DEF Database
  <2>3. t = [s EXCEPT !.candidate = s.candidate \cup opened,
                      !.ripe = s.ripe \ opened,
                      !.seenCandidacy = seen]
    BY <1>2 DEF Database, t
  <2> HIDE DEF seen
  <2>4. t \in Database
    BY <2>1, <2>2, <2>3 DEF Database
  <2> QED
    BY <2>3, <2>4 DEF SameRows, Database
<1>4. RowsAgree(t)
  BY <1>3 DEF Agrees, RowsAgree, SameRows
<1>5. RegistryAgrees(t)
  BY <1>1, <1>2 DEF Agrees, RegistryAgrees, Database, t
<1> QED
  BY <1>3, <1>4, <1>5 DEF Agrees, t

(* Harvest takes whole tombstones: rows and every column with them. *)
LEMMA DeleteFontsLemma ==
  ASSUME NEW s \in Database, Agrees(s), NEW H \in SUBSET s.purged
  PROVE  LET t == DeleteFonts(s, H)
         IN  /\ t \in Database
             /\ Agrees(t)
             /\ t.rows = s.rows \ H
             /\ t.deleted = s.deleted \ H
             /\ t.confirmed = s.confirmed \ H
             /\ t.purged = s.purged \ H
<1> DEFINE w == Withdraw(s, H)
           r == Release(w, Device \X H)
           t == DeleteFonts(s, H)
<1>1. H \in SUBSET Font
  BY DEF Database
<1>2. w \in Database /\ SameRows(s, w) /\ Agrees(w)
  BY <1>1, WithdrawLemma
<1>3. w.candidate = s.candidate \ H
  BY DEF Withdraw, Database
<1>4. r \in Database /\ SameRows(w, r) /\ Agrees(r)
  BY <1>2, ReleaseLemma
<1>5. r.candidate = w.candidate /\ r.holds = w.holds \ (Device \X H)
  BY <1>2 DEF Release, Database
<1>6. t = [r EXCEPT !.rows = @ \ H, !.deleted = @ \ H, !.confirmed = @ \ H,
                    !.purged = @ \ H, !.expired = @ \ H,
                    !.seenDeletion = [f \in Font |-> IF f \in H THEN {} ELSE @[f]]]
  BY DEF DeleteFonts
<1> HIDE DEF w, r, t
<1>7. /\ t \in Database
      /\ t.rows = s.rows \ H
      /\ t.deleted = s.deleted \ H
      /\ t.confirmed = s.confirmed \ H
      /\ t.purged = s.purged \ H
  <2> DEFINE stamps == [f \in Font |-> IF f \in H THEN {} ELSE r.seenDeletion[f]]
  <2>1. stamps \in [Font -> SUBSET Device]
    BY <1>4 DEF Database
  <2>2. /\ r.rows = s.rows /\ r.deleted = s.deleted
        /\ r.confirmed = s.confirmed /\ r.purged = s.purged
    BY <1>2, <1>4 DEF SameRows
  <2>3. t = [r EXCEPT !.rows = r.rows \ H, !.deleted = r.deleted \ H,
                      !.confirmed = r.confirmed \ H, !.purged = r.purged \ H,
                      !.expired = r.expired \ H, !.seenDeletion = stamps]
    BY <1>6
  <2> HIDE DEF stamps
  <2>4. t \in Database
    BY <1>4, <2>1, <2>3 DEF Database
  <2>5. /\ t.rows = r.rows \ H /\ t.deleted = r.deleted \ H
        /\ t.confirmed = r.confirmed \ H /\ t.purged = r.purged \ H
    BY <1>4, <2>3 DEF Database
  <2> QED
    BY <2>2, <2>4, <2>5
<1>8. RowsAgree(t)
  BY <1>7 DEF Agrees, RowsAgree
<1>9. t.holds = r.holds /\ t.systemOnly = r.systemOnly /\ t.inactive = r.inactive
      /\ t.devices = r.devices /\ t.retired = r.retired
      /\ t.candidate = r.candidate /\ t.ripe = r.ripe
  BY <1>4, <1>6 DEF Database
<1>10. RegistryAgrees(t)
  BY <1>2, <1>3, <1>4, <1>5, <1>7, <1>9 DEF Agrees, RegistryAgrees, Database, SameRows
<1> QED
  BY <1>7, <1>8, <1>10 DEF Agrees, t

(***************************************************************************)
(* The handlers.  Whatever a handler does to the rest of the database, to  *)
(* the rows and the files it is one of five moves.                         *)
(***************************************************************************)

Agreement == Agrees(db)

Same == SameRows(db, db') /\ blobs' = blobs

Entered(f) ==
  /\ f \in Font \ Active(db)
  /\ db'.rows = db.rows \cup {f}
  /\ db'.deleted = db.deleted \ {f}
  /\ db'.confirmed = db.confirmed \ {f}
  /\ db'.purged = db.purged \ {f}
  /\ blobs' = blobs \cup {f}

Trashed(F) ==
  /\ F \subseteq Active(db) \cup Pending(db)
  /\ db'.rows = db.rows
  /\ db'.deleted = db.deleted \cup F
  /\ db'.confirmed = db.confirmed \cup F
  /\ db'.purged = db.purged
  /\ blobs' = blobs

Swept(G, H, confirm) ==
  /\ G \subseteq Active(db)
  /\ H \subseteq db.purged
  /\ ~confirm => H = {}
  /\ db'.rows = db.rows \ H
  /\ db'.deleted = (db.deleted \cup G) \ H
  /\ db'.confirmed = (db.confirmed \cup (IF confirm THEN G ELSE {})) \ H
  /\ db'.purged = db.purged \ H
  /\ blobs' = blobs

Emptied(F) ==
  /\ F \subseteq db.confirmed \ db.purged
  /\ db'.rows = db.rows
  /\ db'.deleted = db.deleted
  /\ db'.confirmed = db.confirmed
  /\ db'.purged = db.purged \cup F
  /\ blobs' = blobs \ F

Move ==
  \/ Same
  \/ \E f \in Font : Entered(f)
  \/ \E F \in SUBSET Font : Trashed(F) \/ Emptied(F)
  \/ \E G, H \in SUBSET Font, confirm \in BOOLEAN : Swept(G, H, confirm)

IInv == TypeOK /\ Agreement /\ FilesKept

LEMMA SuspiciousDeltaMoves ==
  ASSUME IInv, NEW d \in Device, NEW decl \in SUBSET Font, SuspiciousDelta(d, decl)
  PROVE  TypeOK' /\ RegistryAgrees(db') /\ Move
<1> DEFINE gone == Disappeared(db, d, decl)
<1>1. db \in Database /\ Agrees(db)
  BY DEF IInv, TypeOK, Agreement
<1>2. db' = Detect(db, d, decl) /\ blobs' = blobs /\ Suspicious(db, d, decl)
  BY DEF SuspiciousDelta
<1>3. /\ db' \in Database
      /\ Agrees(db')
      /\ gone \subseteq db.rows \ db.deleted
      /\ db'.rows = db.rows
      /\ db'.purged = db.purged
      /\ db'.deleted = db.deleted \cup gone
      /\ db'.confirmed = db.confirmed \ gone
  BY <1>1, <1>2, DetectLemma
<1>4. gone \in SUBSET Font
  BY DEF Disappeared, HeldBy
<1>5. db.confirmed \ gone = db.confirmed
  BY <1>1, <1>3 DEF Agrees, RowsAgree
<1> HIDE DEF gone
<1>6. Swept(gone, {}, FALSE)
  BY <1>2, <1>3, <1>5 DEF Swept, Active
<1>7. Move
  BY <1>4, <1>6 DEF Move
<1> QED
  BY <1>2, <1>3, <1>7 DEF IInv, TypeOK, Agrees

(* A credible delta confirms the deletions it detects, and harvests.        *)
LEMMA CredibleDeltaRows ==
  ASSUME IInv, NEW d \in Device, NEW decl \in SUBSET Font,
         NEW ingestible \in SUBSET decl, CredibleDelta(d, decl, ingestible)
  PROVE  LET gone == Disappeared(db, d, decl)
         IN  /\ gone \in SUBSET Font /\ gone \subseteq db.rows \ db.deleted
             /\ \E H \in SUBSET db.purged :
                  /\ db' \in Database
                  /\ Agrees(db')
                  /\ db'.rows = db.rows \ H
                  /\ db'.deleted = (db.deleted \cup gone) \ H
                  /\ db'.confirmed = (db.confirmed \cup gone) \ H
                  /\ db'.purged = db.purged \ H
<1> DEFINE gone == Disappeared(db, d, decl)
           s1 == Detect(db, d, decl)
           s2 == Reconcile(s1, d, decl, ingestible)
           s3 == Stamp(s2, d)
           s4 == OpenCandidacies(s3)
<1>1. db \in Database /\ Agrees(db)
  BY DEF IInv, TypeOK, Agreement
<1>2. /\ d \in db.devices /\ blobs' = blobs /\ ~Suspicious(db, d, decl)
      /\ db' \in HarvestOutcomes(s3)
  BY DEF CredibleDelta, Live
<1>3. /\ s1 \in Database
      /\ Agrees(s1)
      /\ gone \subseteq db.rows \ db.deleted
      /\ s1.rows = db.rows
      /\ s1.purged = db.purged
      /\ s1.deleted = db.deleted \cup gone
      /\ s1.confirmed = db.confirmed \cup gone
  BY <1>1, <1>2, DetectLemma
<1>4. s1.devices = db.devices
  BY <1>1, DetectKeepsDevices
<1>5. gone \in SUBSET Font
  BY DEF Disappeared, HeldBy
<1> HIDE DEF gone, s1
<1>6. s2 \in Database /\ SameRows(s1, s2) /\ Agrees(s2)
  BY <1>2, <1>3, <1>4, ReconcileLemma
<1> HIDE DEF s2
<1>7. s3 \in Database /\ SameRows(s2, s3) /\ Agrees(s3)
  BY <1>6, StampLemma
<1> HIDE DEF s3
<1>8. \/ db' = s3
      \/ \E H \in SUBSET s4.purged : db' = DeleteFonts(s4, H)
  BY <1>2 DEF HarvestOutcomes, HarvestPasses, Harvestable, Orphans
<1>9. s4 \in Database /\ SameRows(s3, s4) /\ Agrees(s4)
  BY <1>7, OpenCandidaciesLemma
<1> HIDE DEF s4
<1>10. \E H \in SUBSET db.purged :
         /\ db' \in Database
         /\ Agrees(db')
         /\ db'.rows = db.rows \ H
         /\ db'.deleted = (db.deleted \cup gone) \ H
         /\ db'.confirmed = (db.confirmed \cup gone) \ H
         /\ db'.purged = db.purged \ H
  <2>1. CASE db' = s3
    <3>1. /\ db' \in Database
          /\ Agrees(db')
          /\ db'.rows = db.rows \ {}
          /\ db'.deleted = (db.deleted \cup gone) \ {}
          /\ db'.confirmed = (db.confirmed \cup gone) \ {}
          /\ db'.purged = db.purged \ {}
      BY <2>1, <1>3, <1>6, <1>7 DEF SameRows
    <3> QED
      BY <3>1
  <2>2. CASE \E H \in SUBSET s4.purged : db' = DeleteFonts(s4, H)
    <3>1. PICK H \in SUBSET s4.purged : db' = DeleteFonts(s4, H)
      BY <2>2
    <3>2. /\ db' \in Database
          /\ Agrees(db')
          /\ db'.rows = s4.rows \ H
          /\ db'.deleted = s4.deleted \ H
          /\ db'.confirmed = s4.confirmed \ H
          /\ db'.purged = s4.purged \ H
      BY <3>1, <1>9, DeleteFontsLemma
    <3> QED
      BY <3>2, <1>3, <1>6, <1>7, <1>9 DEF SameRows
  <2> QED
    BY <2>1, <2>2, <1>8
<1> QED
  BY <1>3, <1>5, <1>10 DEF gone

LEMMA CredibleDeltaMoves ==
  ASSUME IInv, NEW d \in Device, NEW decl \in SUBSET Font,
         NEW ingestible \in SUBSET decl, CredibleDelta(d, decl, ingestible)
  PROVE  TypeOK' /\ RegistryAgrees(db') /\ Move
<1> DEFINE gone == Disappeared(db, d, decl)
<1> HIDE DEF gone
<1>11. PICK H \in SUBSET db.purged :
         /\ db' \in Database
         /\ Agrees(db')
         /\ db'.rows = db.rows \ H
         /\ db'.deleted = (db.deleted \cup gone) \ H
         /\ db'.confirmed = (db.confirmed \cup gone) \ H
         /\ db'.purged = db.purged \ H
  BY CredibleDeltaRows DEF gone
<1>12. H \in SUBSET Font
  BY DEF IInv, TypeOK, Database
<1>13. Swept(gone, H, TRUE)
  BY <1>11, CredibleDeltaRows DEF Swept, Active, CredibleDelta, gone
<1>14. Move
  BY <1>12, <1>13, CredibleDeltaRows DEF Move, gone
<1> QED
  BY <1>11, <1>14 DEF IInv, TypeOK, Agrees, CredibleDelta

LEMMA UploadMoves ==
  ASSUME IInv, NEW f \in Font, Upload(f)
  PROVE  TypeOK' /\ RegistryAgrees(db') /\ Move
<1> DEFINE woken == [db EXCEPT !.deleted = @ \ {f}, !.confirmed = @ \ {f},
                               !.purged = @ \ {f}, !.expired = @ \ {f},
                               !.seenDeletion[f] = {}]
<1>1. /\ db \in Database /\ RowsAgree(db) /\ RegistryAgrees(db)
      /\ blobs \in SUBSET Font /\ blobs = db.rows \ db.purged
  BY DEF IInv, TypeOK, Agreement, Agrees, FilesKept
<1>2. CASE f \notin db.rows
  <2>1. db' = [db EXCEPT !.rows = @ \cup {f}] /\ blobs' = blobs \cup {f}
    BY <1>2 DEF Upload, Import, ImportedFiles
  <2>2. TypeOK' /\ RegistryAgrees(db')
    BY <1>1, <2>1 DEF TypeOK, RegistryAgrees, Database
  <2>3. Entered(f)
    BY <1>1, <1>2, <2>1 DEF Entered, RowsAgree, Active, Database
  <2> QED
    BY <2>2, <2>3 DEF Move
<1>3. CASE f \in db.rows
  <2>1. /\ f \in db.deleted
        /\ db' = Release(woken, Device \X {f})
        /\ blobs' = blobs \cup (IF f \in db.purged THEN {f} ELSE {})
    BY <1>3 DEF Upload, Active, Import, ImportedFiles, Revive
  <2>2. /\ woken \in Database /\ RegistryAgrees(woken)
        /\ woken.rows = db.rows
        /\ woken.deleted = db.deleted \ {f}
        /\ woken.confirmed = db.confirmed \ {f}
        /\ woken.purged = db.purged \ {f}
    BY <1>1 DEF Database, RegistryAgrees
  <2> HIDE DEF woken
  <2>3. db' \in Database /\ SameRows(woken, db')
    BY <2>1, <2>2, ReleaseLemma
  <2>4. RegistryAgrees(db')
    BY <2>1, <2>2 DEF RegistryAgrees, Release, Database
  <2>5. Entered(f)
    BY <1>1, <1>3, <2>1, <2>2, <2>3 DEF Entered, Active, SameRows
  <2> QED
    BY <1>1, <2>1, <2>3, <2>4, <2>5 DEF Move, TypeOK
<1> QED
  BY <1>2, <1>3

LEMMA PushMoves ==
  ASSUME IInv, NEW d \in Device, NEW f \in Font, Push(d, f)
  PROVE  TypeOK' /\ RegistryAgrees(db') /\ Move
<1>1. /\ db \in Database /\ RowsAgree(db) /\ RegistryAgrees(db)
      /\ blobs \in SUBSET Font /\ blobs = db.rows \ db.purged
  BY DEF IInv, TypeOK, Agreement, Agrees, FilesKept
<1>2. d \in db.devices
  BY DEF Push, Live
<1>3. CASE f \notin db.rows
  <2> DEFINE new == [db EXCEPT !.rows = @ \cup {f}]
  <2>1. db' = Associate(new, d, f) /\ blobs' = blobs \cup {f}
    BY <1>3 DEF Push, Import, ImportedFiles
  <2>2. /\ new \in Database /\ Agrees(new)
        /\ d \in new.devices /\ f \in new.rows
        /\ new.deleted = db.deleted /\ new.confirmed = db.confirmed
        /\ new.purged = db.purged /\ new.rows = db.rows \cup {f}
    BY <1>1, <1>2 DEF Agrees, RowsAgree, RegistryAgrees, Database
  <2> HIDE DEF new
  <2>3. db' \in Database /\ SameRows(new, db') /\ Agrees(db')
    BY <2>1, <2>2, AssociateLemma
  <2>4. Entered(f)
    BY <1>1, <1>3, <2>1, <2>2, <2>3 DEF Entered, RowsAgree, Active, SameRows
  <2> QED
    BY <1>1, <2>1, <2>3, <2>4 DEF Move, TypeOK, Agrees
<1>4. CASE f \in db.rows
  <2>1. db' = Associate(db, d, f) /\ blobs' = blobs
    BY <1>1, <1>4 DEF Push, Import, ImportedFiles
  <2>2. db' \in Database /\ SameRows(db, db') /\ Agrees(db')
    BY <1>1, <1>2, <1>4, <2>1, AssociateLemma DEF Agrees
  <2> QED
    BY <1>1, <2>1, <2>2 DEF Move, Same, TypeOK, Agrees
<1> QED
  BY <1>3, <1>4

LEMMA PullMoves ==
  ASSUME IInv, NEW d \in Device, NEW f \in Font, Pull(d, f)
  PROVE  TypeOK' /\ RegistryAgrees(db') /\ Move
<1>1. /\ db \in Database /\ Agrees(db) /\ blobs \in SUBSET Font
      /\ db' = Associate(db, d, f) /\ blobs' = blobs
      /\ d \in db.devices /\ f \in db.rows
  BY DEF IInv, TypeOK, Agreement, Pull, Live, Active
<1>2. db' \in Database /\ SameRows(db, db') /\ Agrees(db')
  BY <1>1, AssociateLemma
<1> QED
  BY <1>1, <1>2 DEF Move, Same, TypeOK, Agrees

(* DELETE /fonts/{id} and the resolution of duplicates. *)
LEMMA ToTrashMoves ==
  ASSUME IInv, NEW F \in SUBSET Font, F \subseteq Active(db),
         db' = ToTrash(db, F), blobs' = blobs
  PROVE  TypeOK' /\ RegistryAgrees(db') /\ Move
<1> DEFINE sunk == Bury(db, F)
           freed == Release(sunk, Device \X F)
<1>1. db \in Database /\ Agrees(db) /\ F \subseteq db.rows /\ blobs \in SUBSET Font
  BY DEF IInv, TypeOK, Agreement, Active
<1>2. /\ sunk \in Database
      /\ sunk.rows = db.rows
      /\ sunk.deleted = db.deleted \cup F
      /\ sunk.confirmed = db.confirmed
      /\ sunk.purged = db.purged
      /\ Agrees(sunk)
  BY <1>1, BuryLemma
<1>3. freed \in Database /\ SameRows(sunk, freed) /\ Agrees(freed)
  BY <1>2, ReleaseLemma
<1>4. db' = [freed EXCEPT !.confirmed = @ \cup F]
  BY DEF ToTrash
<1> HIDE DEF sunk, freed
<1>5. db' \in Database /\ RegistryAgrees(db')
  BY <1>3, <1>4 DEF Agrees, RegistryAgrees, Database
<1>6. Trashed(F)
  BY <1>2, <1>3, <1>4 DEF Trashed, SameRows, Database
<1> QED
  BY <1>1, <1>5, <1>6 DEF Move, TypeOK

LEMMA RestoreMoves ==
  ASSUME IInv, NEW f \in Font, RestoreFont(f)
  PROVE  TypeOK' /\ RegistryAgrees(db') /\ Move
<1> DEFINE woken == [db EXCEPT !.deleted = @ \ {f}, !.confirmed = @ \ {f},
                               !.expired = @ \ {f}, !.seenDeletion[f] = {}]
<1>1. /\ db \in Database /\ RowsAgree(db) /\ RegistryAgrees(db)
      /\ blobs \in SUBSET Font /\ blobs = db.rows \ db.purged
  BY DEF IInv, TypeOK, Agreement, Agrees, FilesKept
<1>2. /\ f \in db.deleted \ db.purged
      /\ db' = Release(woken, Device \X {f}) /\ blobs' = blobs
  BY DEF RestoreFont
<1>3. /\ woken \in Database /\ RegistryAgrees(woken)
      /\ woken.rows = db.rows
      /\ woken.deleted = db.deleted \ {f}
      /\ woken.confirmed = db.confirmed \ {f}
      /\ woken.purged = db.purged
  BY <1>1 DEF Database, RegistryAgrees
<1> HIDE DEF woken
<1>4. db' \in Database /\ SameRows(woken, db')
  BY <1>2, <1>3, ReleaseLemma
<1>5. RegistryAgrees(db')
  BY <1>2, <1>3 DEF RegistryAgrees, Release, Database
<1>6. Entered(f)
  BY <1>1, <1>2, <1>3, <1>4 DEF Entered, Active, SameRows, RowsAgree
<1> QED
  BY <1>1, <1>2, <1>4, <1>5, <1>6 DEF Move, TypeOK

(* The moves that change neither the rows nor the files. *)
LEMMA SameMoves ==
  ASSUME IInv, db' \in Database, SameRows(db, db'), RegistryAgrees(db'), blobs' = blobs
  PROVE  TypeOK' /\ RegistryAgrees(db') /\ Move
BY DEF IInv, TypeOK, Move, Same

LEMMA PurgeMoves ==
  ASSUME IInv, NEW F \in SUBSET Purgeable(db), NEW failed, PurgeFiles(F, failed)
  PROVE  TypeOK' /\ RegistryAgrees(db') /\ Move
<1>1. /\ db \in Database /\ RegistryAgrees(db) /\ blobs \in SUBSET Font
  BY DEF IInv, TypeOK, Agreement, Agrees
<1>2. /\ db' = [db EXCEPT !.purged = @ \cup (F \ failed)]
      /\ blobs' = blobs \ (F \ failed)
  BY DEF PurgeFiles
<1>3. F \ failed \in SUBSET Font
  BY <1>1 DEF Purgeable, Database
<1>4. db' \in Database /\ RegistryAgrees(db')
  BY <1>1, <1>2, <1>3 DEF RegistryAgrees, Database
<1>5. Emptied(F \ failed)
  BY <1>1, <1>2 DEF Emptied, Purgeable, Database
<1> QED
  BY <1>1, <1>2, <1>3, <1>4, <1>5 DEF Move, TypeOK

LEMMA ConfirmMoves ==
  ASSUME IInv, ConfirmPendingDeletions
  PROVE  TypeOK' /\ RegistryAgrees(db') /\ Move
<1>1. /\ db \in Database /\ RowsAgree(db) /\ RegistryAgrees(db) /\ blobs \in SUBSET Font
  BY DEF IInv, TypeOK, Agreement, Agrees
<1>2. db' = [db EXCEPT !.confirmed = @ \cup Pending(db)] /\ blobs' = blobs
  BY DEF ConfirmPendingDeletions
<1>3. Pending(db) \in SUBSET Font /\ Pending(db) \subseteq db.deleted
  BY <1>1 DEF Pending, Database
<1>4. db' \in Database /\ RegistryAgrees(db')
  BY <1>1, <1>2, <1>3 DEF RegistryAgrees, Database
<1>5. Trashed(Pending(db))
  BY <1>1, <1>2, <1>3 DEF Trashed, Database
<1> QED
  BY <1>1, <1>2, <1>3, <1>4, <1>5 DEF Move, TypeOK

LEMMA MergeMoves ==
  ASSUME IInv, NEW d \in Device, NEW sources \in SUBSET Device, MergeDevices(d, sources)
  PROVE  TypeOK' /\ RegistryAgrees(db') /\ Move
<1> DEFINE moved == UNION {HeldBy(db, src) : src \in sources} \ HeldBy(db, d)
           freed == Release(db, sources \X Font)
<1>1. db \in Database /\ Agrees(db)
  BY DEF IInv, TypeOK, Agreement
<1>2. freed \in Database /\ SameRows(db, freed) /\ Agrees(freed)
  BY <1>1, ReleaseLemma
<1>3. /\ d \in db.devices /\ sources \subseteq db.devices /\ blobs' = blobs
      /\ db' = [freed EXCEPT !.holds = @ \cup ({d} \X moved), !.retired = @ \cup sources]
  BY DEF MergeDevices, Live
<1>4. moved \in SUBSET Font /\ moved \subseteq db.rows
  <2>1. \A src \in Device : HeldBy(db, src) \in SUBSET Font
                          /\ HeldBy(db, src) \subseteq db.rows
    BY <1>1 DEF HeldBy, Agrees, RegistryAgrees, Database
  <2> HIDE DEF freed
  <2> QED
    BY <2>1
<1>5. freed.devices = db.devices
  BY <1>1 DEF Release, Database
<1> HIDE DEF moved, freed
<1>6. db' \in Database /\ SameRows(db, db')
  <2> DEFINE held == freed.holds \cup ({d} \X moved)
             gone == freed.retired \cup sources
  <2>1. held \in SUBSET (Device \X Font) /\ gone \in SUBSET Device
    BY <1>2, <1>4 DEF Database
  <2>2. db' = [freed EXCEPT !.holds = held, !.retired = gone]
    BY <1>3
  <2> HIDE DEF held, gone
  <2>3. db' \in Database /\ SameRows(freed, db')
    BY <1>2, <2>1, <2>2 DEF Database, SameRows
  <2> QED
    BY <1>2, <2>3 DEF SameRows
<1>7. /\ db'.holds = freed.holds \cup ({d} \X moved)
      /\ db'.retired = freed.retired \cup sources
      /\ db'.systemOnly = freed.systemOnly /\ db'.inactive = freed.inactive
      /\ db'.candidate = freed.candidate /\ db'.ripe = freed.ripe
      /\ db'.devices = freed.devices /\ db'.rows = freed.rows
      /\ freed.rows = db.rows
  BY <1>2, <1>3 DEF SameRows, Database
<1>8. RegistryAgrees(db')
  BY <1>2, <1>3, <1>4, <1>5, <1>7 DEF Agrees, RegistryAgrees
<1> QED
  BY <1>3, <1>6, <1>8, SameMoves

(* Activation, registration, retirement and the passing of time. *)
LEMMA OtherMoves ==
  ASSUME IInv,
         \/ \E d \in Device : RegisterDevice(d) \/ DeleteDevice(d)
         \/ \E d \in Device, f \in Font : ActivateFont(d, f) \/ DeactivateFont(d, f)
         \/ \E f \in Font : GraceElapses(f) \/ RetentionElapses(f)
  PROVE  TypeOK' /\ RegistryAgrees(db') /\ Move
<1>1. db \in Database /\ RegistryAgrees(db)
  BY DEF IInv, TypeOK, Agreement, Agrees
<1>2. CASE \E d \in Device : RegisterDevice(d) \/ DeleteDevice(d)
  <2>1. PICK d \in Device : RegisterDevice(d) \/ DeleteDevice(d)
    BY <1>2
  <2>2. db' \in Database /\ SameRows(db, db') /\ RegistryAgrees(db')
    <3>1. CASE RegisterDevice(d)
      <4> DEFINE known == db.devices \cup {d}
                 gone == db.retired \ {d}
      <4>1. db' = [db EXCEPT !.devices = known, !.retired = gone]
        BY <3>1 DEF RegisterDevice
      <4>2. known \in SUBSET Device /\ gone \in SUBSET Device /\ db.devices \subseteq known
            /\ (db.retired \subseteq db.devices => gone \subseteq known)
        BY <1>1 DEF Database
      <4> HIDE DEF known, gone
      <4>3. db' \in Database /\ SameRows(db, db')
        BY <1>1, <4>1, <4>2 DEF SameRows, Database
      <4>4. RegistryAgrees(db')
        BY <1>1, <4>1, <4>2 DEF RegistryAgrees, Database
      <4> QED
        BY <4>3, <4>4
    <3>2. CASE DeleteDevice(d)
      <4> DEFINE gone == db.retired \cup {d}
      <4>1. d \in db.devices /\ db' = [db EXCEPT !.retired = gone]
        BY <3>2 DEF DeleteDevice, Live
      <4>2. gone \in SUBSET Device /\ (db.retired \subseteq db.devices => gone \subseteq db.devices)
        BY <1>1, <4>1 DEF Database
      <4> HIDE DEF gone
      <4>3. db' \in Database /\ SameRows(db, db')
        BY <1>1, <4>1, <4>2 DEF SameRows, Database
      <4>4. RegistryAgrees(db')
        BY <1>1, <4>1, <4>2 DEF RegistryAgrees, Database
      <4> QED
        BY <4>3, <4>4
    <3> QED
      BY <2>1, <3>1, <3>2
  <2>3. blobs' = blobs
    BY <2>1 DEF RegisterDevice, DeleteDevice
  <2> QED
    BY <2>2, <2>3, SameMoves
<1>3. CASE \E d \in Device, f \in Font : ActivateFont(d, f) \/ DeactivateFont(d, f)
  <2>1. PICK d \in Device, f \in Font : ActivateFont(d, f) \/ DeactivateFont(d, f)
    BY <1>3
  <2>2. db' \in Database /\ SameRows(db, db') /\ RegistryAgrees(db') /\ blobs' = blobs
    BY <1>1, <2>1
       DEF ActivateFont, DeactivateFont, SameRows, RegistryAgrees, Database
  <2> QED
    BY <2>2, SameMoves
<1>4. CASE \E f \in Font : GraceElapses(f) \/ RetentionElapses(f)
  <2>1. PICK f \in Font : GraceElapses(f) \/ RetentionElapses(f)
    BY <1>4
  <2>2. db' \in Database /\ SameRows(db, db') /\ RegistryAgrees(db') /\ blobs' = blobs
    BY <1>1, <2>1
       DEF GraceElapses, RetentionElapses, SameRows, RegistryAgrees, Database
  <2> QED
    BY <2>2, SameMoves
<1> QED
  BY <1>2, <1>3, <1>4

LEMMA NextMoves ==
  ASSUME IInv, Next
  PROVE  TypeOK' /\ RegistryAgrees(db') /\ Move
<1>1. ASSUME NEW d \in Device, DeviceStep(d)
      PROVE  TypeOK' /\ RegistryAgrees(db') /\ Move
  <2>1. CASE \E decl \in SUBSET Font : SuspiciousDelta(d, decl)
    BY <2>1, SuspiciousDeltaMoves
  <2>2. CASE \E decl \in SUBSET Font : \E ingestible \in SUBSET decl :
               CredibleDelta(d, decl, ingestible)
    BY <2>2, CredibleDeltaMoves
  <2>3. CASE \E f \in Font : Push(d, f)
    BY <2>3, PushMoves
  <2>4. CASE \E f \in Font : Pull(d, f)
    BY <2>4, PullMoves
  <2>5. CASE \E sources \in SUBSET Device : MergeDevices(d, sources)
    BY <2>5, MergeMoves
  <2>6. CASE \/ RegisterDevice(d) \/ DeleteDevice(d)
             \/ \E f \in Font : ActivateFont(d, f) \/ DeactivateFont(d, f)
    BY <2>6, OtherMoves
  <2> QED
    BY <1>1, <2>1, <2>2, <2>3, <2>4, <2>5, <2>6 DEF DeviceStep
<1>2. ASSUME NEW f \in Font, FontStep(f)
      PROVE  TypeOK' /\ RegistryAgrees(db') /\ Move
  <2>1. CASE Upload(f)
    BY <2>1, UploadMoves
  <2>2. CASE DeleteFont(f)
    <3>1. {f} \in SUBSET Font /\ {f} \subseteq Active(db) /\ db' = ToTrash(db, {f})
          /\ blobs' = blobs
      BY <2>2 DEF DeleteFont
    <3> QED
      BY <3>1, ToTrashMoves
  <2>3. CASE RestoreFont(f)
    BY <2>3, RestoreMoves
  <2>4. CASE PurgeFont(f)
    <3>1. {f} \in SUBSET Purgeable(db) /\ PurgeFiles({f}, {})
      BY <2>4 DEF PurgeFont
    <3> QED
      BY <3>1, PurgeMoves
  <2>5. CASE GraceElapses(f) \/ RetentionElapses(f)
    BY <2>5, OtherMoves
  <2> QED
    BY <1>2, <2>1, <2>2, <2>3, <2>4, <2>5 DEF FontStep
<1>3. ASSUME BulkStep
      PROVE  TypeOK' /\ RegistryAgrees(db') /\ Move
  <2>1. CASE ConfirmPendingDeletions
    BY <2>1, ConfirmMoves
  <2>2. CASE \E F \in SUBSET Font : ResolveDuplicates(F)
    BY <2>2, ToTrashMoves DEF ResolveDuplicates
  <2>3. CASE \E failed \in SUBSET Purgeable(db) : EmptyTrash(failed)
    BY <2>3, PurgeMoves DEF EmptyTrash
  <2>4. CASE \E failed \in SUBSET Purgeable(db) : PurgeExpired(failed)
    <3>1. Purgeable(db) \cap db.expired \in SUBSET Purgeable(db)
      OBVIOUS
    <3> QED
      BY <2>4, <3>1, PurgeMoves DEF PurgeExpired
  <2> QED
    BY <1>3, <2>1, <2>2, <2>3, <2>4 DEF BulkStep
<1> QED
  BY <1>1, <1>2, <1>3 DEF Next

(* Every move keeps the columns in agreement and the files with the rows. *)
LEMMA MoveAgrees ==
  ASSUME IInv, Move
  PROVE  RowsAgree(db') /\ FilesKept'
<1>1. /\ RowsAgree(db) /\ blobs = db.rows \ db.purged
      /\ db.rows \in SUBSET Font
  BY DEF IInv, TypeOK, Agreement, Agrees, FilesKept, Database
<1>2. CASE Same
  BY <1>1, <1>2 DEF Same, SameRows, RowsAgree, FilesKept
<1>3. CASE \E f \in Font : Entered(f)
  BY <1>1, <1>3 DEF Entered, RowsAgree, FilesKept
<1>4. CASE \E F \in SUBSET Font : Trashed(F)
  BY <1>1, <1>4 DEF Trashed, Active, Pending, RowsAgree, FilesKept
<1>5. CASE \E F \in SUBSET Font : Emptied(F)
  BY <1>1, <1>5 DEF Emptied, RowsAgree, FilesKept
<1>6. CASE \E G, H \in SUBSET Font, confirm \in BOOLEAN : Swept(G, H, confirm)
  <2>1. PICK G \in SUBSET Font, H \in SUBSET Font, confirm \in BOOLEAN :
          Swept(G, H, confirm)
    BY <1>6
  <2>2. RowsAgree(db')
    BY <1>1, <2>1 DEF Swept, Active, RowsAgree
  <2>3. FilesKept'
    BY <1>1, <2>1 DEF Swept, Active, RowsAgree, FilesKept
  <2> QED
    BY <2>2, <2>3
<1> QED
  BY <1>2, <1>3, <1>4, <1>5, <1>6 DEF Move

LEMMA StepKeeps ==
  ASSUME IInv, [Next]_vars
  PROVE  IInv'
<1>1. CASE Next
  <2>1. TypeOK' /\ RegistryAgrees(db') /\ Move
    BY <1>1, NextMoves
  <2>2. RowsAgree(db') /\ FilesKept'
    BY <2>1, MoveAgrees
  <2> QED
    BY <2>1, <2>2 DEF IInv, Agreement, Agrees
<1>2. CASE UNCHANGED vars
  BY <1>2 DEF vars, IInv, TypeOK, Agreement, Agrees, RowsAgree,
              RegistryAgrees, FilesKept
<1> QED
  BY <1>1, <1>2

LEMMA Invariance == Spec => []IInv
<1>1. Init => IInv
  BY DEF Init, IInv, TypeOK, Agreement, Agrees, RowsAgree, RegistryAgrees,
         FilesKept, Database
<1>2. IInv /\ [Next]_vars => IInv'
  BY StepKeeps
<1> QED
  BY <1>1, <1>2, PTL DEF Spec

(* Every column keeps its type. *)
THEOREM TypeCorrect == Spec => []TypeOK
<1>1. IInv => TypeOK
  BY DEF IInv
<1> QED
  BY <1>1, Invariance, PTL

(* The columns of a row's life agree, every row that is not purged has its *)
(* file and no other file stays, and associations and candidacies belong   *)
(* to rows, through every sequence of requests (deletion_propagation,      *)
(* inventory, harvest, font_importer, trash, the routes).                  *)
THEOREM Consistency ==
  Spec => [](LifecycleConsistent /\ FilesKept /\ RegistryConsistent)
<1>1. IInv => LifecycleConsistent /\ FilesKept /\ RegistryConsistent
  BY DEF IInv, Agreement, Agrees, LifecycleConsistent, RegistryConsistent
<1> QED
  BY <1>1, Invariance, PTL

(* An active font can always be pulled and a font in the trash restored:   *)
(* only a purged row is without its file, and no other file stays.         *)
THEOREM FilesStayWithRows == Spec => []FilesKept
BY Consistency, PTL

(* No association or candidacy dangles, whatever the handlers do.          *)
THEOREM RegistryStaysConsistent == Spec => []RegistryConsistent
BY Consistency, PTL

(* The limit of one declaration never exceeds the larger absolute one.      *)
LEMMA LimitIsAbsolute ==
  ASSUME NEW n \in Nat
  PROVE  PropagationLimit(n) = MinFonts \/ PropagationLimit(n) \in 0..MaxFonts
<1>1. /\ MinFonts \in Nat /\ MaxFonts \in Nat
      /\ RatioNum \in Nat /\ RatioDen \in Nat \ {0}
  BY LimitsAssumption
<1>2. n * RatioNum \in Nat
  BY <1>1
<1>3. (n * RatioNum) \div RatioDen \in Int
  BY <1>1, <1>2
<1> QED
  BY <1>1, <1>3 DEF PropagationLimit

(* What one declaration can have removed elsewhere is bounded by the        *)
(* configuration alone, however much it leaves out and however large the    *)
(* library is: a disk that is cleaned out does not empty the others.        *)
THEOREM DeltasStayContained == IsFiniteSet(Font) => (Spec => DeltasAreContained)
<1> SUFFICES ASSUME IsFiniteSet(Font) PROVE Spec => DeltasAreContained
  OBVIOUS
<1> DEFINE Contained ==
      \A d \in Device, decl \in SUBSET Font : \A ingestible \in SUBSET decl :
        /\ SuspiciousDelta(d, decl) => Condemned(db') \subseteq Condemned(db)
        /\ CredibleDelta(d, decl, ingestible) =>
             \E n \in {MinFonts, MaxFonts} :
               Cardinality(Condemned(db') \ Condemned(db)) <= n
<1>1. ASSUME IInv, NEW d \in Device, NEW decl \in SUBSET Font, SuspiciousDelta(d, decl)
      PROVE  Condemned(db') \subseteq Condemned(db)
  <2>1. db \in Database /\ Agrees(db)
    BY <1>1 DEF IInv, TypeOK, Agreement
  <2>2. /\ db'.deleted = db.deleted \cup Disappeared(db, d, decl)
        /\ db'.confirmed = db.confirmed \ Disappeared(db, d, decl)
    BY <1>1, <2>1, DetectLemma DEF SuspiciousDelta
  <2> QED
    BY <2>2 DEF Condemned
<1>2. ASSUME IInv, NEW d \in Device, NEW decl \in SUBSET Font,
             NEW ingestible \in SUBSET decl, CredibleDelta(d, decl, ingestible)
      PROVE  \E n \in {MinFonts, MaxFonts} :
               Cardinality(Condemned(db') \ Condemned(db)) <= n
  <2> DEFINE gone == Disappeared(db, d, decl)
             new  == Condemned(db') \ Condemned(db)
  <2>1. gone \in SUBSET Font /\ new \subseteq gone
    BY <1>2, CredibleDeltaRows DEF Condemned
  <2>2. /\ IsFiniteSet(gone) /\ IsFiniteSet(decl) /\ IsFiniteSet(new)
        /\ Cardinality(new) <= Cardinality(gone)
    BY <2>1, FS_Subset
  <2>3. Cardinality(gone) \in Nat /\ Cardinality(decl) \in Nat /\ Cardinality(new) \in Nat
    BY <2>2, FS_CardinalityType
  <2>4. ~(Cardinality(gone) > PropagationLimit(Cardinality(decl)))
    BY <1>2 DEF CredibleDelta, Suspicious
  <2>5. \/ PropagationLimit(Cardinality(decl)) = MinFonts
        \/ PropagationLimit(Cardinality(decl)) \in 0..MaxFonts
    BY <2>3, LimitIsAbsolute
  <2> HIDE DEF gone, new
  <2>6. Cardinality(new) <= MinFonts \/ Cardinality(new) <= MaxFonts
    BY <2>2, <2>3, <2>4, <2>5, LimitsAssumption
  <2> QED
    BY <2>6 DEF new
<1>3. IInv /\ [Next]_vars => [Contained]_vars
  BY <1>1, <1>2
<1> QED
  BY <1>3, Invariance, PTL DEF Spec, DeltasAreContained

(***************************************************************************)
(* The refinement: each move is a transition of FontLifecycle.             *)
(***************************************************************************)

LEMMA StatusLemma ==
  ASSUME NEW s, RowsAgree(s), NEW f
  PROVE  /\ StatusOf(s, f) = "tombstone" <=> f \in s.purged
         /\ StatusOf(s, f) = "trash" <=> f \in s.confirmed \ s.purged
         /\ StatusOf(s, f) = "pending" <=> f \in s.deleted \ s.confirmed
         /\ StatusOf(s, f) = "library" <=> f \in s.rows \ s.deleted
         /\ StatusOf(s, f) = "unknown" <=> f \notin s.rows
BY DEF RowsAgree, StatusOf

LEMMA StatusIsOne ==
  ASSUME NEW s, RowsAgree(s), NEW f
  PROVE  StatusOf(s, f) \in {"unknown", "library", "pending", "trash", "tombstone"}
BY StatusLemma DEF RowsAgree

LEMMA EnteredRefines ==
  ASSUME RowsAgree(db), RowsAgree(db'), NEW f \in Font, Entered(f)
  PROVE  Lifecycle!Enter(f)
<1>1. \A g \in Font : StatusOf(db', g) = IF g \in {f} THEN "library" ELSE StatusOf(db, g)
  <2> SUFFICES ASSUME NEW g \in Font
               PROVE StatusOf(db', g) = IF g \in {f} THEN "library" ELSE StatusOf(db, g)
    OBVIOUS
  <2>1. StatusOf(db, g) \in {"unknown", "library", "pending", "trash", "tombstone"}
    BY StatusIsOne
  <2> QED
    BY <2>1, StatusLemma DEF Entered, RowsAgree
<1>2. StatusOf(db, f) # "library"
  BY StatusLemma DEF Entered, Active
<1> QED
  BY <1>1, <1>2 DEF Entered, Lifecycle!Enter, Lifecycle!Move

LEMMA TrashedRefines ==
  ASSUME RowsAgree(db), RowsAgree(db'), NEW F \in SUBSET Font, Trashed(F)
  PROVE  Lifecycle!Discard(F)
<1>1. \A g \in Font : StatusOf(db', g) = IF g \in F THEN "trash" ELSE StatusOf(db, g)
  <2> SUFFICES ASSUME NEW g \in Font
               PROVE StatusOf(db', g) = IF g \in F THEN "trash" ELSE StatusOf(db, g)
    OBVIOUS
  <2>1. StatusOf(db, g) \in {"unknown", "library", "pending", "trash", "tombstone"}
    BY StatusIsOne
  <2> QED
    BY <2>1, StatusLemma DEF Trashed, RowsAgree, Active, Pending
<1>2. \A g \in F : StatusOf(db, g) \in {"library", "pending"}
  BY StatusLemma DEF Trashed, Active, Pending
<1> QED
  BY <1>1, <1>2 DEF Trashed, Lifecycle!Discard, Lifecycle!Move, Lifecycle!InState

LEMMA EmptiedRefines ==
  ASSUME RowsAgree(db), RowsAgree(db'), NEW F \in SUBSET Font, Emptied(F)
  PROVE  Lifecycle!Purge(F)
<1>1. \A g \in Font : StatusOf(db', g) = IF g \in F THEN "tombstone" ELSE StatusOf(db, g)
  <2> SUFFICES ASSUME NEW g \in Font
               PROVE StatusOf(db', g) = IF g \in F THEN "tombstone" ELSE StatusOf(db, g)
    OBVIOUS
  <2>1. StatusOf(db, g) \in {"unknown", "library", "pending", "trash", "tombstone"}
    BY StatusIsOne
  <2> QED
    BY <2>1, StatusLemma DEF Emptied, RowsAgree
<1>2. \A g \in F : StatusOf(db, g) = "trash"
  BY StatusLemma DEF Emptied
<1> QED
  BY <1>1, <1>2 DEF Emptied, Lifecycle!Purge, Lifecycle!Move, Lifecycle!InState

LEMMA SweptRefines ==
  ASSUME RowsAgree(db), RowsAgree(db'), NEW G \in SUBSET Font, NEW H \in SUBSET Font,
         NEW confirm \in BOOLEAN, Swept(G, H, confirm)
  PROVE  Lifecycle!Sweep(G, H, IF confirm THEN "trash" ELSE "pending")
<1> DEFINE st == IF confirm THEN "trash" ELSE "pending"
<1>1. \A g \in Font : StatusOf(db', g) = IF g \in G THEN st
                                        ELSE IF g \in H THEN "unknown" ELSE StatusOf(db, g)
  <2> SUFFICES ASSUME NEW g \in Font
               PROVE StatusOf(db', g) = IF g \in G THEN st
                                        ELSE IF g \in H THEN "unknown" ELSE StatusOf(db, g)
    OBVIOUS
  <2>1. StatusOf(db, g) \in {"unknown", "library", "pending", "trash", "tombstone"}
    BY StatusIsOne
  <2>2. CASE g \in G
    BY <2>2, StatusLemma DEF Swept, RowsAgree, Active
  <2>3. CASE g \notin G
    BY <2>1, <2>3, StatusLemma DEF Swept, RowsAgree, Active
  <2> QED
    BY <2>2, <2>3
<1>2. /\ \A g \in G : StatusOf(db, g) = "library"
      /\ \A g \in H : StatusOf(db, g) = "tombstone"
  BY StatusLemma DEF Swept, Active
<1>3. st = "pending" => H = {}
  BY DEF Swept
<1> HIDE DEF st
<1>4. Lifecycle!Sweep(G, H, st)
  BY <1>1, <1>2, <1>3 DEF Swept, Lifecycle!Sweep, Lifecycle!InState
<1> QED
  BY <1>4 DEF st

LEMMA SameRefines ==
  ASSUME RowsAgree(db), RowsAgree(db'), Same
  PROVE  UNCHANGED Lifecycle!vars
<1>1. \A g \in Font : StatusOf(db', g) = StatusOf(db, g)
  <2> SUFFICES ASSUME NEW g \in Font
               PROVE StatusOf(db', g) = StatusOf(db, g)
    OBVIOUS
  <2>1. StatusOf(db, g) \in {"unknown", "library", "pending", "trash", "tombstone"}
    BY StatusIsOne
  <2> QED
    BY <2>1, StatusLemma DEF Same, SameRows
<1> QED
  BY <1>1 DEF Same, Lifecycle!vars

(* The library implements the life cycle: whatever the devices declare and *)
(* the user does, a font and its file move along FontLifecycle only.  In   *)
(* particular a pending deletion loses its file or is forgotten only after *)
(* a confirmation.                                                         *)
THEOREM RefinesLifecycle == Spec => ImplementsLifecycle
<1>1. Init => Lifecycle!Init
  BY DEF Init, Lifecycle!Init, StatusOf
<1>2. IInv /\ IInv' /\ [Next]_vars => [Lifecycle!Next]_(Lifecycle!vars)
  <2> SUFFICES ASSUME IInv, IInv', [Next]_vars
               PROVE  [Lifecycle!Next]_(Lifecycle!vars)
    OBVIOUS
  <2>1. RowsAgree(db) /\ RowsAgree(db')
    BY DEF IInv, Agreement, Agrees
  <2>2. CASE Next
    <3>1. Move
      BY <2>2, NextMoves
    <3>2. CASE Same
      BY <2>1, <3>2, SameRefines
    <3>3. CASE \E f \in Font : Entered(f)
      BY <2>1, <3>3, EnteredRefines DEF Lifecycle!Next
    <3>4. CASE \E F \in SUBSET Font : Trashed(F)
      BY <2>1, <3>4, TrashedRefines DEF Lifecycle!Next
    <3>5. CASE \E F \in SUBSET Font : Emptied(F)
      BY <2>1, <3>5, EmptiedRefines DEF Lifecycle!Next
    <3>6. CASE \E G, H \in SUBSET Font, confirm \in BOOLEAN : Swept(G, H, confirm)
      <4>1. PICK G \in SUBSET Font, H \in SUBSET Font, confirm \in BOOLEAN :
              Swept(G, H, confirm)
        BY <3>6
      <4>2. Lifecycle!Sweep(G, H, IF confirm THEN "trash" ELSE "pending")
        BY <2>1, <4>1, SweptRefines
      <4> QED
        BY <4>2 DEF Lifecycle!Next
    <3> QED
      BY <3>1, <3>2, <3>3, <3>4, <3>5, <3>6 DEF Move
  <2>3. CASE UNCHANGED vars
    BY <2>3 DEF vars, Lifecycle!vars
  <2> QED
    BY <2>2, <2>3
<1> QED
  BY <1>1, <1>2, Invariance, PTL DEF Spec, ImplementsLifecycle, Lifecycle!Spec

(***************************************************************************)
(*                                                                         *)
(* Part 2. The library and what the devices really said.  The columns      *)
(* seenDeletion and seenCandidacy never claim more than the record does,   *)
(* and a live device that has declared since the deletion holds what it    *)
(* claims to have.  Only a credible delta adds to these columns; every     *)
(* other step is quiet: it leaves them alone or empties them with the rest *)
(* of the font's past.                                                     *)
(*                                                                         *)
(***************************************************************************)

(* The columns of s, against a record of who was heard since each deletion, *)
(* of the candidacies left open and of what the devices claim to have.      *)
Evidence(s, heardSince, open, claims) ==
  /\ \A f \in Font \ s.deleted : s.seenDeletion[f] = {}
  /\ \A f \in Font : s.seenDeletion[f] \subseteq heardSince[f]
  /\ s.candidate \subseteq s.deleted \cup open
  /\ \A f \in s.candidate \ open : s.seenCandidacy[f] \subseteq s.seenDeletion[f]
  /\ \A d \in Live(s), f \in Font :
       f \in claims[d] /\ d \in s.seenDeletion[f] => d \in IngestibleHolders(s, f)
  /\ \A d \in Live(s), f \in s.candidate \ open : f \notin claims[d]

HInv ==
  /\ IInv
  /\ HistoryTypeOK
  /\ db.rows \subseteq Valid
  /\ AssociationsAreFresh
  /\ Evidence(db, witnessed, leftOpen, claimed)

LEMMA HistoryIsLibrary == HistorySpec => Spec
<1>1. HistoryInit => Init
  BY DEF HistoryInit
<1>2. [HistoryNext]_<<vars, history>> => [Next]_vars
  <2> SUFFICES ASSUME [HistoryNext]_<<vars, history>> PROVE [Next]_vars
    OBVIOUS
  <2>1. CASE Unheard
    BY <2>1 DEF Unheard, Next, DeviceStep
  <2>2. CASE HistoryNext /\ ~Unheard
    BY <2>2 DEF HistoryNext, HeardSuspicious, HeardCredible, Transferred, Merged,
                Registered, Next, DeviceStep
  <2>3. CASE UNCHANGED <<vars, history>>
    BY <2>3 DEF vars
  <2> QED
    BY <2>1, <2>2, <2>3
<1> QED
  BY <1>1, <1>2, PTL DEF HistorySpec, Spec

(***************************************************************************)
(* Quiet steps.                                                            *)
(***************************************************************************)

(* Associations of active fonts come from before or from a voucher. *)
Vouched(voucher) ==
  \A e \in Device, f \in Active(db') :
    <<e, f>> \in db'.holds =>
      (f \in Active(db) /\ <<e, f>> \in db.holds) \/ e \in voucher[f]

(* A font that stays deleted keeps what the live devices said of it. *)
QuietColumns ==
  /\ db'.candidate = db.candidate
  /\ db'.seenCandidacy = db.seenCandidacy
  /\ db.rows \subseteq db'.rows
  /\ \A f \in db.deleted \cap db'.deleted :
       /\ db'.seenDeletion[f] = db.seenDeletion[f]
       /\ \A e \in Live(db') : e \in IngestibleHolders(db, f)
                                 => e \in IngestibleHolders(db', f)
  /\ \A f \in Font \ (db.deleted \cap db'.deleted) : db'.seenDeletion[f] = {}

LEMMA QuietKeepsEvidence ==
  ASSUME HInv, TypeOK', QuietColumns, NEW voucher, NEW known, Note(voucher, {}, known),
         \A d \in Live(db') : claimed'[d] \subseteq claimed[d]
                              /\ (d \in Live(db) \/ claimed'[d] = {})
  PROVE  Evidence(db', witnessed', leftOpen', claimed')
<1>1. /\ db \in Database /\ db' \in Database
      /\ Evidence(db, witnessed, leftOpen, claimed)
      /\ witnessed \in [Font -> SUBSET Device]
  BY DEF HInv, IInv, TypeOK, HistoryTypeOK
<1>2. /\ db.deleted \in SUBSET Font /\ db'.deleted \in SUBSET Font
      /\ db.candidate \in SUBSET Font
      /\ Live(db) \in SUBSET Device /\ Live(db') \in SUBSET Device
  BY <1>1 DEF Database, Live
<1>3. \A f \in Font : witnessed'[f] = IF f \notin db.deleted \cup db'.deleted THEN {}
                                      ELSE IF f \in db.deleted THEN witnessed[f] ELSE {}
  BY DEF Note
<1>4. /\ leftOpen \cap db'.candidate \subseteq leftOpen'
      /\ (db.deleted \ db'.deleted) \cap db'.candidate \subseteq leftOpen'
  BY DEF Note
<1>5. \A f \in Font \ db'.deleted : db'.seenDeletion[f] = {}
  BY DEF QuietColumns
<1>6. \A f \in Font : db'.seenDeletion[f] \subseteq witnessed'[f]
  BY <1>1, <1>2, <1>3 DEF QuietColumns, Evidence
<1>7. db'.candidate \subseteq db'.deleted \cup leftOpen'
  BY <1>1, <1>4 DEF QuietColumns, Evidence
<1>8. \A f \in db'.candidate \ leftOpen' :
        f \in db.deleted \cap db'.deleted /\ f \in db.candidate \ leftOpen
  BY <1>1, <1>4 DEF QuietColumns, Evidence
<1>9. \A f \in db'.candidate \ leftOpen' : db'.seenCandidacy[f] \subseteq db'.seenDeletion[f]
  BY <1>1, <1>8 DEF QuietColumns, Evidence
<1>10. ASSUME NEW d \in Live(db'), NEW f \in Font, f \in claimed'[d],
              d \in db'.seenDeletion[f]
       PROVE  d \in IngestibleHolders(db', f)
  <2>1. f \in db.deleted \cap db'.deleted
    BY <1>10 DEF QuietColumns
  <2>2. d \in Live(db) /\ f \in claimed[d] /\ d \in db.seenDeletion[f]
    BY <1>10, <2>1 DEF QuietColumns
  <2> QED
    BY <1>1, <2>1, <2>2 DEF QuietColumns, Evidence
<1>11. \A d \in Live(db'), f \in db'.candidate \ leftOpen' : f \notin claimed'[d]
  BY <1>1, <1>8 DEF Evidence
<1> QED
  BY <1>5, <1>6, <1>7, <1>9, <1>10, <1>11 DEF Evidence

LEMMA VouchedStaysFresh ==
  ASSUME HInv, TypeOK', NEW voucher, NEW speakers, NEW known,
         Note(voucher, speakers, known), Vouched(voucher)
  PROVE  AssociationsAreFresh'
<1>1. db' \in Database
  BY DEF TypeOK
<1>2. Active(db') \in SUBSET Font
  BY <1>1 DEF Active, Database
<1> SUFFICES ASSUME NEW d \in Device, NEW f \in Active(db'), <<d, f>> \in db'.holds
             PROVE  d \in vouched'[f]
  BY DEF AssociationsAreFresh
<1>3. vouched'[f] = (IF f \in Active(db') \ Active(db) THEN {} ELSE vouched[f]) \cup voucher[f]
  BY <1>2 DEF Note
<1> QED
  BY <1>3 DEF Vouched, HInv, AssociationsAreFresh

LEMMA SuspiciousIsQuiet ==
  ASSUME HInv, NEW d \in Device, NEW decl \in SUBSET Font, SuspiciousDelta(d, decl)
  PROVE  QuietColumns /\ Live(db') = Live(db) /\ Vouched(NoVoucher) /\ db'.rows = db.rows
<1> DEFINE gone == Disappeared(db, d, decl)
<1>1. /\ db \in Database /\ db.deleted \subseteq db.rows
      /\ db.deleted \in SUBSET Font
      /\ Evidence(db, witnessed, leftOpen, claimed)
  BY DEF HInv, IInv, TypeOK, Agreement, Agrees, RowsAgree, Database
<1>2. gone \in SUBSET Font /\ gone \cap db.deleted = {}
  BY DEF Disappeared, HeldBy, Active
<1>3. /\ db'.rows = db.rows
      /\ db'.deleted = db.deleted \cup gone
      /\ db'.candidate = db.candidate
      /\ db'.seenCandidacy = db.seenCandidacy
      /\ db'.seenDeletion = [f \in Font |-> IF f \in gone THEN {} ELSE db.seenDeletion[f]]
      /\ db'.holds = db.holds \ ({d} \X gone)
      /\ db'.systemOnly = db.systemOnly \ ({d} \X gone)
      /\ db'.devices = db.devices /\ db'.retired = db.retired
  BY <1>1 DEF SuspiciousDelta, Detect, Bury, Release, Database
<1> HIDE DEF gone
<1>4. \A f \in db.deleted : IngestibleHolders(db', f) = IngestibleHolders(db, f)
  BY <1>2, <1>3 DEF IngestibleHolders
<1>5. QuietColumns
  BY <1>1, <1>2, <1>3, <1>4 DEF QuietColumns, Evidence
<1>6. Vouched(NoVoucher)
  <2> SUFFICES ASSUME NEW e \in Device, NEW f \in Active(db'), <<e, f>> \in db'.holds
               PROVE  f \in Active(db) /\ <<e, f>> \in db.holds
    BY Zenon DEF Vouched
  <2> QED
    BY <1>3 DEF Active
<1> QED
  BY <1>3, <1>5, <1>6 DEF Live

(* A step that deletes nothing, wakes nothing, and takes no association from *)
(* a device that stays live.                                                *)
LEMMA StillIsQuiet ==
  ASSUME HInv,
         db.rows \subseteq db'.rows,
         db'.deleted = db.deleted,
         db'.candidate = db.candidate,
         db'.seenCandidacy = db.seenCandidacy,
         db'.seenDeletion = db.seenDeletion,
         \A e \in Live(db'), f \in Font :
           /\ <<e, f>> \in db.holds => <<e, f>> \in db'.holds
           /\ <<e, f>> \in db'.systemOnly => <<e, f>> \in db.systemOnly
  PROVE  QuietColumns
<1>1. db.deleted \in SUBSET Font /\ Evidence(db, witnessed, leftOpen, claimed)
  BY DEF HInv, IInv, TypeOK, Database
<1>2. \A f \in Font, e \in Live(db') :
        e \in IngestibleHolders(db, f) => e \in IngestibleHolders(db', f)
  BY DEF IngestibleHolders
<1> QED
  BY <1>1, <1>2 DEF QuietColumns, Evidence

LEMMA SameIsVouched ==
  ASSUME db'.rows = db.rows, db'.deleted = db.deleted, db'.holds = db.holds
  PROVE  Vouched(NoVoucher)
<1> SUFFICES ASSUME NEW e \in Device, NEW f \in Active(db'), <<e, f>> \in db'.holds
             PROVE  f \in Active(db) /\ <<e, f>> \in db.holds
  BY Zenon DEF Vouched
<1> QED
  BY DEF Active

(* The columns no step below touches. *)
LEMMA OthersAreQuiet ==
  ASSUME HInv,
         \/ \E d \in Device : RegisterDevice(d) \/ DeleteDevice(d)
         \/ \E d \in Device, f \in Font : ActivateFont(d, f) \/ DeactivateFont(d, f)
         \/ \E f \in Font : GraceElapses(f) \/ RetentionElapses(f)
         \/ ConfirmPendingDeletions
         \/ \E F, failed : PurgeFiles(F, failed)
  PROVE  QuietColumns /\ Vouched(NoVoucher) /\ db'.rows = db.rows
<1>1. db \in Database
  BY DEF HInv, IInv, TypeOK
<1>2. /\ db'.rows = db.rows /\ db'.deleted = db.deleted /\ db'.candidate = db.candidate
      /\ db'.seenCandidacy = db.seenCandidacy /\ db'.seenDeletion = db.seenDeletion
      /\ db'.holds = db.holds /\ db'.systemOnly = db.systemOnly
  <2>1. CASE \E d \in Device : RegisterDevice(d) \/ DeleteDevice(d)
    BY <1>1, <2>1 DEF RegisterDevice, DeleteDevice, Database
  <2>2. CASE \E d \in Device, f \in Font : ActivateFont(d, f) \/ DeactivateFont(d, f)
    BY <1>1, <2>2 DEF ActivateFont, DeactivateFont, Database
  <2>3. CASE \E f \in Font : GraceElapses(f) \/ RetentionElapses(f)
    BY <1>1, <2>3 DEF GraceElapses, RetentionElapses, Database
  <2>4. CASE ConfirmPendingDeletions
    BY <1>1, <2>4 DEF ConfirmPendingDeletions, Database
  <2>5. CASE \E F, failed : PurgeFiles(F, failed)
    BY <1>1, <2>5 DEF PurgeFiles, Database
  <2> QED
    BY <2>1, <2>2, <2>3, <2>4, <2>5
<1> QED
  BY <1>2, StillIsQuiet, SameIsVouched

LEMMA TrashIsQuiet ==
  ASSUME HInv, NEW F \in SUBSET Font, F \subseteq Active(db), db' = ToTrash(db, F)
  PROVE  QuietColumns /\ Vouched(NoVoucher) /\ db'.rows = db.rows
<1>1. /\ db \in Database /\ db.deleted \in SUBSET Font
      /\ Evidence(db, witnessed, leftOpen, claimed)
      /\ F \cap db.deleted = {}
  BY DEF HInv, IInv, TypeOK, Database, Active
<1>2. /\ db'.rows = db.rows /\ db'.deleted = db.deleted \cup F
      /\ db'.candidate = db.candidate /\ db'.seenCandidacy = db.seenCandidacy
      /\ db'.seenDeletion = [f \in Font |-> IF f \in F THEN {} ELSE db.seenDeletion[f]]
      /\ db'.holds = db.holds \ (Device \X F)
      /\ db'.systemOnly = db.systemOnly \ (Device \X F)
  BY <1>1 DEF ToTrash, Bury, Release, Database
<1>3. \A f \in db.deleted : IngestibleHolders(db', f) = IngestibleHolders(db, f)
  BY <1>1, <1>2 DEF IngestibleHolders
<1>4. QuietColumns
  BY <1>1, <1>2, <1>3 DEF QuietColumns, Evidence
<1>5. Vouched(NoVoucher)
  <2> SUFFICES ASSUME NEW e \in Device, NEW f \in Active(db'), <<e, f>> \in db'.holds
               PROVE  f \in Active(db) /\ <<e, f>> \in db.holds
    BY Zenon DEF Vouched
  <2> QED
    BY <1>2 DEF Active
<1> QED
  BY <1>2, <1>4, <1>5

(* A font put back, by a restoration or by an upload, starts afresh. *)
LEMMA WakeIsQuiet ==
  ASSUME HInv, NEW f \in Font, RestoreFont(f) \/ (Upload(f) /\ f \in db.rows)
  PROVE  QuietColumns /\ Vouched(NoVoucher) /\ db'.rows = db.rows
<1>1. /\ db \in Database /\ db.deleted \in SUBSET Font
      /\ Evidence(db, witnessed, leftOpen, claimed)
  BY DEF HInv, IInv, TypeOK, Database
<1>2. /\ db'.rows = db.rows /\ db'.deleted = db.deleted \ {f}
      /\ db'.candidate = db.candidate /\ db'.seenCandidacy = db.seenCandidacy
      /\ db'.seenDeletion = [db.seenDeletion EXCEPT ![f] = {}]
      /\ db'.holds = db.holds \ (Device \X {f})
      /\ db'.systemOnly = db.systemOnly \ (Device \X {f})
  <2>1. CASE RestoreFont(f)
    BY <1>1, <2>1 DEF RestoreFont, Release, Database
  <2>2. CASE Upload(f) /\ f \in db.rows
    BY <1>1, <2>2 DEF Upload, Import, Revive, Release, Active, Database
  <2> QED
    BY <2>1, <2>2
<1>3. \A g \in Font \ {f} : IngestibleHolders(db', g) = IngestibleHolders(db, g)
  BY <1>2 DEF IngestibleHolders
<1>4. /\ db'.seenDeletion[f] = {}
      /\ \A g \in Font \ {f} : db'.seenDeletion[g] = db.seenDeletion[g]
  BY <1>1, <1>2 DEF Database
<1>5. QuietColumns
  BY <1>1, <1>2, <1>3, <1>4 DEF QuietColumns, Evidence
<1>6. Vouched(NoVoucher)
  <2> SUFFICES ASSUME NEW e \in Device, NEW g \in Active(db'), <<e, g>> \in db'.holds
               PROVE  g \in Active(db) /\ <<e, g>> \in db.holds
    BY Zenon DEF Vouched
  <2> QED
    BY <1>2 DEF Active
<1> QED
  BY <1>2, <1>5, <1>6

LEMMA UploadIsQuiet ==
  ASSUME HInv, NEW f \in Font, Upload(f)
  PROVE  QuietColumns /\ Vouched(NoVoucher) /\ db'.rows \subseteq db.rows \cup {f}
<1>1. CASE f \in db.rows
  BY <1>1, WakeIsQuiet
<1>2. CASE f \notin db.rows
  <2>1. /\ db \in Database /\ db.holds \subseteq db.devices \X db.rows
    BY DEF HInv, IInv, TypeOK, Agreement, Agrees, RegistryAgrees
  <2>2. /\ db'.rows = db.rows \cup {f} /\ db'.deleted = db.deleted
        /\ db'.candidate = db.candidate /\ db'.seenCandidacy = db.seenCandidacy
        /\ db'.seenDeletion = db.seenDeletion
        /\ db'.holds = db.holds /\ db'.systemOnly = db.systemOnly
    BY <1>2, <2>1 DEF Upload, Import, Database
  <2>3. QuietColumns
    BY <2>2, StillIsQuiet
  <2>4. Vouched(NoVoucher)
    <3> SUFFICES ASSUME NEW e \in Device, NEW g \in Active(db'), <<e, g>> \in db'.holds
                 PROVE  g \in Active(db) /\ <<e, g>> \in db.holds
      BY Zenon DEF Vouched
    <3> QED
      BY <2>1, <2>2 DEF Active
  <2> QED
    BY <2>2, <2>3, <2>4
<1> QED
  BY <1>1, <1>2

LEMMA TransferIsQuiet ==
  ASSUME HInv, NEW d \in Device, NEW f \in Font, Push(d, f) \/ Pull(d, f)
  PROVE  /\ QuietColumns /\ Vouched(DeclaredBy(d, {f})) /\ Live(db') = Live(db)
         /\ db'.rows \subseteq Valid
<1>1. /\ db \in Database /\ db.holds \subseteq db.devices \X db.rows
      /\ db.rows \subseteq Valid
  BY DEF HInv, IInv, TypeOK, Agreement, Agrees, RegistryAgrees
<1>2. /\ db'.rows = db.rows \cup {f} /\ db'.deleted = db.deleted
      /\ db'.candidate = db.candidate /\ db'.seenCandidacy = db.seenCandidacy
      /\ db'.seenDeletion = db.seenDeletion
      /\ db'.holds = db.holds \cup {<<d, f>>} /\ db'.systemOnly = db.systemOnly
      /\ db'.devices = db.devices /\ db'.retired = db.retired
      /\ f \in Valid
  <2>1. CASE Push(d, f)
    BY <1>1, <2>1 DEF Push, Import, Associate, Database
  <2>2. CASE Pull(d, f)
    BY <1>1, <2>2 DEF Pull, Associate, Active, Database
  <2> QED
    BY <2>1, <2>2
<1>3. QuietColumns
  BY <1>2, StillIsQuiet
<1>4. Vouched(DeclaredBy(d, {f}))
  <2> SUFFICES ASSUME NEW e \in Device, NEW g \in Active(db'), <<e, g>> \in db'.holds,
                      ~(g \in Active(db) /\ <<e, g>> \in db.holds)
               PROVE  e \in DeclaredBy(d, {f})[g]
    BY Zenon DEF Vouched
  <2>1. e = d /\ g = f
    BY <1>1, <1>2 DEF Active
  <2> QED
    BY <1>2, <2>1 DEF DeclaredBy
<1> QED
  BY <1>1, <1>2, <1>3, <1>4 DEF Live

LEMMA MergeIsQuiet ==
  ASSUME HInv, NEW d \in Device, NEW sources \in SUBSET Device, MergeDevices(d, sources)
  PROVE  /\ QuietColumns
         /\ Vouched([f \in Font |-> IF vouched[f] \cap sources # {} THEN {d} ELSE {}])
         /\ db'.rows = db.rows /\ Live(db') = Live(db) \ sources
<1> DEFINE moved == UNION {HeldBy(db, src) : src \in sources} \ HeldBy(db, d)
<1>1. db \in Database /\ AssociationsAreFresh
  BY DEF HInv, IInv, TypeOK
<1>2. moved \in SUBSET Font
  BY DEF HeldBy
<1>3. /\ db'.rows = db.rows /\ db'.deleted = db.deleted
      /\ db'.candidate = db.candidate /\ db'.seenCandidacy = db.seenCandidacy
      /\ db'.seenDeletion = db.seenDeletion
      /\ db'.holds = (db.holds \ (sources \X Font)) \cup ({d} \X moved)
      /\ db'.systemOnly = db.systemOnly \ (sources \X Font)
      /\ db'.devices = db.devices /\ db'.retired = db.retired \cup sources
      /\ d \notin sources
  BY <1>1 DEF MergeDevices, Release, Database
<1>4. \A f \in moved : \E src \in sources : <<src, f>> \in db.holds
  BY DEF HeldBy
<1> HIDE DEF moved
<1>5. Live(db') = Live(db) \ sources
  BY <1>3 DEF Live
<1>6. QuietColumns
  BY <1>3, <1>5, StillIsQuiet
<1>7. Vouched([f \in Font |-> IF vouched[f] \cap sources # {} THEN {d} ELSE {}])
  <2> SUFFICES ASSUME NEW e \in Device, NEW g \in Active(db'), <<e, g>> \in db'.holds,
                      ~(g \in Active(db) /\ <<e, g>> \in db.holds)
               PROVE  e = d /\ g \in Font /\ vouched[g] \cap sources # {}
    BY Zenon DEF Vouched
  <2>1. g \in Active(db)
    BY <1>3 DEF Active
  <2>2. e = d /\ g \in moved
    BY <1>3, <2>1
  <2>3. PICK src \in sources : <<src, g>> \in db.holds
    BY <1>4, <2>2
  <2>4. src \in vouched[g]
    BY <1>1, <2>1, <2>3 DEF AssociationsAreFresh
  <2> QED
    BY <1>2, <2>2, <2>4
<1> QED
  BY <1>3, <1>5, <1>6, <1>7

(***************************************************************************)
(* The credible delta: what the database holds when the harvest begins,    *)
(* then the harvest.                                                       *)
(***************************************************************************)

Stamped(d, decl, ingestible) ==
  Stamp(Reconcile(Detect(db, d, decl), d, decl, ingestible), d)

(* s, as the harvest finds it; gone are the fonts d no longer declares. *)
ReadyToHarvest(s, gone, d, decl, ingestible) ==
  /\ s \in Database /\ Agrees(s)
  /\ gone \cap db.deleted = {} /\ gone \in SUBSET Font
  /\ s.rows = db.rows /\ s.deleted = db.deleted \cup gone
  /\ Live(s) = Live(db)
  /\ s.candidate \subseteq db.candidate
  /\ \A f \in Font : s.seenDeletion[f] =
       IF f \notin s.deleted THEN db.seenDeletion[f]
       ELSE IF f \in gone THEN {d} ELSE db.seenDeletion[f] \cup {d}
  /\ \A f \in s.candidate : s.seenCandidacy[f] = db.seenCandidacy[f] \cup {d}
  /\ \A e \in Device \ {d}, f \in Font :
       e \in IngestibleHolders(s, f) <=> e \in IngestibleHolders(db, f)
  /\ \A f \in ingestible \cap db.rows : d \in IngestibleHolders(s, f)
  /\ \A f \in ingestible \cap s.candidate \cap s.deleted : <<d, f>> \in db.holds
  /\ \A e \in Device, f \in Font :
       <<e, f>> \in s.holds => <<e, f>> \in db.holds \/ (e = d /\ f \in decl \cap db.rows)

LEMMA StampedColumns ==
  ASSUME HInv, NEW d \in Live(db), NEW decl \in SUBSET Font,
         NEW ingestible \in SUBSET decl
  PROVE  ReadyToHarvest(Stamped(d, decl, ingestible), Disappeared(db, d, decl),
                        d, decl, ingestible)
<1> DEFINE gone == Disappeared(db, d, decl)
           s1 == Detect(db, d, decl)
           held == HeldBy(s1, d)
           arrivals == (decl \cap s1.rows) \ held
           departures == (held \cap s1.deleted) \ decl
           declared == arrivals \cup (held \cap decl)
           closed == arrivals \cap s1.deleted
           s2 == Reconcile(s1, d, decl, ingestible)
           s3 == Stamp(s2, d)
<1>1. /\ db \in Database /\ Agrees(db) /\ d \in Device /\ d \in db.devices
  BY DEF HInv, IInv, TypeOK, Agreement, Live, Database
<1>2. gone \cap db.deleted = {} /\ gone \in SUBSET Font /\ gone \cap decl = {}
  BY DEF Disappeared, HeldBy, Active
<1>3. /\ s1 \in Database /\ Agrees(s1)
  BY <1>1, DetectLemma
<1>4. /\ s1.rows = db.rows
      /\ s1.deleted = db.deleted \cup gone
      /\ s1.candidate = db.candidate /\ s1.ripe = db.ripe
      /\ s1.seenCandidacy = db.seenCandidacy
      /\ s1.seenDeletion = [f \in Font |-> IF f \in gone THEN {} ELSE db.seenDeletion[f]]
      /\ s1.holds = db.holds \ ({d} \X gone)
      /\ s1.systemOnly = db.systemOnly \ ({d} \X gone)
      /\ s1.devices = db.devices /\ s1.retired = db.retired
  BY <1>1 DEF Detect, Bury, Release, Database
<1> HIDE DEF gone, s1
<1>5. /\ s2 \in Database /\ Agrees(s2)
  BY <1>1, <1>3, <1>4, ReconcileLemma
<1>6. /\ held \in SUBSET Font /\ \A f \in Font : f \in held <=> <<d, f>> \in s1.holds
  BY DEF HeldBy
<1>7. /\ s2.rows = s1.rows /\ s2.deleted = s1.deleted
      /\ s2.candidate = s1.candidate \ closed
      /\ s2.ripe = s1.ripe \ closed
      /\ s2.seenCandidacy = [f \in Font |-> IF f \in closed THEN {} ELSE s1.seenCandidacy[f]]
      /\ s2.seenDeletion = s1.seenDeletion
      /\ s2.holds = (s1.holds \ ({d} \X departures)) \cup ({d} \X arrivals)
      /\ s2.systemOnly = ((s1.systemOnly \ ({d} \X departures)) \ ({d} \X declared))
                            \cup ({d} \X (declared \ ingestible))
      /\ s2.devices = s1.devices /\ s2.retired = s1.retired
  BY <1>3 DEF Reconcile, Withdraw, Release, Database
<1> HIDE DEF s2
<1>8. /\ s3 \in Database /\ Agrees(s3)
  BY <1>1, <1>5, StampLemma
<1>9. /\ s3.rows = s2.rows /\ s3.deleted = s2.deleted
      /\ s3.candidate = s2.candidate /\ s3.ripe = s2.ripe
      /\ s3.seenDeletion = [f \in Font |-> IF f \in s2.deleted THEN s2.seenDeletion[f] \cup {d}
                                           ELSE s2.seenDeletion[f]]
      /\ s3.seenCandidacy = [f \in Font |-> IF f \in s2.candidate
                                            THEN s2.seenCandidacy[f] \cup {d}
                                            ELSE s2.seenCandidacy[f]]
      /\ s3.holds = s2.holds /\ s3.systemOnly = s2.systemOnly
      /\ s3.devices = s2.devices /\ s3.retired = s2.retired
  BY <1>5 DEF Stamp, Database
<1> HIDE DEF s3
<1>10. Live(s3) = Live(db)
  BY <1>4, <1>7, <1>9 DEF Live
<1>11. \A f \in Font : s3.seenDeletion[f] =
         IF f \notin s3.deleted THEN db.seenDeletion[f]
         ELSE IF f \in gone THEN {d} ELSE db.seenDeletion[f] \cup {d}
  <2> SUFFICES ASSUME NEW f \in Font
               PROVE  s3.seenDeletion[f] =
                        IF f \notin s3.deleted THEN db.seenDeletion[f]
                        ELSE IF f \in gone THEN {d} ELSE db.seenDeletion[f] \cup {d}
    OBVIOUS
  <2>1. s2.seenDeletion[f] = IF f \in gone THEN {} ELSE db.seenDeletion[f]
    BY <1>4, <1>7
  <2>2. s3.seenDeletion[f] = IF f \in s2.deleted THEN s2.seenDeletion[f] \cup {d}
                             ELSE s2.seenDeletion[f]
    BY <1>9
  <2>3. s3.deleted = s2.deleted /\ gone \subseteq s2.deleted
    BY <1>4, <1>7, <1>9
  <2>4. {} \cup {d} = {d}
    OBVIOUS
  <2> QED
    BY <2>1, <2>2, <2>3, <2>4
<1>12. \A f \in s3.candidate : s3.seenCandidacy[f] = db.seenCandidacy[f] \cup {d}
  <2>1. s3.candidate \in SUBSET Font
    BY <1>8 DEF Database
  <2> QED
    BY <2>1, <1>4, <1>7, <1>9
<1>13. \A e \in Device \ {d}, f \in Font :
         e \in IngestibleHolders(s3, f) <=> e \in IngestibleHolders(db, f)
  BY <1>4, <1>7, <1>9 DEF IngestibleHolders
<1>14. \A f \in ingestible \cap db.rows : d \in IngestibleHolders(s3, f)
  <2> SUFFICES ASSUME NEW f \in ingestible \cap db.rows
               PROVE  <<d, f>> \in s3.holds /\ <<d, f>> \notin s3.systemOnly
    BY <1>1 DEF IngestibleHolders
  <2>1. f \in decl /\ f \in Font /\ f \in declared /\ f \notin departures
    BY <1>4
  <2>2. <<d, f>> \in s2.holds
    BY <1>4, <1>6, <1>7, <2>1
  <2>3. <<d, f>> \notin s2.systemOnly
    BY <1>7, <2>1
  <2> QED
    BY <1>9, <2>2, <2>3
<1>15. \A f \in ingestible \cap s3.candidate \cap s3.deleted : <<d, f>> \in db.holds
  BY <1>4, <1>6, <1>7, <1>8, <1>9 DEF Agrees, RowsAgree
<1>16. \A e \in Device, f \in Font :
         <<e, f>> \in s3.holds =>
           <<e, f>> \in db.holds \/ (e = d /\ f \in decl \cap db.rows)
  BY <1>4, <1>7, <1>9
<1> QED
  BY <1>2, <1>4, <1>7, <1>8, <1>9, <1>10, <1>11, <1>12, <1>13, <1>14, <1>15, <1>16
  DEF ReadyToHarvest, Stamped, s1, s2, s3, gone

(* The record once d has been heard. *)
HeardSince(d) == [f \in Font |-> IF f \in db.deleted THEN witnessed[f] \cup {d} ELSE {d}]

Known(d, ingestible) == {f \in ingestible \cap db.candidate : <<d, f>> \in db.holds}

Claims(d, ingestible) == [claimed EXCEPT ![d] = ingestible \cap Valid]

LEMMA StampedEvidence ==
  ASSUME HInv, NEW d \in Live(db), NEW decl \in SUBSET Font,
         NEW ingestible \in SUBSET decl
  PROVE  Evidence(Stamped(d, decl, ingestible), HeardSince(d),
                  leftOpen \cup Known(d, ingestible), Claims(d, ingestible))
<1> DEFINE s == Stamped(d, decl, ingestible)
           gone == Disappeared(db, d, decl)
           w == HeardSince(d)
           open == leftOpen \cup Known(d, ingestible)
           c == Claims(d, ingestible)
<1>1. /\ db \in Database /\ Evidence(db, witnessed, leftOpen, claimed)
      /\ witnessed \in [Font -> SUBSET Device] /\ claimed \in [Device -> SUBSET Font]
      /\ db.candidate \in SUBSET Font /\ db.deleted \in SUBSET Font
      /\ Live(db) \subseteq Device
  BY DEF HInv, IInv, TypeOK, HistoryTypeOK, Database, Live
<1>2. ReadyToHarvest(s, gone, d, decl, ingestible)
  BY StampedColumns
<1>3. \A e \in Device : c[e] = IF e = d THEN ingestible \cap Valid ELSE claimed[e]
  BY <1>1 DEF Claims
<1>4. \A f \in Font : w[f] = IF f \in db.deleted THEN witnessed[f] \cup {d} ELSE {d}
  BY DEF HeardSince
<1>5. /\ leftOpen \subseteq open
      /\ \A f \in ingestible \cap db.candidate : <<d, f>> \in db.holds => f \in open
  BY DEF Known
<1>6. s.deleted \subseteq db.rows /\ gone \subseteq db.rows
  BY <1>2 DEF ReadyToHarvest, Agrees, RowsAgree
<1> HIDE DEF s, gone, w, open, c
<1>7. \A f \in Font : s.seenDeletion[f] =
        IF f \notin s.deleted THEN db.seenDeletion[f]
        ELSE IF f \in gone THEN {d} ELSE db.seenDeletion[f] \cup {d}
  BY <1>2 DEF ReadyToHarvest
<1>8. \A f \in s.candidate : s.seenCandidacy[f] = db.seenCandidacy[f] \cup {d}
  BY <1>2 DEF ReadyToHarvest
<1>9. /\ \A e \in Device \ {d}, f \in Font :
           e \in IngestibleHolders(s, f) <=> e \in IngestibleHolders(db, f)
      /\ \A f \in ingestible \cap db.rows : d \in IngestibleHolders(s, f)
      /\ \A f \in ingestible \cap s.candidate \cap s.deleted : <<d, f>> \in db.holds
  BY <1>2 DEF ReadyToHarvest
<1>10. /\ gone \cap db.deleted = {} /\ gone \in SUBSET Font
      /\ s.rows = db.rows /\ s.deleted = db.deleted \cup gone
      /\ Live(s) = Live(db)
      /\ s.candidate \subseteq db.candidate
  BY <1>2 DEF ReadyToHarvest
<1>11. \A f \in Font \ s.deleted : s.seenDeletion[f] = {}
  BY <1>1, <1>10, <1>7 DEF Evidence
<1>12. \A f \in Font : s.seenDeletion[f] \subseteq w[f]
  <2>1. \A f \in Font : db.seenDeletion[f] \subseteq witnessed[f]
    BY <1>1 DEF Evidence
  <2> SUFFICES ASSUME NEW f \in Font PROVE s.seenDeletion[f] \subseteq w[f]
    OBVIOUS
  <2>2. CASE f \in db.deleted
    <3>1. s.seenDeletion[f] = db.seenDeletion[f] \cup {d}
      BY <1>7, <1>10, <2>2
    <3> QED
      BY <1>4, <2>1, <2>2, <3>1
  <2>3. CASE f \in gone
    <3>1. s.seenDeletion[f] = {d}
      BY <1>7, <1>10, <2>3
    <3> QED
      BY <1>4, <3>1
  <2>4. CASE f \notin s.deleted
    BY <1>11, <2>4
  <2> QED
    BY <1>10, <2>2, <2>3, <2>4
<1>13. s.candidate \subseteq s.deleted \cup open
  BY <1>1, <1>10, <1>5 DEF Evidence
<1>14. \A f \in s.candidate \ open : s.seenCandidacy[f] \subseteq s.seenDeletion[f]
  <2> SUFFICES ASSUME NEW f \in s.candidate \ open
               PROVE  s.seenCandidacy[f] \subseteq s.seenDeletion[f]
    OBVIOUS
  <2>1. f \in db.candidate \ leftOpen /\ f \in db.deleted /\ f \in Font
    BY <1>1, <1>10, <1>5 DEF Evidence
  <2>2. f \in s.deleted /\ f \notin gone
    BY <1>10, <2>1
  <2>3. db.seenCandidacy[f] \subseteq db.seenDeletion[f]
    BY <1>1, <2>1 DEF Evidence
  <2> QED
    BY <1>7, <1>8, <2>1, <2>2, <2>3
<1>15. ASSUME NEW e \in Live(s), NEW f \in Font, f \in c[e], e \in s.seenDeletion[f]
       PROVE  e \in IngestibleHolders(s, f)
  <2>1. e \in Live(db) /\ e \in Device /\ f \in s.deleted /\ f \in db.rows
    BY <1>1, <1>10, <1>6, <1>11, <1>15
  <2>2. CASE e = d
    BY <1>9, <1>3, <1>15, <2>1, <2>2
  <2>3. CASE e # d
    <3>1. e \in db.seenDeletion[f] /\ f \in claimed[e]
      BY <1>7, <1>3, <1>15, <2>1, <2>3
    <3> QED
      BY <1>1, <1>9, <2>1, <2>3, <3>1 DEF Evidence
  <2> QED
    BY <2>2, <2>3
<1>16. ASSUME NEW e \in Live(s), NEW f \in s.candidate \ open
       PROVE  f \notin c[e]
  <2>1. e \in Live(db) /\ e \in Device /\ f \in db.candidate \ leftOpen
        /\ f \in s.deleted
    BY <1>1, <1>10, <1>5, <1>13, <1>16
  <2>2. CASE e = d
    BY <1>9, <1>3, <1>5, <1>16, <2>1, <2>2
  <2>3. CASE e # d
    BY <1>1, <1>3, <2>1, <2>3 DEF Evidence
  <2> QED
    BY <2>2, <2>3
<1> QED
  BY <1>11, <1>12, <1>13, <1>14, <1>15, <1>16 DEF Evidence, s, w, open, c

LEMMA OpeningKeepsEvidence ==
  ASSUME NEW s \in Database, Agrees(s), NEW w, NEW open, NEW c, Evidence(s, w, open, c)
  PROVE  LET t == OpenCandidacies(s)
         IN  /\ Evidence(t, w, open, c)
             /\ t.candidate \cap t.ripe \subseteq s.candidate
             /\ t.rows = s.rows /\ t.deleted = s.deleted /\ Live(t) = Live(s)
             /\ t.holds = s.holds /\ t.systemOnly = s.systemOnly
<1> DEFINE opened == {f \in Orphans(s) \ s.candidate : Live(s) \subseteq s.seenDeletion[f]}
           t == OpenCandidacies(s)
<1>1. /\ opened \in SUBSET Font /\ opened \subseteq s.deleted
      /\ \A f \in opened : Live(s) \subseteq s.seenDeletion[f] /\ IngestibleHolders(s, f) = {}
  BY DEF Orphans, Database
<1> HIDE DEF opened
<1>2. /\ t.rows = s.rows /\ t.deleted = s.deleted
      /\ t.candidate = s.candidate \cup opened
      /\ t.ripe = s.ripe \ opened
      /\ t.seenDeletion = s.seenDeletion
      /\ t.seenCandidacy = [f \in Font |-> IF f \in opened THEN {} ELSE s.seenCandidacy[f]]
      /\ t.holds = s.holds /\ t.systemOnly = s.systemOnly
      /\ t.devices = s.devices /\ t.retired = s.retired
  BY DEF OpenCandidacies, Database, opened
<1>3. t \in Database /\ t.candidate \in SUBSET Font
  BY OpenCandidaciesLemma DEF Database
<1> HIDE DEF t
<1>4. Live(t) = Live(s) /\ \A f : IngestibleHolders(t, f) = IngestibleHolders(s, f)
  BY <1>2 DEF Live, IngestibleHolders
<1>5. \A f \in t.candidate \ open : t.seenCandidacy[f] \subseteq t.seenDeletion[f]
  BY <1>2, <1>3 DEF Evidence
<1>6. ASSUME NEW d \in Live(t), NEW f \in t.candidate \ open
      PROVE  f \notin c[d]
  <2>1. CASE f \in opened
    BY <1>1, <1>4, <2>1 DEF Evidence
  <2>2. CASE f \notin opened
    BY <1>2, <1>4, <2>2 DEF Evidence
  <2> QED
    BY <2>1, <2>2
<1>7. Evidence(t, w, open, c)
  BY <1>1, <1>2, <1>4, <1>5, <1>6 DEF Evidence
<1> QED
  BY <1>2, <1>4, <1>7 DEF t

LEMMA DeletionKeepsEvidence ==
  ASSUME NEW s \in Database, Agrees(s), NEW w, NEW open, NEW c, Evidence(s, w, open, c),
         NEW H \in SUBSET s.purged
  PROVE  LET t == DeleteFonts(s, H)
         IN  /\ Evidence(t, w, open, c)
             /\ t.rows = s.rows \ H /\ Live(t) = Live(s)
             /\ t.deleted = s.deleted \ H
             /\ t.holds \subseteq s.holds
<1> DEFINE t == DeleteFonts(s, H)
<1>1. /\ t.rows = s.rows \ H /\ t.deleted = s.deleted \ H
      /\ t.candidate = s.candidate \ H
      /\ t.seenDeletion = [f \in Font |-> IF f \in H THEN {} ELSE s.seenDeletion[f]]
      /\ t.seenCandidacy = [f \in Font |-> IF f \in H THEN {} ELSE s.seenCandidacy[f]]
      /\ t.holds = s.holds \ (Device \X H)
      /\ t.systemOnly = s.systemOnly \ (Device \X H)
      /\ t.devices = s.devices /\ t.retired = s.retired
  BY DEF DeleteFonts, Withdraw, Release, Database
<1>2. s.candidate \in SUBSET Font
  BY DEF Database
<1> HIDE DEF t
<1>3. Live(t) = Live(s) /\ \A f \in Font \ H : IngestibleHolders(t, f) = IngestibleHolders(s, f)
  BY <1>1 DEF Live, IngestibleHolders
<1>4. Evidence(t, w, open, c)
  BY <1>1, <1>2, <1>3 DEF Evidence
<1> QED
  BY <1>1, <1>3, <1>4 DEF t

(* What the harvested fonts have in common, when d's delta takes them. *)
HarvestIsFounded(d) ==
  \A f \in Harvested \ leftOpen :
    /\ Live(db) \subseteq witnessed'[f]
    /\ \A e \in Live(db) : f \notin claimed'[e]
    /\ f \notin claimed[d]

(* The harvest takes H from s. *)
Harvests(s, w, open, c, H) ==
  /\ Evidence(db', w, open, c)
  /\ db'.rows = db.rows \ H /\ db'.deleted = s.deleted \ H
  /\ db'.holds \subseteq s.holds
  /\ \A f \in H :
       /\ f \in s.candidate /\ IngestibleHolders(s, f) = {}
       /\ f \notin open => /\ Live(db) \subseteq w[f]
                           /\ \A e \in Live(db) : f \notin c[e]

LEMMA CredibleOutcome ==
  ASSUME HInv, NEW d \in Live(db), NEW decl \in SUBSET Font,
         NEW ingestible \in SUBSET decl, CredibleDelta(d, decl, ingestible)
  PROVE  \E H \in SUBSET Font :
           Harvests(Stamped(d, decl, ingestible), HeardSince(d),
                    leftOpen \cup Known(d, ingestible), Claims(d, ingestible), H)
<1> DEFINE s == Stamped(d, decl, ingestible)
           w == HeardSince(d)
           open == leftOpen \cup Known(d, ingestible)
           c == Claims(d, ingestible)
           t == OpenCandidacies(s)
<1> SUFFICES \E H \in SUBSET Font : Harvests(s, w, open, c, H)
  OBVIOUS
<1>1. db' \in HarvestOutcomes(s)
  BY DEF CredibleDelta, Stamped
<1>2. ReadyToHarvest(s, Disappeared(db, d, decl), d, decl, ingestible)
  BY StampedColumns
<1>3. Evidence(s, w, open, c)
  BY StampedEvidence
<1> HIDE DEF s, w, open, c
<1>4. /\ s \in Database /\ Agrees(s) /\ s.rows = db.rows /\ Live(s) = Live(db)
  BY <1>2 DEF ReadyToHarvest
<1>5. CASE ~HarvestEnabled
  <2>1. db' = s
    BY <1>1, <1>5 DEF HarvestOutcomes
  <2>2. Harvests(s, w, open, c, {})
    BY <1>3, <1>4, <2>1 DEF Harvests
  <2> QED
    BY <2>2
<1>6. CASE HarvestEnabled
  <2>1. PICK H \in HarvestPasses(t) : db' = DeleteFonts(t, H)
    BY <1>1, <1>6 DEF HarvestOutcomes
  <2>2. /\ t \in Database /\ Agrees(t)
    BY <1>4, OpenCandidaciesLemma
  <2>3. /\ Evidence(t, w, open, c)
        /\ t.candidate \cap t.ripe \subseteq s.candidate
        /\ t.rows = s.rows /\ t.deleted = s.deleted /\ Live(t) = Live(s)
        /\ t.holds = s.holds /\ t.systemOnly = s.systemOnly
    BY <1>4, <1>3, OpeningKeepsEvidence
  <2> HIDE DEF t
  <2>4. /\ H \subseteq t.candidate \cap t.ripe /\ H \subseteq t.purged /\ H \in SUBSET Font
        /\ \A f \in H : IngestibleHolders(t, f) = {} /\ Live(t) \subseteq t.seenCandidacy[f]
    BY <2>1, <2>2 DEF HarvestPasses, Harvestable, Orphans, Database
  <2>5. /\ Evidence(db', w, open, c)
        /\ db'.rows = t.rows \ H /\ db'.deleted = t.deleted \ H
        /\ db'.holds \subseteq t.holds
    BY <2>1, <2>2, <2>3, <2>4, DeletionKeepsEvidence
  <2>6. ASSUME NEW f \in H
        PROVE  /\ f \in s.candidate /\ IngestibleHolders(s, f) = {}
               /\ f \notin open => /\ Live(db) \subseteq w[f]
                                   /\ \A e \in Live(db) : f \notin c[e]
    <3>1. f \in s.candidate /\ f \in t.candidate /\ f \in Font
      BY <2>3, <2>4
    <3>2. IngestibleHolders(s, f) = {}
      BY <2>3, <2>4 DEF IngestibleHolders
    <3>3. ASSUME f \notin open
          PROVE  Live(db) \subseteq w[f] /\ \A e \in Live(db) : f \notin c[e]
      <4>1. t.seenCandidacy[f] \subseteq t.seenDeletion[f]
        BY <2>3, <3>1, <3>3 DEF Evidence
      <4>2. t.seenDeletion[f] \subseteq w[f]
        BY <2>3, <3>1 DEF Evidence
      <4>3. \A e \in Live(t) : f \notin c[e]
        BY <2>3, <3>1, <3>3 DEF Evidence
      <4> QED
        BY <1>4, <2>3, <2>4, <4>1, <4>2, <4>3
    <3> QED
      BY <3>1, <3>2, <3>3
  <2>7. Harvests(s, w, open, c, H)
    BY <1>4, <2>3, <2>5, <2>6 DEF Harvests
  <2> QED
    BY <2>4, <2>7
<1> QED
  BY <1>5, <1>6

LEMMA CredibleKeeps ==
  ASSUME HInv, TypeOK', NEW d \in Device, NEW decl \in SUBSET Font,
         NEW ingestible \in SUBSET decl, HeardCredible(d, decl, ingestible)
  PROVE  /\ Evidence(db', witnessed', leftOpen', claimed')
         /\ AssociationsAreFresh'
         /\ db'.rows \subseteq Valid
         /\ HarvestIsFounded(d)
<1> DEFINE s == Stamped(d, decl, ingestible)
           w == HeardSince(d)
           open == leftOpen \cup Known(d, ingestible)
           c == Claims(d, ingestible)
<1>1. /\ CredibleDelta(d, decl, ingestible) /\ d \in Live(db)
      /\ Note(DeclaredBy(d, decl), {d}, Known(d, ingestible))
      /\ claimed' = c
  BY DEF HeardCredible, CredibleDelta, Known, Claims
<1>2. /\ db \in Database /\ db.rows \subseteq Valid
      /\ Evidence(db, witnessed, leftOpen, claimed)
      /\ db.candidate \in SUBSET Font /\ db.rows \in SUBSET Font
  BY DEF HInv, IInv, TypeOK, Database
<1>3. ReadyToHarvest(s, Disappeared(db, d, decl), d, decl, ingestible)
  BY <1>1, StampedColumns
<1>4. PICK H \in SUBSET Font : Harvests(s, w, open, c, H)
  BY <1>1, CredibleOutcome
<1>5. \A f \in Font : w[f] = IF f \in db.deleted THEN witnessed[f] \cup {d} ELSE {d}
  BY DEF HeardSince
<1>6. /\ db'.candidate \cap open \subseteq leftOpen'
      /\ \A f \in Font : witnessed'[f] =
           IF f \notin db.deleted \cup db'.deleted THEN {}
           ELSE IF f \in db.deleted THEN witnessed[f] \cup {d} ELSE {d}
  BY <1>1 DEF Note
<1>7. \A f \in Font : f \in db.deleted \cup db'.deleted => witnessed'[f] = w[f]
  BY <1>5, <1>6
<1> HIDE DEF s, w, c
<1>8. Evidence(db', witnessed', leftOpen', claimed')
  <2> HIDE DEF open
  <2>1. \A f \in Font : db'.seenDeletion[f] \subseteq witnessed'[f]
    BY <1>4, <1>7 DEF Harvests, Evidence
  <2> QED
    BY <1>1, <1>4, <1>6, <2>1 DEF Harvests, Evidence
<1>9. Vouched(DeclaredBy(d, decl))
  <2> SUFFICES ASSUME NEW e \in Device, NEW f \in Active(db'), <<e, f>> \in db'.holds,
                      ~(f \in Active(db) /\ <<e, f>> \in db.holds)
               PROVE  e \in DeclaredBy(d, decl)[f]
    BY Zenon DEF Vouched
  <2>1. f \in db.rows /\ f \in Font
    BY <1>2, <1>4 DEF Harvests, Active
  <2>2. f \in Active(db)
    BY <1>3, <1>4, <2>1 DEF ReadyToHarvest, Harvests, Active
  <2>3. e = d /\ f \in decl
    BY <1>3, <1>4, <2>1, <2>2 DEF ReadyToHarvest, Harvests
  <2> QED
    BY <1>2, <2>1, <2>3 DEF DeclaredBy
<1>10. AssociationsAreFresh'
  BY <1>1, <1>9, VouchedStaysFresh
<1>11. HarvestIsFounded(d)
  <2> SUFFICES ASSUME NEW f \in Harvested \ leftOpen
               PROVE  /\ Live(db) \subseteq witnessed'[f]
                      /\ \A e \in Live(db) : f \notin claimed'[e]
                      /\ f \notin claimed[d]
    BY DEF HarvestIsFounded
  <2>1. f \in H /\ f \in db.rows /\ f \in Font
    BY <1>2, <1>4 DEF Harvests, Harvested
  <2>2. f \in db.candidate /\ f \in db.deleted
    BY <1>2, <1>3, <1>4, <2>1 DEF ReadyToHarvest, Harvests, Evidence
  <2>3. f \notin open
    <3>1. f \notin ingestible
      BY <1>3, <1>4, <2>1 DEF ReadyToHarvest, Harvests
    <3> QED
      BY <3>1 DEF Known
  <2>4. f \notin claimed[d]
    BY <1>1, <1>2, <2>2 DEF Evidence
  <2> QED
    BY <1>1, <1>4, <1>7, <2>1, <2>2, <2>3, <2>4 DEF Harvests
<1> QED
  BY <1>2, <1>4, <1>8, <1>10, <1>11 DEF Harvests

(***************************************************************************)
(* Every step.                                                             *)
(***************************************************************************)

(* What the three properties of a harvest say of a step. *)
HarvestEffect ==
  \A f \in Harvested \ leftOpen :
    /\ Live(db) \subseteq witnessed'[f]
    /\ \A e \in Live(db) : f \notin claimed'[e]
    /\ heard' # <<>> => f \notin claimed[heard'.device]

Effects ==
  /\ Evidence(db', witnessed', leftOpen', claimed')
  /\ AssociationsAreFresh'
  /\ db'.rows \subseteq Valid
  /\ HarvestEffect

LEMMA QuietEffects ==
  ASSUME HInv, TypeOK', QuietColumns, db'.rows \subseteq Valid,
         NEW voucher, NEW known, Note(voucher, {}, known), Vouched(voucher),
         \A d \in Live(db') : claimed'[d] \subseteq claimed[d]
                              /\ (d \in Live(db) \/ claimed'[d] = {})
  PROVE  Effects
<1>1. Evidence(db', witnessed', leftOpen', claimed')
  BY QuietKeepsEvidence
<1>2. AssociationsAreFresh'
  BY VouchedStaysFresh
<1>3. Harvested = {}
  BY DEF Harvested, QuietColumns
<1> QED
  BY <1>1, <1>2, <1>3 DEF Effects, HarvestEffect

LEMMA UnheardIsQuiet ==
  ASSUME HInv, Unheard
  PROVE  QuietColumns /\ Vouched(NoVoucher) /\ db'.rows \subseteq Valid
<1>1. db.rows \subseteq Valid
  BY DEF HInv
<1>2. CASE \/ \E d \in Device : DeleteDevice(d)
           \/ \E d \in Device, f \in Font : ActivateFont(d, f) \/ DeactivateFont(d, f)
           \/ \E f \in Font : GraceElapses(f) \/ RetentionElapses(f) \/ PurgeFont(f)
           \/ ConfirmPendingDeletions
           \/ \E failed : EmptyTrash(failed) \/ PurgeExpired(failed)
  BY <1>1, <1>2, OthersAreQuiet DEF PurgeFont, EmptyTrash, PurgeExpired
<1>3. CASE \E f \in Font : Upload(f)
  <2>1. PICK f \in Font : Upload(f)
    BY <1>3
  <2>2. f \in Valid
    BY <2>1 DEF Upload
  <2> QED
    BY <1>1, <2>1, <2>2, UploadIsQuiet
<1>4. CASE \E f \in Font : DeleteFont(f)
  BY <1>1, <1>4, TrashIsQuiet DEF DeleteFont
<1>5. CASE \E f \in Font : RestoreFont(f)
  BY <1>1, <1>5, WakeIsQuiet
<1>6. CASE \E F \in SUBSET Font : ResolveDuplicates(F)
  BY <1>1, <1>6, TrashIsQuiet DEF ResolveDuplicates
<1> QED
  BY <1>2, <1>3, <1>4, <1>5, <1>6 DEF Unheard, FontStep, BulkStep

LEMMA ReleaseKeepsDevices ==
  ASSUME NEW s \in Database, NEW pairs
  PROVE  Release(s, pairs).devices = s.devices /\ Release(s, pairs).retired = s.retired
BY DEF Release, Database

LEMMA UnheardKeepsLive ==
  ASSUME HInv, Unheard
  PROVE  Live(db') \subseteq Live(db)
<1>1. db \in Database
  BY DEF HInv, IInv, TypeOK
<1>2. CASE \E d \in Device : DeleteDevice(d)
  BY <1>1, <1>2 DEF DeleteDevice, Live, Database
<1>3. CASE \E d \in Device, f \in Font : ActivateFont(d, f) \/ DeactivateFont(d, f)
  BY <1>1, <1>3 DEF ActivateFont, DeactivateFont, Live, Database
<1>4. CASE \E f \in Font : GraceElapses(f) \/ RetentionElapses(f)
  BY <1>1, <1>4 DEF GraceElapses, RetentionElapses, Live, Database
<1>5. CASE \E f \in Font : Upload(f)
  <2>1. PICK f \in Font : db' = Import(db, f, TRUE)
    BY <1>5 DEF Upload
  <2>2. CASE f \notin db.rows
    BY <1>1, <2>1, <2>2 DEF Import, Live, Database
  <2>3. CASE f \in db.rows /\ f \in db.deleted
    <3> DEFINE s == [db EXCEPT !.deleted = @ \ {f}, !.confirmed = @ \ {f},
                               !.purged = @ \ {f}, !.expired = @ \ {f},
                               !.seenDeletion[f] = {}]
    <3>1. db' = Release(s, Device \X {f})
      BY <2>1, <2>3 DEF Import, Revive
    <3>2. s \in Database /\ s.devices = db.devices /\ s.retired = db.retired
      BY <1>1 DEF Database
    <3> HIDE DEF s
    <3> QED
      BY <3>1, <3>2, ReleaseKeepsDevices DEF Live
  <2>4. CASE f \in db.rows /\ f \notin db.deleted
    BY <2>1, <2>4 DEF Import
  <2> QED
    BY <2>2, <2>3, <2>4
<1>9. CASE \E f \in Font : RestoreFont(f)
  <2>1. PICK f \in Font : RestoreFont(f)
    BY <1>9
  <2> DEFINE s == [db EXCEPT !.deleted = db.deleted \ {f}, !.confirmed = db.confirmed \ {f},
                             !.expired = db.expired \ {f}, !.seenDeletion[f] = {}]
             stamps == [db.seenDeletion EXCEPT ![f] = {}]
  <2>2. db' = Release(s, Device \X {f})
    BY <2>1 DEF RestoreFont
  <2>3. s \in Database /\ s.devices = db.devices /\ s.retired = db.retired
    <3>1. stamps \in [Font -> SUBSET Device]
      BY <1>1 DEF Database
    <3>2. s = [db EXCEPT !.deleted = db.deleted \ {f}, !.confirmed = db.confirmed \ {f},
                         !.expired = db.expired \ {f}, !.seenDeletion = stamps]
      OBVIOUS
    <3> HIDE DEF s, stamps
    <3> QED
      BY <1>1, <3>1, <3>2 DEF Database
  <2> HIDE DEF s
  <2> QED
    BY <2>2, <2>3, ReleaseKeepsDevices DEF Live
<1>6. CASE \/ \E f \in Font : DeleteFont(f)
           \/ \E F \in SUBSET Font : ResolveDuplicates(F)
  <2>1. \A F \in SUBSET Font : /\ ToTrash(db, F).devices = db.devices
                              /\ ToTrash(db, F).retired = db.retired
    BY <1>1 DEF ToTrash, Bury, Release, Database
  <2>2. \E F \in SUBSET Font : db' = ToTrash(db, F)
    BY <1>6 DEF DeleteFont, ResolveDuplicates
  <2> QED
    BY <2>1, <2>2 DEF Live
<1>7. CASE ConfirmPendingDeletions \/ (\E F, failed : PurgeFiles(F, failed))
  BY <1>1, <1>7 DEF ConfirmPendingDeletions, PurgeFiles, Live, Database
<1>8. CASE \/ \E f \in Font : PurgeFont(f)
           \/ \E failed : EmptyTrash(failed) \/ PurgeExpired(failed)
  BY <1>7, <1>8 DEF PurgeFont, EmptyTrash, PurgeExpired
<1> QED
  BY <1>2, <1>3, <1>4, <1>5, <1>6, <1>7, <1>8, <1>9 DEF Unheard, FontStep, BulkStep

LEMMA NextEffects ==
  ASSUME HInv, TypeOK', HistoryNext
  PROVE  Effects
<1>1. /\ db \in Database /\ claimed \in [Device -> SUBSET Font]
      /\ Live(db) \subseteq Device /\ Live(db') \subseteq Device
      /\ db.rows \subseteq Valid
  BY DEF HInv, IInv, HistoryTypeOK, TypeOK, Database, Live
<1>2. ASSUME NEW d \in Device, NEW decl \in SUBSET Font, HeardSuspicious(d, decl)
      PROVE  Effects
  <2>1. /\ SuspiciousDelta(d, decl) /\ Note(DeclaredBy(d, decl), {}, {})
        /\ claimed' = claimed
    BY <1>2 DEF HeardSuspicious
  <2>2. /\ QuietColumns /\ Live(db') = Live(db) /\ Vouched(NoVoucher)
        /\ db'.rows = db.rows
    BY <2>1, SuspiciousIsQuiet
  <2>3. Vouched(DeclaredBy(d, decl))
    <3> SUFFICES ASSUME NEW e \in Device, NEW f \in Active(db'), <<e, f>> \in db'.holds
                 PROVE  f \in Active(db) /\ <<e, f>> \in db.holds
      BY Zenon DEF Vouched
    <3>1. f \in Font
      BY DEF Active, TypeOK, Database
    <3>2. e \notin NoVoucher[f]
      BY <3>1 DEF NoVoucher
    <3> QED
      BY <2>2, <3>2, Zenon DEF Vouched
  <2> QED
    BY <1>1, <2>1, <2>2, <2>3, QuietEffects
<1>3. ASSUME NEW d \in Device, NEW decl \in SUBSET Font, NEW ingestible \in SUBSET decl,
             HeardCredible(d, decl, ingestible)
      PROVE  Effects
  <2>1. heard' = [device |-> d, decl |-> decl, credible |-> TRUE]
    BY <1>3 DEF HeardCredible
  <2>2. /\ Evidence(db', witnessed', leftOpen', claimed')
        /\ AssociationsAreFresh'
        /\ db'.rows \subseteq Valid
        /\ HarvestIsFounded(d)
    BY <1>3, CredibleKeeps
  <2>3. heard'.device = d
    BY <2>1
  <2>4. HarvestEffect
    BY <2>2, <2>3 DEF HarvestEffect, HarvestIsFounded
  <2> QED
    BY <2>2, <2>4 DEF Effects
<1>4. ASSUME NEW d \in Device, NEW f \in Font, Transferred(d, f)
      PROVE  Effects
  <2>1. /\ Push(d, f) \/ Pull(d, f)
        /\ Note(DeclaredBy(d, {f}), {}, {}) /\ claimed' = claimed
    BY <1>4 DEF Transferred
  <2>2. /\ QuietColumns /\ Vouched(DeclaredBy(d, {f})) /\ Live(db') = Live(db)
        /\ db'.rows \subseteq Valid
    BY <2>1, TransferIsQuiet
  <2> QED
    BY <2>1, <2>2, QuietEffects
<1>5. ASSUME NEW d \in Device, NEW sources \in SUBSET Device, Merged(d, sources)
      PROVE  Effects
  <2> DEFINE voucher == [f \in Font |-> IF vouched[f] \cap sources # {} THEN {d} ELSE {}]
  <2>1. /\ MergeDevices(d, sources)
        /\ Note(voucher, {}, {})
        /\ claimed' = [e \in Device |-> IF e \in sources THEN {} ELSE claimed[e]]
    BY <1>5 DEF Merged
  <2>2. /\ QuietColumns /\ Vouched(voucher)
        /\ db'.rows = db.rows /\ Live(db') = Live(db) \ sources
    BY <2>1, MergeIsQuiet
  <2> HIDE DEF voucher
  <2> QED
    BY <1>1, <2>1, <2>2, QuietEffects
<1>6. ASSUME NEW d \in Device, Registered(d)
      PROVE  Effects
  <2>1. /\ RegisterDevice(d) /\ Note(NoVoucher, {}, {})
        /\ claimed' = [claimed EXCEPT ![d] = {}]
    BY <1>6 DEF Registered
  <2>2. QuietColumns /\ Vouched(NoVoucher) /\ db'.rows = db.rows
    BY <2>1, OthersAreQuiet
  <2>3. Live(db') \subseteq Live(db) \cup {d}
    BY <1>1, <2>1 DEF RegisterDevice, Live, Database
  <2> QED
    BY <1>1, <2>1, <2>2, <2>3, QuietEffects
<1>7. CASE Unheard
  <2>1. Note(NoVoucher, {}, {}) /\ claimed' = claimed
    BY <1>7 DEF Unheard
  <2>2. QuietColumns /\ Vouched(NoVoucher) /\ db'.rows \subseteq Valid
    BY <1>7, UnheardIsQuiet
  <2>3. Live(db') \subseteq Live(db)
    BY <1>7, UnheardKeepsLive
  <2> QED
    BY <2>1, <2>2, <2>3, QuietEffects
<1> QED
  BY <1>2, <1>3, <1>4, <1>5, <1>6, <1>7 DEF HistoryNext

LEMMA NoteTypes ==
  ASSUME HInv, TypeOK', NEW voucher \in [Font -> SUBSET Device],
         NEW speakers \in SUBSET Device, NEW known, Note(voucher, speakers, known)
  PROVE  /\ vouched' \in [Font -> SUBSET Device]
         /\ witnessed' \in [Font -> SUBSET Device]
         /\ leftOpen' \in SUBSET Font
BY DEF HInv, HistoryTypeOK, TypeOK, Database, Note

LEMMA HistoryTypes ==
  ASSUME HInv, TypeOK', HistoryNext
  PROVE  HistoryTypeOK'
<1> DEFINE Typed ==
             /\ vouched' \in [Font -> SUBSET Device]
             /\ witnessed' \in [Font -> SUBSET Device]
             /\ leftOpen' \in SUBSET Font
           DeltaRecord == [device : Device, decl : SUBSET Font, credible : BOOLEAN]
           Rest == claimed' \in [Device -> SUBSET Font] /\ heard' \in {<<>>} \cup DeltaRecord
<1>1. \A d \in Device, F \in SUBSET Font : DeclaredBy(d, F) \in [Font -> SUBSET Device]
  BY DEF DeclaredBy
<1>2. NoVoucher \in [Font -> SUBSET Device]
  BY DEF NoVoucher
<1>3. claimed \in [Device -> SUBSET Font]
  BY DEF HInv, HistoryTypeOK
<1>4. ASSUME NEW d \in Device, NEW decl \in SUBSET Font, HeardSuspicious(d, decl)
      PROVE  Typed /\ Rest
  <2>1. Note(DeclaredBy(d, decl), {}, {})
    BY <1>4 DEF HeardSuspicious
  <2>2. Typed
    BY <1>1, <2>1, NoteTypes
  <2>3. Rest
    BY <1>3, <1>4 DEF HeardSuspicious
  <2> QED
    BY <2>2, <2>3
<1>5. ASSUME NEW d \in Device, NEW decl \in SUBSET Font, NEW ingestible \in SUBSET decl,
             HeardCredible(d, decl, ingestible)
      PROVE  Typed /\ Rest
  <2>1. \E known : Note(DeclaredBy(d, decl), {d}, known)
    BY <1>5 DEF HeardCredible
  <2>2. Typed
    BY <1>1, <2>1, NoteTypes
  <2>3. ingestible \cap Valid \in SUBSET Font
    BY ValidAssumption
  <2>4. Rest
    BY <1>3, <1>5, <2>3 DEF HeardCredible
  <2> QED
    BY <2>2, <2>4
<1>6. ASSUME NEW d \in Device, NEW f \in Font, Transferred(d, f)
      PROVE  Typed /\ Rest
  <2>1. Note(DeclaredBy(d, {f}), {}, {})
    BY <1>6 DEF Transferred
  <2>2. Typed
    BY <1>1, <2>1, NoteTypes
  <2>3. Rest
    BY <1>3, <1>6 DEF Transferred
  <2> QED
    BY <2>2, <2>3
<1>7. ASSUME NEW d \in Device, NEW sources \in SUBSET Device, Merged(d, sources)
      PROVE  Typed /\ Rest
  <2> DEFINE voucher == [f \in Font |-> IF vouched[f] \cap sources # {} THEN {d} ELSE {}]
  <2>1. voucher \in [Font -> SUBSET Device]
    OBVIOUS
  <2>2. Note(voucher, {}, {})
    BY <1>7 DEF Merged
  <2> HIDE DEF voucher
  <2>3. Typed
    BY <2>1, <2>2, NoteTypes
  <2>4. Rest
    BY <1>3, <1>7 DEF Merged
  <2> QED
    BY <2>3, <2>4
<1>8. ASSUME (\E d \in Device : Registered(d)) \/ Unheard
      PROVE  Typed /\ Rest
  <2>1. Note(NoVoucher, {}, {})
    BY <1>8 DEF Registered, Unheard
  <2>2. Typed
    BY <1>2, <2>1, NoteTypes
  <2>3. Rest
    BY <1>3, <1>8 DEF Registered, Unheard
  <2> QED
    BY <2>2, <2>3
<1> HIDE DEF Typed, Rest
<1>9. Typed /\ Rest
  BY <1>4, <1>5, <1>6, <1>7, <1>8 DEF HistoryNext
<1> QED
  BY <1>9 DEF HistoryTypeOK, Typed, Rest

LEMMA HistoryInvariance == HistorySpec => [](HInv /\ IInv)
<1>1. HistoryInit /\ IInv => HInv
  BY DEF HistoryInit, Init, HInv, HistoryTypeOK, IInv, AssociationsAreFresh, Evidence,
         Active, Live
<1>2. HInv /\ IInv' /\ [HistoryNext]_<<vars, history>> => HInv'
  <2> SUFFICES ASSUME HInv, IInv', [HistoryNext]_<<vars, history>> PROVE HInv'
    OBVIOUS
  <2>1. TypeOK'
    BY DEF IInv
  <2>2. CASE HistoryNext
    <3>1. Effects
      BY <2>1, <2>2, NextEffects
    <3>2. HistoryTypeOK'
      BY <2>1, <2>2, HistoryTypes
    <3> QED
      BY <3>1, <3>2 DEF Effects, HInv, Evidence, Live, IngestibleHolders
  <2>3. CASE UNCHANGED <<vars, history>>
    BY <2>3 DEF vars, history, HInv, IInv, TypeOK, Agreement, FilesKept, HistoryTypeOK,
                AssociationsAreFresh, Active, Evidence, Live, IngestibleHolders
  <2> QED
    BY <2>2, <2>3
<1> QED
  BY <1>1, <1>2, HistoryIsLibrary, Invariance, PTL DEF HistorySpec

(* The columns and the record keep their types. *)
THEOREM HistoryTypeCorrect == HistorySpec => []HistoryTypeOK
<1>1. HInv => HistoryTypeOK
  BY DEF HInv
<1> QED
  BY <1>1, HistoryInvariance, PTL

(* Whatever the devices declare and the user does, a device is believed to *)
(* hold an active font only if it declared or transferred it since the     *)
(* font was last put back (release of the associations in trash.py and     *)
(* font_importer.py, merge of devices).                                    *)
THEOREM FreshAssociations == HistorySpec => []AssociationsAreFresh
<1>1. HInv => AssociationsAreFresh
  BY DEF HInv
<1> QED
  BY <1>1, HistoryInvariance, PTL

(* A tombstone whose candidacy was closed when it should is forgotten only *)
(* when every live device has been heard since the deletion (G7), none of  *)
(* their last credible declarations still lists it, and the declaration    *)
(* that triggers the harvest is not the first to omit it (G8): harvest.py  *)
(* with inventory.py, for any number of devices and fonts.                 *)
LEMMA HarvestStep ==
  ASSUME HInv, IInv', [HistoryNext]_<<vars, history>>
  PROVE  HarvestEffect
<1>1. CASE HistoryNext
  BY <1>1, NextEffects DEF IInv, Effects
<1>2. CASE UNCHANGED <<vars, history>>
  <2>1. Harvested = {}
    BY <1>2 DEF vars, Harvested
  <2> QED
    BY <2>1 DEF HarvestEffect
<1> QED
  BY <1>1, <1>2

(* Guard G7, whatever the number of devices. *)
THEOREM HarvestWaits == HistorySpec => HarvestWaitsForEveryDevice
<1>1. HInv /\ IInv' /\ [HistoryNext]_<<vars, history>> =>
        [\A f \in Harvested \ leftOpen : Live(db) \subseteq witnessed'[f]]_<<vars, history>>
  BY HarvestStep DEF HarvestEffect
<1> QED
  BY <1>1, HistoryInvariance, PTL DEF HistorySpec, HarvestWaitsForEveryDevice

(* Nothing a live device still declares is forgotten. *)
THEOREM HarvestSpares == HistorySpec => HarvestSparesDeclaredFonts
<1>1. HInv /\ IInv' /\ [HistoryNext]_<<vars, history>> =>
        [\A f \in Harvested \ leftOpen, d \in Live(db) :
           f \notin claimed'[d]]_<<vars, history>>
  BY HarvestStep DEF HarvestEffect
<1> QED
  BY <1>1, HistoryInvariance, PTL DEF HistorySpec, HarvestSparesDeclaredFonts

(* Guard G8: the first omission is never the one that harvests. *)
THEOREM OmissionHarmless == HistorySpec => OmissionIsHarmless
<1>1. HInv /\ IInv' /\ [HistoryNext]_<<vars, history>> =>
        [\A f \in Harvested \ leftOpen :
           heard' # <<>> => f \notin claimed[heard'.device]]_<<vars, history>>
  BY HarvestStep DEF HarvestEffect
<1> QED
  BY <1>1, HistoryInvariance, PTL DEF HistorySpec, OmissionIsHarmless

(***************************************************************************)
(*                                                                         *)
(* Part 3. The library and the disks.  What part 1 establishes holds here  *)
(* too.  What is new relates the columns of the database to the disks: a   *)
(* font the server is sure to be gone from a device, or sure to be on it,  *)
(* is where the server thinks.                                             *)
(*                                                                         *)
(***************************************************************************)

(* The fonts on a disk, or about to be. *)
AtHand(d) == OnDisk(d) \cup Installing(d)

(* The deletions that no device may undo. *)
Final == buried \ excused

(***************************************************************************)
(* What a delta does to the columns.                                       *)
(***************************************************************************)

(* All declared fonts are ingestible here, so the delta of d that declares  *)
(* decl gives and takes associations of d only, but for the fonts it        *)
(* forgets; and it forgets only a font that no live device holds, once each *)
(* has declared since the candidacy opened.                                 *)
DeltaEffect(d, decl) ==
  /\ db'.devices = db.devices /\ db'.retired = db.retired /\ db'.systemOnly = {}
  /\ db'.rows \subseteq db.rows
  /\ db'.deleted \subseteq db.deleted \cup Disappeared(db, d, decl)
  /\ db.deleted \cap db'.rows \subseteq db'.deleted
  /\ db'.ripe \subseteq db.ripe
  /\ \A e \in Device, f \in Font :
       /\ <<e, f>> \in db'.holds \ db.holds => e = d
       /\ <<e, f>> \in db.holds \ db'.holds /\ f \in db'.rows
            => e = d /\ f \notin decl /\ (f \in db.deleted => ~Suspicious(db, d, decl))
  /\ \A f \in db'.candidate : \A e \in db'.seenCandidacy[f] :
       /\ f \in db.candidate
       /\ \/ e \in db.seenCandidacy[f]
          \/ /\ e = d /\ ~Suspicious(db, d, decl)
             /\ f \notin decl \/ <<d, f>> \in db'.holds
  /\ \A f \in db.rows \ db'.rows :
       /\ f \in db.deleted /\ f \in db.candidate /\ f \in db.ripe /\ f \notin decl
       /\ ~Suspicious(db, d, decl)
       /\ \A e \in Live(db) : e = d \/ (e \in db.seenCandidacy[f] /\ <<e, f>> \notin db.holds)

LEMMA DetectColumns ==
  ASSUME NEW s \in Database, NEW d \in Device, NEW decl \in SUBSET Font
  PROVE  LET t == Detect(s, d, decl)
             gone == Disappeared(s, d, decl)
         IN  /\ t.rows = s.rows /\ t.deleted = s.deleted \cup gone
             /\ t.candidate = s.candidate /\ t.ripe = s.ripe
             /\ t.seenCandidacy = s.seenCandidacy
             /\ t.holds = s.holds \ ({d} \X gone)
             /\ t.systemOnly = s.systemOnly \ ({d} \X gone)
             /\ t.devices = s.devices /\ t.retired = s.retired
BY DEF Detect, Bury, Release, Database

LEMMA ReconcileColumns ==
  ASSUME NEW s \in Database, NEW d \in Device, NEW decl \in SUBSET Font
  PROVE  LET t == Reconcile(s, d, decl, decl)
             held == HeldBy(s, d)
             arrivals == (decl \cap s.rows) \ held
             departures == (held \cap s.deleted) \ decl
             closed == arrivals \cap s.deleted
         IN  /\ t.rows = s.rows /\ t.deleted = s.deleted
             /\ t.candidate = s.candidate \ closed /\ t.ripe = s.ripe \ closed
             /\ t.seenCandidacy =
                  [f \in Font |-> IF f \in closed THEN {} ELSE s.seenCandidacy[f]]
             /\ t.holds = (s.holds \ ({d} \X departures)) \cup ({d} \X arrivals)
             /\ s.systemOnly = {} => t.systemOnly = {}
             /\ t.devices = s.devices /\ t.retired = s.retired
<1> DEFINE held == HeldBy(s, d)
           arrivals == (decl \cap s.rows) \ held
           departures == (held \cap s.deleted) \ decl
           declared == arrivals \cup (held \cap decl)
           closed == arrivals \cap s.deleted
           t == Reconcile(s, d, decl, decl)
<1>1. t.systemOnly = ((s.systemOnly \ ({d} \X departures)) \ ({d} \X declared))
                        \cup ({d} \X (declared \ decl))
  BY DEF Reconcile, Withdraw, Release, Database
<1>2. declared \ decl = {}
  OBVIOUS
<1>3. s.systemOnly = {} => t.systemOnly = {}
  <2> HIDE DEF t, declared, departures
  <2> QED
    BY <1>1, <1>2
<1>4. /\ t.rows = s.rows /\ t.deleted = s.deleted
      /\ t.candidate = s.candidate \ closed /\ t.ripe = s.ripe \ closed
      /\ t.seenCandidacy =
           [f \in Font |-> IF f \in closed THEN {} ELSE s.seenCandidacy[f]]
      /\ t.holds = (s.holds \ ({d} \X departures)) \cup ({d} \X arrivals)
      /\ t.devices = s.devices /\ t.retired = s.retired
  BY DEF Reconcile, Withdraw, Release, Database
<1> QED
  BY <1>3, <1>4

LEMMA StampColumns ==
  ASSUME NEW s \in Database, NEW d \in Device
  PROVE  LET t == Stamp(s, d)
         IN  /\ t.rows = s.rows /\ t.deleted = s.deleted
             /\ t.candidate = s.candidate /\ t.ripe = s.ripe
             /\ t.seenCandidacy = [f \in Font |-> IF f \in s.candidate
                                                  THEN s.seenCandidacy[f] \cup {d}
                                                  ELSE s.seenCandidacy[f]]
             /\ t.holds = s.holds /\ t.systemOnly = s.systemOnly
             /\ t.devices = s.devices /\ t.retired = s.retired
BY DEF Stamp, Database

LEMMA DeleteFontsColumns ==
  ASSUME NEW s \in Database, NEW H \in SUBSET Font
  PROVE  LET t == DeleteFonts(s, H)
         IN  /\ t.rows = s.rows \ H /\ t.deleted = s.deleted \ H
             /\ t.candidate = s.candidate \ H /\ t.ripe = s.ripe \ H
             /\ t.seenCandidacy = [f \in Font |-> IF f \in H THEN {} ELSE s.seenCandidacy[f]]
             /\ t.holds = s.holds \ (Device \X H)
             /\ t.systemOnly = s.systemOnly \ (Device \X H)
             /\ t.devices = s.devices /\ t.retired = s.retired
BY DEF DeleteFonts, Withdraw, Release, Database

(* The harvest adds no device to a candidacy that was open, and forgets     *)
(* only fonts whose candidacy it found open.                                *)
LEMMA HarvestColumns ==
  ASSUME NEW s \in Database, RowsAgree(s), s.systemOnly = {},
         NEW t \in HarvestOutcomes(s)
  PROVE  /\ t.devices = s.devices /\ t.retired = s.retired /\ t.systemOnly = {}
         /\ t.rows \subseteq s.rows
         /\ t.deleted \subseteq s.deleted /\ s.deleted \cap t.rows \subseteq t.deleted
         /\ t.ripe \subseteq s.ripe
         /\ t.holds \subseteq s.holds
         /\ \A e \in Device, f \in Font :
              <<e, f>> \in s.holds \ t.holds => f \in s.rows \ t.rows
         /\ \A f \in t.candidate : \A e \in t.seenCandidacy[f] :
              f \in s.candidate /\ e \in s.seenCandidacy[f]
         /\ \A f \in s.rows \ t.rows :
              /\ f \in s.purged /\ f \in s.candidate /\ f \in s.ripe
              /\ \A e \in Live(s) : e \in s.seenCandidacy[f] /\ <<e, f>> \notin s.holds
<1> USE DEF HarvestOutcomes
<1>1. CASE ~HarvestEnabled
  BY <1>1 DEF Database
<1>2. CASE HarvestEnabled
  <2> DEFINE o == OpenCandidacies(s)
             opened == {f \in Orphans(s) \ s.candidate : Live(s) \subseteq s.seenDeletion[f]}
  <2>1. PICK H \in HarvestPasses(o) : t = DeleteFonts(o, H)
    BY <1>2
  <2>2. /\ o.rows = s.rows /\ o.deleted = s.deleted /\ o.purged = s.purged
        /\ o.candidate = s.candidate \cup opened /\ o.ripe = s.ripe \ opened
        /\ o.seenCandidacy =
             [f \in Font |-> IF f \in opened THEN {} ELSE s.seenCandidacy[f]]
        /\ o.holds = s.holds /\ o.systemOnly = s.systemOnly
        /\ o.devices = s.devices /\ o.retired = s.retired
    BY DEF OpenCandidacies, Database
  <2>3. opened \cap s.candidate = {}
    OBVIOUS
  <2>4. o \in Database
    BY DEF OpenCandidacies, Orphans, Database
  <2> HIDE DEF o, opened
  <2>5. /\ H \subseteq o.deleted \cap o.purged /\ H \subseteq o.candidate \cap o.ripe
        /\ H \in SUBSET Font
        /\ \A f \in H : IngestibleHolders(o, f) = {} /\ Live(o) \subseteq o.seenCandidacy[f]
    BY <2>1, <2>4 DEF HarvestPasses, Harvestable, Orphans, Database
  <2>6. /\ t.rows = o.rows \ H /\ t.deleted = o.deleted \ H
        /\ t.candidate = o.candidate \ H /\ t.ripe = o.ripe \ H
        /\ t.seenCandidacy = [f \in Font |-> IF f \in H THEN {} ELSE o.seenCandidacy[f]]
        /\ t.holds = o.holds \ (Device \X H)
        /\ t.systemOnly = o.systemOnly \ (Device \X H)
        /\ t.devices = o.devices /\ t.retired = o.retired
    BY <2>1, <2>4, <2>5, DeleteFontsColumns
  <2>7. o.candidate \in SUBSET Font
    BY <2>4 DEF Database
  <2>8. ASSUME NEW f \in t.candidate, NEW e \in t.seenCandidacy[f]
        PROVE  f \in s.candidate /\ e \in s.seenCandidacy[f]
    <3>1. f \in o.candidate /\ f \in Font /\ f \notin H
      BY <2>6, <2>7
    <3>2. e \in o.seenCandidacy[f]
      BY <2>6, <3>1
    <3>3. f \notin opened
      BY <2>2, <3>1, <3>2
    <3> QED
      BY <2>2, <3>1, <3>2, <3>3
  <2>9. ASSUME NEW f \in H
        PROVE  /\ f \in s.candidate /\ f \in s.ripe
               /\ \A e \in Live(s) : e \in s.seenCandidacy[f] /\ <<e, f>> \notin s.holds
    <3>1. f \in s.ripe /\ f \notin opened /\ f \in s.candidate /\ f \in Font
      BY <2>2, <2>5
    <3>2. Live(o) = Live(s) /\ Live(s) \subseteq Device
      BY <2>2 DEF Live, Database
    <3>3. o.seenCandidacy[f] = s.seenCandidacy[f]
      BY <2>2, <3>1
    <3>4. \A e \in Device : <<e, f>> \notin s.holds
      BY <2>2, <2>5 DEF IngestibleHolders
    <3> QED
      BY <2>5, <3>1, <3>2, <3>3, <3>4
  <2>10. s.rows \ t.rows = s.rows \cap H
    BY <2>2, <2>6
  <2>11. \A e \in Device, f \in Font :
           <<e, f>> \in s.holds \ t.holds => f \in H
    BY <2>2, <2>6
  <2>12. H \subseteq s.rows
    BY <2>2, <2>5 DEF RowsAgree
  <2> QED
    BY <2>2, <2>5, <2>6, <2>8, <2>9, <2>10, <2>11, <2>12
<1> QED
  BY <1>1, <1>2

LEMMA SuspiciousEffect ==
  ASSUME IInv, db.systemOnly = {}, NEW d \in Device, NEW decl \in SUBSET Font,
         SuspiciousDelta(d, decl)
  PROVE  DeltaEffect(d, decl)
<1> DEFINE gone == Disappeared(db, d, decl)
<1>1. db \in Database
  BY DEF IInv, TypeOK
<1>2. /\ db'.rows = db.rows /\ db'.deleted = db.deleted \cup gone
      /\ db'.candidate = db.candidate /\ db'.ripe = db.ripe
      /\ db'.seenCandidacy = db.seenCandidacy
      /\ db'.holds = db.holds \ ({d} \X gone)
      /\ db'.systemOnly = db.systemOnly \ ({d} \X gone)
      /\ db'.devices = db.devices /\ db'.retired = db.retired
  BY <1>1, DetectColumns DEF SuspiciousDelta
<1>3. gone \cap decl = {} /\ gone \cap db.deleted = {}
  BY DEF Disappeared, Active
<1>4. \A e \in Device, f \in Font :
        /\ <<e, f>> \in db'.holds \ db.holds => e = d
        /\ <<e, f>> \in db.holds \ db'.holds => e = d /\ f \notin decl /\ f \notin db.deleted
  <2> HIDE DEF gone
  <2> QED
    BY <1>2, <1>3
<1> QED
  BY <1>2, <1>4 DEF DeltaEffect

LEMMA CredibleEffect ==
  ASSUME IInv, db.systemOnly = {}, NEW d \in Device, NEW decl \in SUBSET Font,
         CredibleDelta(d, decl, decl)
  PROVE  DeltaEffect(d, decl)
<1> DEFINE gone == Disappeared(db, d, decl)
           s1 == Detect(db, d, decl)
           held == HeldBy(s1, d)
           arrivals == (decl \cap s1.rows) \ held
           departures == (held \cap s1.deleted) \ decl
           closed == arrivals \cap s1.deleted
           s2 == Reconcile(s1, d, decl, decl)
           s3 == Stamp(s2, d)
<1>1. /\ db \in Database /\ Agrees(db) /\ d \in db.devices
      /\ db' \in HarvestOutcomes(s3) /\ ~Suspicious(db, d, decl)
  BY DEF IInv, TypeOK, Agreement, CredibleDelta, Live
<1>2. /\ gone \cap decl = {} /\ gone \cap db.deleted = {}
      /\ gone \subseteq db.rows /\ gone \in SUBSET Font
      /\ \A f \in Font : f \in gone => <<d, f>> \in db.holds
      /\ \A f \in Font : <<d, f>> \in db.holds => f \in gone \cup db.deleted \cup decl
  <2>1. \A f \in Font : <<d, f>> \in db.holds => f \in db.rows
    BY <1>1 DEF Agrees, RegistryAgrees
  <2> QED
    BY <2>1 DEF Disappeared, HeldBy, Active
<1>3. /\ s1.rows = db.rows /\ s1.deleted = db.deleted \cup gone
      /\ s1.candidate = db.candidate /\ s1.ripe = db.ripe
      /\ s1.seenCandidacy = db.seenCandidacy
      /\ s1.holds = db.holds \ ({d} \X gone)
      /\ s1.systemOnly = db.systemOnly \ ({d} \X gone)
      /\ s1.devices = db.devices /\ s1.retired = db.retired
  BY <1>1, DetectColumns
<1>4. s1 \in Database /\ Agrees(s1)
  BY <1>1, DetectLemma
<1> HIDE DEF gone, s1
<1>5. /\ s2.rows = s1.rows /\ s2.deleted = s1.deleted
      /\ s2.candidate = s1.candidate \ closed /\ s2.ripe = s1.ripe \ closed
      /\ s2.seenCandidacy =
           [f \in Font |-> IF f \in closed THEN {} ELSE s1.seenCandidacy[f]]
      /\ s2.holds = (s1.holds \ ({d} \X departures)) \cup ({d} \X arrivals)
      /\ s1.systemOnly = {} => s2.systemOnly = {}
      /\ s2.devices = s1.devices /\ s2.retired = s1.retired
  BY <1>4, ReconcileColumns
<1>6. s2 \in Database /\ Agrees(s2)
  BY <1>1, <1>3, <1>4, ReconcileLemma
<1>7. held \in SUBSET Font /\ \A f \in Font : f \in held <=> <<d, f>> \in s1.holds
  BY DEF HeldBy
<1> HIDE DEF s2, held
<1>8. /\ s3.rows = s2.rows /\ s3.deleted = s2.deleted
      /\ s3.candidate = s2.candidate /\ s3.ripe = s2.ripe
      /\ s3.seenCandidacy = [f \in Font |-> IF f \in s2.candidate
                                           THEN s2.seenCandidacy[f] \cup {d}
                                           ELSE s2.seenCandidacy[f]]
      /\ s3.holds = s2.holds /\ s3.systemOnly = s2.systemOnly
      /\ s3.devices = s2.devices /\ s3.retired = s2.retired
  BY <1>6, StampColumns
<1>9. s3 \in Database /\ Agrees(s3)
  BY <1>6, StampLemma
<1> HIDE DEF s3
<1>10. /\ s3.rows = db.rows /\ s3.deleted = db.deleted \cup gone
       /\ s3.candidate \subseteq db.candidate /\ s3.ripe \subseteq db.ripe
       /\ s3.systemOnly = {} /\ s3.devices = db.devices /\ s3.retired = db.retired
  BY <1>3, <1>5, <1>8
<1>11. \A e \in Device, f \in Font :
         /\ <<e, f>> \in s3.holds \ db.holds => e = d /\ f \in decl
         /\ <<e, f>> \in db.holds \ s3.holds => e = d /\ f \notin decl
  BY <1>2, <1>3, <1>5, <1>8
<1>12. \A f \in decl \cap db.rows : <<d, f>> \in s3.holds
  BY <1>3, <1>5, <1>7, <1>8
<1>13. \A f \in Font : <<d, f>> \in s3.holds => f \in decl
  BY <1>2, <1>3, <1>5, <1>7, <1>8
<1>14. \A f \in s3.candidate : s3.seenCandidacy[f] \subseteq db.seenCandidacy[f] \cup {d}
  <2>1. s3.candidate \in SUBSET Font
    BY <1>9 DEF Database
  <2> QED
    BY <2>1, <1>3, <1>5, <1>8
<1>15. /\ db'.devices = s3.devices /\ db'.retired = s3.retired /\ db'.systemOnly = {}
       /\ db'.rows \subseteq s3.rows
       /\ db'.deleted \subseteq s3.deleted /\ s3.deleted \cap db'.rows \subseteq db'.deleted
       /\ db'.ripe \subseteq s3.ripe
       /\ db'.holds \subseteq s3.holds
       /\ \A e \in Device, f \in Font :
            <<e, f>> \in s3.holds \ db'.holds => f \in s3.rows \ db'.rows
       /\ \A f \in db'.candidate : \A e \in db'.seenCandidacy[f] :
            f \in s3.candidate /\ e \in s3.seenCandidacy[f]
       /\ \A f \in s3.rows \ db'.rows :
            /\ f \in s3.purged /\ f \in s3.candidate /\ f \in s3.ripe
            /\ \A e \in Live(s3) : e \in s3.seenCandidacy[f] /\ <<e, f>> \notin s3.holds
  BY <1>1, <1>9, <1>10, HarvestColumns DEF Agrees
<1>16. s3.purged = db.purged /\ db.purged \subseteq db.deleted
  <2>1. s1.purged = db.purged
    BY <1>1, DetectLemma DEF s1
  <2>2. s2.purged = s1.purged
    BY <1>1, <1>3, <1>4, ReconcileLemma DEF s2, SameRows
  <2>3. s3.purged = s2.purged
    BY <1>6, StampLemma DEF s3, SameRows
  <2> QED
    BY <1>1, <2>1, <2>2, <2>3 DEF Agrees, RowsAgree
<1>17. Live(s3) = Live(db) /\ d \in Live(db) /\ Live(db) \subseteq Device
  BY <1>1, <1>10 DEF CredibleDelta, Live, Database
<1>18. ASSUME NEW e \in Device, NEW f \in Font
       PROVE  /\ <<e, f>> \in db'.holds \ db.holds => e = d
              /\ <<e, f>> \in db.holds \ db'.holds /\ f \in db'.rows => e = d /\ f \notin decl
  BY <1>11, <1>15
<1>19. ASSUME NEW f \in db'.candidate, NEW e \in db'.seenCandidacy[f]
       PROVE  /\ f \in db.candidate
              /\ \/ e \in db.seenCandidacy[f]
                 \/ /\ e = d /\ ~Suspicious(db, d, decl)
                    /\ f \notin decl \/ <<d, f>> \in db'.holds
  <2>1. f \in s3.candidate /\ e \in s3.seenCandidacy[f] /\ f \in db.candidate
    BY <1>10, <1>15
  <2>2. e \in db.seenCandidacy[f] \/ e = d
    BY <1>14, <2>1
  <2>3. f \in Font /\ f \in db.rows
    BY <1>1, <2>1 DEF Agrees, RegistryAgrees, Database
  <2>4. f \in decl => <<d, f>> \in db'.holds
    BY <1>10, <1>12, <1>15, <1>17, <2>3
  <2> QED
    BY <1>1, <2>1, <2>2, <2>4
<1>20. ASSUME NEW f \in db.rows \ db'.rows
       PROVE  /\ f \in db.deleted /\ f \in db.candidate /\ f \in db.ripe /\ f \notin decl
              /\ ~Suspicious(db, d, decl)
              /\ \A e \in Live(db) :
                   e = d \/ (e \in db.seenCandidacy[f] /\ <<e, f>> \notin db.holds)
  <2>1. /\ f \in s3.purged /\ f \in s3.candidate /\ f \in s3.ripe
        /\ \A e \in Live(db) : e \in s3.seenCandidacy[f] /\ <<e, f>> \notin s3.holds
    BY <1>10, <1>15, <1>17
  <2>2. f \in Font /\ f \notin decl
    BY <1>1, <1>12, <1>17, <2>1 DEF Database
  <2>3. ASSUME NEW e \in Live(db), e # d
        PROVE  e \in db.seenCandidacy[f] /\ <<e, f>> \notin db.holds
    BY <1>11, <1>14, <1>17, <2>1, <2>2, <2>3
  <2> QED
    BY <1>1, <1>10, <1>16, <2>1, <2>2, <2>3
<1> QED
  BY <1>1, <1>3, <1>10, <1>15, <1>18, <1>19, <1>20 DEF DeltaEffect, gone

(***************************************************************************)
(* What a step of a run does to the disk of its device, font by font.      *)
(***************************************************************************)

LEMMA InstallingFonts ==
  ASSUME NEW d, NEW f
  PROVE  f \in Installing(d) <=>
           \E r \in Run : DeviceOf[r] = d /\ f \in run[r].todo["install"]
BY DEF Installing

(* The runs of d do not hold an opinion of f older than the disk. *)
Fresh(f) ==
  /\ \A d \in Device : f \notin Installing(d)
  /\ \A r \in Run : run[r].at \in {"scanned", "registered"} /\ f \in OnDisk(DeviceOf[r])
                     => f \in Declared(r)

(* f is on the disk of d, and its runs neither deny it nor remove it. *)
Attested(d, f) ==
  /\ f \in OnDisk(d)
  /\ \A r \in Run : DeviceOf[r] = d =>
       /\ run[r].at \in {"scanned", "registered"} => f \in Declared(r)
       /\ f \notin run[r].todo["uninstall"]

BringsNothing(f) ==
  /\ \A d \in Device : f \in AtHand(d)' => f \in AtHand(d)
  /\ Fresh(f) => Fresh(f)'

TakesNothing(f) == \A d \in Device : Attested(d, f) => Attested(d, f)'

(* The run r becomes x and the disk of its device k. *)
Becomes(r, x, k) ==
  /\ run' = [run EXCEPT ![r] = x]
  /\ disk' = [disk EXCEPT ![DeviceOf[r]] = k]

Due(x) == x.at \in {"scanned", "registered"}

(* What that means for f alone: it brings f nowhere, and takes it only from *)
(* where a run was to remove it.                                           *)
Restrained(r, x, k, f) ==
  LET was == f \in OnDisk(DeviceOf[r])
      is  == f \in k.installed \cup k.disabled
      coming == f \in run[r].todo["install"]
  IN  /\ is => was \/ coming
      /\ f \in x.todo["install"] => coming
      /\ Due(x) /\ is /\ ~coming /\ (Due(run[r]) /\ was => f \in Declared(r))
           => f \in x.scan.installed \cup x.scan.disabled

Loyal(r, x, k, f) ==
  /\ f \in OnDisk(DeviceOf[r])
  /\ f \notin run[r].todo["uninstall"]
  /\ Due(run[r]) => f \in Declared(r)
  => /\ f \in k.installed \cup k.disabled
     /\ f \notin x.todo["uninstall"]
     /\ Due(x) => f \in x.scan.installed \cup x.scan.disabled

LEMMA RestrainedBringsNothing ==
  ASSUME SyncTypeOK, NEW r \in Run, NEW x, NEW k, NEW f \in Font,
         Becomes(r, x, k), Restrained(r, x, k, f)
  PROVE  BringsNothing(f)
<1>1. /\ run \in [Run -> RunState] /\ disk \in [Device -> Disk]
      /\ DeviceOf \in [Run -> Device]
  BY RunAssumption DEF SyncTypeOK
<1>2. /\ run'[r] = x /\ \A q \in Run \ {r} : run'[q] = run[q]
      /\ disk'[DeviceOf[r]] = k /\ \A d \in Device \ {DeviceOf[r]} : disk'[d] = disk[d]
  BY <1>1 DEF Becomes
<1>3. ASSUME NEW d \in Device, f \in Installing(d)'
      PROVE  f \in Installing(d)
  <2>1. PICK q \in Run : DeviceOf[q] = d /\ f \in run'[q].todo["install"]
    BY <1>3 DEF Installing
  <2>2. f \in run[q].todo["install"]
    BY <1>2, <2>1 DEF Restrained
  <2> QED
    BY <2>1, <2>2, InstallingFonts
<1>4. ASSUME NEW d \in Device, f \in OnDisk(d)'
      PROVE  f \in AtHand(d)
  <2>1. CASE d = DeviceOf[r]
    <3>1. f \in OnDisk(d) \/ f \in run[r].todo["install"]
      BY <1>2, <1>4, <2>1 DEF OnDisk, Restrained
    <3> QED
      BY <2>1, <3>1, InstallingFonts DEF AtHand
  <2>2. CASE d # DeviceOf[r]
    BY <1>2, <1>4, <2>2 DEF OnDisk, AtHand
  <2> QED
    BY <2>1, <2>2
<1>5. \A d \in Device : f \in AtHand(d)' => f \in AtHand(d)
  BY <1>3, <1>4 DEF AtHand
<1>6. ASSUME Fresh(f) PROVE Fresh(f)'
  <2>1. \A d \in Device : f \notin Installing(d)'
    BY <1>3, <1>6 DEF Fresh
  <2>2. ASSUME NEW q \in Run, run'[q].at \in {"scanned", "registered"},
               f \in OnDisk(DeviceOf[q])'
        PROVE  f \in Declared(q)'
    <3>1. DeviceOf[q] \in Device
      BY <1>1
    <3>2. f \in OnDisk(DeviceOf[q])
      BY <1>4, <1>6, <2>2, <3>1 DEF AtHand, Fresh
    <3>3. CASE q = r
      <4>1. f \notin run[r].todo["install"]
        BY <1>1, <1>6, InstallingFonts DEF Fresh
      <4>2. Due(run[r]) => f \in Declared(r)
        BY <1>6, <3>2, <3>3 DEF Fresh, Due
      <4>3. f \in k.installed \cup k.disabled /\ Due(x)
        BY <1>2, <2>2, <3>3 DEF OnDisk, Due
      <4>4. f \in x.scan.installed \cup x.scan.disabled
        BY <4>1, <4>2, <4>3 DEF Restrained
      <4> QED
        BY <1>2, <3>3, <4>4 DEF Declared
    <3>4. CASE q # r
      BY <1>2, <1>6, <2>2, <3>2, <3>4 DEF Fresh, Declared
    <3> QED
      BY <3>3, <3>4
  <2> QED
    BY <2>1, <2>2 DEF Fresh
<1> QED
  BY <1>5, <1>6 DEF BringsNothing

LEMMA LoyalTakesNothing ==
  ASSUME SyncTypeOK, NEW r \in Run, NEW x, NEW k, NEW f \in Font,
         Becomes(r, x, k), Loyal(r, x, k, f)
  PROVE  TakesNothing(f)
<1>1. /\ run \in [Run -> RunState] /\ disk \in [Device -> Disk]
      /\ DeviceOf \in [Run -> Device]
  BY RunAssumption DEF SyncTypeOK
<1>2. /\ run'[r] = x /\ \A q \in Run \ {r} : run'[q] = run[q]
      /\ disk'[DeviceOf[r]] = k /\ \A d \in Device \ {DeviceOf[r]} : disk'[d] = disk[d]
  BY <1>1 DEF Becomes
<1> SUFFICES ASSUME NEW d \in Device, Attested(d, f) PROVE Attested(d, f)'
  BY DEF TakesNothing
<1>3. DeviceOf[r] = d => /\ f \in k.installed \cup k.disabled
                         /\ f \notin x.todo["uninstall"]
                         /\ Due(x) => f \in x.scan.installed \cup x.scan.disabled
  BY DEF Attested, Loyal, Due
<1>4. f \in OnDisk(d)'
  BY <1>2, <1>3 DEF OnDisk, Attested
<1>5. ASSUME NEW q \in Run, DeviceOf[q] = d
      PROVE  /\ run'[q].at \in {"scanned", "registered"} => f \in Declared(q)'
             /\ f \notin run'[q].todo["uninstall"]
  <2>1. CASE q = r
    BY <1>2, <1>3, <1>5, <2>1 DEF Declared, Due
  <2>2. CASE q # r
    BY <1>2, <1>5, <2>2 DEF Declared, Attested
  <2> QED
    BY <2>1, <2>2
<1> QED
  BY <1>4, <1>5 DEF Attested

(* r takes a step that brings nothing and takes nothing. *)
Quietly(r) ==
  \E x \in RunState, k \in Disk :
    Becomes(r, x, k) /\ \A f \in Font : Restrained(r, x, k, f) /\ Loyal(r, x, k, f)

LEMMA QuietWitness ==
  ASSUME NEW r \in Run, NEW x \in RunState, NEW k \in Disk, Becomes(r, x, k),
         \A f \in Font : Restrained(r, x, k, f) /\ Loyal(r, x, k, f)
  PROVE  Quietly(r)
BY Zenon DEF Quietly

LEMMA IdleState == Idle \in RunState /\ Idle.todo = NoTask /\ Idle.at = "idle"
<1>1. Nothing \in Disk /\ NoTask \in [Task -> SUBSET Font]
  BY DEF Nothing, Disk, NoTask
<1> QED
  BY <1>1 DEF Idle, RunState

LEMMA RunFields ==
  ASSUME SyncTypeOK, NEW r \in Run
  PROVE  /\ run[r] \in RunState /\ DeviceOf[r] \in Device
         /\ disk[DeviceOf[r]] \in Disk
         /\ run[r] = [at |-> run[r].at, enabled |-> run[r].enabled,
                      scan |-> run[r].scan, todo |-> run[r].todo]
<1>1. run[r] \in RunState /\ DeviceOf[r] \in Device /\ disk \in [Device -> Disk]
  BY RunAssumption DEF SyncTypeOK
<1> QED
  BY <1>1 DEF RunState

LEMMA SameDisk ==
  ASSUME SyncTypeOK, NEW r \in Run, UNCHANGED disk
  PROVE  disk' = [disk EXCEPT ![DeviceOf[r]] = disk[DeviceOf[r]]]
BY RunFields DEF SyncTypeOK

LEMMA ScanIsQuiet ==
  ASSUME SyncTypeOK, NEW r \in Run, Scan(r)
  PROVE  Quietly(r)
<1> DEFINE k == disk[DeviceOf[r]]
           x == [Idle EXCEPT !.at = "scanned", !.scan = k]
<1>1. k \in Disk /\ run[r].at = "idle"
  BY RunFields DEF Scan
<1>2. x \in RunState /\ x.at = "scanned" /\ x.scan = k /\ x.todo = NoTask
  BY <1>1, IdleState DEF RunState
<1>3. Becomes(r, x, k)
  BY SameDisk DEF Scan, Becomes
<1> HIDE DEF x
<1>4. \A f \in Font : Restrained(r, x, k, f) /\ Loyal(r, x, k, f)
  BY <1>1, <1>2 DEF Restrained, Loyal, Due, OnDisk, NoTask, Task
<1> QED
  BY <1>1, <1>2, <1>3, <1>4, QuietWitness

LEMMA RegisterIsQuiet ==
  ASSUME SyncTypeOK, NEW r \in Run, Register(r)
  PROVE  Quietly(r)
<1> DEFINE k == disk[DeviceOf[r]]
           x == [run[r] EXCEPT !.at = "registered", !.enabled = settings[DeviceOf[r]]]
<1>1. k \in Disk /\ run[r].at = "scanned" /\ settings[DeviceOf[r]] \in Switch
  BY RunFields DEF Register, SyncTypeOK
<1>2. x \in RunState /\ x.scan = run[r].scan /\ x.todo = run[r].todo
  BY <1>1, RunFields DEF RunState
<1>3. run' = [run EXCEPT ![r] = x]
  BY DEF Register, SyncTypeOK
<1>4. Becomes(r, x, k)
  BY <1>3, SameDisk DEF Register, Becomes
<1> HIDE DEF x
<1>5. \A f \in Font : Restrained(r, x, k, f) /\ Loyal(r, x, k, f)
  BY <1>1, <1>2 DEF Restrained, Loyal, Due, OnDisk, Declared
<1> QED
  BY <1>1, <1>2, <1>4, <1>5, QuietWitness

(* A run at work, one of whose tasks is over. *)
LEMMA TickBecomes ==
  ASSUME SyncTypeOK, NEW r \in Run, NEW t \in Task, NEW f \in Font,
         Working(r, t, f), Tick(r, t, f)
  PROVE  \E x \in RunState :
           /\ run' = [run EXCEPT ![r] = x]
           /\ run[r].at = "working" /\ x.at = "working" /\ f \in run[r].todo[t]
           /\ x.todo[t] = run[r].todo[t] \ {f}
           /\ \A u \in Task \ {t} : x.todo[u] = run[r].todo[u]
<1> DEFINE x == [run[r] EXCEPT !.todo[t] = @ \ {f}]
<1>1. run[r].at = "working" /\ f \in run[r].todo[t]
  BY DEF Working
<1>2. run[r].todo \in [Task -> SUBSET Font]
  BY RunFields DEF RunState
<1>3. /\ x \in RunState /\ x.at = run[r].at
      /\ x.todo = [run[r].todo EXCEPT ![t] = @ \ {f}]
  BY <1>2, RunFields DEF RunState
<1>4. run' = [run EXCEPT ![r] = x]
  BY DEF Tick, SyncTypeOK
<1> HIDE DEF x
<1>5. /\ x.todo[t] = run[r].todo[t] \ {f}
      /\ \A u \in Task \ {t} : x.todo[u] = run[r].todo[u]
  BY <1>2, <1>3
<1> QED
  BY <1>1, <1>3, <1>4, <1>5

LEMMA TickIsQuiet ==
  ASSUME SyncTypeOK, NEW r \in Run, NEW t \in Task, NEW f \in Font,
         Working(r, t, f), Tick(r, t, f), UNCHANGED disk
  PROVE  Quietly(r)
<1>1. PICK x \in RunState :
        /\ run' = [run EXCEPT ![r] = x]
        /\ run[r].at = "working" /\ x.at = "working"
        /\ x.todo[t] = run[r].todo[t] \ {f}
        /\ \A u \in Task \ {t} : x.todo[u] = run[r].todo[u]
  BY TickBecomes
<1>2. "install" \in Task /\ "uninstall" \in Task
  BY DEF Task
<1>3. x.todo["install"] \subseteq run[r].todo["install"]
      /\ x.todo["uninstall"] \subseteq run[r].todo["uninstall"]
  BY <1>1, <1>2
<1>4. \A g \in Font : Restrained(r, x, disk[DeviceOf[r]], g)
                     /\ Loyal(r, x, disk[DeviceOf[r]], g)
  BY <1>1, <1>3 DEF Restrained, Loyal, Due, OnDisk
<1>5. Becomes(r, x, disk[DeviceOf[r]])
  BY <1>1, SameDisk DEF Becomes
<1>6. disk[DeviceOf[r]] \in Disk
  BY RunFields
<1> QED
  BY <1>4, <1>5, <1>6, QuietWitness

LEMMA DiskTaskIsQuiet ==
  ASSUME SyncTypeOK, NEW r \in Run, NEW f \in Font,
         \/ Uninstall(r, f) \/ Deactivate(r, f) \/ Activate(r, f) \/ Install(r, f)
  PROVE  Quietly(r)
<1> DEFINE h == disk[DeviceOf[r]]
<1>1. h \in Disk /\ h.installed \in SUBSET Font /\ h.disabled \in SUBSET Font
  BY RunFields DEF Disk
<1>2. "install" \in Task /\ "uninstall" \in Task /\ "deactivate" \in Task
      /\ "activate" \in Task
  BY DEF Task
<1>3. \E t \in Task, k \in Disk :
        /\ Working(r, t, f) /\ Tick(r, t, f)
        /\ disk' = [disk EXCEPT ![DeviceOf[r]] = k]
        /\ \A g \in Font : g # f => (g \in k.installed \cup k.disabled <=>
                                     g \in h.installed \cup h.disabled)
        /\ f \in k.installed \cup k.disabled =>
             f \in h.installed \cup h.disabled \/ t = "install"
        /\ f \in h.installed \cup h.disabled =>
             f \in k.installed \cup k.disabled \/ t = "uninstall"
  <2> USE <1>2
  <2>1. CASE Uninstall(r, f)
    <3> DEFINE k == [installed |-> h.installed \ {f}, disabled |-> h.disabled \ {f}]
    <3> WITNESS "uninstall" \in Task
    <3>1. k \in Disk
      BY <1>1 DEF Disk
    <3> WITNESS k \in Disk
    <3> QED
      BY <1>1, <2>1 DEF Uninstall, DiskTask
  <2>2. CASE Deactivate(r, f)
    <3> DEFINE k == [installed |-> h.installed \ {f},
                     disabled |-> h.disabled \cup (h.installed \cap {f})]
    <3> WITNESS "deactivate" \in Task
    <3>1. k \in Disk
      BY <1>1 DEF Disk
    <3> WITNESS k \in Disk
    <3> QED
      BY <1>1, <2>2 DEF Deactivate, DiskTask
  <2>3. CASE Activate(r, f)
    <3> DEFINE k == [installed |-> h.installed \cup (h.disabled \cap {f}),
                     disabled |-> IF f \in h.installed THEN h.disabled ELSE h.disabled \ {f}]
    <3> WITNESS "activate" \in Task
    <3>1. k \in Disk
      BY <1>1 DEF Disk
    <3> WITNESS k \in Disk
    <3> QED
      BY <1>1, <2>3 DEF Activate, DiskTask
  <2>4. CASE Install(r, f)
    <3> DEFINE k == [installed |-> h.installed \cup ({f} \cap Installable),
                     disabled |-> h.disabled]
    <3> WITNESS "install" \in Task
    <3>1. k \in Disk
      BY <1>1 DEF Disk
    <3> WITNESS k \in Disk
    <3> QED
      BY <1>1, <2>4 DEF Install, DiskTask
  <2> QED
    BY <2>1, <2>2, <2>3, <2>4
<1>4. PICK t \in Task, k \in Disk :
        /\ Working(r, t, f) /\ Tick(r, t, f)
        /\ disk' = [disk EXCEPT ![DeviceOf[r]] = k]
        /\ \A g \in Font : g # f => (g \in k.installed \cup k.disabled <=>
                                     g \in h.installed \cup h.disabled)
        /\ f \in k.installed \cup k.disabled =>
             f \in h.installed \cup h.disabled \/ t = "install"
        /\ f \in h.installed \cup h.disabled =>
             f \in k.installed \cup k.disabled \/ t = "uninstall"
  BY <1>3
<1>5. PICK x \in RunState :
        /\ run' = [run EXCEPT ![r] = x]
        /\ run[r].at = "working" /\ x.at = "working" /\ f \in run[r].todo[t]
        /\ x.todo[t] = run[r].todo[t] \ {f}
        /\ \A u \in Task \ {t} : x.todo[u] = run[r].todo[u]
  BY <1>4, TickBecomes
<1>6. x.todo["install"] \subseteq run[r].todo["install"]
      /\ x.todo["uninstall"] \subseteq run[r].todo["uninstall"]
  BY <1>2, <1>5
<1>7. OnDisk(DeviceOf[r]) = h.installed \cup h.disabled
  BY DEF OnDisk
<1> HIDE DEF h
<1>8. ASSUME NEW g \in Font PROVE Restrained(r, x, k, g)
  BY <1>4, <1>5, <1>6, <1>7 DEF Restrained, Due
<1>9. ASSUME NEW g \in Font PROVE Loyal(r, x, k, g)
  BY <1>4, <1>5, <1>6, <1>7 DEF Loyal, Due
<1> QED
  BY <1>4, <1>5, <1>8, <1>9, QuietWitness DEF Becomes

LEMMA EndIsQuiet ==
  ASSUME SyncTypeOK, NEW r \in Run, Finish(r) \/ RunStops(r)
  PROVE  Quietly(r)
<1>1. run' = [run EXCEPT ![r] = Idle] /\ UNCHANGED disk
  BY DEF Finish, RunStops
<1>2. Becomes(r, Idle, disk[DeviceOf[r]])
  BY <1>1, SameDisk DEF Becomes
<1>3. \A f \in Font : Restrained(r, Idle, disk[DeviceOf[r]], f)
                     /\ Loyal(r, Idle, disk[DeviceOf[r]], f)
  BY IdleState DEF Restrained, Loyal, Due, OnDisk, NoTask, Task
<1> QED
  BY <1>2, <1>3, IdleState, RunFields, QuietWitness

LEMMA QuietSteps ==
  ASSUME SyncTypeOK, NEW r \in Run, Quietly(r)
  PROVE  /\ run' \in [Run -> RunState] /\ disk' \in [Device -> Disk]
         /\ \A f \in Font : BringsNothing(f) /\ TakesNothing(f)
<1>1. PICK x \in RunState, k \in Disk :
        Becomes(r, x, k) /\ \A f \in Font : Restrained(r, x, k, f) /\ Loyal(r, x, k, f)
  BY Zenon DEF Quietly
<1>2. \A f \in Font : BringsNothing(f) /\ TakesNothing(f)
  BY <1>1, RestrainedBringsNothing, LoyalTakesNothing
<1>3. run' \in [Run -> RunState] /\ disk' \in [Device -> Disk]
  BY <1>1, RunFields DEF Becomes, SyncTypeOK
<1> QED
  BY <1>2, <1>3

LEMMA TasksColumns ==
  ASSUME SyncTypeOK, NEW r \in Run, NEW s \in Database
  PROVE  /\ Tasks(s, r) \in [Task -> SUBSET Font]
         /\ Tasks(s, r)["install"] = {}
         /\ Tasks(s, r)["uninstall"] \subseteq Declared(r) \cap s.deleted
<1> DEFINE decl == Declared(r)
           off == ToDeactivate(s, DeviceOf[r], decl)
           push == When("auto_push" \in run[r].enabled, UnknownToServer(s, decl))
           uninstall == When("propagate_deletions" \in settings[DeviceOf[r]],
                             ToUninstall(s, decl))
           deactivate == off \cap run[r].scan.installed
           activate == run[r].scan.disabled \ off
           pull == When("auto_pull" \in run[r].enabled, MissingOnDevice(s, decl))
<1>1. /\ decl \in SUBSET Font /\ run[r].scan.disabled \in SUBSET Font
      /\ run[r].scan.installed \in SUBSET Font
  BY RunFields DEF Declared, RunState, Disk
<1>2. s.rows \in SUBSET Font
  BY DEF Database
<1>3. /\ push \in SUBSET Font /\ uninstall \in SUBSET Font /\ deactivate \in SUBSET Font
      /\ activate \in SUBSET Font /\ pull \in SUBSET Font
      /\ uninstall \subseteq decl \cap s.deleted
  BY <1>1, <1>2 DEF When, UnknownToServer, ToUninstall, MissingOnDevice, Active
<1>4. Tasks(s, r) = [[[[[NoTask EXCEPT !["push"] = push] EXCEPT !["uninstall"] = uninstall]
                        EXCEPT !["deactivate"] = deactivate] EXCEPT !["activate"] = activate]
                        EXCEPT !["pull"] = pull]
  BY DEF Tasks
<1> HIDE DEF push, uninstall, deactivate, activate, pull
<1>5. NoTask \in [Task -> SUBSET Font] /\ NoTask["install"] = {}
  BY DEF NoTask, Task
<1> QED
  BY <1>3, <1>4, <1>5 DEF Task

(* After a delta, only fonts declared and deleted are to be removed. *)
LEMMA DeltaRun ==
  ASSUME SyncTypeOK, TypeOK', NEW r \in Run, Delta(r)
  PROVE  /\ run' \in [Run -> RunState]
         /\ run'[r].at = "working" /\ run'[r].todo["install"] = {}
         /\ \A f \in Font : /\ BringsNothing(f)
                            /\ f \notin Declared(r) \cap db'.deleted => TakesNothing(f)
<1>1. PICK s \in Database : s = db'
  BY DEF TypeOK
<1> DEFINE k == disk[DeviceOf[r]]
           x == [run[r] EXCEPT !.at = "working", !.todo = Tasks(s, r)]
<1>2. /\ x \in RunState /\ x.at = "working" /\ x.todo = Tasks(s, r)
      /\ x.scan = run[r].scan
  BY TasksColumns, RunFields DEF RunState
<1>3. run' = [run EXCEPT ![r] = x]
  BY <1>1 DEF Delta, SyncTypeOK
<1>4. Becomes(r, x, k)
  BY <1>3, SameDisk DEF Delta, Becomes
<1>5. run[r].at = "registered" /\ UNCHANGED disk
  BY DEF Delta
<1> HIDE DEF x
<1>6. ASSUME NEW f \in Font PROVE Restrained(r, x, k, f)
  BY <1>2, TasksColumns DEF Restrained, Due, OnDisk
<1>7. ASSUME NEW f \in Font, f \notin Declared(r) \cap db'.deleted PROVE Loyal(r, x, k, f)
  BY <1>1, <1>2, <1>7, TasksColumns DEF Loyal, Due, OnDisk
<1>8. run'[r] = x /\ run' \in [Run -> RunState]
  BY <1>2, <1>3 DEF SyncTypeOK
<1> QED
  BY <1>2, <1>4, <1>6, <1>7, <1>8, TasksColumns, RestrainedBringsNothing, LoyalTakesNothing

(* A pull brings its own font only, if the server sends it. *)
LEMMA PullRun ==
  ASSUME SyncTypeOK, NEW r \in Run, NEW f \in Font, PullFont(r, f)
  PROVE  /\ run' \in [Run -> RunState]
         /\ run'[r].at = "working"
         /\ run'[r].todo["install"] = IF f \in Active(db) \cap blobs THEN {f} ELSE {}
         /\ \A g \in Font : /\ g # f \/ f \notin Active(db) \cap blobs => BringsNothing(g)
                            /\ TakesNothing(g)
<1> DEFINE k == disk[DeviceOf[r]]
           sent == f \in Active(db) \cap blobs
           new == IF sent THEN {f} ELSE {}
           x == [run[r] EXCEPT !.todo["pull"] = @ \ {f}, !.todo["install"] = new]
<1>1. run[r].at = "working" /\ UNCHANGED disk
  BY DEF PullFont, Working
<1>2. run[r].todo \in [Task -> SUBSET Font]
  BY RunFields DEF RunState
<1>3. run' = [run EXCEPT ![r] = x]
  BY DEF PullFont, SyncTypeOK
<1> HIDE DEF sent
<1>4. /\ x \in RunState /\ x.at = "working" /\ x.scan = run[r].scan
      /\ x.todo = [run[r].todo EXCEPT !["pull"] = @ \ {f}, !["install"] = new]
  <2> DEFINE left == [run[r].todo EXCEPT !["pull"] = run[r].todo["pull"] \ {f},
                                         !["install"] = new]
  <2>1. left \in [Task -> SUBSET Font]
    BY <1>2
  <2>2. x = [run[r] EXCEPT !.todo = left]
    BY RunFields DEF RunState
  <2>3. left = [run[r].todo EXCEPT !["pull"] = @ \ {f}, !["install"] = new]
    BY <1>2
  <2> HIDE DEF left, x
  <2>4. x \in RunState /\ x.at = run[r].at /\ x.scan = run[r].scan /\ x.todo = left
    BY <2>1, <2>2, RunFields DEF RunState
  <2> QED
    BY <1>1, <2>3, <2>4
<1> HIDE DEF x
<1>5. x.todo["install"] = new /\ x.todo["uninstall"] = run[r].todo["uninstall"]
  BY <1>2, <1>4 DEF Task
<1>6. Becomes(r, x, k)
  BY <1>1, <1>3, SameDisk DEF Becomes
<1>7. ASSUME NEW g \in Font, g # f \/ ~sent PROVE Restrained(r, x, k, g)
  BY <1>1, <1>4, <1>5, <1>7 DEF Restrained, Due, OnDisk
<1>8. ASSUME NEW g \in Font PROVE Loyal(r, x, k, g)
  BY <1>1, <1>4, <1>5 DEF Loyal, Due, OnDisk
<1>9. run'[r] = x /\ run' \in [Run -> RunState]
  BY <1>3, <1>4 DEF SyncTypeOK
<1>10. \A g \in Font : g # f \/ ~sent => BringsNothing(g)
  BY <1>6, <1>7, RestrainedBringsNothing
<1>11. \A g \in Font : TakesNothing(g)
  BY <1>6, <1>8, LoyalTakesNothing
<1> QED
  BY <1>4, <1>5, <1>9, <1>10, <1>11 DEF sent

(* Where neither runs nor disks change. *)
LEMMA StillDisks ==
  ASSUME UNCHANGED <<run, disk>>, NEW f
  PROVE  BringsNothing(f) /\ TakesNothing(f)
BY DEF BringsNothing, TakesNothing, AtHand, OnDisk, Installing, Fresh, Attested, Declared

(* What a user does on the disk of d with f concerns no other font. *)
LEMMA UserDisks ==
  ASSUME SyncTypeOK, NEW d \in Device, NEW f \in Font, UserAdds(d, f) \/ UserRemoves(d, f)
  PROVE  /\ disk' \in [Device -> Disk]
         /\ \A g \in Font \ {f} : BringsNothing(g) /\ TakesNothing(g)
         /\ UserRemoves(d, f) => BringsNothing(f)
         /\ UserAdds(d, f) => TakesNothing(f)
         /\ \A e \in Device \ {d} : Attested(e, f) => Attested(e, f)'
<1> DEFINE k == IF UserAdds(d, f) THEN [disk[d] EXCEPT !.installed = @ \cup {f}]
                ELSE [installed |-> disk[d].installed \ {f}, disabled |-> disk[d].disabled \ {f}]
<1>1. disk \in [Device -> Disk] /\ DeviceOf \in [Run -> Device] /\ disk[d] \in Disk
  BY RunAssumption DEF SyncTypeOK
<1>2. run' = run
  BY DEF UserAdds, UserRemoves, Gesture
<1>3. k \in Disk
  BY <1>1 DEF Disk
<1>4. disk' = [disk EXCEPT ![d] = k]
  BY DEF UserAdds, UserRemoves
<1>5. /\ \A g \in Font \ {f} : g \in k.installed \cup k.disabled <=>
                                g \in disk[d].installed \cup disk[d].disabled
      /\ UserAdds(d, f) => f \in k.installed \cup k.disabled
      /\ UserRemoves(d, f) => f \in disk[d].installed \cup disk[d].disabled
  BY <1>1 DEF Disk, UserRemoves, OnDisk
<1> HIDE DEF k
<1>6. disk'[d] = k /\ disk' \in [Device -> Disk] /\ \A e \in Device \ {d} : disk'[e] = disk[e]
  BY <1>1, <1>3, <1>4
<1>7. /\ \A g \in Font \ {f}, e \in Device : g \in OnDisk(e)' <=> g \in OnDisk(e)
      /\ \A e \in Device : UserAdds(d, f) /\ f \in OnDisk(e) => f \in OnDisk(e)'
      /\ \A e \in Device : UserRemoves(d, f) /\ f \in OnDisk(e)' => f \in OnDisk(e)
      /\ \A e \in Device \ {d} : f \in OnDisk(e) => f \in OnDisk(e)'
  BY <1>5, <1>6 DEF OnDisk
<1>8. ASSUME NEW g \in Font, \A e \in Device : g \in OnDisk(e)' => g \in OnDisk(e)
      PROVE  BringsNothing(g)
  <2>1. \A e : Installing(e)' = Installing(e)
    BY <1>2 DEF Installing
  <2>2. \A r \in Run : Declared(r)' = Declared(r)
    BY <1>2 DEF Declared
  <2> QED
    BY <1>1, <1>2, <1>8, <2>1, <2>2 DEF BringsNothing, AtHand, Fresh
<1>9. ASSUME NEW g \in Font, NEW e \in Device, g \in OnDisk(e) => g \in OnDisk(e)'
      PROVE  Attested(e, g) => Attested(e, g)'
  BY <1>2, <1>9 DEF Attested, Declared
<1> QED
  BY <1>6, <1>7, <1>8, <1>9 DEF TakesNothing

(***************************************************************************)
(* The server's side of every step is a step of the library.               *)
(***************************************************************************)

LEMMA DeclaredFonts ==
  ASSUME SyncTypeOK, NEW r \in Run
  PROVE  Declared(r) \in SUBSET Font
BY RunFields DEF Declared, RunState, Disk

LEMMA DeclaresIsLibraryStep ==
  ASSUME NEW d \in Device, NEW decl \in SUBSET Font, Declares(d, decl)
  PROVE  [Next]_vars
<1>1. CASE decl = {}
  BY <1>1 DEF Declares, vars
<1>2. CASE SuspiciousDelta(d, decl)
  BY <1>2 DEF Next, DeviceStep
<1>3. CASE CredibleDelta(d, decl, decl)
  <2>1. \E ingestible \in SUBSET decl : CredibleDelta(d, decl, ingestible)
    BY <1>3
  <2> QED
    BY <2>1 DEF Next, DeviceStep
<1> QED
  BY <1>1, <1>2, <1>3 DEF Declares

LEMMA RunIsLibraryStep ==
  ASSUME SyncTypeOK, NEW r \in Run, RunStep(r) \/ RunFault(r)
  PROVE  [Next]_vars
<1>1. DeviceOf[r] \in Device
  BY RunFields
<1>2. CASE Scan(r) \/ Finish(r) \/ RunStops(r)
  BY <1>2 DEF Scan, Finish, RunStops, ServerUnchanged, vars
<1>3. CASE Register(r)
  BY <1>1, <1>3 DEF Register, Next, DeviceStep, vars
<1>4. CASE Delta(r) \/ DeltaAnswerLost(r)
  BY <1>1, <1>4, DeclaredFonts, DeclaresIsLibraryStep DEF Delta, DeltaAnswerLost
<1>5. CASE \E f \in Font : PushFont(r, f) \/ PullFont(r, f)
  BY <1>1, <1>5 DEF PushFont, PullFont, Next, DeviceStep, vars
<1>6. CASE \E f \in Font : \/ Uninstall(r, f) \/ Deactivate(r, f)
                          \/ Activate(r, f) \/ Install(r, f)
  BY <1>6 DEF Uninstall, Deactivate, Activate, Install, DiskTask, ServerUnchanged, vars
<1>7. CASE \E t \in Task, f \in Font : TaskFails(r, t, f)
  BY <1>7 DEF TaskFails, ServerUnchanged, vars
<1> QED
  BY <1>2, <1>3, <1>4, <1>5, <1>6, <1>7 DEF RunStep, RunFault

LEMMA UserIsLibraryStep ==
  ASSUME UserStep \/ \E f \in Font : TimePasses(f)
  PROVE  [Next]_vars
<1>1. CASE \E d \in Device, f \in Font : UserAdds(d, f) \/ UserRemoves(d, f)
  BY <1>1 DEF UserAdds, UserRemoves, vars
<1>2. CASE \E d \in Device, enabled \in Switch : UpdateDevice(d, enabled)
  BY <1>2 DEF UpdateDevice, ServerUnchanged, vars
<1>3. CASE \E f \in Font : BringsBack(f) \/ TimePasses(f)
  BY <1>3 DEF BringsBack, TimePasses, Next, FontStep
<1>4. CASE \E f \in Font : OtherGesture(f)
  BY <1>4 DEF OtherGesture, Next, FontStep, BulkStep, DeviceStep
<1> QED
  BY <1>1, <1>2, <1>3, <1>4 DEF UserStep

LEMMA SyncStepIsLibraryStep ==
  ASSUME SyncTypeOK, [SyncNext]_syncVars
  PROVE  [Next]_vars
<1>1. CASE UNCHANGED syncVars
  BY <1>1 DEF syncVars, vars
<1> QED
  BY <1>1, RunIsLibraryStep, UserIsLibraryStep DEF SyncNext

(***************************************************************************)
(* The type invariant.                                                     *)
(***************************************************************************)

HistoryTyped ==
  /\ removed \subseteq Device \X Font /\ recorded \subseteq Device \X Font
  /\ buried \subseteq Font /\ excused \subseteq buried

LEMMA RunKeepsTypes ==
  ASSUME SyncTypeOK, TypeOK', NEW r \in Run, RunStep(r) \/ RunFault(r)
  PROVE  SyncTypeOK'
<1>1. db'.deleted \in SUBSET Font /\ db'.holds \in SUBSET (Device \X Font)
  BY DEF TypeOK, Database
<1>2. /\ gestures \in 0..MaxGestures /\ faults \in 0..MaxFaults
      /\ settings \in [Device -> Switch] /\ MaxFaults \in Nat /\ faults \in Int
      /\ HistoryTyped
  BY RunAssumption DEF SyncTypeOK, HistoryTyped
<1>3. settings' = settings /\ gestures' = gestures /\ removed' = removed
  BY DEF RunStep, RunFault, Scan, Register, Delta, DeltaAnswerLost, PushFont, PullFont,
         Uninstall, Deactivate, Activate, Install, DiskTask, Finish, TaskFails, RunStops,
         UserUnchanged
<1>4. faults' = faults \/ (faults < MaxFaults /\ faults' = faults + 1)
  BY DEF RunStep, RunFault, Scan, Register, Delta, DeltaAnswerLost, PushFont, PullFont,
         Uninstall, Deactivate, Activate, Install, DiskTask, Finish, TaskFails, RunStops
<1>5. faults' \in 0..MaxFaults
  BY <1>2, <1>4
<1>6. HistoryTyped'
  <2>1. CASE \/ Scan(r) \/ Finish(r) \/ RunStops(r)
             \/ \E f \in Font : \/ Uninstall(r, f) \/ Deactivate(r, f)
                                \/ Activate(r, f) \/ Install(r, f)
             \/ \E t \in Task, f \in Font : TaskFails(r, t, f)
    BY <1>2, <1>3, <2>1 DEF Scan, Finish, RunStops, Uninstall, Deactivate, Activate, Install,
                      DiskTask, TaskFails, ServerUnchanged, HistoryTyped
  <2>2. CASE Register(r)
    BY <1>2, <1>3, <2>2 DEF Register, Excuses, HistoryTyped
  <2>3. CASE Delta(r) \/ DeltaAnswerLost(r)
    BY <1>1, <1>2, <1>3, <2>3
       DEF Delta, DeltaAnswerLost, Records, Buries, Excuses, JustDeleted, HistoryTyped
  <2>4. CASE \E f \in Font : PushFont(r, f) \/ PullFont(r, f)
    BY <1>1, <1>2, <1>3, <2>4 DEF PushFont, PullFont, HistoryTyped
  <2> QED
    BY <2>1, <2>2, <2>3, <2>4 DEF RunStep, RunFault
<1>7. run' \in [Run -> RunState] /\ disk' \in [Device -> Disk]
  <2>1. CASE Scan(r) \/ Finish(r) \/ RunStops(r) \/ Register(r)
    BY <2>1, ScanIsQuiet, EndIsQuiet, RegisterIsQuiet, QuietSteps
  <2>2. CASE \E f \in Font : \/ Uninstall(r, f) \/ Deactivate(r, f)
                            \/ Activate(r, f) \/ Install(r, f)
    BY <2>2, DiskTaskIsQuiet, QuietSteps
  <2>3. CASE \E t \in Task, f \in Font : TaskFails(r, t, f)
    BY <2>3, TickIsQuiet, QuietSteps DEF TaskFails
  <2>4. CASE \E f \in Font : PushFont(r, f)
    BY <2>4, TickIsQuiet, QuietSteps DEF PushFont, Task
  <2>5. CASE Delta(r)
    BY <2>5, DeltaRun DEF Delta, SyncTypeOK
  <2>6. CASE DeltaAnswerLost(r)
    BY <2>6 DEF DeltaAnswerLost, SyncTypeOK
  <2>7. CASE \E f \in Font : PullFont(r, f)
    BY <2>7, PullRun DEF PullFont, SyncTypeOK
  <2> QED
    BY <2>1, <2>2, <2>3, <2>4, <2>5, <2>6, <2>7 DEF RunStep, RunFault
<1> QED
  BY <1>2, <1>3, <1>5, <1>6, <1>7 DEF SyncTypeOK, HistoryTyped

LEMMA UserKeepsTypes ==
  ASSUME SyncTypeOK, TypeOK', UserStep \/ \E f \in Font : TimePasses(f)
  PROVE  SyncTypeOK'
<1>1. db'.deleted \in SUBSET Font
  BY DEF TypeOK, Database
<1>2. /\ gestures \in 0..MaxGestures /\ MaxGestures \in Nat /\ HistoryTyped
      /\ settings \in [Device -> Switch]
  BY RunAssumption DEF SyncTypeOK, HistoryTyped
<1>3. run' = run /\ faults' = faults /\ recorded' = recorded
  BY DEF UserStep, UserAdds, UserRemoves, UpdateDevice, BringsBack, OtherGesture, TimePasses,
         Gesture, ServerUnchanged, historyVars
<1>4. gestures' = gestures \/ (gestures < MaxGestures /\ gestures' = gestures + 1)
  BY DEF UserStep, UserAdds, UserRemoves, UpdateDevice, BringsBack, OtherGesture, TimePasses,
         Gesture
<1>5. gestures' \in 0..MaxGestures
  BY <1>2, <1>4
<1>6. /\ disk' \in [Device -> Disk] /\ settings' \in [Device -> Switch]
      /\ HistoryTyped'
  <2>1. CASE \E d \in Device, f \in Font : UserAdds(d, f) \/ UserRemoves(d, f)
    <3>1. disk' \in [Device -> Disk]
      BY <2>1, UserDisks
    <3>2. UNCHANGED settings /\ HistoryTyped'
      BY <1>2, <1>3, <2>1 DEF UserAdds, UserRemoves, HistoryTyped
    <3> QED
      BY <3>1, <3>2 DEF SyncTypeOK
  <2>2. CASE \E d \in Device, enabled \in Switch : UpdateDevice(d, enabled)
    BY <1>2, <1>3, <2>2 DEF UpdateDevice, ServerUnchanged, SyncTypeOK, HistoryTyped
  <2>3. CASE \E f \in Font : BringsBack(f) \/ TimePasses(f)
    BY <1>2, <1>3, <2>3 DEF BringsBack, TimePasses, historyVars, SyncTypeOK, HistoryTyped
  <2>4. CASE \E f \in Font : OtherGesture(f)
    BY <1>1, <1>2, <1>3, <2>4
       DEF OtherGesture, Buries, Excuses, JustDeleted, SyncTypeOK, HistoryTyped
  <2> QED
    BY <2>1, <2>2, <2>3, <2>4 DEF UserStep
<1> QED
  BY <1>3, <1>5, <1>6 DEF SyncTypeOK, HistoryTyped

LEMMA SyncStepKeepsTypes ==
  ASSUME SyncTypeOK, IInv, [SyncNext]_syncVars
  PROVE  SyncTypeOK' /\ IInv'
<1>1. IInv'
  BY SyncStepIsLibraryStep, StepKeeps
<1>2. TypeOK'
  BY <1>1 DEF IInv
<1>3. CASE UNCHANGED syncVars
  BY <1>1, <1>3 DEF syncVars, historyVars, SyncTypeOK, TypeOK
<1> QED
  BY <1>1, <1>2, <1>3, RunKeepsTypes, UserKeepsTypes DEF SyncNext

LEMMA SyncInitTyped ==
  ASSUME SyncInit
  PROVE  SyncTypeOK /\ IInv
<1>1. IInv
  BY DEF SyncInit, Init, IInv, TypeOK, Agreement, Agrees, RowsAgree, RegistryAgrees,
         FilesKept, Database
<1>2. Nothing \in Disk /\ Idle \in RunState
  BY IdleState DEF Nothing, Disk
<1> QED
  BY <1>1, <1>2, RunAssumption DEF SyncInit, SyncTypeOK, IInv

LEMMA SyncInvariance == SyncSpec => [](SyncTypeOK /\ IInv)
<1>1. SyncInit => SyncTypeOK /\ IInv
  BY SyncInitTyped
<1>2. (SyncTypeOK /\ IInv) /\ [SyncNext]_syncVars => (SyncTypeOK /\ IInv)'
  BY SyncStepKeepsTypes
<1> QED
  BY <1>1, <1>2, PTL DEF SyncSpec

(* The runs, their disks and their history keep their types. *)
THEOREM SyncTypeCorrect == SyncSpec => []SyncTypeOK
BY SyncInvariance, PTL

(* Whatever the runs of the agents and the users do, the server goes        *)
(* through the steps of the library: what is proved of FontLibrary for      *)
(* arbitrary declarations holds of the agents' own.                         *)
THEOREM SyncRefinesLibrary == SyncSpec => Spec
<1>1. SyncInit => Init
  BY DEF SyncInit
<1>2. SyncTypeOK /\ [SyncNext]_syncVars => [Next]_vars
  BY SyncStepIsLibraryStep
<1> QED
  BY <1>1, <1>2, SyncTypeCorrect, PTL DEF SyncSpec, Spec

(***************************************************************************)
(* What the other handlers do to the columns.                              *)
(***************************************************************************)

(* Nothing that concerns where f is changes in the database. *)
Untouched(f) ==
  /\ f \in db'.rows <=> f \in db.rows
  /\ f \in db'.deleted <=> f \in db.deleted
  /\ f \in db'.candidate <=> f \in db.candidate
  /\ f \in db'.ripe <=> f \in db.ripe
  /\ db'.seenCandidacy[f] = db.seenCandidacy[f]
  /\ \A d \in Device : <<d, f>> \in db'.holds <=> <<d, f>> \in db.holds

SameDevices == db'.devices = db.devices /\ db'.retired = db.retired

NoneSystemOnly == db'.systemOnly \subseteq db.systemOnly

LEMMA UntouchedLemma ==
  ASSUME db' = db, NEW f
  PROVE  Untouched(f)
BY DEF Untouched

LEMMA RegisterColumns ==
  ASSUME IInv, NEW d \in Device, RegisterDevice(d)
  PROVE  /\ NoneSystemOnly /\ Live(db') = Live(db) \cup {d}
         /\ \A f \in Font : Untouched(f)
BY DEF RegisterDevice, IInv, TypeOK, Database, NoneSystemOnly, Live, Untouched

LEMMA PushColumns ==
  ASSUME IInv, NEW d \in Device, NEW f \in Font, Push(d, f)
  PROVE  /\ NoneSystemOnly /\ SameDevices
         /\ \A g \in Font \ {f} : Untouched(g)
         /\ f \in db'.rows /\ f \notin db.deleted /\ f \notin db'.deleted
         /\ db'.candidate = db.candidate /\ db'.ripe = db.ripe
         /\ db'.seenCandidacy = db.seenCandidacy
         /\ db'.holds = db.holds \cup {<<d, f>>} /\ d \in Live(db)
<1>1. /\ db.rows \in SUBSET Font /\ db \in Database
      /\ db.deleted \subseteq db.rows
  BY DEF IInv, TypeOK, Database, Agreement, Agrees, RowsAgree
<1> DEFINE s == Import(db, f, FALSE)
<1>2. /\ s \in Database /\ s.rows = db.rows \cup {f} /\ s.deleted = db.deleted
      /\ s.candidate = db.candidate /\ s.ripe = db.ripe
      /\ s.seenCandidacy = db.seenCandidacy /\ s.holds = db.holds
      /\ s.systemOnly = db.systemOnly
      /\ s.devices = db.devices /\ s.retired = db.retired
  BY <1>1 DEF Import, Database
<1>3. db' = Associate(s, d, f) /\ f \notin s.deleted /\ d \in Live(db)
  BY DEF Push
<1> HIDE DEF s
<1>4. /\ db'.rows = s.rows /\ db'.deleted = s.deleted
      /\ db'.candidate = s.candidate /\ db'.ripe = s.ripe
      /\ db'.seenCandidacy = s.seenCandidacy /\ db'.holds = s.holds \cup {<<d, f>>}
      /\ db'.systemOnly = s.systemOnly
      /\ db'.devices = s.devices /\ db'.retired = s.retired
  BY <1>2, <1>3 DEF Associate, Database
<1> QED
  BY <1>2, <1>3, <1>4 DEF NoneSystemOnly, SameDevices, Untouched

LEMMA PullColumns ==
  ASSUME IInv, NEW d \in Device, NEW f \in Font, Pull(d, f)
  PROVE  /\ NoneSystemOnly /\ SameDevices
         /\ \A g \in Font \ {f} : Untouched(g)
         /\ f \in db'.rows /\ f \notin db.deleted /\ f \notin db'.deleted
         /\ db'.candidate = db.candidate /\ db'.ripe = db.ripe
         /\ db'.seenCandidacy = db.seenCandidacy
         /\ db'.holds = db.holds \cup {<<d, f>>} /\ d \in Live(db)
BY DEF Pull, Active, Associate, IInv, TypeOK, Database, NoneSystemOnly, SameDevices, Untouched

(* The font that is brought back leaves its associations. *)
LEMMA BringsBackColumns ==
  ASSUME IInv, NEW f \in Font, Upload(f) \/ RestoreFont(f)
  PROVE  /\ NoneSystemOnly /\ SameDevices
         /\ \A g \in Font \ {f} : Untouched(g)
         /\ \A d \in Device : <<d, f>> \notin db'.holds
<1>1. /\ db \in Database /\ db.holds \subseteq db.devices \X db.rows
  BY DEF IInv, TypeOK, Agreement, Agrees, RegistryAgrees
<1> DEFINE s == [db EXCEPT !.deleted = @ \ {f}, !.confirmed = @ \ {f}, !.purged = @ \ {f},
                           !.expired = @ \ {f}, !.seenDeletion[f] = {}]
           t == [db EXCEPT !.deleted = @ \ {f}, !.confirmed = @ \ {f},
                           !.expired = @ \ {f}, !.seenDeletion[f] = {}]
<1>2. CASE f \notin db.rows
  <2>1. db' = [db EXCEPT !.rows = @ \cup {f}]
    BY <1>1, <1>2 DEF Upload, RestoreFont, Import, IInv, Agreement, Agrees, RowsAgree
  <2> QED
    BY <1>1, <1>2, <2>1 DEF Database, NoneSystemOnly, SameDevices, Untouched
<1>3. CASE db' = Release(s, Device \X {f})
  BY <1>1, <1>3 DEF Release, Database, NoneSystemOnly, SameDevices, Untouched
<1>4. CASE db' = Release(t, Device \X {f})
  BY <1>1, <1>4 DEF Release, Database, NoneSystemOnly, SameDevices, Untouched
<1>5. f \notin db.rows \/ db' = Release(s, Device \X {f}) \/ db' = Release(t, Device \X {f})
  BY DEF Upload, RestoreFont, Import, Revive, Active
<1> QED
  BY <1>2, <1>3, <1>4, <1>5

LEMMA DeleteFontColumns ==
  ASSUME IInv, NEW f \in Font, DeleteFont(f)
  PROVE  /\ NoneSystemOnly /\ SameDevices
         /\ \A g \in Font \ {f} : Untouched(g)
         /\ f \in Active(db) /\ db'.deleted = db.deleted \cup {f}
         /\ db'.rows = db.rows /\ db'.candidate = db.candidate /\ db'.ripe = db.ripe
BY DEF DeleteFont, ToTrash, Release, Bury, IInv, TypeOK, Database, NoneSystemOnly, SameDevices,
       Untouched

LEMMA OtherColumns ==
  ASSUME IInv, NEW f \in Font,
         \/ PurgeFont(f) \/ ConfirmPendingDeletions
         \/ \E d \in Device : ActivateFont(d, f) \/ DeactivateFont(d, f)
  PROVE  /\ NoneSystemOnly /\ SameDevices /\ db'.deleted = db.deleted
         /\ \A g \in Font : Untouched(g)
<1> USE DEF NoneSystemOnly, SameDevices, Untouched
<1>1. db \in Database
  BY DEF IInv, TypeOK
<1>2. CASE PurgeFont(f)
  BY <1>1, <1>2 DEF PurgeFont, PurgeFiles, Database
<1>3. CASE ConfirmPendingDeletions
  BY <1>1, <1>3 DEF ConfirmPendingDeletions, Database
<1>4. CASE \E d \in Device : ActivateFont(d, f) \/ DeactivateFont(d, f)
  BY <1>1, <1>4 DEF ActivateFont, DeactivateFont, Database
<1> QED
  BY <1>2, <1>3, <1>4

LEMMA GraceColumns ==
  ASSUME IInv, NEW f \in Font, GraceElapses(f)
  PROVE  /\ NoneSystemOnly /\ SameDevices
         /\ \A g \in Font \ {f} : Untouched(g)
         /\ db'.rows = db.rows /\ db'.deleted = db.deleted
         /\ db'.candidate = db.candidate /\ db'.seenCandidacy = db.seenCandidacy
         /\ db'.holds = db.holds /\ f \in db.candidate
BY DEF GraceElapses, IInv, TypeOK, Database, NoneSystemOnly, SameDevices, Untouched

(***************************************************************************)
(* What the steps have in common, font by font.                            *)
(***************************************************************************)

(* A pulled font in hand is that of a run at work, on a live device. *)
RunsAgree ==
  \A r \in Run : \A f \in run[r].todo["install"] :
    run[r].at = "working" /\ DeviceOf[r] \in Live(db)

Base == SyncTypeOK /\ IInv /\ db.systemOnly = {} /\ RunsAgree

(* A step that does not concern f. *)
Unaffected(f) ==
  /\ Untouched(f) /\ BringsNothing(f) /\ TakesNothing(f)
  /\ Live(db') = Live(db)
  /\ f \in buried' <=> f \in buried
  /\ f \in excused' <=> f \in excused
  /\ \A d \in Device : <<d, f>> \in removed' \cup recorded' <=>
                       <<d, f>> \in removed \cup recorded

DeltaStep(r) ==
  /\ Delta(r) \/ DeltaAnswerLost(r)
  /\ Declared(r) # {}

DiscardsFont(f) == Gesture /\ DeleteFont(f) /\ Buries /\ Excuses({})
                   /\ UNCHANGED <<disk, settings, removed, recorded>>

Arrives(r) == Register(r) /\ DeviceOf[r] \notin Live(db)

(* The steps that do. *)
Affected(f) ==
  \/ \E r \in Run : Arrives(r) \/ DeltaStep(r) \/ PushFont(r, f) \/ PullFont(r, f)
  \/ \E d \in Device : UserAdds(d, f) \/ UserRemoves(d, f)
  \/ BringsBack(f) \/ DiscardsFont(f) \/ TimePasses(f)

LEMMA StillServer ==
  ASSUME db' = db, NEW f, BringsNothing(f), TakesNothing(f),
         UNCHANGED <<buried, excused, removed, recorded>>
  PROVE  Unaffected(f)
BY DEF Unaffected, Untouched

LEMMA DeltaColumns ==
  ASSUME Base, NEW r \in Run, DeltaStep(r)
  PROVE  DeltaEffect(DeviceOf[r], Declared(r))
<1>1. DeviceOf[r] \in Device /\ Declared(r) \in SUBSET Font
  BY RunFields, DeclaredFonts DEF Base
<1>2. SuspiciousDelta(DeviceOf[r], Declared(r))
      \/ CredibleDelta(DeviceOf[r], Declared(r), Declared(r))
  BY DEF DeltaStep, Delta, DeltaAnswerLost, Declares
<1> QED
  BY <1>1, <1>2, SuspiciousEffect, CredibleEffect DEF Base

LEMMA SystemOnlyStep ==
  ASSUME Base, [SyncNext]_syncVars
  PROVE  db'.systemOnly = {} /\ Live(db) \subseteq Live(db')
<1> SUFFICES \/ NoneSystemOnly /\ Live(db) \subseteq Live(db')
             \/ db'.systemOnly = {} /\ Live(db) \subseteq Live(db')
  BY DEF Base, NoneSystemOnly
<1> USE DEF Base
<1>1. ASSUME db' = db PROVE NoneSystemOnly /\ Live(db) \subseteq Live(db')
  BY <1>1 DEF NoneSystemOnly
<1>2. ASSUME SameDevices PROVE Live(db') = Live(db)
  BY <1>2 DEF SameDevices, Live
<1>3. ASSUME NEW r \in Run, RunStep(r) \/ RunFault(r)
      PROVE  \/ NoneSystemOnly /\ Live(db) \subseteq Live(db')
             \/ db'.systemOnly = {} /\ Live(db) \subseteq Live(db')
  <2>0. DeviceOf[r] \in Device
    BY RunFields
  <2>1. CASE \/ Scan(r) \/ Finish(r) \/ RunStops(r)
             \/ \E f \in Font : \/ Uninstall(r, f) \/ Deactivate(r, f)
                                \/ Activate(r, f) \/ Install(r, f)
             \/ \E t \in Task, f \in Font : TaskFails(r, t, f)
    BY <1>1, <2>1 DEF Scan, Finish, RunStops, Uninstall, Deactivate, Activate, Install,
                      DiskTask, TaskFails, ServerUnchanged
  <2>2. CASE Register(r)
    BY <1>1, <2>0, <2>2, RegisterColumns DEF Register
  <2>3. CASE Delta(r) \/ DeltaAnswerLost(r)
    <3>1. CASE Declared(r) = {}
      BY <1>1, <2>3, <3>1 DEF Delta, DeltaAnswerLost, Declares
    <3>2. CASE Declared(r) # {}
      BY <2>3, <3>2, DeltaColumns DEF DeltaStep, DeltaEffect, Live
    <3> QED
      BY <3>1, <3>2
  <2>4. CASE \E f \in Font : PushFont(r, f) \/ PullFont(r, f)
    BY <1>1, <1>2, <2>0, <2>4, PushColumns, PullColumns DEF PushFont, PullFont
  <2> QED
    BY <1>3, <2>1, <2>2, <2>3, <2>4 DEF RunStep, RunFault
<1>4. ASSUME UserStep \/ \E f \in Font : TimePasses(f)
      PROVE  NoneSystemOnly /\ Live(db) \subseteq Live(db')
  <2>1. CASE \/ \E d \in Device, f \in Font : UserAdds(d, f) \/ UserRemoves(d, f)
             \/ \E d \in Device, enabled \in Switch : UpdateDevice(d, enabled)
    BY <1>1, <2>1 DEF UserAdds, UserRemoves, UpdateDevice, ServerUnchanged
  <2>2. CASE \E f \in Font : BringsBack(f)
    BY <1>2, <2>2, BringsBackColumns DEF BringsBack
  <2>3. CASE \E f \in Font : OtherGesture(f)
    BY <1>2, <2>3, DeleteFontColumns, OtherColumns DEF OtherGesture
  <2>4. CASE \E f \in Font : TimePasses(f)
    BY <1>2, <2>4, GraceColumns DEF TimePasses
  <2> QED
    BY <1>4, <2>1, <2>2, <2>3, <2>4 DEF UserStep
<1>5. CASE UNCHANGED syncVars
  BY <1>1, <1>5 DEF syncVars
<1> QED
  BY <1>3, <1>4, <1>5 DEF SyncNext

LEMMA RunsStillAgree ==
  ASSUME Base, Live(db) \subseteq Live(db'), NEW r \in Run, NEW x,
         run' = [run EXCEPT ![r] = x],
         \A f \in x.todo["install"] : x.at = "working" /\ DeviceOf[r] \in Live(db')
  PROVE  RunsAgree'
<1>1. run \in [Run -> RunState]
  BY DEF Base, SyncTypeOK
<1>2. run'[r] = x /\ \A q \in Run \ {r} : run'[q] = run[q]
  BY <1>1
<1> QED
  BY <1>2 DEF Base, RunsAgree

LEMMA RunsAgreeStep ==
  ASSUME Base, [SyncNext]_syncVars
  PROVE  RunsAgree'
<1>1. SyncTypeOK /\ SyncTypeOK' /\ RunsAgree /\ Live(db) \subseteq Live(db')
  BY SyncStepKeepsTypes, SystemOnlyStep DEF Base
<1>2. CASE run' = run
  BY <1>1, <1>2 DEF RunsAgree
<1>3. ASSUME NEW r \in Run, RunStep(r) \/ RunFault(r)
      PROVE  RunsAgree'
  <2>1. CASE Finish(r) \/ RunStops(r)
    <3>1. run' = [run EXCEPT ![r] = Idle]
      BY <2>1 DEF Finish, RunStops
    <3> QED
      BY <1>1, <3>1, RunsStillAgree, IdleState DEF NoTask, Task
  <2>2. CASE Scan(r)
    <3> DEFINE x == [Idle EXCEPT !.at = "scanned", !.scan = disk[DeviceOf[r]]]
    <3>1. run' = [run EXCEPT ![r] = x] /\ x.todo = NoTask
      BY <2>2 DEF Scan, Idle
    <3> HIDE DEF x
    <3> QED
      BY <1>1, <3>1, RunsStillAgree DEF NoTask, Task
  <2>3. CASE Register(r)
    <3> DEFINE x == [run[r] EXCEPT !.at = "registered", !.enabled = settings[DeviceOf[r]]]
    <3>1. run' = [run EXCEPT ![r] = x] /\ run[r].at = "scanned"
      BY <1>1, <2>3 DEF Register, SyncTypeOK
    <3>2. x.todo = run[r].todo
      BY <1>1, RunFields DEF RunState
    <3> HIDE DEF x
    <3> QED
      BY <1>1, <3>1, <3>2, RunsStillAgree DEF RunsAgree
  <2>4. CASE Delta(r)
    <3>1. run'[r].todo["install"] = {} /\ \A q \in Run \ {r} : run'[q] = run[q]
      BY <1>1, <2>4, DeltaRun DEF SyncTypeOK, Delta
    <3> QED
      BY <1>1, <3>1 DEF RunsAgree
  <2>5. CASE DeltaAnswerLost(r)
    BY <1>2, <2>5 DEF DeltaAnswerLost
  <2>6. CASE \E t \in Task, f \in Font : Working(r, t, f) /\ Tick(r, t, f)
    <3>1. PICK x \in RunState :
            /\ run' = [run EXCEPT ![r] = x]
            /\ run[r].at = "working" /\ x.at = "working"
            /\ x.todo["install"] \subseteq run[r].todo["install"]
      <4>1. PICK t \in Task, f \in Font : Working(r, t, f) /\ Tick(r, t, f)
        BY <2>6
      <4>2. PICK x \in RunState :
              /\ run' = [run EXCEPT ![r] = x]
              /\ run[r].at = "working" /\ x.at = "working" /\ f \in run[r].todo[t]
              /\ x.todo[t] = run[r].todo[t] \ {f}
              /\ \A u \in Task \ {t} : x.todo[u] = run[r].todo[u]
        BY <1>1, <4>1, TickBecomes
      <4>3. "install" \in Task
        BY DEF Task
      <4>4. x.todo["install"] \subseteq run[r].todo["install"]
        BY <4>2, <4>3
      <4> QED
        BY <4>2, <4>4
    <3>2. \A f \in x.todo["install"] : x.at = "working" /\ DeviceOf[r] \in Live(db')
      BY <1>1, <3>1 DEF RunsAgree
    <3> QED
      BY <1>1, <3>1, <3>2, RunsStillAgree
  <2>7. CASE \E f \in Font : PullFont(r, f)
    <3>1. PICK f \in Font : PullFont(r, f)
      BY <2>7
    <3>2. /\ run'[r].at = "working" /\ \A q \in Run \ {r} : run'[q] = run[q]
          /\ run'[r].todo["install"] = IF f \in Active(db) \cap blobs THEN {f} ELSE {}
      BY <1>1, <3>1, PullRun DEF SyncTypeOK, PullFont
    <3>3. f \in Active(db) \cap blobs => DeviceOf[r] \in Live(db)
      BY <3>1 DEF PullFont, Pull
    <3> QED
      BY <1>1, <3>2, <3>3 DEF RunsAgree
  <2> QED
    BY <1>3, <2>1, <2>2, <2>3, <2>4, <2>5, <2>6, <2>7
       DEF RunStep, RunFault, PushFont, Uninstall, Deactivate, Activate, Install, DiskTask,
           TaskFails, Task
<1>4. ASSUME UserStep \/ \E f \in Font : TimePasses(f)
      PROVE  run' = run
  BY <1>4 DEF UserStep, UserAdds, UserRemoves, UpdateDevice, BringsBack, OtherGesture,
              TimePasses, Gesture
<1> QED
  BY <1>2, <1>3, <1>4 DEF SyncNext, syncVars

LEMMA BaseStep ==
  ASSUME Base, [SyncNext]_syncVars
  PROVE  Base'
BY SyncStepKeepsTypes, SystemOnlyStep, RunsAgreeStep DEF Base

LEMMA BaseInit ==
  ASSUME SyncInit
  PROVE  Base
<1>1. RunsAgree
  BY IdleState DEF SyncInit, RunsAgree, NoTask, Task
<1> QED
  BY <1>1, SyncInitTyped DEF Base, SyncInit, Init

LEMMA RunAffects ==
  ASSUME Base, TypeOK', NEW r \in Run, RunStep(r) \/ RunFault(r), NEW f \in Font
  PROVE  Unaffected(f) \/ Affected(f)
<1> USE DEF Base
<1>1. DeviceOf[r] \in Device /\ db'.deleted \in SUBSET Font
  BY RunFields DEF TypeOK, Database
<1>2. ASSUME db' = db, UNCHANGED <<buried, excused, removed, recorded>>, Quietly(r)
      PROVE  Unaffected(f)
  BY <1>2, StillServer, QuietSteps
<1>3. CASE Scan(r) \/ Finish(r) \/ RunStops(r)
  BY <1>2, <1>3, ScanIsQuiet, EndIsQuiet
     DEF Scan, Finish, RunStops, ServerUnchanged, UserUnchanged
<1>4. CASE \E g \in Font : \/ Uninstall(r, g) \/ Deactivate(r, g)
                          \/ Activate(r, g) \/ Install(r, g)
  BY <1>2, <1>4, DiskTaskIsQuiet
     DEF Uninstall, Deactivate, Activate, Install, DiskTask, ServerUnchanged, UserUnchanged
<1>5. CASE \E t \in Task, g \in Font : TaskFails(r, t, g)
  BY <1>2, <1>5, TickIsQuiet DEF TaskFails, ServerUnchanged, UserUnchanged
<1>6. CASE Register(r)
  <2>1. CASE DeviceOf[r] \in Live(db)
    <3>1. db' = db /\ UNCHANGED <<buried, removed, recorded>> /\ excused \subseteq buried
          /\ Excuses({})
      BY <1>6, <2>1 DEF Register, UserUnchanged, When, SyncTypeOK
    <3>2. excused' = excused
      BY <3>1 DEF Excuses, JustDeleted
    <3> QED
      BY <1>2, <1>6, <3>1, <3>2, RegisterIsQuiet
  <2>2. CASE DeviceOf[r] \notin Live(db)
    BY <1>6, <2>2 DEF Affected, Arrives
  <2> QED
    BY <2>1, <2>2
<1>7. CASE Delta(r) \/ DeltaAnswerLost(r)
  <2>1. CASE Declared(r) = {}
    <3>1. db' = db /\ JustDeleted = {} /\ Agreed(r) = {} /\ Omitted(r) = {}
      BY <1>7, <2>1 DEF Delta, DeltaAnswerLost, Declares, JustDeleted, Agreed, Omitted
    <3>2. UNCHANGED <<buried, removed, recorded>>
      BY <1>7, <3>1 DEF Delta, DeltaAnswerLost, Buries, Records, UserUnchanged
    <3>3. excused' = excused
      BY <1>7, <3>1, <3>2 DEF Delta, DeltaAnswerLost, Excuses, SyncTypeOK
    <3>4. BringsNothing(f) /\ TakesNothing(f)
      BY <1>7, <2>1, DeltaRun, StillDisks DEF DeltaAnswerLost
    <3> QED
      BY <3>1, <3>2, <3>3, <3>4, StillServer
  <2>2. CASE Declared(r) # {}
    BY <1>7, <2>2 DEF Affected, DeltaStep
  <2> QED
    BY <2>1, <2>2
<1>8. CASE \E g \in Font : PushFont(r, g)
  <2>1. PICK g \in Font : PushFont(r, g)
    BY <1>8
  <2>2. CASE g = f
    BY <2>1, <2>2 DEF Affected
  <2>3. CASE g # f
    <3>1. BringsNothing(f) /\ TakesNothing(f)
      BY <2>1, TickIsQuiet, QuietSteps DEF PushFont, Task
    <3>2. Untouched(f) /\ Live(db') = Live(db)
      BY <1>1, <2>1, <2>3, PushColumns, UntouchedLemma DEF PushFont, SameDevices, Live
    <3>3. UNCHANGED <<buried, excused, removed>>
          /\ recorded' = recorded \cup (db'.holds \ db.holds)
      BY <2>1 DEF PushFont, UserUnchanged
    <3> QED
      BY <3>1, <3>2, <3>3 DEF Unaffected, Untouched
  <2> QED
    BY <2>2, <2>3
<1>9. CASE \E g \in Font : PullFont(r, g)
  <2>1. PICK g \in Font : PullFont(r, g)
    BY <1>9
  <2>2. CASE g = f
    BY <2>1, <2>2 DEF Affected
  <2>3. CASE g # f
    <3>1. BringsNothing(f) /\ TakesNothing(f)
      BY <2>1, <2>3, PullRun
    <3>2. Untouched(f) /\ Live(db') = Live(db)
      BY <1>1, <2>1, <2>3, PullColumns, UntouchedLemma DEF PullFont, SameDevices, Live
    <3>3. UNCHANGED <<buried, excused, removed>>
          /\ recorded' = recorded \cup (db'.holds \ db.holds)
      BY <2>1 DEF PullFont, UserUnchanged
    <3> QED
      BY <3>1, <3>2, <3>3 DEF Unaffected, Untouched
  <2> QED
    BY <2>2, <2>3
<1> QED
  BY <1>3, <1>4, <1>5, <1>6, <1>7, <1>8, <1>9 DEF RunStep, RunFault

LEMMA UserAffects ==
  ASSUME Base, UserStep \/ \E f \in Font : TimePasses(f), NEW f \in Font
  PROVE  Unaffected(f) \/ Affected(f)
<1> USE DEF Base
<1>1. CASE \E d \in Device, g \in Font : UserAdds(d, g) \/ UserRemoves(d, g)
  <2>1. PICK d \in Device, g \in Font : UserAdds(d, g) \/ UserRemoves(d, g)
    BY <1>1
  <2>2. CASE g = f
    BY <2>1, <2>2 DEF Affected
  <2>3. CASE g # f
    <3>1. BringsNothing(f) /\ TakesNothing(f)
      BY <2>1, <2>3, UserDisks
    <3>2. db' = db /\ recorded' = recorded
      BY <2>1 DEF UserAdds, UserRemoves
    <3>3. /\ f \in buried' <=> f \in buried
          /\ f \in excused' <=> f \in excused
          /\ \A e \in Device : <<e, f>> \in removed' <=> <<e, f>> \in removed
      BY <2>1, <2>3 DEF UserAdds, UserRemoves
    <3> QED
      BY <3>1, <3>2, <3>3 DEF Unaffected, Untouched
  <2> QED
    BY <2>2, <2>3
<1>2. CASE \E d \in Device, enabled \in Switch : UpdateDevice(d, enabled)
  BY <1>2, StillServer, StillDisks DEF UpdateDevice, ServerUnchanged, Gesture
<1>3. CASE \E g \in Font : BringsBack(g)
  <2>1. PICK g \in Font : BringsBack(g)
    BY <1>3
  <2>2. CASE g = f
    BY <2>1, <2>2 DEF Affected
  <2>3. CASE g # f
    <3>1. Untouched(f) /\ Live(db') = Live(db)
      BY <2>1, <2>3, BringsBackColumns DEF BringsBack, SameDevices, Live
    <3>2. BringsNothing(f) /\ TakesNothing(f)
      BY <2>1, StillDisks DEF BringsBack, Gesture
    <3> QED
      BY <2>1, <2>3, <3>1, <3>2 DEF BringsBack, Unaffected
  <2> QED
    BY <2>2, <2>3
<1>4. CASE \E g \in Font : OtherGesture(g)
  <2>1. PICK g \in Font : OtherGesture(g)
    BY <1>4
  <2>2. /\ BringsNothing(f) /\ TakesNothing(f)
        /\ UNCHANGED <<removed, recorded>> /\ Buries /\ Excuses({})
    BY <2>1, StillDisks DEF OtherGesture, Gesture
  <2>3. CASE DeleteFont(g)
    <3>1. CASE g = f
      BY <2>1, <2>3, <3>1 DEF Affected, DiscardsFont, OtherGesture
    <3>2. CASE g # f
      <4>1. Untouched(f) /\ Live(db') = Live(db) /\ f \notin JustDeleted
        BY <2>3, <3>2, DeleteFontColumns DEF SameDevices, Live, JustDeleted
      <4>2. f \in buried' <=> f \in buried
        BY <2>2, <4>1 DEF Buries
      <4>3. f \in excused' <=> f \in excused
        BY <2>2, <4>1, <4>2 DEF Excuses, SyncTypeOK
      <4> QED
        BY <2>2, <4>1, <4>2, <4>3 DEF Unaffected
    <3> QED
      BY <3>1, <3>2
  <2>4. CASE \/ PurgeFont(g) \/ ConfirmPendingDeletions
             \/ \E d \in Device : ActivateFont(d, g) \/ DeactivateFont(d, g)
    <3>1. Untouched(f) /\ Live(db') = Live(db) /\ JustDeleted = {}
      BY <2>4, OtherColumns DEF SameDevices, Live, JustDeleted
    <3>2. buried' = buried
      BY <2>2, <3>1 DEF Buries
    <3>3. excused' = excused
      BY <2>2, <3>1, <3>2 DEF Excuses, SyncTypeOK
    <3> QED
      BY <2>2, <3>1, <3>2, <3>3 DEF Unaffected
  <2> QED
    BY <2>1, <2>3, <2>4 DEF OtherGesture
<1>5. CASE \E g \in Font : TimePasses(g)
  <2>1. PICK g \in Font : TimePasses(g)
    BY <1>5
  <2>2. CASE g = f
    BY <2>1, <2>2 DEF Affected
  <2>3. CASE g # f
    <3>1. Untouched(f) /\ Live(db') = Live(db)
      BY <2>1, <2>3, GraceColumns DEF TimePasses, SameDevices, Live
    <3>2. BringsNothing(f) /\ TakesNothing(f)
      BY <2>1, StillDisks DEF TimePasses
    <3> QED
      BY <2>1, <3>1, <3>2 DEF TimePasses, historyVars, Unaffected
  <2> QED
    BY <2>2, <2>3
<1> QED
  BY <1>1, <1>2, <1>3, <1>4, <1>5 DEF UserStep

LEMMA StepAffects ==
  ASSUME Base, [SyncNext]_syncVars, NEW f \in Font
  PROVE  Unaffected(f) \/ Affected(f)
<1>1. TypeOK'
  BY SyncStepKeepsTypes DEF Base, IInv
<1>2. CASE UNCHANGED syncVars
  BY <1>2, StillServer, StillDisks DEF syncVars, historyVars
<1> QED
  BY <1>1, <1>2, RunAffects, UserAffects DEF SyncNext

(***************************************************************************)
(* Deleting a font is undone in the excused cases only.                    *)
(***************************************************************************)

(* A font deleted for good, once forgotten, is at hand nowhere; a device    *)
(* counted as having declared since its candidacy opened does not have it,  *)
(* unless the server knows that it does.                                    *)
FinalHere(f) ==
  f \in Final =>
    /\ f \notin Active(db)
    /\ f \notin db.rows => \A d \in Live(db) : f \notin AtHand(d)
    /\ f \in db.candidate => \A d \in db.seenCandidacy[f] :
                               <<d, f>> \in db.holds \/ f \notin AtHand(d)

LEMMA FontSets ==
  ASSUME Base
  PROVE  /\ Live(db) \subseteq Device
         /\ \A f \in Font : db.seenCandidacy[f] \subseteq Device
         /\ db.rows \subseteq Font /\ db.deleted \subseteq db.rows
         /\ db.candidate \subseteq db.rows /\ db.ripe \subseteq db.candidate
         /\ db.holds \subseteq Device \X db.rows
         /\ excused \subseteq buried /\ buried \subseteq Font
BY DEF Base, SyncTypeOK, TypeOK, IInv, Agreement, Agrees, RowsAgree, RegistryAgrees, Database,
       Live

(* The excused fonts that are deleted anew, and the others. *)
LEMMA ExcusedLemma ==
  ASSUME Base, NEW F, NEW f, Excuses(F), buried' \in {buried, buried \cup JustDeleted},
         f \in Final'
  PROVE  \/ f \in Final /\ (f \notin F \/ f \in JustDeleted)
         \/ f \in JustDeleted /\ f \in buried'
<1>1. f \in buried' /\ f \notin excused'
  BY DEF Final
<1> QED
  BY <1>1 DEF Excuses, Final

LEMMA FinalUnaffected ==
  ASSUME Base, NEW f \in Font, FinalHere(f), Unaffected(f)
  PROVE  FinalHere(f)'
BY FontSets DEF Unaffected, Untouched, FinalHere, Final, Active, BringsNothing

LEMMA FinalDelta ==
  ASSUME Base, Base', NEW f \in Font, FinalHere(f), NEW r \in Run, DeltaStep(r)
  PROVE  FinalHere(f)'
<1> DEFINE d == DeviceOf[r]
           decl == Declared(r)
<1>1. DeltaEffect(d, decl) /\ d \in Device /\ decl # {}
  BY DeltaColumns, RunFields DEF DeltaStep, Base
<1>2. TypeOK' /\ SyncTypeOK
  BY DEF Base, IInv
<1>10. /\ db'.deleted \subseteq db'.rows /\ db'.candidate \subseteq db'.rows
       /\ db'.seenCandidacy[f] \subseteq Device
  BY DEF Base, IInv, TypeOK, Agreement, Agrees, RowsAgree, RegistryAgrees, Database
<1>3. BringsNothing(f)
  BY <1>2, DeltaRun, StillDisks DEF DeltaStep, DeltaAnswerLost
<1>4. Buries /\ Excuses(Omitted(r))
  BY DEF DeltaStep, Delta, DeltaAnswerLost
<1>5. Live(db') = Live(db)
  BY <1>1 DEF DeltaEffect, Live
<1>6. ~Suspicious(db, d, decl) /\ f \notin decl /\ f \notin Omitted(r) => f \notin AtHand(d)
  BY <1>1 DEF Omitted, AtHand
<1> HIDE DEF d, decl
<1>7. \A e \in Device : f \in AtHand(e)' => f \in AtHand(e)
  BY <1>3 DEF BringsNothing
<1>8. CASE f \in JustDeleted
  <2>1. f \in db'.deleted /\ f \notin db.candidate /\ f \in db'.rows
    BY <1>8, <1>10 DEF JustDeleted
  <2> QED
    BY <1>1, <2>1 DEF DeltaEffect, FinalHere, Active
<1>9. CASE f \notin JustDeleted /\ f \in Final'
  <2>1. f \in Final /\ f \notin Omitted(r)
    BY <1>4, <1>9, ExcusedLemma DEF Buries
  <2>2. f \notin Active(db)
    BY <2>1 DEF FinalHere
  <2>3. f \notin Active(db)'
    BY <1>1, <2>2 DEF DeltaEffect, Active
  <2>4. ASSUME f \notin db'.rows, NEW e \in Live(db')
        PROVE  f \notin AtHand(e)'
    <3>1. e \in Live(db) /\ e \in Device
      BY <1>5, <2>4, FontSets
    <3>2. CASE f \notin db.rows
      BY <1>7, <2>1, <3>1, <3>2 DEF FinalHere
    <3>3. CASE f \in db.rows
      <4>1. /\ f \in db.candidate /\ f \notin decl /\ ~Suspicious(db, d, decl)
            /\ e = d \/ (e \in db.seenCandidacy[f] /\ <<e, f>> \notin db.holds)
        BY <1>1, <2>4, <3>1, <3>3 DEF DeltaEffect
      <4>2. f \notin AtHand(e)
        BY <1>6, <2>1, <4>1 DEF FinalHere
      <4> QED
        BY <1>7, <3>1, <4>2
    <3> QED
      BY <3>2, <3>3
  <2>5. ASSUME f \in db'.candidate, NEW e \in db'.seenCandidacy[f]
        PROVE  <<e, f>> \in db'.holds \/ f \notin AtHand(e)'
    <3>1. e \in Device /\ f \in db'.rows
      BY <2>5, <1>10
    <3>2. /\ f \in db.candidate
          /\ \/ e \in db.seenCandidacy[f]
             \/ /\ e = d /\ ~Suspicious(db, d, decl)
                /\ f \notin decl \/ <<d, f>> \in db'.holds
      BY <1>1, <2>5 DEF DeltaEffect
    <3>3. CASE e = d /\ ~Suspicious(db, d, decl) /\ f \notin decl
      BY <1>6, <1>7, <2>1, <3>1, <3>3
    <3>4. CASE e \in db.seenCandidacy[f] /\ f \notin AtHand(e)
      BY <1>7, <3>1, <3>4
    <3>5. CASE <<e, f>> \in db.holds \ db'.holds
      <4>1. f \in db.deleted
        BY <2>2, <3>2, FontSets DEF Active
      <4>2. e = d /\ f \notin decl /\ ~Suspicious(db, d, decl)
        BY <1>1, <3>1, <3>5, <4>1 DEF DeltaEffect
      <4> QED
        BY <1>6, <1>7, <2>1, <3>1, <4>2
    <3> QED
      BY <2>1, <3>2, <3>3, <3>4, <3>5 DEF FinalHere
  <2> QED
    BY <2>3, <2>4, <2>5 DEF FinalHere
<1> QED
  BY <1>8, <1>9 DEF FinalHere

(* A device that joins brings only what it had already. *)
LEMMA FinalArrives ==
  ASSUME Base, NEW f \in Font, FinalHere(f), NEW r \in Run, Arrives(r)
  PROVE  FinalHere(f)'
<1> DEFINE d == DeviceOf[r]
<1>1. d \in Device /\ d \notin Live(db) /\ RegisterDevice(d) /\ buried' = buried
      /\ Excuses(OnDisk(d))
  BY RunFields DEF Base, Arrives, Register, When
<1>2. Untouched(f) /\ Live(db') = Live(db) \cup {d}
  BY <1>1, RegisterColumns DEF Base
<1>3. \A e \in Device : f \in AtHand(e)' => f \in AtHand(e)
  BY RegisterIsQuiet, QuietSteps DEF Arrives, Base, BringsNothing
<1>4. f \notin JustDeleted
  BY <1>2 DEF Untouched, JustDeleted
<1>5. f \in Final' => f \in Final /\ f \notin OnDisk(d)
  BY <1>1, <1>4, ExcusedLemma
<1>6. f \notin Installing(d)
  BY <1>1 DEF Base, RunsAgree, Installing
<1> HIDE DEF d
<1>7. f \in Final' => f \notin AtHand(d)
  BY <1>5, <1>6 DEF AtHand
<1> QED
  BY <1>1, <1>2, <1>3, <1>5, <1>7, FontSets DEF Untouched, FinalHere, Active

(* A push brings a new font only to a library that no such font left. *)
LEMMA FinalPush ==
  ASSUME Base, NEW f \in Font, FinalHere(f), NEW r \in Run, PushFont(r, f)
  PROVE  FinalHere(f)'
<1>1. UNCHANGED <<buried, excused>> /\ DeviceOf[r] \in Device
  BY RunFields DEF PushFont, Base
<1>2. BringsNothing(f) /\ TakesNothing(f)
  BY TickIsQuiet, QuietSteps DEF PushFont, Base, Task
<1>3. CASE db' = db
  BY <1>1, <1>2, <1>3, FontSets DEF FinalHere, Final, BringsNothing
<1>4. CASE f \in OnDisk(DeviceOf[r]) /\ Push(DeviceOf[r], f)
  <2>1. f \notin db.deleted /\ DeviceOf[r] \in Live(db)
    BY <1>1, <1>4, PushColumns DEF Base
  <2>2. f \notin Final
    BY <1>4, <2>1 DEF FinalHere, Active, AtHand
  <2> QED
    BY <1>1, <2>2 DEF FinalHere, Final
<1> QED
  BY <1>3, <1>4 DEF PushFont

LEMMA FinalPull ==
  ASSUME Base, NEW f \in Font, FinalHere(f), NEW r \in Run, PullFont(r, f)
  PROVE  FinalHere(f)'
<1>1. UNCHANGED <<buried, excused>>
  BY DEF PullFont
<1>2. CASE f \in Active(db)
  BY <1>1, <1>2 DEF FinalHere, Final
<1>3. CASE f \notin Active(db)
  <2>1. db' = db
    BY <1>3 DEF PullFont
  <2>2. BringsNothing(f)
    BY <1>3, PullRun DEF Base
  <2> QED
    BY <1>1, <2>1, <2>2, FontSets DEF FinalHere, Final, BringsNothing
<1> QED
  BY <1>2, <1>3

LEMMA FinalUsers ==
  ASSUME Base, NEW f \in Font, FinalHere(f),
         \/ \E d \in Device : UserAdds(d, f) \/ UserRemoves(d, f)
         \/ BringsBack(f) \/ DiscardsFont(f) \/ TimePasses(f)
  PROVE  FinalHere(f)'
<1>1. CASE (\E d \in Device : UserAdds(d, f)) \/ BringsBack(f)
  BY <1>1 DEF UserAdds, BringsBack, FinalHere, Final
<1>2. CASE \E d \in Device : UserRemoves(d, f)
  <2>1. BringsNothing(f)
    BY <1>2, UserDisks DEF Base
  <2> QED
    BY <1>2, <2>1, FontSets DEF UserRemoves, FinalHere, Final, BringsNothing
<1>3. CASE DiscardsFont(f)
  <2>1. /\ f \in Active(db) /\ f \in db'.deleted /\ f \in db'.rows
        /\ db'.candidate = db.candidate
    BY <1>3, DeleteFontColumns DEF DiscardsFont, Base, Active
  <2>2. f \in Final' => f \in JustDeleted
    BY <1>3, <2>1, ExcusedLemma DEF DiscardsFont, Buries, FinalHere
  <2> QED
    BY <2>1, <2>2 DEF JustDeleted, FinalHere, Active
<1>4. CASE TimePasses(f)
  <2>1. /\ db'.rows = db.rows /\ db'.deleted = db.deleted /\ db'.candidate = db.candidate
        /\ db'.seenCandidacy = db.seenCandidacy /\ db'.holds = db.holds
        /\ Live(db') = Live(db)
    BY <1>4, GraceColumns DEF TimePasses, Base, SameDevices, Live
  <2>2. BringsNothing(f)
    BY <1>4, StillDisks DEF TimePasses
  <2> QED
    BY <1>4, <2>1, <2>2, FontSets DEF TimePasses, historyVars, FinalHere, Final, Active,
                                      BringsNothing
<1> QED
  BY <1>1, <1>2, <1>3, <1>4

FinalInv == Base /\ \A f \in Font : FinalHere(f)

LEMMA FinalInvariance == SyncSpec => []FinalInv
<1>1. SyncInit => FinalInv
  BY BaseInit DEF SyncInit, FinalInv, FinalHere, Final
<1>2. FinalInv /\ [SyncNext]_syncVars => FinalInv'
  <2> SUFFICES ASSUME FinalInv, [SyncNext]_syncVars PROVE FinalInv'
    OBVIOUS
  <2>1. Base /\ Base'
    BY BaseStep DEF FinalInv
  <2>2. ASSUME NEW f \in Font PROVE FinalHere(f)'
    <3>1. FinalHere(f)
      BY DEF FinalInv
    <3>2. Unaffected(f) \/ Affected(f)
      BY <2>1, StepAffects
    <3> QED
      BY <2>1, <3>1, <3>2, FinalUnaffected, FinalDelta, FinalArrives, FinalPush, FinalPull,
         FinalUsers DEF Affected
  <2> QED
    BY <2>1, <2>2 DEF FinalInv
<1> QED
  BY <1>1, <1>2, PTL DEF SyncSpec

(* The deletion of a font is undone without a user only by a device that    *)
(* joins with the file, or that declares on a scan older than the file: for *)
(* every set of devices, however the runs, the failures and the harvest     *)
(* interleave.                                                             *)
THEOREM DeletionsAreUndoneAsExcused == SyncSpec => []OnlyExcusedFontsReturn
<1>1. FinalInv => OnlyExcusedFontsReturn
  BY FontSets DEF FinalInv, FinalHere, Final, OnlyExcusedFontsReturn
<1> QED
  BY <1>1, FinalInvariance, PTL

(***************************************************************************)
(* A delta takes for a deletion only what a user has removed.              *)
(***************************************************************************)

(* What the server thinks is on the disk of d, and neither a user nor a     *)
(* fresh association accounts for, is vouched for.                          *)
HeldHere(d, f) ==
  f \in Active(db) /\ <<d, f>> \in db.holds /\ <<d, f>> \notin removed \cup recorded
    => Attested(d, f)

LEMMA HeldUnaffected ==
  ASSUME NEW f \in Font, NEW d \in Device, HeldHere(d, f), Unaffected(f)
  PROVE  HeldHere(d, f)'
BY DEF Unaffected, Untouched, HeldHere, Active, TakesNothing

LEMMA HeldDelta ==
  ASSUME Base, Base', NEW f \in Font, NEW d \in Device, HeldHere(d, f), NEW r \in Run,
         DeltaStep(r)
  PROVE  HeldHere(d, f)'
<1>1. DeltaEffect(DeviceOf[r], Declared(r)) /\ DeviceOf[r] \in Device
  BY DeltaColumns, RunFields DEF Base
<1>2. TypeOK' /\ SyncTypeOK
  BY DEF Base, IInv
<1>3. f \notin db'.deleted => TakesNothing(f)
  BY <1>2, DeltaRun, StillDisks DEF DeltaStep, DeltaAnswerLost
<1>4. Records(r) /\ removed' = removed
  BY DEF DeltaStep, Delta, DeltaAnswerLost, UserUnchanged
<1> SUFFICES ASSUME f \in Active(db)', <<d, f>> \in db'.holds,
                    <<d, f>> \notin removed, <<d, f>> \notin recorded'
             PROVE  Attested(d, f)
  BY <1>3, <1>4 DEF HeldHere, TakesNothing, Active
<1>5. CASE DeviceOf[r] = d /\ f \in Agreed(r)
  BY <1>5 DEF Agreed, Attested
<1>6. CASE ~(DeviceOf[r] = d /\ f \in Agreed(r))
  <2>1. <<d, f>> \notin recorded /\ <<d, f>> \in db.holds
    BY <1>4, <1>6 DEF Records
  <2>2. f \in Active(db)
    BY <1>1 DEF DeltaEffect, Active
  <2> QED
    BY <2>1, <2>2 DEF HeldHere
<1> QED
  BY <1>5, <1>6

LEMMA HeldRun ==
  ASSUME Base, NEW f \in Font, NEW d \in Device, HeldHere(d, f), NEW r \in Run,
         Arrives(r) \/ PushFont(r, f) \/ PullFont(r, f)
  PROVE  HeldHere(d, f)'
<1>1. DeviceOf[r] \in Device /\ removed' = removed
  BY RunFields DEF Base, Arrives, Register, PushFont, PullFont, UserUnchanged
<1>2. CASE Arrives(r)
  <2>1. Untouched(f) /\ recorded' = recorded
    BY <1>1, <1>2, RegisterColumns DEF Arrives, Register, Base
  <2>2. TakesNothing(f)
    BY <1>2, RegisterIsQuiet, QuietSteps DEF Arrives, Base
  <2> QED
    BY <1>1, <2>1, <2>2 DEF HeldHere, Untouched, Active, TakesNothing
<1>3. CASE PushFont(r, f) \/ PullFont(r, f)
  <2>1. TakesNothing(f)
    BY <1>3, TickIsQuiet, QuietSteps, PullRun DEF PushFont, Base, Task
  <2>2. recorded' = recorded \cup (db'.holds \ db.holds)
    BY <1>3 DEF PushFont, PullFont
  <2>3. db' = db \/ Push(DeviceOf[r], f) \/ Pull(DeviceOf[r], f)
    BY <1>3 DEF PushFont, PullFont
  <2>4. f \in db.rows /\ f \in Active(db)' => f \in Active(db)
    BY <1>1, <2>3, PushColumns, PullColumns DEF Base, Active
  <2>5. <<d, f>> \in db.holds => f \in db.rows
    BY FontSets
  <2> QED
    BY <1>1, <2>1, <2>2, <2>4, <2>5 DEF HeldHere, TakesNothing
<1> QED
  BY <1>2, <1>3

LEMMA HeldUsers ==
  ASSUME Base, NEW f \in Font, NEW d \in Device, HeldHere(d, f),
         \/ \E e \in Device : UserAdds(e, f) \/ UserRemoves(e, f)
         \/ BringsBack(f) \/ DiscardsFont(f) \/ TimePasses(f)
  PROVE  HeldHere(d, f)'
<1>1. ASSUME NEW e \in Device, UserAdds(e, f) \/ UserRemoves(e, f)
      PROVE  HeldHere(d, f)'
  <2>1. db' = db /\ recorded' = recorded /\ removed \subseteq removed'
    BY <1>1 DEF UserAdds, UserRemoves
  <2>2. UserRemoves(e, f) => <<e, f>> \in removed'
    BY DEF UserRemoves
  <2>3. Attested(d, f) => Attested(d, f)' \/ (UserRemoves(e, f) /\ d = e)
    BY <1>1, UserDisks DEF Base, TakesNothing
  <2> QED
    BY <2>1, <2>2, <2>3 DEF HeldHere
<1>2. CASE BringsBack(f)
  <2>1. <<d, f>> \notin db'.holds
    BY <1>2, BringsBackColumns DEF BringsBack, Base
  <2> QED
    BY <2>1 DEF HeldHere
<1>3. CASE DiscardsFont(f)
  <2>1. f \in db'.deleted
    BY <1>3, DeleteFontColumns DEF DiscardsFont, Base
  <2> QED
    BY <2>1 DEF HeldHere, Active
<1>4. CASE TimePasses(f)
  <2>1. db'.rows = db.rows /\ db'.deleted = db.deleted /\ db'.holds = db.holds
    BY <1>4, GraceColumns DEF TimePasses, Base
  <2>2. TakesNothing(f)
    BY <1>4, StillDisks DEF TimePasses
  <2> QED
    BY <1>4, <2>1, <2>2 DEF TimePasses, historyVars, HeldHere, Active, TakesNothing
<1> QED
  BY <1>1, <1>2, <1>3, <1>4

HeldInv == Base /\ \A f \in Font, d \in Device : HeldHere(d, f)

LEMMA HeldInvariance == SyncSpec => []HeldInv
<1>1. SyncInit => HeldInv
  BY BaseInit DEF SyncInit, Init, HeldInv, HeldHere, Active
<1>2. HeldInv /\ [SyncNext]_syncVars => HeldInv'
  <2> SUFFICES ASSUME HeldInv, [SyncNext]_syncVars PROVE HeldInv'
    OBVIOUS
  <2>1. Base /\ Base'
    BY BaseStep DEF HeldInv
  <2>2. ASSUME NEW f \in Font, NEW d \in Device PROVE HeldHere(d, f)'
    <3>1. HeldHere(d, f)
      BY DEF HeldInv
    <3>2. Unaffected(f) \/ Affected(f)
      BY <2>1, StepAffects
    <3> QED
      BY <2>1, <3>1, <3>2, HeldUnaffected, HeldDelta, HeldRun, HeldUsers DEF Affected
  <2> QED
    BY <2>1, <2>2 DEF HeldInv
<1> QED
  BY <1>1, <1>2, PTL DEF SyncSpec

(* Only a delta deletes a font when no user does. *)
LEMMA OnlyDeltasDelete ==
  ASSUME Base, [SyncNext]_syncVars, NEW f \in Font, gestures' = gestures,
         f \in db'.deleted \ db.deleted
  PROVE  \E r \in Run : DeltaStep(r)
<1>1. Affected(f)
  BY StepAffects DEF Unaffected, Untouched
<1>2. gestures \in Int
  BY RunAssumption DEF Base, SyncTypeOK
<1>3. ~Gesture
  BY <1>2 DEF Gesture
<1>4. ~TimePasses(f)
  BY GraceColumns DEF TimePasses, Base
<1>5. \A r \in Run : ~Arrives(r) /\ ~PushFont(r, f) /\ ~PullFont(r, f)
  <2> SUFFICES ASSUME NEW r \in Run, Arrives(r) \/ PushFont(r, f) \/ PullFont(r, f)
               PROVE  FALSE
    OBVIOUS
  <2>1. DeviceOf[r] \in Device
    BY RunFields DEF Base
  <2> QED
    BY <2>1, RegisterColumns, PushColumns, PullColumns
       DEF Base, Arrives, Register, PushFont, PullFont, Untouched
<1> QED
  BY <1>1, <1>3, <1>4, <1>5 DEF Affected, UserAdds, UserRemoves, BringsBack, DiscardsFont

(* Neither a deactivation nor the agent's own work passes for a deletion,   *)
(* for every set of devices and processes: a font is taken out of the       *)
(* library on account of a device only after a user took the file off it,   *)
(* or before its runs agreed on a fresh association.                        *)
THEOREM DetectedFontsWereRemoved == SyncSpec => OnlyRemovalsAreDetected
<1>1. HeldInv /\ Base' /\ [SyncNext]_syncVars =>
        [\A d \in Device, f \in Font :
           (/\ gestures' = gestures
            /\ f \in db'.deleted \ db.deleted
            /\ <<d, f>> \in db.holds \ db'.holds)
           => <<d, f>> \in removed \cup recorded]_syncVars
  <2> SUFFICES ASSUME HeldInv, Base', [SyncNext]_syncVars, NEW d \in Device, NEW f \in Font,
                      gestures' = gestures, f \in db'.deleted \ db.deleted,
                      <<d, f>> \in db.holds \ db'.holds,
                      <<d, f>> \notin removed \cup recorded
               PROVE  FALSE
    OBVIOUS
  <2>1. PICK r \in Run : DeltaStep(r)
    BY OnlyDeltasDelete DEF HeldInv
  <2>2. DeltaEffect(DeviceOf[r], Declared(r)) /\ run[r].at = "registered"
    BY <2>1, DeltaColumns DEF HeldInv, DeltaStep, Delta, DeltaAnswerLost
  <2>3. f \in Disappeared(db, DeviceOf[r], Declared(r)) /\ f \in db'.rows
    BY <2>2 DEF DeltaEffect, Base, IInv, Agreement, Agrees, RowsAgree
  <2>4. f \in Active(db) /\ f \notin Declared(r) /\ d = DeviceOf[r]
    BY <2>2, <2>3 DEF DeltaEffect, Disappeared
  <2>5. Attested(d, f)
    BY <2>4 DEF HeldInv, HeldHere
  <2> QED
    BY <2>2, <2>4, <2>5 DEF Attested
<1>2. HeldInv => Base
  BY DEF HeldInv
<1> QED
  BY <1>1, <1>2, HeldInvariance, PTL DEF SyncSpec, OnlyRemovalsAreDetected
==============================================================================
