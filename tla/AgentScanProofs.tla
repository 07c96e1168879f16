---------------------------- MODULE AgentScanProofs ----------------------------
(***************************************************************************)
(* Proofs about AgentScan for any disk, any number of runs that share the  *)
(* cache and any number of changes under them: declared hashes are true    *)
(* and nothing that stayed is missed.                                      *)
(***************************************************************************)
EXTENDS AgentScan, TLAPS

IsFile(p) == disk[p] # None

(* An entry tells the content of the file of its stamp, wherever that has  *)
(* been moved, unless it is crossed.                                       *)
EntryOK(p, e) ==
  e # None =>
    /\ e.stamp <= changes
    /\ <<p, e.stamp>> \notin crossed =>
         \A q \in Path : IsFile(q) /\ disk[q].stamp = e.stamp => disk[q].content = e.hash

CacheOK(c) == \A p \in Path : EntryOK(p, c[p])

(* A run x has seen what is on the disk (h), and what it has in hand is    *)
(* not to be ignored.                                                      *)
SightOK(x, h) ==
  /\ x.todo \subseteq Path \ Ignored
  /\ x.at \in {"reading", "open"} =>
       /\ x.path \in Path \ Ignored
       /\ x.stamp <= changes
       /\ \E e \in h : e[1] = x.path /\ e[2].stamp = x.stamp
  /\ x.at # "idle" => Held(disk) \subseteq h

(* The open file f is the one of its stamp, wherever it is now. *)
FileOK(f) ==
  /\ f \in File
  /\ f.stamp <= changes
  /\ \A q \in Path : IsFile(q) /\ disk[q].stamp = f.stamp => disk[q] = f

(* The open file, if it still has the stamp of the stat, was at its path   *)
(* and has been read as it is.                                             *)
ReadOK(x, h) ==
  x.at = "open" =>
    /\ FileOK(x.file)
    /\ x.file.stamp = x.stamp =>
         <<x.path, x.file>> \in h /\ x.read = {x.file.content}

(* A kept file is where it was and has yet to be looked at, or its content *)
(* is declared.                                                            *)
KeptOK(x, k) ==
  /\ k \subseteq Owned(disk)
  /\ x.at = "listing" => \A h \in k : Folder[h[1]] = "fonts" => h[1] \in x.todo
  /\ x.at = "hashing" => \A h \in k : h[1] \in x.todo \/ h \in x.declared
  /\ x.at = "reading" =>
       \A h \in k : h[1] \in x.todo \cup {x.path} \/ h \in x.declared
  /\ x.at = "open" =>
       \A h \in k : \/ h[1] \in x.todo \/ h \in x.declared
                   \/ (h[1] = x.path /\ (Torn \in x.read \/ x.read = {h[2]}))
  /\ x.at \in {"truncated", "writing", "done"} =>
       \A h \in k : \E d \in x.declared : d[2] = h[2]

(* HashesAreTrue of one run. *)
TrueOK(x, h) ==
  \A d \in x.declared : \E e \in h :
    e[1] = d[1] /\ (e[2].content = d[2] \/ <<e[1], e[2].stamp>> \in crossed)

RunOK(x, h, k) ==
  /\ CacheOK(x.entries)
  /\ SightOK(x, h)
  /\ ReadOK(x, h)
  /\ KeptOK(x, k)
  /\ TrueOK(x, h)

(* A stamp belongs to one file. *)
DiskOK ==
  /\ disk \in [Path -> File \cup {None}]
  /\ changes \in 0..MaxChanges
  /\ \A p \in Path : IsFile(p) => disk[p].stamp <= changes
  /\ \A p, q \in Path :
       IsFile(p) /\ IsFile(q) /\ disk[p].stamp = disk[q].stamp => disk[p] = disk[q]

CachesOK ==
  /\ saved \in Cache \cup {Garbage} /\ tmp \in Cache \cup {Garbage, None}
  /\ saved # Garbage => CacheOK(saved)
  /\ tmp \notin {None, Garbage} => CacheOK(tmp)
  /\ crossed \subseteq Path \X Stamp

RunsOK ==
  /\ run \in [Run -> RunState]
  /\ had \in [Run -> SUBSET (Path \X File)]
  /\ kept \in [Run -> SUBSET (Path \X Content)]
  /\ \A r \in Run : RunOK(run[r], had[r], kept[r])

IInv == DiskOK /\ CachesOK /\ RunsOK

-----------------------------------------------------------------------------
(* What the histories are made of. *)

LEMMA HeldFiles ==
  ASSUME NEW h
  PROVE  h \in Held(disk) <=> \E p \in Path \ Ignored : IsFile(p) /\ h = <<p, disk[p]>>
BY DEF Held, IsFile

LEMMA OwnedFiles ==
  ASSUME NEW h
  PROVE  h \in Owned(disk) <=>
           \E p \in Path \ Ignored : /\ IsFile(p) /\ Folder[p] # "elsewhere"
                                     /\ h = <<p, disk[p].content>>
<1>1. h \in Owned(disk) <=>
        \E k \in Held(disk) : Folder[k[1]] # "elsewhere" /\ h = <<k[1], k[2].content>>
  BY DEF Owned
<1>2. ASSUME NEW k \in Held(disk), Folder[k[1]] # "elsewhere", h = <<k[1], k[2].content>>
      PROVE  \E p \in Path \ Ignored : /\ IsFile(p) /\ Folder[p] # "elsewhere"
                                       /\ h = <<p, disk[p].content>>
  <2>1. PICK p \in Path \ Ignored : IsFile(p) /\ k = <<p, disk[p]>>
    BY HeldFiles
  <2> QED
    BY <1>2, <2>1
<1>3. ASSUME NEW p \in Path \ Ignored, IsFile(p), Folder[p] # "elsewhere",
             h = <<p, disk[p].content>>
      PROVE  h \in Owned(disk)
  <2>1. <<p, disk[p]>> \in Held(disk)
    BY <1>3, HeldFiles
  <2> QED
    BY <1>1, <1>3, <2>1
<1> QED
  BY <1>1, <1>2, <1>3

LEMMA HistoryTypes ==
  ASSUME DiskOK
  PROVE  Held(disk) \subseteq Path \X File /\ Owned(disk) \subseteq Path \X Content
<1>1. \A p \in Path : IsFile(p) => disk[p] \in File
  BY DEF DiskOK, IsFile
<1>2. \A p \in Path : IsFile(p) => disk[p].content \in Content
  BY <1>1 DEF File
<1> QED
  BY <1>1, <1>2, HeldFiles, OwnedFiles

LEMMA IdleType == NoCache \in Cache /\ Idle \in RunState
<1>1. NoCache \in Cache
  BY DEF NoCache, Cache
<1> QED
  BY <1>1, ScanAssumption DEF Idle, RunState, Step, Stamp

LEMMA IdleRun == RunOK(Idle, {}, {})
<1>1. CacheOK(NoCache)
  BY DEF CacheOK, EntryOK, NoCache
<1> QED
  BY <1>1 DEF RunOK, Idle, SightOK, ReadOK, KeptOK, TrueOK

LEMMA InvariantTypes ==
  ASSUME IInv PROVE TypeOK
BY DEF IInv, DiskOK, CachesOK, RunsOK, TypeOK

-----------------------------------------------------------------------------
(* A step of a run alone. *)

(* x is what becomes of the run r, h and k of its histories. *)
Becoming(r, x, h, k) ==
  /\ run' = [run EXCEPT ![r] = x]
  /\ had' = [had EXCEPT ![r] = h]
  /\ kept' = [kept EXCEPT ![r] = k]
  /\ UNCHANGED <<disk, changes>>

LEMMA KeptStays ==
  ASSUME UNCHANGED disk, NEW x, NEW k, KeptOK(x, k)
  PROVE  KeptOK(x, k)'
BY DEF KeptOK, Owned, Held

(* Nothing a run rests on is lost when the disk stays and crossed grows. *)
LEMMA RunStays ==
  ASSUME UNCHANGED <<disk, changes>>, crossed \subseteq crossed',
         NEW x, NEW h, NEW k, RunOK(x, h, k)
  PROVE  RunOK(x, h, k)'
<1>1. CacheOK(x.entries)'
  BY DEF RunOK, CacheOK, EntryOK, IsFile
<1>2. SightOK(x, h)'
  BY DEF RunOK, SightOK, Held
<1>3. KeptOK(x, k)'
  BY KeptStays DEF RunOK
<1>4. TrueOK(x, h)'
  BY DEF RunOK, TrueOK
<1>5. ReadOK(x, h)'
  BY DEF RunOK, ReadOK, FileOK, IsFile
<1> QED
  BY <1>1, <1>2, <1>3, <1>4, <1>5 DEF RunOK

LEMMA CacheStays ==
  ASSUME UNCHANGED <<disk, changes>>, crossed \subseteq crossed',
         NEW c, CacheOK(c)
  PROVE  CacheOK(c)'
BY DEF CacheOK, EntryOK, IsFile

LEMMA OneRun ==
  ASSUME IInv, NEW r \in Run, NEW x \in RunState,
         NEW h \in SUBSET (Path \X File), NEW k \in SUBSET (Path \X Content),
         Becoming(r, x, h, k), RunOK(x, h, k)',
         crossed \subseteq crossed', CachesOK'
  PROVE  IInv'
<1>1. DiskOK'
  BY DEF IInv, DiskOK, Becoming, IsFile
<1>2. /\ run' \in [Run -> RunState]
      /\ had' \in [Run -> SUBSET (Path \X File)]
      /\ kept' \in [Run -> SUBSET (Path \X Content)]
  BY DEF IInv, RunsOK, Becoming
<1>3. ASSUME NEW q \in Run
      PROVE  RunOK(run[q], had[q], kept[q])'
  <2>1. CASE q = r
    <3>1. run'[q] = x /\ had'[q] = h /\ kept'[q] = k
      BY <2>1 DEF IInv, RunsOK, Becoming
    <3> QED
      BY <3>1
  <2>2. CASE q # r
    <3>1. run'[q] = run[q] /\ had'[q] = had[q] /\ kept'[q] = kept[q]
      BY <2>2 DEF IInv, RunsOK, Becoming
    <3>2. RunOK(run[q], had[q], kept[q])
      BY DEF IInv, RunsOK
    <3>3. UNCHANGED <<disk, changes>>
      BY DEF Becoming
    <3>4. PICK y, l, m : y = run[q] /\ l = had[q] /\ m = kept[q]
      OBVIOUS
    <3>5. RunOK(y, l, m)
      BY <3>2, <3>4
    <3>6. RunOK(y, l, m)'
      BY <3>3, <3>5, RunStays
    <3>7. run'[q] = y /\ had'[q] = l /\ kept'[q] = m
      BY <3>1, <3>4
    <3> QED
      BY <3>6, <3>7
  <2> QED
    BY <2>1, <2>2
<1> QED
  BY <1>1, <1>2, <1>3 DEF IInv, RunsOK

-----------------------------------------------------------------------------
(* What each step of a run makes of its record. *)

LEMMA RunTypes ==
  ASSUME IInv, NEW r \in Run
  PROVE  /\ run[r] \in RunState
         /\ run[r].todo \subseteq Path \ Ignored /\ run[r].seen \subseteq Path
         /\ run[r].entries \in Cache /\ run[r].stamp \in Stamp
         /\ run[r].declared \subseteq Path \X Hash
         /\ had[r] \subseteq Path \X File /\ kept[r] \subseteq Path \X Content
         /\ RunOK(run[r], had[r], kept[r])
<1>1. run[r] \in RunState /\ RunOK(run[r], had[r], kept[r])
  BY DEF IInv, RunsOK
<1>2. run[r].todo \subseteq Path \ Ignored
  BY <1>1 DEF RunOK, SightOK
<1>3. had[r] \subseteq Path \X File /\ kept[r] \subseteq Path \X Content
  BY DEF IInv, RunsOK
<1> QED
  BY <1>1, <1>2, <1>3 DEF RunState

LEMMA DiscoverRun ==
  ASSUME IInv, NEW r \in Run, Discover(r)
  PROVE  \E x \in RunState :
           /\ Becoming(r, x, Held(disk), Owned(disk))
           /\ x.at = "listing"
           /\ Listed("fonts") \subseteq x.todo /\ x.todo \subseteq Path \ Ignored
           /\ x.entries = NoCache
           /\ x.declared = {}
<1>1. PICK indexed \in SUBSET CoreText :
        run' = [run EXCEPT ![r] = [Idle EXCEPT !.at = "listing",
                                     !.todo = Listed("fonts") \cup indexed]]
  BY DEF Discover
<1> DEFINE t == Listed("fonts") \cup indexed
           x == [Idle EXCEPT !.at = "listing", !.todo = t]
<1>2. t \subseteq Path \ Ignored /\ Listed("fonts") \subseteq t
  BY DEF Listed, CoreText
<1>3. Becoming(r, x, Held(disk), Owned(disk))
  BY <1>1 DEF Discover, Becoming
<1> HIDE DEF t
<1>4. x \in RunState
  BY <1>2, IdleType DEF RunState, Step
<1>5. x.at = "listing" /\ x.todo = t /\ x.entries = NoCache /\ x.declared = {}
  BY DEF Idle
<1> QED
  BY <1>2, <1>3, <1>4, <1>5

LEMMA ListDisabledRun ==
  ASSUME IInv, NEW r \in Run, ListDisabled(r)
  PROVE  \E x \in RunState :
           /\ Becoming(r, x, had[r], kept[r])
           /\ x.at = "hashing"
           /\ x.todo = run[r].todo \cup Listed("disabled")
           /\ x.entries = IF saved = Garbage THEN NoCache ELSE saved
           /\ x.declared = run[r].declared
<1> DEFINE c == IF saved = Garbage THEN NoCache ELSE saved
           t == run[r].todo \cup Listed("disabled")
           x == [run[r] EXCEPT !.at = "hashing", !.todo = t, !.entries = c]
<1>1. run[r] \in RunState /\ run \in [Run -> RunState]
  BY RunTypes DEF IInv, RunsOK
<1>2. c \in Cache
  BY IdleType DEF IInv, CachesOK
<1>3. t \in SUBSET Path
  BY <1>1 DEF RunState, Listed
<1>4. run' = [run EXCEPT ![r].at = "hashing", ![r].todo = t, ![r].entries = c]
  BY <1>1 DEF ListDisabled
<1> HIDE DEF c, t
<1>5. x \in RunState
  BY <1>1, <1>2, <1>3 DEF RunState, Step
<1>6. run' = [run EXCEPT ![r] = x]
  BY <1>1, <1>4
<1>7. Becoming(r, x, had[r], kept[r])
  BY <1>6 DEF Becoming, ListDisabled, IInv, RunsOK
<1>8. x.at = "hashing" /\ x.todo = t /\ x.entries = c /\ x.declared = run[r].declared
  BY <1>1 DEF RunState
<1> QED
  BY <1>5, <1>7, <1>8 DEF t, c

LEMMA StatRun ==
  ASSUME IInv, NEW r \in Run, Stat(r)
  PROVE  \E p \in run[r].todo, x \in RunState, k \in SUBSET kept[r] :
           /\ Becoming(r, x, had[r], k)
           /\ \A h \in k : ~(h[1] = p /\ IsFile(p) /\ <<p, disk[p].stamp>> \in crossed)
           /\ x.todo = run[r].todo \ {p}
           /\ x.entries = run[r].entries
           /\ \/ /\ ~IsFile(p)
                 /\ x.at = "hashing" /\ x.declared = run[r].declared
              \/ /\ IsFile(p) /\ Hit(r, p)
                 /\ x.at = "hashing"
                 /\ x.declared = run[r].declared \cup {<<p, run[r].entries[p].hash>>}
              \/ /\ IsFile(p)
                 /\ x.at = "reading" /\ x.path = p /\ x.stamp = disk[p].stamp
                 /\ x.declared = run[r].declared
<1>1. PICK p \in run[r].todo :
        /\ IF disk[p] = None
           THEN run' = [run EXCEPT ![r].todo = @ \ {p}]
           ELSE IF Hit(r, p)
           THEN run' = [run EXCEPT
                  ![r].todo = @ \ {p}, ![r].seen = @ \cup {p},
                  ![r].declared = @ \cup {<<p, run[r].entries[p].hash>>}]
           ELSE run' = [run EXCEPT
                  ![r].todo = @ \ {p}, ![r].seen = @ \cup {p},
                  ![r].at = "reading", ![r].path = p, ![r].stamp = disk[p].stamp]
        /\ kept' = [kept EXCEPT ![r] =
             {h \in @ : ~(/\ h[1] = p
                          /\ disk[p] # None
                          /\ <<p, disk[p].stamp>> \in crossed)}]
  BY DEF Stat
<1> DEFINE k == {h \in kept[r] : ~(/\ h[1] = p
                                   /\ disk[p] # None
                                   /\ <<p, disk[p].stamp>> \in crossed)}
           t == run[r].todo \ {p}
           s == run[r].seen \cup {p}
           d == run[r].declared \cup {<<p, run[r].entries[p].hash>>}
<1>2. run[r] \in RunState /\ run \in [Run -> RunState] /\ run[r].at = "hashing"
  BY RunTypes DEF IInv, RunsOK, Stat
<1>3. p \in Path /\ t \in SUBSET Path /\ s \in SUBSET Path
  BY RunTypes
<1>4. ASSUME NEW x, run' = [run EXCEPT ![r] = x]
      PROVE  /\ Becoming(r, x, had[r], k)
             /\ \A h \in k : ~(h[1] = p /\ IsFile(p) /\ <<p, disk[p].stamp>> \in crossed)
             /\ k \in SUBSET kept[r]
  BY <1>1, <1>4 DEF Becoming, Stat, IInv, RunsOK, IsFile
<1>5. CASE ~IsFile(p)
  <2> DEFINE x == [run[r] EXCEPT !.todo = t]
  <2>1. run' = [run EXCEPT ![r].todo = t]
    BY <1>1, <1>2, <1>5 DEF IsFile
  <2> HIDE DEF t, k
  <2>2. x \in RunState
    BY <1>2, <1>3 DEF RunState
  <2>3. run' = [run EXCEPT ![r] = x]
    BY <1>2, <2>1
  <2>4. x.todo = t /\ x.entries = run[r].entries /\ x.at = "hashing"
        /\ x.declared = run[r].declared
    BY <1>2 DEF RunState
  <2> HIDE DEF x
  <2> QED
    BY <1>4, <1>5, <2>2, <2>3, <2>4 DEF t
<1>6. CASE IsFile(p) /\ Hit(r, p)
  <2> DEFINE x == [run[r] EXCEPT !.todo = t, !.seen = s, !.declared = d]
  <2>1. run' = [run EXCEPT ![r].todo = t, ![r].seen = s, ![r].declared = d]
    BY <1>1, <1>2, <1>6 DEF IsFile
  <2>2. d \in SUBSET (Path \X Hash)
    BY <1>3, <1>6, RunTypes DEF Hit, Cache, Entry
  <2> HIDE DEF t, k, s, d
  <2>3. x \in RunState
    BY <1>2, <1>3, <2>2 DEF RunState
  <2>4. run' = [run EXCEPT ![r] = x]
    BY <1>2, <2>1
  <2>5. x.todo = t /\ x.entries = run[r].entries /\ x.at = "hashing" /\ x.declared = d
    BY <1>2 DEF RunState
  <2> HIDE DEF x
  <2> QED
    BY <1>4, <1>6, <2>3, <2>4, <2>5 DEF t, d
<1>7. CASE IsFile(p) /\ ~Hit(r, p)
  <2> DEFINE m == disk[p].stamp
             x == [run[r] EXCEPT !.todo = t, !.seen = s, !.at = "reading",
                                 !.path = p, !.stamp = m]
  <2>1. run' = [run EXCEPT ![r].todo = t, ![r].seen = s, ![r].at = "reading",
                           ![r].path = p, ![r].stamp = m]
    BY <1>1, <1>2, <1>7 DEF IsFile
  <2>2. m \in Stamp
    BY <1>3, <1>7 DEF IInv, DiskOK, IsFile, File
  <2> HIDE DEF t, k, s, m
  <2>3. x \in RunState
    BY <1>2, <1>3, <2>2 DEF RunState, Step
  <2>4. run' = [run EXCEPT ![r] = x]
    BY <1>2, <2>1
  <2>5. /\ x.todo = t /\ x.entries = run[r].entries /\ x.at = "reading"
        /\ x.path = p /\ x.stamp = m /\ x.declared = run[r].declared
    BY <1>2 DEF RunState
  <2> HIDE DEF x
  <2> QED
    BY <1>4, <1>7, <2>3, <2>4, <2>5 DEF t, m
<1> QED
  BY <1>5, <1>6, <1>7

LEMMA OpenRun ==
  ASSUME IInv, NEW r \in Run, Open(r)
  PROVE  \E x \in RunState :
           /\ Becoming(r, x, had[r], kept[r])
           /\ x.at = "open"
           /\ x.todo = run[r].todo
           /\ x.path = run[r].path /\ x.stamp = run[r].stamp
           /\ x.file = disk[run[r].path] /\ x.read = {disk[run[r].path].content}
           /\ x.entries = run[r].entries
           /\ x.declared = run[r].declared
<1> DEFINE f == disk[run[r].path]
           h == {f.content}
           x == [run[r] EXCEPT !.at = "open", !.file = f, !.read = h]
<1>1. run[r] \in RunState /\ run \in [Run -> RunState] /\ run[r].at = "reading"
  BY RunTypes DEF IInv, RunsOK, Open
<1>2. run[r].path \in Path
  BY <1>1, RunTypes DEF RunOK, SightOK
<1>3. f \in File
  BY <1>2 DEF Open, IInv, DiskOK
<1>4. h \in SUBSET Hash
  BY <1>3 DEF File, Hash
<1>5. run' = [run EXCEPT ![r].at = "open", ![r].file = f, ![r].read = h]
  BY <1>1 DEF Open
<1> HIDE DEF f, h
<1>6. x \in RunState
  BY <1>1, <1>3, <1>4 DEF RunState, Step
<1>7. run' = [run EXCEPT ![r] = x]
  BY <1>1, <1>5
<1>8. Becoming(r, x, had[r], kept[r])
  BY <1>7 DEF Becoming, Open, IInv, RunsOK
<1>9. /\ x.at = "open" /\ x.todo = run[r].todo /\ x.path = run[r].path
      /\ x.stamp = run[r].stamp /\ x.file = f /\ x.read = h
      /\ x.entries = run[r].entries /\ x.declared = run[r].declared
  BY <1>1 DEF RunState
<1> QED
  BY <1>6, <1>8, <1>9 DEF f, h

LEMMA ReadRun ==
  ASSUME IInv, NEW r \in Run, Read(r)
  PROVE  \E z \in run[r].read, x \in RunState :
           /\ Becoming(r, x, had[r],
                {h \in kept[r] : ~(h[1] = run[r].path /\ Torn \in run[r].read)})
           /\ x.at = "hashing"
           /\ x.todo = run[r].todo
           /\ run[r].path \in Path \ Ignored
           /\ x.entries = [run[r].entries EXCEPT ![run[r].path] =
                             [stamp |-> run[r].stamp, hash |-> z]]
           /\ x.declared = run[r].declared \cup {<<run[r].path, z>>}
<1>1. PICK z \in run[r].read :
        run' = [run EXCEPT ![r].at = "hashing",
                  ![r].path = None, ![r].file = None, ![r].read = {},
                  ![r].entries[run[r].path] = [stamp |-> run[r].stamp, hash |-> z],
                  ![r].declared = @ \cup {<<run[r].path, z>>}]
  BY DEF Read
<1> DEFINE p == run[r].path
           e == [stamp |-> run[r].stamp, hash |-> z]
           c == [run[r].entries EXCEPT ![p] = e]
           d == run[r].declared \cup {<<p, z>>}
           x == [run[r] EXCEPT !.at = "hashing", !.path = None, !.file = None,
                               !.read = {}, !.entries = c, !.declared = d]
<1>2. run[r] \in RunState /\ run \in [Run -> RunState] /\ run[r].at = "open"
  BY RunTypes DEF IInv, RunsOK, Read
<1>3. p \in Path \ Ignored
  BY <1>2, RunTypes DEF RunOK, SightOK
<1>4. z \in Hash
  BY <1>2 DEF RunState
<1>5. e \in Entry
  BY <1>4, RunTypes DEF Entry
<1>6. c \in Cache
  <2> HIDE DEF e, p
  <2> QED
    BY <1>3, <1>5, RunTypes DEF Cache
<1>7. d \in SUBSET (Path \X Hash)
  <2> HIDE DEF p
  <2> QED
    BY <1>3, <1>4, RunTypes
<1>8. run' = [run EXCEPT ![r].at = "hashing", ![r].path = None, ![r].file = None,
                         ![r].read = {}, ![r].entries = c, ![r].declared = d]
  BY <1>1, <1>2
<1>9. x.at = "hashing" /\ x.todo = run[r].todo /\ x.entries = c /\ x.declared = d
  <2> HIDE DEF c, d
  <2> QED
    BY <1>2 DEF RunState
<1>10. x \in RunState
  <2> HIDE DEF c, d
  <2> QED
    BY <1>2, <1>6, <1>7 DEF RunState, Step
<1>11. run' = [run EXCEPT ![r] = x]
  <2> HIDE DEF c, d
  <2> QED
    BY <1>2, <1>8
<1>12. Becoming(r, x, had[r],
                {h \in kept[r] : ~(h[1] = p /\ Torn \in run[r].read)})
  <2> HIDE DEF x
  <2> QED
    BY <1>11 DEF Becoming, Read, IInv, RunsOK
<1> QED
  <2> HIDE DEF x
  <2> QED
    BY <1>3, <1>9, <1>10, <1>12

LEMMA ReadFailsRun ==
  ASSUME IInv, NEW r \in Run, ReadFails(r)
  PROVE  \E x \in RunState :
           /\ Becoming(r, x, had[r], {h \in kept[r] : h[1] # run[r].path})
           /\ x.at = "hashing"
           /\ x.todo = run[r].todo
           /\ x.entries = run[r].entries
           /\ x.declared = run[r].declared
<1> DEFINE x == [run[r] EXCEPT !.at = "hashing", !.path = None, !.file = None, !.read = {}]
<1>1. run[r] \in RunState /\ run \in [Run -> RunState]
  BY RunTypes DEF IInv, RunsOK
<1>2. x \in RunState
  BY <1>1 DEF RunState, Step
<1>3. run' = [run EXCEPT ![r] = x]
  BY <1>1 DEF ReadFails
<1>4. Becoming(r, x, had[r], {h \in kept[r] : h[1] # run[r].path})
  BY <1>3 DEF Becoming, ReadFails, IInv, RunsOK
<1>5. /\ x.at = "hashing" /\ x.todo = run[r].todo
      /\ x.entries = run[r].entries /\ x.declared = run[r].declared
  BY <1>1 DEF RunState
<1> QED
  BY <1>2, <1>4, <1>5

LEMMA TruncateRun ==
  ASSUME IInv, NEW r \in Run, Truncate(r)
  PROVE  \E x \in RunState :
           /\ Becoming(r, x, had[r], kept[r])
           /\ x.at = "truncated"
           /\ x.todo = {}
           /\ x.entries = [p \in Path |-> IF p \in run[r].seen THEN run[r].entries[p] ELSE None]
           /\ x.declared = run[r].declared
<1> DEFINE c == [p \in Path |-> IF p \in run[r].seen THEN run[r].entries[p] ELSE None]
           x == [run[r] EXCEPT !.at = "truncated", !.out = "tmp", !.entries = c]
<1>1. run[r] \in RunState /\ run \in [Run -> RunState] /\ run[r].todo = {}
  BY RunTypes DEF IInv, RunsOK, Truncate
<1>2. c \in Cache
  BY RunTypes DEF Cache
<1>3. run' = [run EXCEPT ![r].at = "truncated", ![r].out = "tmp", ![r].entries = c]
  BY <1>1 DEF Truncate
<1> HIDE DEF c
<1>4. x \in RunState
  BY <1>1, <1>2 DEF RunState, Step
<1>5. run' = [run EXCEPT ![r] = x]
  BY <1>1, <1>3
<1>6. Becoming(r, x, had[r], kept[r])
  BY <1>5 DEF Becoming, Truncate, IInv, RunsOK
<1>7. /\ x.at = "truncated" /\ x.todo = {} /\ x.entries = c
      /\ x.declared = run[r].declared
  BY <1>1 DEF RunState
<1> QED
  BY <1>4, <1>6, <1>7 DEF c

(* What the last steps of the scan keep of the record. *)
Kin(x, y) ==
  /\ x.todo = y.todo /\ x.entries = y.entries /\ x.declared = y.declared
  /\ \/ /\ x.at = y.at /\ x.path = y.path /\ x.stamp = y.stamp
        /\ x.file = y.file /\ x.read = y.read
     \/ y.at \in {"truncated", "writing"} /\ x.at \in {"writing", "done"}

LEMMA WriteCacheRun ==
  ASSUME IInv, NEW r \in Run, WriteCache(r)
  PROVE  \E x \in RunState : Becoming(r, x, had[r], kept[r]) /\ Kin(x, run[r])
<1> DEFINE x == [run[r] EXCEPT !.at = "writing"]
<1>1. run[r] \in RunState /\ run \in [Run -> RunState] /\ run[r].at = "truncated"
  BY RunTypes DEF IInv, RunsOK, WriteCache
<1>2. x \in RunState
  BY <1>1 DEF RunState, Step
<1>3. run' = [run EXCEPT ![r] = x]
  BY <1>1 DEF WriteCache
<1>4. Becoming(r, x, had[r], kept[r])
  BY <1>3 DEF Becoming, WriteCache, IInv, RunsOK
<1>5. Kin(x, run[r])
  BY <1>1 DEF RunState, Kin
<1> QED
  BY <1>2, <1>4, <1>5

LEMMA ReplaceRuns ==
  ASSUME IInv, NEW r \in Run, Replace(r)
  PROVE  /\ run' \in [Run -> RunState]
         /\ \A q \in Run : Kin(run'[q], run[q])
<1>1. run \in [Run -> RunState] /\ run[r].at = "writing"
  BY DEF IInv, RunsOK, Replace
<1> DEFINE x == [run[r] EXCEPT !.at = "done"]
<1>2. x \in RunState /\ Kin(x, run[r])
  BY <1>1 DEF RunState, Step, Kin
<1>3. \A q \in Run : Kin(run[q], run[q])
  BY DEF Kin
<1>4. CASE run' = [run EXCEPT ![r].at = "done"]
  <2>1. run' = [run EXCEPT ![r] = x]
    BY <1>1, <1>4
  <2> HIDE DEF x
  <2> QED
    BY <1>1, <1>2, <1>3, <2>1
<1>5. CASE run' = [q \in Run |->
               IF q = r THEN [run[r] EXCEPT !.at = "done"]
               ELSE [run[q] EXCEPT !.out = IF run[q].at = "truncated" THEN "saved" ELSE @]]
  <2>1. ASSUME NEW q \in Run, q # r
        PROVE  run'[q] \in RunState /\ Kin(run'[q], run[q])
    <3> DEFINE o == IF run[q].at = "truncated" THEN "saved" ELSE run[q].out
               y == [run[q] EXCEPT !.out = o]
    <3>1. run'[q] = y
      BY <1>5, <2>1
    <3>2. run[q] \in RunState
      BY <1>1
    <3>3. o \in {"tmp", "saved"}
      BY <3>2 DEF RunState
    <3> HIDE DEF o
    <3>4. y \in RunState /\ Kin(y, run[q])
      BY <3>2, <3>3 DEF RunState, Kin
    <3> QED
      BY <3>1, <3>4
  <2>2. run'[r] = x /\ DOMAIN run' = Run /\ run' = [q \in Run |-> run'[q]]
    BY <1>5
  <2> HIDE DEF x
  <2>3. \A q \in Run : run'[q] \in RunState /\ Kin(run'[q], run[q])
    BY <1>2, <2>1, <2>2
  <2> QED
    BY <2>2, <2>3
<1> QED
  BY <1>4, <1>5 DEF Replace

-----------------------------------------------------------------------------
(* One lemma per step of a run. *)

LEMMA CachesStay ==
  ASSUME CachesOK, UNCHANGED <<disk, changes, saved, tmp>>,
         crossed \subseteq crossed', crossed' \subseteq Path \X Stamp
  PROVE  CachesOK'
BY DEF CachesOK, CacheOK, EntryOK, IsFile

LEMMA DiscoverInvariant ==
  ASSUME IInv, NEW r \in Run, Discover(r)
  PROVE  IInv'
<1>1. PICK x \in RunState :
        /\ Becoming(r, x, Held(disk), Owned(disk))
        /\ x.at = "listing"
        /\ Listed("fonts") \subseteq x.todo /\ x.todo \subseteq Path \ Ignored
        /\ x.entries = NoCache
        /\ x.declared = {}
  BY DiscoverRun
<1>2. PICK h, k : h = Held(disk) /\ k = Owned(disk)
  OBVIOUS
<1>3. h \subseteq Path \X File /\ k \subseteq Path \X Content
  BY <1>2, HistoryTypes DEF IInv
<1>4. CacheOK(x.entries)
  BY <1>1 DEF CacheOK, EntryOK, NoCache
<1>5. SightOK(x, h)
  BY <1>1, <1>2 DEF SightOK
<1>6. \A f \in k : Folder[f[1]] = "fonts" => f[1] \in x.todo
  BY <1>1, <1>2, OwnedFiles DEF Listed, IsFile
<1>7. KeptOK(x, k)
  BY <1>1, <1>2, <1>6 DEF KeptOK
<1>8. TrueOK(x, h)
  BY <1>1 DEF TrueOK
<1>9. RunOK(x, h, k)'
  BY <1>1, <1>4, <1>5, <1>7, <1>8, RunStays DEF RunOK, ReadOK, Becoming, Discover
<1>10. CachesOK'
  BY CachesStay DEF IInv, CachesOK, Discover
<1> QED
  BY <1>1, <1>2, <1>3, <1>9, <1>10, OneRun DEF Discover

LEMMA ListDisabledInvariant ==
  ASSUME IInv, NEW r \in Run, ListDisabled(r)
  PROVE  IInv'
<1>1. PICK x \in RunState :
        /\ Becoming(r, x, had[r], kept[r])
        /\ x.at = "hashing"
        /\ x.todo = run[r].todo \cup Listed("disabled")
        /\ x.entries = IF saved = Garbage THEN NoCache ELSE saved
        /\ x.declared = run[r].declared
  BY ListDisabledRun
<1>2. PICK h, k : h = had[r] /\ k = kept[r]
  OBVIOUS
<1>3. /\ h \subseteq Path \X File /\ k \subseteq Path \X Content
      /\ RunOK(run[r], h, k) /\ run[r].at = "listing"
  BY <1>2, RunTypes DEF ListDisabled
<1>4. CacheOK(x.entries)
  BY <1>1 DEF IInv, CachesOK, CacheOK, EntryOK, NoCache
<1>5. SightOK(x, h)
  BY <1>1, <1>3 DEF RunOK, SightOK, Listed
<1>6. KeptOK(x, k)
  <2>1. k \subseteq Owned(disk)
    BY <1>3 DEF RunOK, KeptOK
  <2>2. ASSUME NEW f \in k
        PROVE  f[1] \in x.todo
    <3>1. PICK p \in Path \ Ignored : /\ IsFile(p) /\ Folder[p] # "elsewhere"
                                      /\ f = <<p, disk[p].content>>
      BY <2>1, OwnedFiles
    <3>2. Folder[p] \in {"fonts", "disabled"}
      BY <3>1, ScanAssumption
    <3>3. Folder[p] = "fonts" => f[1] \in run[r].todo
      BY <1>3, <3>1 DEF RunOK, KeptOK
    <3> QED
      BY <1>1, <3>1, <3>2, <3>3 DEF Listed, IsFile
  <2> QED
    BY <1>1, <2>1, <2>2 DEF KeptOK
<1>7. TrueOK(x, h)
  BY <1>1, <1>3 DEF RunOK, TrueOK
<1>8. RunOK(x, h, k)'
  BY <1>1, <1>4, <1>5, <1>6, <1>7, RunStays DEF RunOK, ReadOK, ListDisabled
<1>9. CachesOK'
  BY CachesStay DEF IInv, CachesOK, ListDisabled
<1> QED
  BY <1>1, <1>2, <1>3, <1>8, <1>9, OneRun DEF ListDisabled

LEMMA StatInvariant ==
  ASSUME IInv, NEW r \in Run, Stat(r)
  PROVE  IInv'
<1>1. PICK p \in run[r].todo, x \in RunState, k \in SUBSET kept[r] :
        /\ Becoming(r, x, had[r], k)
        /\ \A h \in k : ~(h[1] = p /\ IsFile(p) /\ <<p, disk[p].stamp>> \in crossed)
        /\ x.todo = run[r].todo \ {p}
        /\ x.entries = run[r].entries
        /\ \/ /\ ~IsFile(p)
              /\ x.at = "hashing" /\ x.declared = run[r].declared
           \/ /\ IsFile(p) /\ Hit(r, p)
              /\ x.at = "hashing"
              /\ x.declared = run[r].declared \cup {<<p, run[r].entries[p].hash>>}
           \/ /\ IsFile(p)
              /\ x.at = "reading" /\ x.path = p /\ x.stamp = disk[p].stamp
              /\ x.declared = run[r].declared
  BY StatRun
<1>2. PICK h : h = had[r]
  OBVIOUS
<1>3. /\ h \subseteq Path \X File /\ k \subseteq Path \X Content
      /\ RunOK(run[r], h, kept[r]) /\ run[r].at = "hashing"
      /\ p \in Path \ Ignored
  BY <1>1, <1>2, RunTypes DEF Stat
<1>4. IsFile(p) => <<p, disk[p]>> \in h
  BY <1>3, HeldFiles DEF RunOK, SightOK
(* What the cache says of p is what is there, or p is crossed. *)
<1>5. IsFile(p) /\ Hit(r, p) =>
        \/ run[r].entries[p].hash = disk[p].content
        \/ <<p, disk[p].stamp>> \in crossed
  BY <1>3 DEF RunOK, CacheOK, EntryOK, Hit
<1>6. CacheOK(x.entries)
  BY <1>1, <1>3 DEF RunOK
<1>7. SightOK(x, h)
  <2>1. x.todo \subseteq Path \ Ignored /\ Held(disk) \subseteq h
    BY <1>1, <1>3 DEF RunOK, SightOK
  <2>2. CASE x.at = "hashing"
    BY <2>1, <2>2 DEF SightOK
  <2>3. CASE x.at = "reading"
    <3>1. IsFile(p) /\ x.path = p /\ x.stamp = disk[p].stamp
      BY <1>1, <2>3
    <3>2. x.stamp <= changes
      BY <1>3, <3>1 DEF IInv, DiskOK
    <3>3. \E e \in h : e[1] = x.path /\ e[2].stamp = x.stamp
      BY <1>4, <3>1
    <3> QED
      BY <1>3, <2>1, <3>1, <3>2, <3>3 DEF SightOK
  <2> QED
    BY <1>1, <2>2, <2>3
<1>8. KeptOK(x, k)
  <2>1. /\ k \subseteq Owned(disk)
        /\ \A f \in k : f[1] \in run[r].todo \/ f \in run[r].declared
    BY <1>3 DEF RunOK, KeptOK
  <2>2. ASSUME NEW f \in k, f[1] = p
        PROVE  IsFile(p) /\ f = <<p, disk[p].content>>
    BY <2>1, <2>2, OwnedFiles
  <2>3. CASE x.at = "hashing"
    <3>1. ASSUME NEW f \in k, f[1] = p
          PROVE  f \in x.declared
      BY <1>1, <1>5, <2>2, <2>3, <3>1
    <3>2. \A f \in k : f[1] \in x.todo \/ f \in x.declared
      BY <1>1, <2>1, <3>1
    <3> QED
      BY <2>1, <2>3, <3>2 DEF KeptOK
  <2>4. CASE x.at = "reading"
    BY <1>1, <2>1, <2>4 DEF KeptOK
  <2> QED
    BY <1>1, <2>3, <2>4
<1>9. TrueOK(x, h)
  <2>1. ASSUME NEW d \in run[r].declared
        PROVE  \E e \in h : e[1] = d[1] /\ (e[2].content = d[2] \/ <<e[1], e[2].stamp>> \in crossed)
    BY <1>3 DEF RunOK, TrueOK
  <2>2. ASSUME IsFile(p), Hit(r, p), NEW d, d = <<p, run[r].entries[p].hash>>
        PROVE  \E e \in h : e[1] = d[1] /\ (e[2].content = d[2] \/ <<e[1], e[2].stamp>> \in crossed)
    BY <1>4, <1>5, <2>2
  <2> QED
    BY <1>1, <2>1, <2>2 DEF TrueOK
<1>10. RunOK(x, h, k)'
  <2>1. ReadOK(x, h)
    BY <1>1 DEF ReadOK
  <2> QED
    BY <1>6, <1>7, <1>8, <1>9, <2>1, RunStays DEF RunOK, Stat
<1>11. CachesOK'
  BY CachesStay DEF IInv, CachesOK, Stat
<1> QED
  BY <1>1, <1>2, <1>3, <1>10, <1>11, OneRun DEF Stat

LEMMA OpenInvariant ==
  ASSUME IInv, NEW r \in Run, Open(r)
  PROVE  IInv'
<1>1. PICK h, k, p : h = had[r] /\ k = kept[r] /\ p = run[r].path
  OBVIOUS
<1>2. PICK x \in RunState :
        /\ Becoming(r, x, h, k)
        /\ x.at = "open"
        /\ x.todo = run[r].todo
        /\ x.path = p /\ x.stamp = run[r].stamp
        /\ x.file = disk[p] /\ x.read = {disk[p].content}
        /\ x.entries = run[r].entries
        /\ x.declared = run[r].declared
  BY <1>1, OpenRun
<1>3. /\ h \subseteq Path \X File /\ k \subseteq Path \X Content
      /\ RunOK(run[r], h, k) /\ run[r].at = "reading" /\ IsFile(p)
  BY <1>1, RunTypes DEF Open, IsFile
<1>4. p \in Path \ Ignored
  BY <1>1, <1>3 DEF RunOK, SightOK
<1>5. SightOK(x, h) /\ TrueOK(x, h) /\ CacheOK(x.entries)
  BY <1>1, <1>2, <1>3 DEF RunOK, SightOK, TrueOK
<1>6. ReadOK(x, h)
  <2>1. <<p, disk[p]>> \in h
    BY <1>3, <1>4, HeldFiles DEF RunOK, SightOK
  <2>2. FileOK(disk[p])
    BY <1>3, <1>4 DEF FileOK, IInv, DiskOK, IsFile
  <2> QED
    BY <1>2, <2>1, <2>2 DEF ReadOK
<1>7. KeptOK(x, k)
  <2>1. /\ k \subseteq Owned(disk)
        /\ \A f \in k : f[1] \in run[r].todo \cup {p} \/ f \in run[r].declared
    BY <1>1, <1>3 DEF RunOK, KeptOK
  <2>2. ASSUME NEW f \in k, f[1] = p
        PROVE  x.read = {f[2]}
    BY <1>2, <2>1, <2>2, OwnedFiles
  <2>3. \A f \in k : \/ f[1] \in x.todo \/ f \in x.declared
                     \/ (f[1] = x.path /\ (Torn \in x.read \/ x.read = {f[2]}))
    BY <1>2, <2>1, <2>2
  <2> QED
    BY <1>2, <2>1, <2>3 DEF KeptOK
<1>8. RunOK(x, h, k)'
  BY <1>5, <1>6, <1>7, RunStays DEF RunOK, Open
<1>9. CachesOK'
  BY CachesStay DEF IInv, CachesOK, Open
<1> QED
  BY <1>2, <1>3, <1>8, <1>9, OneRun DEF Open

LEMMA ReadInvariant ==
  ASSUME IInv, NEW r \in Run, Read(r)
  PROVE  IInv'
<1>1. PICK z \in run[r].read, x \in RunState :
        /\ Becoming(r, x, had[r],
             {y \in kept[r] : ~(y[1] = run[r].path /\ Torn \in run[r].read)})
        /\ x.at = "hashing"
        /\ x.todo = run[r].todo
        /\ run[r].path \in Path \ Ignored
        /\ x.entries = [run[r].entries EXCEPT ![run[r].path] =
                          [stamp |-> run[r].stamp, hash |-> z]]
        /\ x.declared = run[r].declared \cup {<<run[r].path, z>>}
  BY ReadRun
<1>2. PICK h, k, p, c, f : /\ h = had[r] /\ p = run[r].path
                           /\ k = {y \in kept[r] : ~(y[1] = run[r].path /\ Torn \in run[r].read)}
                           /\ c = run[r].entries /\ f = run[r].file
  OBVIOUS
<1>3. /\ Becoming(r, x, h, k)
      /\ x.at = "hashing"
      /\ x.todo = run[r].todo
      /\ p \in Path \ Ignored
      /\ x.entries = [c EXCEPT ![p] = [stamp |-> run[r].stamp, hash |-> z]]
      /\ x.declared = run[r].declared \cup {<<p, z>>}
  BY <1>1, <1>2
<1>4. PICK n : n = [stamp |-> run[r].stamp, hash |-> z]
  OBVIOUS
<1>5. /\ h \subseteq Path \X File /\ k \subseteq Path \X Content
      /\ RunOK(run[r], h, kept[r]) /\ run[r].at = "open"
      /\ UNCHANGED <<disk, changes>> /\ crossed \subseteq crossed'
      /\ run[r].stamp \in Stamp
  BY <1>2, RunTypes DEF Read
<1>6. crossed' \subseteq Path \X Stamp
  BY <1>2, <1>3, <1>5 DEF Read, IInv, CachesOK
(* The file is the one of the stat and was read whole, or is crossed. *)
<1>7. \/ FileOK(f) /\ f.stamp = n.stamp /\ <<p, f>> \in h /\ z = f.content
      \/ <<p, n.stamp>> \in crossed'
  <2>1. CASE f.stamp = run[r].stamp
    BY <1>2, <1>3, <1>4, <1>5, <2>1 DEF RunOK, ReadOK
  <2>2. CASE f.stamp # run[r].stamp
    BY <1>2, <1>4, <2>2 DEF Read
  <2> QED
    BY <2>1, <2>2
<1>8. EntryOK(p, n)'
  <2>1. n.stamp <= changes
    BY <1>2, <1>4, <1>5 DEF RunOK, SightOK
  <2> QED
    BY <1>4, <1>5, <1>7, <2>1 DEF EntryOK, FileOK, IsFile
<1>9. CacheOK(x.entries)'
  <2>1. CacheOK(c) /\ c \in Cache
    BY <1>2, <1>5, RunTypes DEF RunOK
  <2>2. CacheOK(c)'
    BY <1>5, <2>1, CacheStays
  <2>3. \A q \in Path \ {p} : x.entries[q] = c[q]
    BY <1>3, <2>1 DEF Cache
  <2>4. x.entries[p] = n
    BY <1>3, <1>4, <2>1 DEF Cache
  <2> QED
    BY <1>8, <2>2, <2>3, <2>4 DEF CacheOK
<1>10. SightOK(x, h)' /\ ReadOK(x, h)'
  BY <1>3, <1>5 DEF RunOK, SightOK, ReadOK, Held
<1>11. KeptOK(x, k)'
  <2>1. /\ k \subseteq Owned(disk)
        /\ \A y \in k : \/ y[1] \in run[r].todo \/ y \in run[r].declared
                        \/ (y[1] = p /\ run[r].read = {y[2]})
    BY <1>2, <1>5 DEF RunOK, KeptOK
  <2>2. ASSUME NEW y \in k, y[1] = p, run[r].read = {y[2]}
        PROVE  y \in x.declared
    <3>1. y \in Path \X Content /\ z = y[2]
      BY <1>3, <1>5, <2>2
    <3>2. y = <<p, z>>
      BY <2>2, <3>1
    <3> QED
      BY <1>3, <3>2
  <2>3. \A y \in k : y[1] \in x.todo \/ y \in x.declared
    BY <1>3, <2>1, <2>2
  <2>4. KeptOK(x, k)
    BY <1>3, <2>1, <2>3 DEF KeptOK
  <2> QED
    BY <1>5, <2>4, KeptStays
<1>12. TrueOK(x, h)'
  <2>1. ASSUME NEW d \in run[r].declared
        PROVE  \E e \in h : e[1] = d[1] /\ (e[2].content = d[2] \/ <<e[1], e[2].stamp>> \in crossed')
    BY <1>5 DEF RunOK, TrueOK
  <2>2. \E e \in h : e[1] = p /\ e[2].stamp = n.stamp
    BY <1>2, <1>4, <1>5 DEF RunOK, SightOK
  <2>3. ASSUME NEW d, d = <<p, z>>
        PROVE  \E e \in h : e[1] = d[1] /\ (e[2].content = d[2] \/ <<e[1], e[2].stamp>> \in crossed')
    BY <1>7, <2>2, <2>3
  <2> QED
    BY <1>3, <2>1, <2>3 DEF TrueOK
<1>13. RunOK(x, h, k)'
  BY <1>9, <1>10, <1>11, <1>12 DEF RunOK
<1>14. CachesOK'
  BY <1>5, <1>6, CachesStay DEF IInv, Read
<1> QED
  BY <1>3, <1>5, <1>13, <1>14, OneRun

LEMMA ReadFailsInvariant ==
  ASSUME IInv, NEW r \in Run, ReadFails(r)
  PROVE  IInv'
<1>1. PICK h, k : h = had[r] /\ k = {f \in kept[r] : f[1] # run[r].path}
  OBVIOUS
<1>2. PICK x \in RunState :
        /\ Becoming(r, x, h, k)
        /\ x.at = "hashing"
        /\ x.todo = run[r].todo
        /\ x.entries = run[r].entries
        /\ x.declared = run[r].declared
  BY <1>1, ReadFailsRun
<1>3. /\ h \subseteq Path \X File /\ k \subseteq Path \X Content
      /\ RunOK(run[r], h, kept[r]) /\ run[r].at \in {"reading", "open"}
  BY <1>1, RunTypes DEF ReadFails
<1>4. RunOK(x, h, k)
  <2>1. SightOK(x, h) /\ ReadOK(x, h) /\ TrueOK(x, h) /\ CacheOK(x.entries)
    BY <1>2, <1>3 DEF RunOK, SightOK, ReadOK, TrueOK
  <2>2. KeptOK(x, k)
    BY <1>1, <1>2, <1>3 DEF RunOK, KeptOK
  <2> QED
    BY <2>1, <2>2 DEF RunOK
<1>5. RunOK(x, h, k)'
  BY <1>4, RunStays DEF ReadFails
<1>6. CachesOK'
  BY CachesStay DEF IInv, CachesOK, ReadFails
<1> QED
  BY <1>2, <1>3, <1>5, <1>6, OneRun DEF ReadFails

LEMMA TruncateInvariant ==
  ASSUME IInv, NEW r \in Run, Truncate(r)
  PROVE  IInv'
<1>1. PICK h, k : h = had[r] /\ k = kept[r]
  OBVIOUS
<1>2. PICK x \in RunState :
        /\ Becoming(r, x, h, k)
        /\ x.at = "truncated"
        /\ x.todo = {}
        /\ x.entries = [p \in Path |-> IF p \in run[r].seen THEN run[r].entries[p] ELSE None]
        /\ x.declared = run[r].declared
  BY <1>1, TruncateRun
<1>3. /\ h \subseteq Path \X File /\ k \subseteq Path \X Content
      /\ RunOK(run[r], h, k) /\ run[r].at = "hashing" /\ run[r].todo = {}
  BY <1>1, RunTypes DEF Truncate
<1>4. RunOK(x, h, k)
  <2>1. SightOK(x, h) /\ ReadOK(x, h) /\ TrueOK(x, h)
    BY <1>2, <1>3 DEF RunOK, SightOK, ReadOK, TrueOK
  <2>2. CacheOK(x.entries)
    BY <1>2, <1>3 DEF RunOK, CacheOK, EntryOK
  <2>3. KeptOK(x, k)
    BY <1>2, <1>3 DEF RunOK, KeptOK
  <2> QED
    BY <2>1, <2>2, <2>3 DEF RunOK
<1>5. RunOK(x, h, k)'
  BY <1>4, RunStays DEF Truncate
<1>6. CachesOK'
  BY DEF IInv, CachesOK, Truncate, CacheOK, EntryOK, IsFile
<1> QED
  BY <1>2, <1>3, <1>5, <1>6, OneRun DEF Truncate

(* A record that keeps what matters is as good as the one it comes from. *)
LEMMA KinIsOK ==
  ASSUME NEW x, NEW y, NEW h, NEW k, Kin(x, y), RunOK(y, h, k)
  PROVE  RunOK(x, h, k)
<1>1. CacheOK(x.entries) /\ TrueOK(x, h)
  BY DEF Kin, RunOK, TrueOK
<1>2. SightOK(x, h) /\ ReadOK(x, h)
  BY DEF Kin, RunOK, SightOK, ReadOK
<1>3. KeptOK(x, k)
  BY DEF Kin, RunOK, KeptOK
<1> QED
  BY <1>1, <1>2, <1>3 DEF RunOK

(* What WriteCache adds to crossed: the entries of a mixture that are      *)
(* neither e's nor f's.                                                    *)
Crossing(data, e, f) ==
  crossed \cup {<<p, data[p].stamp>> : p \in {o \in Path : data[o] \notin {None, e[o], f[o]}}}

LEMMA BlendsAreEntries ==
  ASSUME NEW e \in Entry \cup {None}, NEW f \in Entry \cup {None}, NEW g \in Blends(e, f)
  PROVE  /\ g \in Entry \cup {None}
         /\ g # None => e # None /\ (g.stamp = e.stamp \/ (f # None /\ g.stamp = f.stamp))
<1>1. CASE e = f \/ None \in {e, f}
  BY <1>1 DEF Blends
<1>2. CASE ~(e = f \/ None \in {e, f})
  <2>1. e \in Entry /\ f \in Entry
    BY <1>2
  <2>2. g = None \/ g \in [stamp : {e.stamp, f.stamp}, hash : {e.hash, f.hash, Torn}]
    BY <1>2 DEF Blends
  <2>3. g # None => /\ g \in [stamp : Stamp, hash : Hash]
                    /\ g.stamp = e.stamp \/ g.stamp = f.stamp
    BY <2>1, <2>2 DEF Entry, Hash
  <2> QED
    BY <1>2, <2>3 DEF Entry
<1> QED
  BY <1>1, <1>2

(* A mixture of two good caches is as good, for it crosses what it mixed. *)
LEMMA MixturesAreOK ==
  ASSUME NEW e \in Cache, NEW f \in Cache, CacheOK(e), CacheOK(f),
         NEW data \in Mixtures(e, f), crossed' = Crossing(data, e, f),
         UNCHANGED <<disk, changes>>, crossed \subseteq Path \X Stamp
  PROVE  /\ data \in Cache /\ CacheOK(data)'
         /\ crossed' \subseteq Path \X Stamp /\ crossed \subseteq crossed'
<1>1. /\ DOMAIN data = Path /\ data = [p \in Path |-> data[p]]
      /\ \A p \in Path : data[p] \in Blends(e[p], f[p])
  BY DEF Mixtures
<1>2. ASSUME NEW p \in Path
      PROVE  /\ data[p] \in Entry \cup {None}
             /\ data[p] # None => /\ e[p] # None
                                  /\ \/ data[p].stamp = e[p].stamp
                                     \/ f[p] # None /\ data[p].stamp = f[p].stamp
  BY <1>1, BlendsAreEntries DEF Cache
<1>3. data \in Cache
  BY <1>1, <1>2 DEF Cache
<1>4. crossed' \subseteq Path \X Stamp /\ crossed \subseteq crossed'
  BY <1>2 DEF Crossing, Entry
<1>5. ASSUME NEW p \in Path
      PROVE  EntryOK(p, data[p])'
  <2>1. CASE data[p] \in {None, e[p], f[p]}
    <3>1. EntryOK(p, e[p]) /\ EntryOK(p, f[p])
      BY DEF CacheOK
    <3> QED
      BY <1>4, <2>1, <3>1 DEF EntryOK, IsFile
  <2>2. CASE data[p] \notin {None, e[p], f[p]}
    <3>1. <<p, data[p].stamp>> \in crossed'
      BY <2>2 DEF Crossing
    <3>2. data[p].stamp <= changes
      BY <1>2, <2>2 DEF CacheOK, EntryOK
    <3> QED
      BY <3>1, <3>2 DEF EntryOK
  <2> QED
    BY <2>1, <2>2
<1> QED
  BY <1>3, <1>4, <1>5 DEF CacheOK

LEMMA WriteCacheInvariant ==
  ASSUME IInv, NEW r \in Run, WriteCache(r)
  PROVE  IInv'
<1>1. PICK h, k : h = had[r] /\ k = kept[r]
  OBVIOUS
<1>2. PICK x \in RunState : Becoming(r, x, h, k) /\ Kin(x, run[r])
  BY <1>1, WriteCacheRun
<1>3. /\ h \subseteq Path \X File /\ k \subseteq Path \X Content
      /\ RunOK(run[r], h, k) /\ run[r].entries \in Cache
  BY <1>1, RunTypes
<1>4. crossed' = crossed => RunOK(x, h, k)'
  BY <1>2, <1>3, KinIsOK, RunStays DEF WriteCache
<1>5. CacheOK(run[r].entries)
  BY <1>3 DEF RunOK
<1>6. CASE \E data \in {run[r].entries, Garbage} :
             /\ \/ tmp' = data /\ saved' = saved
                \/ saved' = data /\ tmp' = tmp
             /\ crossed' = crossed
  <2>1. CachesOK'
    BY <1>3, <1>5, <1>6 DEF IInv, CachesOK, WriteCache, CacheOK, EntryOK, IsFile
  <2> QED
    BY <1>2, <1>3, <1>4, <1>6, <2>1, OneRun
<1>7. ASSUME NEW q \in Run, NEW data \in Mixtures(run[r].entries, run[q].entries),
             \/ tmp' = data /\ saved' = saved
             \/ saved' = data /\ tmp' = tmp,
             crossed' = Crossing(data, run[r].entries, run[q].entries)
      PROVE  IInv'
  <2>1. run[q].entries \in Cache /\ CacheOK(run[q].entries)
    BY RunTypes DEF RunOK
  <2>2. PICK e, f : e = run[r].entries /\ f = run[q].entries
    OBVIOUS
  <2>3. /\ data \in Cache /\ CacheOK(data)' /\ crossed' \subseteq Path \X Stamp
        /\ crossed \subseteq crossed'
    BY <1>3, <1>5, <1>7, <2>1, <2>2, MixturesAreOK DEF WriteCache, IInv, CachesOK
  <2>4. CachesOK'
    BY <1>7, <2>3, CacheStays DEF IInv, CachesOK, WriteCache
  <2>5. RunOK(x, h, k)'
    BY <1>2, <1>3, <2>3, KinIsOK, RunStays DEF WriteCache
  <2> QED
    BY <1>2, <1>3, <2>3, <2>4, <2>5, OneRun
<1>8. CASE /\ \E data \in {run[r].entries} \cup (IF Sharers(r) = {} THEN {} ELSE {Garbage}) :
                IF run[r].out = "tmp"
                THEN tmp' = data /\ UNCHANGED saved
                ELSE saved' = data /\ UNCHANGED tmp
           /\ UNCHANGED crossed
  BY <1>6, <1>8
<1>9. CASE \E q \in Sharers(r) : \E data \in Mixtures(run[r].entries, run[q].entries) :
             /\ IF run[r].out = "tmp"
                THEN tmp' = data /\ UNCHANGED saved
                ELSE saved' = data /\ UNCHANGED tmp
             /\ crossed' = Crossing(data, run[r].entries, run[q].entries)
  BY <1>7, <1>9 DEF Sharers
<1> QED
  BY <1>8, <1>9 DEF WriteCache, Crossing

LEMMA ReplaceInvariant ==
  ASSUME IInv, NEW r \in Run, Replace(r)
  PROVE  IInv'
<1>1. run' \in [Run -> RunState] /\ \A q \in Run : Kin(run'[q], run[q])
  BY ReplaceRuns
<1>2. ASSUME NEW q \in Run
      PROVE  RunOK(run[q], had[q], kept[q])'
  <2>1. PICK x, h, k : x = run'[q] /\ h = had[q] /\ k = kept[q]
    OBVIOUS
  <2>2. RunOK(x, h, k)
    BY <1>1, <2>1, RunTypes, KinIsOK
  <2>3. RunOK(x, h, k)'
    BY <2>2, RunStays DEF Replace
  <2> QED
    BY <2>1, <2>3 DEF Replace
<1>3. RunsOK'
  BY <1>1, <1>2 DEF IInv, RunsOK, Replace
<1>4. DiskOK'
  BY DEF IInv, DiskOK, IsFile, Replace
<1>5. CachesOK'
  BY DEF IInv, CachesOK, Replace, CacheOK, EntryOK, IsFile
<1> QED
  BY <1>3, <1>4, <1>5 DEF IInv

LEMMA LeaveInvariant ==
  ASSUME IInv, NEW r \in Run, Leave(r)
  PROVE  IInv'
<1>1. Becoming(r, Idle, {}, {})
  BY DEF Leave, Becoming
<1>2. RunOK(Idle, {}, {})'
  BY IdleRun, RunStays DEF Leave
<1>3. CachesOK'
  BY CachesStay DEF IInv, CachesOK, Leave
<1> QED
  BY <1>1, <1>2, <1>3, IdleType, OneRun DEF Leave

-----------------------------------------------------------------------------
(* The disk changes. *)

(* x is y, but for the open file: it may have been rewritten just now.  *)
Rewritten(x, y) ==
  /\ x.at = y.at /\ x.todo = y.todo /\ x.path = y.path /\ x.stamp = y.stamp
  /\ x.entries = y.entries /\ x.declared = y.declared
  /\ \/ x.file = y.file /\ x.read = y.read
     \/ /\ Torn \in x.read
        /\ x.file \in File /\ x.file.stamp = changes + 1
        /\ \A q \in Path : IsFile(q)' /\ disk'[q].stamp = x.file.stamp => disk'[q] = x.file

(* Every file of the disk as it becomes is an old one, or the only new one. *)
LEMMA DiskInvariant ==
  ASSUME IInv, NEW dsk \in [Path -> File \cup {None}],
         disk' = dsk, changes < MaxChanges, changes' = changes + 1,
         UNCHANGED <<saved, tmp, crossed>>,
         run' \in [Run -> RunState], \A r \in Run : Rewritten(run'[r], run[r]),
         \A p \in Path : dsk[p] # None =>
           dsk[p].stamp = changes + 1 \/ \E q \in Path : IsFile(q) /\ disk[q] = dsk[p],
         \A p, q \in Path : dsk[p] # None /\ dsk[p].stamp = changes + 1
           /\ dsk[q] # None /\ dsk[q].stamp = changes + 1 => p = q,
         had' = [r \in Run |-> IF run[r].at = "idle" THEN had[r] ELSE had[r] \cup Held(dsk)],
         kept' \in [Run -> SUBSET Owned(dsk)],
         \A r \in Run : \A f \in kept'[r] :
           \E h \in kept[r] : f[2] = h[2] /\ (Scanning(r) => f = h)
  PROVE  IInv'
<1>1. changes \in Nat /\ changes' \in 0..MaxChanges
  BY ScanAssumption DEF IInv, DiskOK
<1>2. \A p \in Path : IsFile(p) => disk[p].stamp <= changes /\ disk[p].stamp \in Nat
  BY DEF IInv, DiskOK, IsFile, File, Stamp
<1>3. DiskOK'
  <2>1. \A p \in Path : dsk[p] # None => dsk[p].stamp <= changes + 1
    BY <1>1, <1>2
  <2>2. ASSUME NEW p \in Path, NEW q \in Path, dsk[p] # None, dsk[q] # None,
               dsk[p].stamp = dsk[q].stamp
        PROVE  dsk[p] = dsk[q]
    <3>1. CASE dsk[p].stamp = changes + 1
      BY <2>2, <3>1
    <3>2. CASE dsk[p].stamp # changes + 1
      <4>1. PICK o \in Path : IsFile(o) /\ disk[o] = dsk[p]
        BY <2>2, <3>2
      <4>2. PICK m \in Path : IsFile(m) /\ disk[m] = dsk[q]
        BY <2>2, <3>2
      <4> QED
        BY <2>2, <4>1, <4>2 DEF IInv, DiskOK
    <3> QED
      BY <3>1, <3>2
  <2> QED
    BY <1>1, <2>1, <2>2 DEF DiskOK, IsFile
<1>4. ASSUME NEW c, CacheOK(c), \A p \in Path : c[p] # None => c[p].stamp \in Nat
      PROVE  CacheOK(c)'
  <2>1. ASSUME NEW p \in Path, c[p] # None
        PROVE  /\ c[p].stamp <= changes + 1
               /\ <<p, c[p].stamp>> \notin crossed => \A q \in Path :
                    dsk[q] # None /\ dsk[q].stamp = c[p].stamp => dsk[q].content = c[p].hash
    BY <1>1, <1>4, <2>1 DEF CacheOK, EntryOK
  <2> QED
    BY <2>1 DEF CacheOK, EntryOK, IsFile
<1>5. \A c \in Cache : \A p \in Path : c[p] # None => c[p].stamp \in Nat
  BY DEF Cache, Entry, Stamp
<1>6. CachesOK'
  <2>1. PICK s, t : s = saved /\ t = tmp
    OBVIOUS
  <2>2. s # Garbage => CacheOK(s)'
    BY <1>4, <1>5, <2>1 DEF IInv, CachesOK
  <2>3. t \notin {None, Garbage} => CacheOK(t)'
    BY <1>4, <1>5, <2>1 DEF IInv, CachesOK
  <2> QED
    BY <2>1, <2>2, <2>3 DEF IInv, CachesOK
<1>7. Held(disk') \subseteq Path \X File /\ Owned(disk') \subseteq Path \X Content
  <2>1. DiskOK' => (Held(disk) \subseteq Path \X File /\ Owned(disk) \subseteq Path \X Content)'
    BY HistoryTypes, PTL
  <2> QED
    BY <1>3, <2>1
<1>8. /\ had' \in [Run -> SUBSET (Path \X File)]
      /\ kept' \in [Run -> SUBSET (Path \X Content)]
  <2>1. \A r \in Run : had[r] \subseteq Path \X File
    BY RunTypes
  <2> QED
    BY <1>7, <2>1
<1>9. ASSUME NEW r \in Run
      PROVE  RunOK(run[r], had[r], kept[r])'
  <2>1. PICK x, h, k, y, l, m : /\ x = run[r] /\ h = had[r] /\ k = kept[r]
                                /\ y = run'[r] /\ l = had'[r] /\ m = kept'[r]
    OBVIOUS
  <2>2. /\ x \in RunState /\ y \in RunState /\ RunOK(x, h, k) /\ h \subseteq l
        /\ x.at # "idle" => Held(dsk) \subseteq l
        /\ Rewritten(y, x)
    BY <2>1, RunTypes
  <2>3. CacheOK(y.entries)'
    BY <1>4, <1>5, <2>2 DEF RunOK, RunState, Rewritten
  <2>4. SightOK(y, l)'
    <3>1. y.todo \subseteq Path \ Ignored /\ (y.at # "idle" => Held(dsk) \subseteq l)
      BY <2>2 DEF RunOK, SightOK, Rewritten
    <3>2. ASSUME y.at \in {"reading", "open"}
          PROVE  /\ y.path \in Path \ Ignored
                 /\ y.stamp <= changes'
                 /\ \E e \in l : e[1] = y.path /\ e[2].stamp = y.stamp
      BY <1>1, <2>2, <3>2 DEF RunOK, SightOK, RunState, Stamp, Rewritten
    <3> QED
      BY <3>1, <3>2 DEF SightOK
  <2>5. TrueOK(y, l)'
    <3> SUFFICES ASSUME NEW z \in x.declared
                 PROVE  \E e \in l : /\ e[1] = z[1]
                                     /\ e[2].content = z[2] \/ <<e[1], e[2].stamp>> \in crossed'
      BY <2>2 DEF TrueOK, Rewritten
    <3>1. PICK e \in h : e[1] = z[1] /\ (e[2].content = z[2] \/ <<e[1], e[2].stamp>> \in crossed)
      BY <2>2 DEF RunOK, TrueOK
    <3>2. crossed' = crossed /\ e \in l
      BY <2>2
    <3> QED
      BY <3>1, <3>2
  <2>6. ReadOK(y, l)'
    <3> SUFFICES ASSUME y.at = "open"
                 PROVE  /\ FileOK(y.file)'
                        /\ y.file.stamp = y.stamp =>
                             <<y.path, y.file>> \in l /\ y.read = {y.file.content}
      BY DEF ReadOK
    <3>1. /\ x.at = "open" /\ FileOK(x.file) /\ x.stamp <= changes /\ x.stamp \in Nat
          /\ x.file.stamp = x.stamp => <<x.path, x.file>> \in h /\ x.read = {x.file.content}
      BY <2>2 DEF RunOK, SightOK, ReadOK, RunState, Stamp, Rewritten
    <3>2. CASE y.file = x.file /\ y.read = x.read
      <4>1. x.file.stamp \in Nat /\ x.file.stamp <= changes /\ x.file \in File
        BY <3>1 DEF FileOK, File, Stamp
      <4>2. ASSUME NEW q \in Path, dsk[q] # None, dsk[q].stamp = x.file.stamp
            PROVE  dsk[q] = x.file
        <5>1. PICK o \in Path : IsFile(o) /\ disk[o] = dsk[q]
          BY <1>1, <4>1, <4>2
        <5> QED
          BY <3>1, <4>2, <5>1 DEF FileOK
      <4>3. FileOK(x.file)'
        BY <1>1, <4>1, <4>2 DEF FileOK, IsFile
      <4> QED
        BY <2>2, <3>1, <3>2, <4>3 DEF Rewritten
    <3>3. CASE /\ y.file \in File /\ y.file.stamp = changes + 1
               /\ \A q \in Path : IsFile(q)' /\ disk'[q].stamp = y.file.stamp => disk'[q] = y.file
      <4>1. FileOK(y.file)'
        BY <1>1, <3>3 DEF FileOK, IsFile
      <4>2. y.file.stamp # y.stamp
        BY <1>1, <2>2, <3>1, <3>3 DEF Rewritten
      <4> QED
        BY <4>1, <4>2
    <3> QED
      BY <2>2, <3>2, <3>3 DEF Rewritten
  <2>7. m \subseteq Owned(dsk)
    BY <2>1
  <2>8. \A f \in m : \E g \in k : f[2] = g[2] /\ (Scanning(r) => f = g)
    BY <2>1
  <2>9. KeptOK(y, m)'
    <3>1. CASE Scanning(r)
      <4>1. m \subseteq k /\ x.at \in {"listing", "hashing", "reading", "open"}
        BY <2>1, <2>8, <3>1 DEF Scanning
      <4>2. CASE x.at = "open"
        BY <2>2, <2>7, <4>1, <4>2 DEF RunOK, KeptOK, Rewritten
      <4>3. CASE x.at # "open"
        BY <2>2, <2>7, <4>1, <4>3 DEF RunOK, KeptOK, Rewritten
      <4> QED
        BY <4>2, <4>3
    <3>2. CASE ~Scanning(r)
      <4>1. x.at \notin {"listing", "hashing", "reading", "open"}
        BY <2>1, <3>2 DEF Scanning
      <4> QED
        BY <2>2, <2>7, <2>8, <4>1 DEF RunOK, KeptOK, Rewritten
    <3> QED
      BY <3>1, <3>2
  <2> QED
    BY <2>1, <2>3, <2>4, <2>5, <2>6, <2>9 DEF RunOK
<1>10. RunsOK'
  BY <1>8, <1>9 DEF IInv, RunsOK
<1> QED
  BY <1>3, <1>6, <1>10 DEF IInv

(* Runs that are left alone. *)
LEMMA RunsStay ==
  ASSUME IInv, UNCHANGED run
  PROVE  run' \in [Run -> RunState] /\ \A r \in Run : Rewritten(run'[r], run[r])
BY DEF IInv, RunsOK, Rewritten

(* A file is written at p, in place or not. *)
LEMMA WrittenInvariant ==
  ASSUME IInv, NEW p \in Path, NEW c \in Content,
         Becomes([disk EXCEPT ![p] = [content |-> c, stamp |-> changes + 1]], Stays),
         run' \in [Run -> RunState], \A r \in Run : Rewritten(run'[r], run[r])
  PROVE  IInv'
<1> DEFINE n == [content |-> c, stamp |-> changes + 1]
           dsk == [disk EXCEPT ![p] = n]
<1>1. /\ changes < MaxChanges /\ disk' = dsk /\ changes' = changes + 1
      /\ had' = [r \in Run |-> IF run[r].at = "idle" THEN had[r] ELSE had[r] \cup Held(dsk)]
      /\ kept' = [r \in Run |-> {Stays(r, h) : h \in kept[r]} \cap Owned(dsk)]
      /\ UNCHANGED <<saved, tmp, crossed>>
  BY DEF Becomes
<1>2. n \in File
  BY <1>1, ScanAssumption DEF IInv, DiskOK, File, Stamp
<1>3. dsk \in [Path -> File \cup {None}]
  BY <1>2 DEF IInv, DiskOK
<1>4. \A q \in Path \ {p} : dsk[q] # None =>
        IsFile(q) /\ disk[q] = dsk[q] /\ dsk[q].stamp # changes + 1
  BY DEF IInv, DiskOK, IsFile, File, Stamp
<1>5. dsk[p].stamp = changes + 1
  BY DEF IInv, DiskOK
<1>6. \A r \in Run : \A f \in kept'[r] :
        \E h \in kept[r] : f[2] = h[2] /\ (Scanning(r) => f = h)
  BY <1>1 DEF Stays
<1>7. kept' \in [Run -> SUBSET Owned(dsk)]
  BY <1>1
<1> HIDE DEF dsk, n
<1>8. \A q \in Path : dsk[q] # None =>
        dsk[q].stamp = changes + 1 \/ \E m \in Path : IsFile(m) /\ disk[m] = dsk[q]
  BY <1>4, <1>5
<1>9. \A q, m \in Path : dsk[q] # None /\ dsk[q].stamp = changes + 1
         /\ dsk[m] # None /\ dsk[m].stamp = changes + 1 => q = m
  BY <1>4
<1> QED
  BY <1>1, <1>3, <1>6, <1>7, <1>8, <1>9, DiskInvariant

LEMMA FileIsPutInvariant ==
  ASSUME IInv, NEW p \in Path, FileIsPut(p)
  PROVE  IInv'
BY WrittenInvariant, RunsStay DEF FileIsPut

LEMMA FileIsRewrittenInvariant ==
  ASSUME IInv, NEW p \in Path, FileIsRewritten(p)
  PROVE  IInv'
<1>1. PICK c \in Content :
        /\ Becomes([disk EXCEPT ![p] = [content |-> c, stamp |-> changes + 1]], Stays)
        /\ run' = [r \in Run |->
             IF run[r].file = disk[p]
             THEN [run[r] EXCEPT !.file = [content |-> c, stamp |-> changes + 1],
                                 !.read = @ \cup {c, Torn}]
             ELSE run[r]]
  BY DEF FileIsRewritten
<1>2. PICK f : f = [content |-> c, stamp |-> changes + 1]
  OBVIOUS
<1>3. changes < MaxChanges /\ changes + 1 \in Stamp /\ disk' = [disk EXCEPT ![p] = f]
  <2>1. /\ changes < MaxChanges
        /\ disk' = [disk EXCEPT ![p] = [content |-> c, stamp |-> changes + 1]]
    BY <1>1 DEF Becomes
  <2>2. changes + 1 \in Stamp
    BY <2>1, ScanAssumption DEF IInv, DiskOK, Stamp
  <2>3. disk' = [disk EXCEPT ![p] = f]
    BY <1>2, <2>1
  <2> QED
    BY <2>1, <2>2, <2>3
<1>4. f \in File
  BY <1>3, <1>2 DEF File
<1>5. f.stamp = changes + 1
  BY <1>2
<1>6. ASSUME NEW q \in Path, IsFile(q)', disk'[q].stamp = f.stamp
      PROVE  disk'[q] = f
  <2>1. CASE q = p
    BY <1>3, <2>1 DEF IInv, DiskOK
  <2>2. CASE q # p
    <3>1. disk'[q] = disk[q] /\ IsFile(q)
      BY <1>3, <1>6, <2>2 DEF IInv, DiskOK, IsFile
    <3>2. disk[q].stamp \in Stamp /\ disk[q].stamp <= changes
      BY <3>1 DEF IInv, DiskOK, IsFile, File
    <3> QED
      BY <1>5, <1>6, <3>1, <3>2 DEF Stamp, IInv, DiskOK
  <2> QED
    BY <2>1, <2>2
<1>7. ASSUME NEW r \in Run
      PROVE  run'[r] \in RunState /\ Rewritten(run'[r], run[r])
  <2>1. run[r] \in RunState
    BY RunTypes
  <2>2. CASE run[r].file # disk[p]
    BY <1>1, <2>1, <2>2 DEF Rewritten
  <2>3. CASE run[r].file = disk[p]
    <3> DEFINE w == run[r].read \cup {c, Torn}
               x == [run[r] EXCEPT !.file = f, !.read = w]
    <3>1. run'[r] = x
      BY <1>1, <1>2, <2>3
    <3>2. w \in SUBSET Hash /\ Torn \in w
      BY <2>1 DEF RunState, Hash
    <3> HIDE DEF w
    <3>3. x \in RunState
      BY <1>4, <2>1, <3>2 DEF RunState
    <3>4. /\ x.file = f /\ x.read = w
          /\ x.at = run[r].at /\ x.todo = run[r].todo /\ x.path = run[r].path
          /\ x.stamp = run[r].stamp /\ x.entries = run[r].entries
          /\ x.declared = run[r].declared
      BY <2>1 DEF RunState
    <3> HIDE DEF x
    <3>5. Rewritten(x, run[r])
      BY <1>4, <1>5, <1>6, <3>2, <3>4 DEF Rewritten
    <3> QED
      BY <3>1, <3>3, <3>5
  <2> QED
    BY <2>2, <2>3
<1>8. run' \in [Run -> RunState] /\ \A r \in Run : Rewritten(run'[r], run[r])
  BY <1>1, <1>7
<1> QED
  BY <1>1, <1>8, WrittenInvariant

LEMMA FileGoesInvariant ==
  ASSUME IInv, NEW p \in Path, FileGoes(p)
  PROVE  IInv'
<1> DEFINE dsk == [disk EXCEPT ![p] = None]
<1>1. /\ changes < MaxChanges /\ disk' = dsk /\ changes' = changes + 1
      /\ had' = [r \in Run |-> IF run[r].at = "idle" THEN had[r] ELSE had[r] \cup Held(dsk)]
      /\ kept' = [r \in Run |-> {Stays(r, h) : h \in kept[r]} \cap Owned(dsk)]
      /\ UNCHANGED <<saved, tmp, crossed>>
      /\ UNCHANGED run
  BY DEF FileGoes, Becomes
<1>2. dsk \in [Path -> File \cup {None}]
  BY DEF IInv, DiskOK
<1>3. \A q \in Path : dsk[q] # None =>
        IsFile(q) /\ disk[q] = dsk[q] /\ dsk[q].stamp # changes + 1
  BY DEF IInv, DiskOK, IsFile, File, Stamp
<1>4. \A r \in Run : \A f \in kept'[r] :
        \E h \in kept[r] : f[2] = h[2] /\ (Scanning(r) => f = h)
  BY <1>1 DEF Stays
<1>5. kept' \in [Run -> SUBSET Owned(dsk)]
  BY <1>1
<1> HIDE DEF dsk
<1> QED
  BY <1>1, <1>2, <1>3, <1>4, <1>5, RunsStay, DiskInvariant

LEMMA MovesInvariant ==
  ASSUME IInv, NEW p \in Path, NEW q \in Path, Moves(p, q)
  PROVE  IInv'
<1> DEFINE dsk == [disk EXCEPT ![p] = None, ![q] = disk[p]]
           Follow(r, h) == IF h[1] = p /\ ~Scanning(r) THEN <<q, h[2]>> ELSE h
<1>1. /\ IsFile(p) /\ ~IsFile(q) /\ p # q
      /\ changes < MaxChanges /\ disk' = dsk /\ changes' = changes + 1
      /\ had' = [r \in Run |-> IF run[r].at = "idle" THEN had[r] ELSE had[r] \cup Held(dsk)]
      /\ kept' = [r \in Run |-> {Follow(r, h) : h \in kept[r]} \cap Owned(dsk)]
      /\ UNCHANGED <<saved, tmp, crossed>>
      /\ UNCHANGED run
  BY DEF Moves, Becomes, IsFile
<1>2. dsk \in [Path -> File \cup {None}]
  BY DEF IInv, DiskOK
<1>3. \A o \in Path : IsFile(o) => disk[o].stamp # changes + 1
  BY DEF IInv, DiskOK, IsFile, File, Stamp
<1>4. \A o \in Path : dsk[o] # None =>
        \E m \in Path : IsFile(m) /\ disk[m] = dsk[o] /\ dsk[o].stamp # changes + 1
  BY <1>1, <1>3 DEF IInv, DiskOK, IsFile
<1>5. \A r \in Run : \A f \in kept'[r] :
        \E h \in kept[r] : f[2] = h[2] /\ (Scanning(r) => f = h)
  BY <1>1
<1>6. kept' \in [Run -> SUBSET Owned(dsk)]
  <2> HIDE DEF Follow
  <2> QED
    BY <1>1
<1> HIDE DEF dsk, Follow
<1> QED
  BY <1>1, <1>2, <1>4, <1>5, <1>6, RunsStay, DiskInvariant

-----------------------------------------------------------------------------
(* The theorems. *)

LEMMA InitInvariant ==
  ASSUME Init PROVE IInv
<1>1. DiskOK
  BY ScanAssumption DEF Init, DiskOK, IsFile
<1>2. CachesOK
  BY IdleType DEF Init, CachesOK, CacheOK, EntryOK, NoCache
<1>3. RunsOK
  BY IdleType, IdleRun DEF Init, RunsOK
<1> QED
  BY <1>1, <1>2, <1>3 DEF IInv

LEMMA StutterInvariant ==
  ASSUME IInv, UNCHANGED vars PROVE IInv'
<1>1. DiskOK'
  BY DEF IInv, DiskOK, IsFile, vars
<1>2. CachesOK'
  BY CachesStay DEF IInv, CachesOK, vars
<1>3. ASSUME NEW r \in Run
      PROVE  RunOK(run[r], had[r], kept[r])'
  <2>1. PICK x, h, k : x = run[r] /\ h = had[r] /\ k = kept[r]
    OBVIOUS
  <2>2. RunOK(x, h, k)'
    BY <2>1, RunTypes, RunStays DEF vars
  <2> QED
    BY <2>1, <2>2 DEF vars
<1>4. RunsOK'
  BY <1>3 DEF IInv, RunsOK, vars
<1> QED
  BY <1>1, <1>2, <1>4 DEF IInv

LEMMA Inductive == IInv /\ [Next]_vars => IInv'
<1> SUFFICES ASSUME IInv, [Next]_vars
             PROVE  IInv'
  OBVIOUS
<1>1. CASE \E r \in Run : \/ Discover(r) \/ ListDisabled(r) \/ Stat(r) \/ Open(r)
                          \/ Read(r) \/ ReadFails(r) \/ Truncate(r) \/ WriteCache(r)
                          \/ Replace(r) \/ Leave(r)
  BY <1>1, DiscoverInvariant, ListDisabledInvariant, StatInvariant, OpenInvariant, ReadInvariant,
     ReadFailsInvariant, TruncateInvariant, WriteCacheInvariant, ReplaceInvariant,
     LeaveInvariant
<1>2. CASE \E p \in Path : FileIsPut(p) \/ FileIsRewritten(p) \/ FileGoes(p)
  BY <1>2, FileIsPutInvariant, FileIsRewrittenInvariant, FileGoesInvariant
<1>3. CASE \E p, q \in Path : Moves(p, q)
  BY <1>3, MovesInvariant
<1>4. CASE UNCHANGED vars
  BY <1>4, StutterInvariant
<1> QED
  BY <1>1, <1>2, <1>3, <1>4 DEF Next

LEMMA Invariance == Spec => []IInv
BY InitInvariant, Inductive, PTL DEF Spec

(* The disk, the caches and the records of the runs keep their types       *)
(* (HashCache and the scan of sync_command.py).                            *)
THEOREM ScanTypeCorrect == Spec => []TypeOK
<1>1. IInv => TypeOK
  BY InvariantTypes
<1> QED
  BY <1>1, Invariance, PTL

(* HashCache.get and scan_fonts give a path the hash of a file it held     *)
(* since the run listed, for any number of runs that replace each other's  *)
(* cache and any writes under the read of a file, unless that very stamp   *)
(* of the path is recorded as crossed: its file was replaced or rewritten  *)
(* between the stat and the last chunk, or two writers mixed its entry up. *)
THEOREM HashesStayTrue == Spec => []HashesAreTrue
<1>1. IInv => HashesAreTrue
  BY DEF IInv, RunsOK, RunOK, TrueOK, HashesAreTrue
<1> QED
  BY <1>1, Invariance, PTL

(* _declared_fonts leaves out no font that stayed and could be read: the   *)
(* server takes no such font for deleted.                                  *)
THEOREM NothingIsMissed == Spec => []ScanMissesNothing
<1>1. ASSUME IInv, NEW r \in Run, run[r].at = "done"
      PROVE  {h[2] : h \in kept[r]} \subseteq {d[2] : d \in run[r].declared}
  <2>1. \A h \in kept[r] : \E d \in run[r].declared : d[2] = h[2]
    BY <1>1 DEF IInv, RunsOK, RunOK, KeptOK
  <2> QED
    BY <2>1
<1>2. IInv => ScanMissesNothing
  BY <1>1 DEF ScanMissesNothing
<1> QED
  BY <1>2, Invariance, PTL
=============================================================================
