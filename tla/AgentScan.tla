----------------------------- MODULE AgentScan -----------------------------
(***************************************************************************)
(* The scan a run begins with (agent/discovery.py, hashing.py,             *)
(* hash_cache.py): list the fonts of the disk, hash them with the help of  *)
(* the cache the previous run left, write the cache back.  The disk        *)
(* changes meanwhile, a second run of the machine scans at the same time,  *)
(* and a run may be stopped anywhere.                                      *)
(*                                                                         *)
(* A stamp is the pair (size, mtime_ns); every write of a file gives it a  *)
(* stamp of its own.  A file is read in chunks: one that is written in     *)
(* place meanwhile may get the hash of a mixture, Torn, that no file had.  *)
(* Two runs that write the cache at once leave a file that cannot be       *)
(* parsed, Garbage, or one whose entries are made of both.                 *)
(***************************************************************************)
EXTENDS Integers, FiniteSets

CONSTANTS
  Path,          \* the places a font file can be in
  Folder,        \* "fonts" (scanned), "disabled", or "elsewhere"
  Ignored,       \* the paths whose name matches ignore_patterns
  Content,       \* what files hold; a content is its own hash
  Torn,          \* the hash of a mixture
  None,          \* no file, no entry, no path
  Garbage,       \* a cache file that does not parse
  Run,           \* the processes that run the agent
  MaxChanges     \* bound on the changes of the disk

ASSUME ScanAssumption ==
  /\ Folder \in [Path -> {"fonts", "disabled", "elsewhere"}]
  /\ Ignored \subseteq Path
  /\ Torn \notin Content
  /\ MaxChanges \in Nat

VARIABLES
  disk,      \* path -> [content, stamp] or None
  changes,   \* changes of the disk so far
  saved,     \* hash_cache.json
  tmp,       \* hash_cache.json.tmp
  run,       \* per process, the run it is in
  had,       \* history: per process, what each path held since it listed
  kept,      \* history: per process, the files that never left its folders
             \*   while it scanned, and could be read
  crossed    \* history: path, stamp of files that another was hashed for, or
             \*   another version, written between the stat and the last
             \*   chunk; or that two writers of the cache mixed up

vars == <<disk, changes, saved, tmp, run, had, kept, crossed>>

Stamp == 0..MaxChanges

File == [content : Content, stamp : Stamp]

Hash == Content \cup {Torn}

Entry == [stamp : Stamp, hash : Hash]

Cache == [Path -> Entry \cup {None}]

Step == {"idle", "listing", "hashing", "reading", "open",
         "truncated", "writing", "done"}

RunState ==
  [at       : Step,
   todo     : SUBSET Path,              \* discovered, not looked at yet
   path     : Path \cup {None},         \* the file being hashed
   stamp    : Stamp,                    \* its stat
   file     : File \cup {None},         \* the open file, as it is now
   read     : SUBSET Hash,              \* what its hash may be
   entries  : Cache,                    \* HashCache._entries
   seen     : SUBSET Path,              \* HashCache._seen
   out      : {"tmp", "saved"},         \* where the file being written is now
   declared : SUBSET (Path \X Hash)]    \* the ScannedFonts

NoCache == [p \in Path |-> None]

Idle == [at |-> "idle", todo |-> {}, path |-> None, stamp |-> 0,
         file |-> None, read |-> {}, entries |-> NoCache, seen |-> {}, out |-> "tmp", declared |-> {}]

-----------------------------------------------------------------------------
(* What is on the disk *)

(* rglob, the extensions and ignore_patterns. *)
Listed(folder) ==
  {p \in Path : Folder[p] = folder /\ p \notin Ignored /\ disk[p] # None}

Held(dsk) == {<<p, dsk[p]>> : p \in {q \in Path \ Ignored : dsk[q] # None}}

(* The files the agent has to know of. *)
Owned(dsk) ==
  {<<h[1], h[2].content>> : h \in {k \in Held(dsk) : Folder[k[1]] # "elsewhere"}}

-----------------------------------------------------------------------------
(* The run *)

(* Mutant: what is in disabled/ is forgotten. *)
MutantListDisabled(r) ==
  /\ run[r].at = "listing"
  /\ run' = [run EXCEPT ![r].at = "hashing",
               ![r].entries = IF saved = Garbage THEN NoCache ELSE saved]
  /\ UNCHANGED <<disk, changes, saved, tmp, had, kept, crossed>>

(* What the index of macOS may show beyond the scanned folders: it lags.   *)
CoreText == {p \in Path \ Ignored : Folder[p] = "elsewhere" /\ disk[p] # None}

(* discover_fonts: the scanned folders, united with Core Text. *)
Discover(r) ==
  /\ run[r].at = "idle"
  /\ \E indexed \in SUBSET CoreText :
       run' = [run EXCEPT ![r] = [Idle EXCEPT !.at = "listing",
                                    !.todo = Listed("fonts") \cup indexed]]
  /\ had'  = [had EXCEPT ![r] = Held(disk)]
  /\ kept' = [kept EXCEPT ![r] = Owned(disk)]
  /\ UNCHANGED <<disk, changes, saved, tmp, crossed>>

(* The second half of _declared_fonts, and HashCache.load. *)
ListDisabled(r) ==
  /\ run[r].at = "listing"
  /\ run' = [run EXCEPT ![r].at = "hashing",
               ![r].todo = @ \cup Listed("disabled"),
               ![r].entries = IF saved = Garbage THEN NoCache ELSE saved]
  /\ UNCHANGED <<disk, changes, saved, tmp, had, kept, crossed>>

(* Mutant: an entry is good whatever the stamp. *)
MutantHit(r, p) == run[r].entries[p] # None

(* HashCache.get *)
Hit(r, p) ==
  /\ run[r].entries[p] # None
  /\ run[r].entries[p].stamp = disk[p].stamp

(* stat, and the hash when the cache has it. *)
Stat(r) ==
  /\ run[r].at = "hashing"
  /\ \E p \in run[r].todo :
       /\ IF disk[p] = None
          THEN run' = [run EXCEPT ![r].todo = @ \ {p}]    \* OSError: ignored
          ELSE IF Hit(r, p)
          THEN run' = [run EXCEPT
                 ![r].todo = @ \ {p}, ![r].seen = @ \cup {p},
                 ![r].declared = @ \cup {<<p, run[r].entries[p].hash>>}]
          ELSE run' = [run EXCEPT
                 ![r].todo = @ \ {p}, ![r].seen = @ \cup {p},
                 ![r].at = "reading", ![r].path = p, ![r].stamp = disk[p].stamp]
       /\ kept' = [kept EXCEPT ![r] =
            {h \in @ : ~(/\ h[1] = p
                         /\ disk[p] # None
                         /\ <<p, disk[p].stamp>> \in crossed)}]
  /\ UNCHANGED <<disk, changes, saved, tmp, had, crossed>>

(* hash_file opens the file that is there by then, *)
Open(r) ==
  LET f == disk[run[r].path] IN
  /\ run[r].at = "reading"
  /\ f # None
  /\ run' = [run EXCEPT ![r].at = "open", ![r].file = f, ![r].read = {f.content}]
  /\ UNCHANGED <<disk, changes, saved, tmp, had, kept, crossed>>

(* ... reads it to its end, and put: the hash goes with the stamp of stat. *)
Read(r) ==
  LET p == run[r].path IN
  /\ run[r].at = "open"
  /\ \E h \in run[r].read :
       run' = [run EXCEPT ![r].at = "hashing",
                 ![r].path = None, ![r].file = None, ![r].read = {},
                 ![r].entries[p] = [stamp |-> run[r].stamp, hash |-> h],
                 ![r].declared = @ \cup {<<p, h>>}]
  /\ crossed' = crossed \cup
       (IF run[r].file.stamp = run[r].stamp THEN {} ELSE {<<p, run[r].stamp>>})
  /\ kept' = [kept EXCEPT ![r] = {h \in @ : ~(h[1] = p /\ Torn \in run[r].read)}]
  /\ UNCHANGED <<disk, changes, saved, tmp, had>>

(* The file has gone, or cannot be read: it is not declared. *)
ReadFails(r) ==
  /\ run[r].at \in {"reading", "open"}
  /\ run' = [run EXCEPT ![r].at = "hashing",
               ![r].path = None, ![r].file = None, ![r].read = {}]
  /\ kept' = [kept EXCEPT ![r] = {h \in @ : h[1] # run[r].path}]
  /\ UNCHANGED <<disk, changes, saved, tmp, had, crossed>>

(* HashCache.save: prune, open the temporary file, *)
Truncate(r) ==
  /\ run[r].at = "hashing"
  /\ run[r].todo = {}
  /\ run' = [run EXCEPT ![r].at = "truncated", ![r].out = "tmp",
               ![r].entries = [p \in Path |-> IF p \in run[r].seen THEN @[p] ELSE None]]
  /\ tmp' = Garbage
  /\ UNCHANGED <<disk, changes, saved, had, kept, crossed>>

(* The runs that have the file open that r writes to. *)
Sharers(r) ==
  {q \in Run \ {r} : run[q].at \in {"truncated", "writing"} /\ run[q].out = run[r].out}

(* An entry of e or f, or with parts of both; one whose stamp is a mixture *)
(* is no file's.                                                           *)
Blends(e, f) ==
  IF e = f \/ None \in {e, f} THEN {e}
  ELSE [stamp : {e.stamp, f.stamp},
        hash  : {e.hash, f.hash} \cup (IF e.hash = f.hash THEN {} ELSE {Torn})]
       \cup (IF e.stamp = f.stamp THEN {} ELSE {None})

(* What two texts of the same layout may leave, flushed in blocks. *)
Mixtures(e, f) ==
  IF \A p \in Path : e[p] = None <=> f[p] = None
  THEN {c \in [Path -> UNION {Blends(e[p], f[p]) : p \in Path}] :
          \A p \in Path : c[p] \in Blends(e[p], f[p])}
  ELSE {}

(* ... write it, in one piece unless another run writes to it too, *)
WriteCache(r) ==
  /\ run[r].at = "truncated"
  /\ \/ /\ \E data \in {run[r].entries} \cup (IF Sharers(r) = {} THEN {} ELSE {Garbage}) :
            IF run[r].out = "tmp"
            THEN tmp' = data /\ UNCHANGED saved
            ELSE saved' = data /\ UNCHANGED tmp
       /\ UNCHANGED crossed
     \/ \E q \in Sharers(r) : \E data \in Mixtures(run[r].entries, run[q].entries) :
          /\ IF run[r].out = "tmp"
             THEN tmp' = data /\ UNCHANGED saved
             ELSE saved' = data /\ UNCHANGED tmp
          /\ crossed' = crossed \cup
               {<<p, data[p].stamp>> : p \in
                  {o \in Path : data[o] \notin {None, run[r].entries[o], run[q].entries[o]}}}
  /\ run' = [run EXCEPT ![r].at = "writing"]
  /\ UNCHANGED <<disk, changes, had, kept>>

(* Mutant: the file to move is taken to be there. *)
MutantReplace(r) ==
  /\ run[r].at = "writing"
  /\ saved' = tmp /\ tmp' = None
  /\ run' = [run EXCEPT ![r].at = "done"]
  /\ UNCHANGED <<disk, changes, had, kept, crossed>>

(* ... and os.replace: what others are writing goes along.  A second       *)
(* replace finds no file, which is only logged.                            *)
Replace(r) ==
  /\ run[r].at = "writing"
  /\ IF tmp = None
     THEN /\ UNCHANGED <<saved, tmp>>
          /\ run' = [run EXCEPT ![r].at = "done"]
     ELSE /\ saved' = tmp /\ tmp' = None
          /\ run' = [q \in Run |->
               IF q = r THEN [run[r] EXCEPT !.at = "done"]
               ELSE [run[q] EXCEPT !.out = IF run[q].at = "truncated" THEN "saved" ELSE @]]
  /\ UNCHANGED <<disk, changes, had, kept, crossed>>

(* The run goes on to the server, or the process stops wherever it is. *)
Leave(r) ==
  /\ run[r].at # "idle"
  /\ run' = [run EXCEPT ![r] = Idle]
  /\ had' = [had EXCEPT ![r] = {}]
  /\ kept' = [kept EXCEPT ![r] = {}]
  /\ UNCHANGED <<disk, changes, saved, tmp, crossed>>

-----------------------------------------------------------------------------
(* The disk *)

(* The disk becomes dsk; To(r, h) is where r finds the file h afterwards. *)
Becomes(dsk, To(_, _)) ==
  /\ changes < MaxChanges
  /\ disk' = dsk
  /\ changes' = changes + 1
  /\ had'  = [r \in Run |-> IF run[r].at = "idle" THEN had[r] ELSE had[r] \cup Held(dsk)]
  /\ kept' = [r \in Run |-> {To(r, h) : h \in kept[r]} \cap Owned(dsk)]
  /\ UNCHANGED <<saved, tmp, crossed>>

Stays(r, h) == h

(* A user, or another program, puts a file there: who reads the old one    *)
(* goes on with it.                                                        *)
FileIsPut(p) ==
  /\ \E c \in Content :
       Becomes([disk EXCEPT ![p] = [content |-> c, stamp |-> changes + 1]], Stays)
  /\ UNCHANGED run

(* ... or writes the file in place, under who reads it. *)
FileIsRewritten(p) ==
  /\ disk[p] # None
  /\ \E c \in Content :
       LET f == [content |-> c, stamp |-> changes + 1] IN
       /\ Becomes([disk EXCEPT ![p] = f], Stays)
       /\ run' = [r \in Run |->
            IF run[r].file = disk[p]
            THEN [run[r] EXCEPT !.file = f, !.read = @ \cup {c, Torn}]
            ELSE run[r]]

FileGoes(p) ==
  disk[p] # None /\ Becomes([disk EXCEPT ![p] = None], Stays) /\ UNCHANGED run

Scanning(r) == run[r].at \in {"listing", "hashing", "reading", "open"}

(* _activate and _deactivate of a run that has scanned: the file keeps its *)
(* stamp.  Who is scanning may have listed the other folder already.       *)
Moves(p, q) ==
  /\ {Folder[p], Folder[q]} = {"fonts", "disabled"}
  /\ disk[p] # None /\ disk[q] = None
  /\ \E r \in Run : ~Scanning(r)
  /\ LET Follow(r, h) == IF h[1] = p /\ ~Scanning(r) THEN <<q, h[2]>> ELSE h
     IN  Becomes([disk EXCEPT ![p] = None, ![q] = disk[p]], Follow)
  /\ UNCHANGED run

-----------------------------------------------------------------------------

Init ==
  /\ disk = [p \in Path |-> None] /\ changes = 0
  /\ saved = NoCache /\ tmp = None
  /\ run = [r \in Run |-> Idle]
  /\ had = [r \in Run |-> {}] /\ kept = [r \in Run |-> {}]
  /\ crossed = {}

Next ==
  \/ \E r \in Run : \/ Discover(r) \/ ListDisabled(r) \/ Stat(r) \/ Open(r)
                    \/ Read(r) \/ ReadFails(r) \/ Truncate(r) \/ WriteCache(r)
                    \/ Replace(r) \/ Leave(r)
  \/ \E p \in Path : FileIsPut(p) \/ FileIsRewritten(p) \/ FileGoes(p)
  \/ \E p, q \in Path : Moves(p, q)

Spec == Init /\ [][Next]_vars

-----------------------------------------------------------------------------

(* The type invariant. *)
TypeOK ==
  /\ disk \in [Path -> File \cup {None}]
  /\ changes \in 0..MaxChanges
  /\ saved \in Cache \cup {Garbage}
  /\ tmp \in Cache \cup {Garbage, None}
  /\ run \in [Run -> RunState]
  /\ had \in [Run -> SUBSET (Path \X File)]
  /\ kept \in [Run -> SUBSET (Path \X Content)]
  /\ crossed \subseteq Path \X Stamp

(* Whatever the cache has been through (stopped writes, runs that replace  *)
(* each other's file, changes under the scan), the hash declared for a     *)
(* path is that of a file the path held since the run began.  Three        *)
(* accidents excuse: the file was replaced or written in place between its *)
(* stat and its last chunk, or two runs mixed the entry up in one          *)
(* temporary file, and in each case the path holds, or held, the file of   *)
(* the very stamp that the entry has.                                      *)
HashesAreTrue ==
  \A r \in Run : \A d \in run[r].declared :
    \E h \in had[r] :
      h[1] = d[1] /\ (h[2].content = d[2] \/ <<h[1], h[2].stamp>> \in crossed)

(* A font that stayed in the scanned folders or in disabled/ while they     *)
(* were scanned, and could be read, is declared, wherever it is moved       *)
(* afterwards and whatever another run makes of the cache: its absence      *)
(* would be a deletion everywhere.                                          *)
ScanMissesNothing ==
  \A r \in Run : run[r].at = "done" =>
    {h[2] : h \in kept[r]} \subseteq {d[2] : d \in run[r].declared}

=============================================================================
