# FontSync — TLA+ models, checks and proofs

FontSync keeps one font library on a server and mirrors it on several machines.
The hard part is deletion: a font removed on one machine must leave the others,
must not come back from a machine that was switched off meanwhile, must never be
lost because of one incomplete scan, and its fingerprint (the *tombstone*) is
forgotten only when no machine would push it back.

The modules here model the code of `src/`. Everything below names the code it
speaks about; `backend/` and `agent/` are directories of `src/`.

## 1. The system

| component | state | operations | hard because |
|---|---|---|---|
| library (`routers/fonts.py`, `services/trash.py`, `font_importer.py`, `storage.py`) | table `fonts`: `deleted_at`, `deletion_confirmed`, `purged_at`, `harvest_candidate_since`; the stored files | upload, delete, restore, confirm, empty trash, purge, purge loop | row and file are written separately; four columns encode one life |
| inventory sync (`routers/sync.py`, `services/sync_manager.py`, `inventory.py`, `deletion_propagation.py`) | table `device_fonts` (`ingestible`, `active`), `devices.last_declaration_at` | delta, push, pull | conclusions are drawn from what a device does *not* say |
| harvest (`services/harvest.py`) | candidacies | two phases inside a credible delta, nine guards G1–G9 | each guard covers another way of forgetting a font too early |
| devices (`routers/devices.py`) | table `devices`, soft deletion, settings | register, patch, merge, delete, rescan | identities change, associations move |
| duplicate faces (`services/duplicate_faces.py`) | none of its own | review, resolution | a file that covers several styles must stay; the choice is older than the write |
| families (`services/family_grouper.py`, `routers/font_families.py`) | `font_families`, members, `style_count` | automatic grouping, regrouping, manual edits | grouped in a second transaction, from readings without a lock |
| signals (`services/ws_manager.py`, `routers/agent_events.py`) | subscribers, queues | broadcast, signal, subscribe | signals are lost when nobody listens |
| agent run (`agent/sync_command.py`, `sync_client.py`) | the device's disk | scan, register, delta, push, uninstall, (de)activate, pull | the server changes between two requests; retries; two runs at once |
| installer (`agent/font_installer.py`) | install and disabled directories | install, uninstall, activate, deactivate | goes by file name |
| scan (`agent/discovery.py`, `hashing.py`, `hash_cache.py`) | the hash cache and its file | list, hash, save | files move and change under the scan; two runs share the cache |
| listener (`agent/listen_command.py`) | connection, pending token | connect, debounce, run a sync | reconnection, bursts, failed runs |
| backup (`services/backup.py`) | snapshots, mirror of the files | snapshot, verify, rotate, mirror | a crash or a full disk in between |
| presence in the web interface (`routers/ws.py`, `ws_manager.py`) | connected browsers | greet, announce | an `await` inside an iteration over a list that changes; not modelled |

Interaction: an agent run posts its scan to `/sync/delta`; the handler detects
local deletions, reconciles the inventory, stamps the declaration, harvests,
commits and answers with lists; the agent then pushes, uninstalls,
(de)activates and pulls, each a request of its own. Every change of the library
signals the listeners, which start a run. The user's gestures reach the server
between any two of these requests.

What makes each component correct: the library never loses the file of a font
that can still be used or restored, and a pending deletion moves only by a
user's decision; the inventory believes nothing older than the last return of a
font; the harvest forgets a font only after every live device has spoken and
while none declares it; families count their members and none is orphaned; no
signal that matters is lost for good; a run converges to the library and never
removes what it was not told to; what stays on a disk is declared, under its
true hash; the last good backup survives.

## 2. The modules

| module | models |
|---|---|
| `FontLifecycle` | the abstract promise: unknown → library → pending/trash → tombstone → unknown, and the file kept with it |
| `FontLibrary` | the server's database and storage with every handler that changes them, under arbitrary declarations |
| `LibraryHistory` | `FontLibrary` beside a record of what the devices really said |
| `FontStorage` | the handlers that touch the files, cut at their awaits, with restarts and failures |
| `FontSync` | `FontLibrary` composed with the agent's runs and the disks they work on |
| `SyncSignals` | event streams, listener, periodic runs |
| `FontInstaller` | files by name on one device |
| `AgentScan` | listing, hashing and the hash cache |
| `FamilyGrouping` | families and their members |
| `DuplicateFaces` | review and resolution of duplicate faces |
| `Backup` | snapshots and mirror |
| `LibraryProofs` | theorems about `FontLibrary`, `LibraryHistory` and `FontSync` |
| other `…Proofs` | theorems about the module of the same name |
| `MC…` | instances for TLC |

Variables that no action reads are marked *history* in each module. They record
what a property needs to compare with; where one narrows a property, the
paragraph below says what it leaves out.

### FontLibrary

State. A font is its content (`file_hash` is unique, and a row keeps its hash
for ever). `db` is a record with one field per column: `rows`, `deleted`
(`deleted_at` set), `confirmed`, `purged`, `candidate`, and for `device_fonts`
the pairs `holds` with the flags `systemOnly` (`ingestible = 0`) and `inactive`
(`active = 0`); `devices` and `retired` for the table `devices`. `blobs` is the
storage. The dates are kept as the answers to the comparisons the code makes:
`seenDeletion[f]` are the devices whose `last_declaration_at` is later than
`deleted_at` of `f`, `seenCandidacy[f]` those with a later one than
`harvest_candidate_since`; `ripe` and `expired` say that the grace period and
the retention are over, and steps of their own make time pass. A `NULL` date is
membership nowhere.

Handlers are functions on the record composed in the code's order, so that a
delta reads `Harvest(Stamp(Reconcile(Detect(db))))`: detection with its
threshold, reconciliation (arrivals, departures, updates, the candidacy an
arrival closes), the stamp, the two harvest phases, one commit. A suspicious
declaration stops after detection, an empty one does nothing (it is a stutter,
not an action). The limit `LIMIT` without `ORDER BY` of a harvest pass is a
nondeterministic choice, and so are the keeper of a face and the files a purge
fails to remove.

A handler is one step here. It is one transaction in the code, whose writers
SQLite serialises; what can happen at the `await`s between a read and its commit
is the subject of `FontStorage`.

### LibraryHistory

Adds five variables no handler reads: who vouched for a font since it last
became active, who declared since it was last deleted, what each device's last
credible declaration listed as installable, which candidacies stayed open past
what should have closed them (`leftOpen`), and the delta of the last step. The
properties compare the handlers' decisions with that record. `leftOpen` sets
apart the two ways in which the code leaves a candidacy open (section 5). A
device that registers again starts with no claim: a device revived from
retirement gets no grace for its first declaration, which the properties do not
count against the code.

### FontStorage

The same rows, reduced to the columns of a font's life (`marks[f]`, the columns
that are set), the state of each file (`absent`, `partial` while it is opened
for writing, `whole`), and `work[r]`, what each request is doing: where it is,
the fonts it has in hand, what it read of their row. Requests belong to one of
four sets: uploads, pushes, purges (one font, the trash, what has expired: any
set of purgeable fonts), and restorations or confirmations.

Three facts about the platform matter and are modelled by what they do. The
SQLite driver begins a transaction at the first write, so a read locks nothing.
A commit writes the columns whose value differs from the one read: setting
`purged_at` to `NULL` on a row read before another request marked it writes
nothing (`Flushed`). An update of a row that has been harvested fails, and the
whole commit with it (`lost`). A file removed while another request has it open
is written in vain (`unlinked`).

`Delete` stands for the user's deletion and for both verdicts of a declaration;
it writes the same whatever happened since it read, so it stays one step.
`Harvest` keeps one guard of time: a new row cannot be deleted, purged and
harvested within one import that began before it came, since the grace period is
counted in days. `MaxFaults` bounds restarts and failures of the storage or of
an insertion. `cut` (history) are the fonts whose file a request had removed or
was writing when it was interrupted.

### FontSync

Extends `FontLibrary`, whose handlers it calls: each request of a run is one
step of the server, each change of the disk one step of the agent, and users,
other runs and failures come in between. `disk[d]` is what lies in
`~/Library/Fonts` and in `disabled/`; `run[r]` is what a process knows: the scan
it began with, the settings it got at registration (`auto_push`, `auto_pull`;
`propagate_deletions` is read by the server during the delta), and what it has
left to do of the answer (`todo`, one set per task, worked off in the order of
`sync_command.py`). `Tasks` translates `compute_delta` and what the agent makes
of it.

Failures: one font that fails and is skipped (`TaskFails`), a process that dies
or a server that cannot be reached (`RunStops`), and an answer that is lost, so
that `_send` sends the same delta again (`DeltaAnswerLost`).

History: `removed` are the fonts a user took off a disk, `buried` the deleted
fonts no user has brought back, `excused` those of them that a device may put back
all the same (section 5: it joined with the file, or declared on a scan older than
the file), `recorded` the associations a pull or a push made
and that have not been declared since by every run under way. `recorded` keeps
out of `OnlyRemovalsAreDetected` what the code does wrong (section 5): a pull
that is recorded and not installed, a delta of an older scan.

### SyncSignals

`stream[d][c]` is what `event_stream` is doing for a connection, `subs` and
`queued` are the subscribers and the queues that are not empty (a queue is
drained in one go, so more does not matter). `owed` are the devices that a
committed change has yet to signal: the commit comes before the broadcast. On the
agent, `link` is the connection, `token` the queue between the listener's two
threads, `listener` the consumer: waiting, debouncing, running, finishing.
`stale[d]` says that the library has changed since the last run of `d` read it.

`missed` (history) sets apart the stale devices of which no signal tells any
more: a change of settings, which signals nothing, and a run that failed, which
used up its token. What makes up for these is launchd's job or another change.

### FontInstaller

`file[dir][n]` is the content under a name in `~/Library/Fonts`, in a subfolder
of it, and in `disabled/`. `Target` is `install_font` with its disambiguated
name, `Uninstalled` is `uninstall_font` with the two expected names and the sweep
by hash when these had nothing, `Deactivate` and `Activate` are the moves of a
pass that looks up by name what it scanned. Users write, rename and remove files
under any name of theirs, some of which hold fonts the library does not know; a
write may stop halfway (`Torn`).

### AgentScan

A run lists the scanned folders (and any part of what Core Text shows beyond
them), then `disabled/`, loads the cache, and for each path calls `stat`, then,
when the cache has no entry with that stamp, opens the file (`Open`) and reads it
to its end (`Read`); then it prunes and writes the cache: open the temporary
file, write, rename. `out` says whether the file a run has open is still the
temporary one or has been renamed by another run. The disk changes at any moment.
A file may be put in the place of another (`FileIsPut`): who reads the old one
goes on with it. Or it may be written in place (`FileIsRewritten`): since
`hash_file` reads chunks, who has it open gets the hash of the old content, of the
new one, or of a mixture that no file ever had (`Torn`). `Moves` is the activation
or deactivation of another run. Two runs that write one temporary file leave the
text of either, one that does not parse (`Garbage`), or one whose entries are
made of both (`Mixtures`).

A stamp stands for `(st_size, st_mtime_ns)`: every write has its own, and a
moved file keeps its stamp. History: `had` is what each path held since the run
listed, `kept` the files that never left their place while the run was scanning
and could be read, `crossed` the stamps whose entry may be wrong: the file was
replaced or written in place between its `stat` and its last chunk, or two
writers of the cache mixed two entries up. `kept` leaves out unreadable files, files
moved between the two listings and files written while they are read; `crossed`
excuses a wrong hash only at the path, and for a file of the very stamp, it happened
to (section 5).

### FamilyGrouping

`family` is the table by id (slug, `is_auto_grouped`, `style_count`), `member`
the table of memberships, whose primary key gives a font one family. `work[r]` is what a
request has read so far. An import commits its row, reads the family of its slug,
reads the membership, writes: four steps, between which other requests, the trash,
the harvest and a stop of the server come. The gestures that place fonts, remove
one or merge families read before they write, so they are requests cut in the
same way: `BeginEdit`, `FindPlaced`, `FindLeft`, `AddFont` (`POST …/fonts`),
`BeginEdit`, `FindRemoved`, `RemoveFont`, and `BeginMerge`, `ListMembers`,
`MergeFamilies`, or `CountMembers`, `RecountFamily` when there is no other family to
merge. Only what is read before the first write is read without a lock: a `POST`
of several fonts is that many requests, the others under the lock of the first,
and of a merge only the first source's list of members is older than the write. The
unique slug, the primary key and the foreign keys refuse a write, which rolls back
the grouping and not the import; a gesture may also fail by a 404 or a lock it
does not get in 30 seconds (`GestureFails`). A regrouping begins with a write, and a
creation, a renaming and a deletion touch no count: each is one step. `drifted`
(history) marks the families whose count or members were written from a stale
reading, or by a merge, which leaves trashed members out, since their members
were last counted.

### DuplicateFaces

The grouping, the ranking and the resolution over `Font \subseteq Nat` (a font is
the rank of its hash); `completeness` stands for the criteria between coverage
and hash. Rows come in any order. A resolution reads (`Choose`) and writes later
(`Resolve`), with other requests in between: deletions, restorations, purges,
imports, and `PATCH /fonts/{id}` (`Rename`), which changes the names a face is made
of. `request.touched` (history) are the fonts these requests changed, `current`
tells whether the library is as it was at the review. In `FontLibrary` the same resolution is one
step with any keeper.

### Backup

`snapshots` by name, a name being its second and its number in that second;
`backup` the one being taken: copying (the file exists), rotating. `stored[b]`, the
file in the storage, and `mirror[b]`, its copy, are absent, partial or whole:
imports write the storage in place (`BeginStore`, `EndStore`) and purges empty it
(`Purge`) while a pass walks it. `pass` is what the pass has yet to come to and what
it copies: `Look` is `is_file` and `exists`, `Open` the start of the copy, which
fails if the file has been purged since, `Close` its end. Copies fail and the
server restarts anywhere. `torn` (history) are the files of which a copy was cut
or was made from a source still being written.

## 3. The runs

All runs disable the deadlock check: a library with no device, a storage with no
request, users who are done are legitimate resting states.

| run | instance | shows |
|---|---|---|
| `library` | 3 devices, 2 accepted fonts of one face, 1 refused | `LifecycleConsistent`, `FilesKept`, refinement of `FontLifecycle` |
| `history` | 2 devices, 1 accepted font, 2 refused | `RegistryConsistent`, `AssociationsAreFresh`, `HarvestWaitsForEveryDevice`, `HarvestSparesDeclaredFonts`, `OmissionIsHarmless` |
| `history_retry` | 1 device | the finding of section 4 |
| `storage_overlap` | 2 fonts; an upload, a push, a purge, an edit at a time | `MissingFilesAreMarked`: whatever overlaps, a missing file is told by `purged_at`, which is what an upload looks at to write it again |
| `storage_faults` | 2 fonts; an upload, a purge, an edit at a time, 2 faults | `OnlyInterruptionsLoseFiles`: only a font an interrupted request was working on can miss its file unmarked; `TrashEmpties`: an interrupted purge is finished by the next one |
| `sync` | 1 device with 2 processes, 2 fonts (one in a format the agent does not install), 3 gestures, 1 fault | `DeletionsHold`, `OnlyRemovalsAreDetected`, `DevicesSettle` |
| `installer` | 2 library fonts of one name, one deleted, and a personal font; 4 edits, 2 torn writes | `HomonymsAreSpared`, `DoomedFontsGo`, `LibraryFontsCome` |
| `signals` | 1 device, 3 connections, 2 changes, 2 faults | `StalenessIsCovered`, `ChangesReachDevices` |
| `families` | 2 fonts of one slug, 2 slugs, 3 family ids, 2 requests at once (imports, edits, merges), 2 gestures | `CountsAreExact`, `MembersHaveFamilies`, `OneFamilyPerSlug`, `HandmadeFamiliesStay` |
| `scan` | 4 paths (scanned, disabled, elsewhere, ignored), 2 contents, 2 runs, 2 changes | `HashesAreTrue`, `ScanMissesNothing` |
| `duplicates` | 3 fonts, 2 faces and the missing one, every coverage and quality, 2 other gestures | `ResolutionLosesNothing`, `OnlyTouchedFacesAreLost`, `ReviewIsWhatHappens`, `ResolutionIsFinal` |
| `backup` | 2 files, `Keep = 2`, 2 backups a second, 3 seconds, 3 gestures, 2 faults | `LastBackupIsKept`; `FontsAreMirrored`: every font that stays gets a whole copy, unless its own copy was torn |

The type invariants are checked beside these, once per module; that of
`FontLibrary` is part of `HistoryTypeOK` and of `SyncTypeOK`.

Why these bounds are enough.

- *Library.* Limits: `MinFonts = 0`, `MaxFonts = 1`, ratio 1/2, so that with
  three fonts a declaration of one is suspicious as soon as one font is missing
  and a declaration of two may lose one; `MaxPerPass = 1`, so that a pass can
  leave a ripe candidate behind. Files outside `Valid` never become rows; they
  lengthen declarations, which the threshold counts. A font's row is changed by
  handlers that look at it alone, except the threshold, the duplicate resolution
  and the bulk purges (two accepted fonts); the guards that quantify over devices
  distinguish the declaring device, another live one and a retired or merged one
  (three devices). The constraint `FontsOrDevices` of `library` keeps states with
  two rows to one device and states with more devices to one row, that is the
  union of those two instances; the state invariants it checks are proved for all
  of them.
- *History.* Two devices: one that declares, one that is waited for.
- *Storage.* Fonts interact only through a purge that has several in hand, which
  two fonts show. Two overlapping uploads of one content, or two overlapping
  purges, are left out of `storage_overlap`: a stale one can then undo the mark
  of the other, and the property fails. `storage_faults` has an upload and a
  restoration beside the purge, since these bring a row back whose purge was
  interrupted; two faults, so that what follows an interruption is interrupted
  too. The theorem adds pushes.
- *Sync.* One device, since another one acts on it only through the library,
  where the user's gestures do the same; two processes, the listener's run and
  launchd's. Two fonts, so that a delta and a run's order of tasks have something
  to get wrong. Three gestures: add, delete, restore. With two fonts and
  `MinFonts = MaxFonts = 1` no declaration of this run is suspicious: a single
  missing font is within the limit and a scan that misses both is empty and
  ignored. With `MinFonts = 0` every detection would be suspicious and none
  credible. The threshold is at work in `library` and `history`, and
  `DeltasStayContained` is about it. `DevicesSettle` takes a font that is deleted in
  the end for settled, whoever deleted it.
- *Installer.* A name, a second one users may rename to, and the two the agent
  derives; four edits put a homonym in the way, rename a copy and copy it again.
  The name of a font is taken by the deleted font, which leaves, or by a personal
  one, which stays; two torn writes, one under each name of the font.
- *Signals.* Three slots let a stream outlive two reconnections; two changes: one
  while a run reads, one after.
- *Families.* Two requests about one slug meet at every read, imports with
  gestures too; the third id is what a regrouping creates while a request remembers
  the others.
- *Scan.* Two changes: a file put there, then replaced or written in place between
  `stat` and the last chunk, or removed. A folder of each kind has a path. A
  crossed entry misleads a later run only when its file comes back, which takes
  five changes: the theorem covers what lies beyond.
- *Duplicates.* Three fonts make a group with a keeper, a redundant file and a
  protected one, or two groups one of which has one file.
- *Backup.* Two names a second and a rotation to two, over three seconds; two
  faults, one in the copy and one restart. Three gestures: two imports and a purge,
  or the file of one font written, purged and written again under a pass.

Fairness, and why the code justifies it.

- `storage_faults` (`TrashEmpties`): the steps of a purge in progress are weakly
  fair, and for each font strongly fair is the start of a pass that includes it,
  since the purge loop runs every twelve hours and what stays in the trash becomes
  older than the retention. It says nothing when the retention is 0 (the default)
  and nobody empties the trash.
- `sync` (`DevicesSettle`): each process goes on, infinitely often. A run can
  always take a step, so `[]<><<RunStep(r)>>_syncVars` is its weak fairness.
  launchd starts a run at every interval (`StartInterval`), and a run has no loop.
  Gestures and faults are bounded and not fair: the property is about what happens
  once they end.
- `installer`: uninstallations and the moves of a pass are weakly fair: a run
  finishes them. Installation is strongly fair between passes, since a run pulls
  what is missing once its pass is over (`sync_command.py`, steps 7 and 8), and two
  homonyms of which one is in a subfolder may have passes without end between
  which the font is missing only now and then. Starting a pass is not fair.
- `signals` (`ChangesReachDevices`): the event loop runs every stream, a broadcast
  follows its commit, the listener reconnects after a delay and its consumer does
  not stop. Nothing is asked of launchd's job, so that the signals alone are shown
  to be enough.
- `backup` (`FontsAreMirrored`): the weekly loop of the mirror goes on. Nothing is
  asked of the snapshots.

## 4. Finding

**A retried delta is judged differently** (`history_retry`). Detection deletes
the associations it counted, also on a suspicious declaration
(`deletion_propagation.py:133-138`); the same request sent again, which
`agent/sync_client.py:14-16` allows because a delta is a "lecture pure", finds
nothing missing and is taken for credible: it goes on to reconcile, to stamp the
device and to harvest.

## 5. Statements the code does not keep

While modelling, these statements of the docs, of comments or of plain
expectation turned out not to hold. Each is a definition of the module named,
with no run of its own; checked on the instance given, TLC finds a behaviour
against it. The properties of the runs are stated so that they hold beside them.

| definition | instance | what happens |
|---|---|---|
| `LibraryHistory!EveryLiveDeviceDeclaredSinceDeletion` | `history` | `_revive_if_deleted` (`font_importer.py:134-136`) clears three of the four life columns, not `harvest_candidate_since`. After upload, deletion and purge the font is harvested on the old candidacy: no new grace period, and devices that have not declared since the deletion are not waited for (G7, `docs/PLAN-ETATS-FONTS.md:932`). |
| `LibraryHistory!OneOmissionIsNotFatal` | `history` | An association updated from system-only to installable (`inventory.py:174-181`) does not close the candidacy, unlike an arrival (`inventory.py:152-157`). Once the grace period is over, the next declaration that omits the font harvests it at once, which G8 is there to prevent (`PLAN-ETATS-FONTS.md:933`). A merge onto a device opens the same door. |
| `LibraryHistory!RetiredDevicesProtectTheirFonts` | `history` | `delete_font` has wiped the associations of a font whose device is retired afterwards; nothing waits for it any more (`devices.py:252-259`, `PLAN-ETATS-FONTS.md:931`: "Un appareil retiré de l'UI continue de protéger ce qu'il détient"). |
| `FontStorage!PurgeSparesActiveFonts` | an edit and a purge, no fault | `purge_font` (`trash.py:48`) acts on a row read before a restoration's commit: the font stays active without its file (`fonts.py:842-843` means to refuse this). |
| `FontStorage!RestorableFontsHaveFiles` | a purge, 1 fault | A restart between the removal and the commit of `purged_at` (`trash.py:48-59`) leaves a row that can be restored, with nothing to restore (`fonts.py:874`): the restored font is in the library without its file, and an upload of the same file does not write it either. `OnlyInterruptionsLoseFiles` (`cut`) says that no other font comes to this. |
| `FontStorage!FailedImportSparesFile` | 2 pushes, 1 fault | When an insertion fails for another reason than the duplicate (a locked database), the file is removed although a concurrent import's row refers to it (`font_importer.py:282-287`, against `:217-218`). |
| `FontSync!OnlyRemovalsAreDetected` without `recorded` | `sync` | A pull records the association before the agent has installed anything (`sync.py:261`): a font that cannot be installed (a failure, a format the agent does not take) is missing from the next delta and is deleted everywhere. Likewise when a run declares a scan older than what the other run just recorded. |
| `FontSync!DeletionsHold` with two devices | 2 devices, 1 font | Once the row of a deleted font is harvested, nothing tells it from a new one. A device that registers with the file afterwards pushes it; so does one whose declaration was made on a scan older than the file (`sync_command.py:340` scans, the delta comes after a registration and perhaps a retry), since the harvest takes that declaration for a word on the deletion. `OnlyExcusedFontsReturn` (`excused`) says that there is no third way. |
| `FontInstaller!SwitchingKeepsFiles` | `installer` | `deactivate_font` (`font_installer.py:309`) removes the homonym it finds in `disabled/`, whatever its content; the header says "le fichier reste toujours sur le disque". |
| `FontInstaller!LibraryFontsCome` without `GivenUp` | `installer` | When the name of a font is taken by a personal font that stays, and the write under the disambiguated name was cut short, `install_font` returns `None` at every run (`font_installer.py:153-164`): the font never comes. |
| `SyncSignals!SubscribersAreActive` | `signals` | The subscription is made before the `await` that tells the web clients (`agent_events.py:38`) and before the `try`: a listener that goes away in it leaves its queue subscribed for ever and its device online (`ws_manager.py` on `connected_sse_devices`: "une clé présente <=> au moins un abonné actif"). |
| `FamilyGrouping!CountsAreExact` without `drifted` | `families` | Two imports that have read the same family both write the count they read plus one (`family_grouper.py:182`), and so do a placement or a removal that overlaps another request (`font_families.py:505-541`, `:563-581`). A merge counts active members only, while a trashed member stays counted everywhere else (`PLAN-ETATS-FONTS.md:1303` admits over-counts with trashed fonts). |
| `AgentScan!ScanMissesNothing` without the exemptions of `kept` | `scan` | A file that cannot be read is left out of the declaration (`hashing.py:87`), and so is one that another run moves from `disabled/` to the scanned folders between the two listings (`sync_command.py:340`): the server takes both for deletions. |
| `AgentScan!HashesAreTrue` without `crossed` | `scan`; two paths, five changes | In `scan`, a file written in place between two chunks (`hashing.py:40-42`) is declared under a hash no file ever had. With more changes, a file replaced between `stat` and the hash is cached with its new hash under the old stamp (`hashing.py:77`); when the first file comes back with its stamp, it is declared under the hash of the other. A file replaced by one of the same size and time has the same fate; that is what the stamp of this model rules out. Two runs that write the temporary file at once may leave entries made of both (`hash_cache.py:117-119`, against "écriture atomique", `:105`). |
| `DuplicateFaces!ResolutionLosesNothing` without `Fresh` | `duplicates` | A keeper trashed or renamed between the choice and the write (`duplicate_faces.py:264`) leaves a face with no active file; and a font renamed meanwhile (`fonts.py:603-617`) is trashed all the same, although nothing else has its new face, or it has none any more. |
| `Backup!MirroredFilesAreWhole` | `backup` | A copy that stopped halfway exists and is never copied again (`backup.py:125-128`). Nor is one made while `storage.store` was writing the source in place (`storage.py:50-51`): the mirror keeps a file cut in the middle, and no error says so. |
| `Backup!SnapshotsAreVerified` | `backup` | A copy that raises, or a stop before `integrity_check`, leaves an unverified file that counts in the rotation (`backup.py:74`). |
| `Backup!RotationGoesByAge` | `backup` | Within a second the name without a number sorts last (`backup.py:99`), so the rotation may remove a younger snapshot first. |

Two lines of a component that is not modelled belong here too: `ws.py:27` greets
a browser from a copy of the list of devices with an `await` before each, so that
one that left meanwhile is shown; `ws_manager.py:46` sends while disconnections
shorten the list it iterates over, so that a browser may be skipped.

Smaller observations: two homonyms of which one lies in a subfolder are moved
back and forth by successive passes; two writes cut short under both names of a
font block its installation like the homonym above; a regrouping drops the
memberships of trashed fonts and `restore_font` groups nothing, so that a restored
font is in no family until the next regrouping, and so is a font whose grouping
failed or was cut off; a copy of a deleted font in a subfolder is never
uninstalled; `update_family` that renames a family to the name it has gives its
slug a `-2`.

## 6. Proofs

tlapm checks every theorem below for all values of the constants that satisfy
the assumptions the modules name. The assumptions say what the constants are
(numbers are natural, a distinguished value is not in a set, `FamilyGrouping`
and `DuplicateFaces` have finitely many fonts), not what the code does. A theorem
that holds for fewer requests or devices than the model allows says so in its
statement, and the paragraph below says what happens beyond.

**`LibraryProofs`, part 1 (`FontLibrary`)** — `TypeCorrect`, `Consistency` (`LifecycleConsistent`,
`FilesKept` and `RegistryConsistent` together; `FilesStayWithRows` and
`RegistryStaysConsistent` state the last two by themselves) and
`RefinesLifecycle`: `Spec => ImplementsLifecycle`. The inductive invariant is
the conjunction `IInv`: none of the parts is inductive alone. A restoration needs
`FilesKept` to put a font back with its file, a harvest keeps `FilesKept` because
purged rows are the ones without a file, and it leaves no dangling candidacy only
because candidacies belong to rows. One lemma per database function
(`ReleaseLemma` … `DeleteFontsLemma`) and one per handler show that a step keeps
the types and the registry and is, for rows and files, one of five *moves*
(`Same`, `Entered`, `Trashed`, `Emptied`, `Swept`). Then `MoveAgrees` shows that
the moves preserve agreement, and the `…Refines` lemmas that each move is a
transition of `FontLifecycle`. `DeltasStayContained` is the arithmetic of
`propagation_limit` (`LimitIsAbsolute`) carried through the delta: whatever a
declaration leaves out, the devices are told to remove at most as many fonts more
as the larger absolute limit, and none on account of a suspicious one. No run
states it.

**`LibraryProofs`, part 2 (`LibraryHistory`)** — `HistoryTypeCorrect`, `FreshAssociations`,
`HarvestWaits`, `HarvestSpares`, `OmissionHarmless`: the harvest's guards do what
they are there for, for any number of devices and fonts. The guards read columns, the
properties speak of the record, so the invariant has to relate the two: `HInv`
adds `Evidence` to `IInv`. The columns never claim more than was said
(`seenDeletion` is below `witnessed`, and, but for the candidacies left open,
`seenCandidacy` below `seenDeletion`); a live device that has declared since the
deletion holds, in the inventory, what it claims to have; and no live device
claims a candidate. Only a credible delta adds to these columns; every other step
is *quiet* (`QuietColumns`): it leaves them alone or empties them with the rest of
the font's past. A step of the history is a step of the library
(`HistoryIsLibrary`), so `IInv` comes for free.

**`LibraryProofs`, part 3 (`FontSync`)** — the agents' runs, for any devices,
processes and fonts.

- `SyncTypeCorrect` (`SyncTypeOK`), and `SyncRefinesLibrary`: `SyncSpec => Spec`.
  Every step of a run, of a user or of a failure is a handler of the library or
  leaves the library alone, so part 1 holds of the composition, the life cycle
  included. The invariant `Base`, on which the next two rest, adds to
  `SyncTypeOK` and `IInv` that nothing is recorded as system-only and that only a
  run of a registered device has pulled files in hand (`RunsAgree`).
- `DetectedFontsWereRemoved` (`OnlyRemovalsAreDetected`). What the
  server believes to be on a disk, and neither `removed` nor `recorded` accounts
  for, is there, in every scan yet to be declared, and in no list of files to
  uninstall (`HeldInv`, `Attested`). An action property about a delta thus becomes
  an invariant about what runs remember.
- `DeletionsAreUndoneAsExcused` (`OnlyExcusedFontsReturn`): a buried font is out of
  the library; once its row is harvested and it is not in `excused`, no disk and no
  run has the file any more, so no one can push it, and a device that the harvest
  no longer waits for does not have it (`FinalInv`). No run states this, since `sync`
  has one device, where `DeletionsHold` holds without any excuse; TLC checked it on
  two.

**`FontStorageProofs`** — `StorageTypeCorrect`, faults included;
`InterruptionsExplainLosses`: `OneAtATime => (Spec => []OnlyInterruptionsLoseFiles)`, for
any number of failures and restarts; and `MissingFilesStayMarked`: `OneAtATime /\
MaxFaults = 0 => (Spec => []MissingFilesAreMarked)`. `OneAtATime` says that there is
at most one upload and one purge at a time; pushes, restorations, confirmations and
fonts are any number. Both properties speak of fonts nobody is working on, so
their common inductive invariant says what those at work maintain. `Files`: an
unmarked row has its file, or a request sees to it, or was interrupted over it
(`Fine`). `Purges`: the rows of a purge in progress stay and stay unmarked, hence its
commit succeeds. `Imports`: an import about to insert a row, or to wake a purged one,
has seen to the file. `Requests`: the shape of a request at each of its steps.
`Quiet`: without faults nothing is cut, which makes the second theorem a corollary.
`OneAtATime` is needed: two uploads of one content, or two purges, have a
counterexample, and with faults `MissingFilesAreMarked` has one too.

**`SyncSignalsProofs`** — `SignalsTypeCorrect` and `NoWakeUpIsLost`
(`[]StalenessIsCovered`). The property speaks of stale devices; the invariant
demands of *every* device that a connection of its listener is served
(`AllServed`), since the next change may make any device stale.

**`FontInstallerProofs`** — `InstallerTypeCorrect` and `HomonymsStay`
(`HomonymsAreSpared`), for any names, contents and naming function.

**`AgentScanProofs`** — `ScanTypeCorrect`, `HashesStayTrue`, `NothingIsMissed`,
for any disk and any number of runs. `HashesAreTrue` is about what is declared,
but a hit in the cache declares what an earlier run wrote, so the invariant says
of *every* cache (in memory, in the temporary file, in the saved one) that each
entry is the content of the file of its stamp, wherever that file is now, unless
it is crossed (`CacheOK`), and of an open file that still has the stamp of its
`stat` that its hash will be its content's (`ReadOK`); that needs stamps to belong to one file (`DiskOK`) and
a run to have seen what is on the disk (`SightOK`). `ScanMissesNothing` is about
the end of a run; `KeptOK` says phase by phase that a kept file is still to be
looked at or already declared. One lemma per step of a run says what becomes of
its record (`…Run`), another that the invariant survives (`…Invariant`), and
`DiskInvariant` serves all changes of the disk.

**`FamilyGroupingProofs`** — `FamiliesTypeCorrect`, `SlugsStayUnique`,
`MembershipsLeadSomewhere`, `HandmadeFamiliesAreKept`, for any number of imports and
gestures at once. `MembersHaveFamilies` needs that a request about to place a font
still has its row, which holds because a harvest spares fonts found a moment ago,
and that what it has read holds together (`WorkIsSound`).
`CountsStayExact` (`CountsAreExact`) is arithmetic on sets. Whatever moves fonts
moves a set of them to one family and lowers the counts of the others:
`ExactPlacement` says that the counts stay exact if each other family loses as
many as it had of them (`Accounted`) and the new one's row says what it has plus
what it gets. One lemma per step (`…Counts`) provides these numbers; those of an import, a
placement, a removal and a merge have to use that what was read is what is
overwritten, unless the reading is stale, which `drifted` tells.

**`DuplicateFacesProofs`** — `FacesTypeCorrect`, `NothingIsLost`,
`UntouchedFacesStay`, `ReviewsArePerformed`, `ResolutionsAreFinal`: all the
properties of the module. Rows come in any order, and a review and a resolution
see different ones, so the heart is that the order decides nothing: the keeper of
a bucket is its best font in a strict total order (`FirstIsBest`), the groups are
a function of the active fonts (`OrderDecidesNothing`), and a face has one group
(`OneGroupPerFace`). The invariant then says that what a request is about to write
is what the rows it read give (`Chosen`), whose fonts are as they were unless
somebody touched them, and likewise for the review (`Shown`).

**`BackupProofs`** — `BackupTypeCorrect` and `LastBackupStays`: `PerSecond <= Keep
=> (Spec => []LastBackupIsKept)`. The rotation sorts names, and names do not sort
by age within a second, nor do they say what was verified. The argument: a backup
rotates only once it is verified, it is then the last that was (`BackupUnderWay`),
no snapshot is of a later second (`SnapshotsInOrder`), and fewer than `PerSecond`
names of its own second can sort after it (`FewSortAfter`). A second with more
backups than are kept could lose the last good one; the code takes one at start-up
and then one a day, and keeps fourteen (`BACKUP_KEEP`).

Model-checked only: the liveness properties (`TrashEmpties`, `DevicesSettle`,
`DoomedFontsGo`, `LibraryFontsCome`, `ChangesReachDevices`, `FontsAreMirrored`),
which tlapm cannot reach, and `DeletionsHold`, which holds for one device only; what
holds for several is `DeletionsAreUndoneAsExcused`. Every other property of a
passing run is stated by a theorem.

## 7. Plan

1. Proofs: `FontStorage`, with one request at a time, as a refinement of
   `FontLibrary`; that a resolution of `DuplicateFaces` is one of `FontLibrary`'s.
2. `FontSync` with directories that are not ingested, and with a retirement or a
   merge of the device while it runs.
3. The installer's names in `FontSync`: a run that works on files rather than on
   hashes.

## 8. Not modelled

- Font parsing (`font_analyzer.py`), authentication, statistics and system routes,
  server wiring, the agent's configuration file: no state of their own, or none
  that another component depends on. The settings appear as constants.
- Schema migrations: run once with the server stopped.
- The macOS application and the launchd set-up: they start and stop the agent,
  which appears as processes that run, die and are started again.
- The font registry of macOS: a system call whose effect the program does not
  read; its index appears in `AgentScan` as what Core Text may or may not show.
- The web interface and the presence of devices shown there: presentation of the
  server's state (the two lines above apart).
- Left out of modelled components: the text of descriptive columns, pagination,
  the archive of a family, counters, logging; symbolic links in `AgentScan`;
  directories that are not ingested in `FontSync`, where all that is declared is
  installable.
- Assumed: no write gives a file the size and time of another; a cache file two
  runs have written into has whole blocks of either text, so that an entry in it is
  made of the two entries of its path, and a size or a time made of two is no
  file's; a second sees fewer than a hundred snapshots; a font is not harvested
  while a request that found it in the library is under way.
