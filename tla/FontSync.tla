------------------------------ MODULE FontSync ------------------------------
(***************************************************************************)
(* The agent's run (agent/sync_command.py) against the library: each       *)
(* request is one step of the server, each change of the disk one step of  *)
(* the agent; users, other runs and failures come in between.              *)
(*                                                                         *)
(* A font on a disk is its hash (FontInstaller looks at file names), and   *)
(* every declared font lies in an ingested directory.  Devices are neither *)
(* retired nor merged here, and the bulk gestures on the trash are left    *)
(* out: LibraryHistory and FontLibrary have them.                          *)
(***************************************************************************)
EXTENDS FontLibrary

CONSTANTS
  Run,           \* the processes that run the agent: listener, launchd
  DeviceOf,      \* the device each of them runs on
  Installable,   \* the fonts whose format install_font accepts
  Switch,        \* the combinations of device settings that are looked at
  MaxGestures,   \* bound on what users do
  MaxFaults      \* bound on failures of runs

ASSUME RunAssumption ==
  /\ DeviceOf \in [Run -> Device]
  /\ Installable \subseteq Font
  /\ Switch \subseteq SUBSET {"auto_pull", "auto_push", "propagate_deletions"}
  /\ MaxGestures \in Nat /\ MaxFaults \in Nat

VARIABLES
  disk,      \* per device, the fonts in ~/Library/Fonts and in disabled/
  settings,  \* per device, the settings that are on
  run,       \* per process, the run it is in
  gestures,  \* what users have done so far
  faults,    \* failures so far
  removed,   \* history: the fonts a user has taken off a disk
  buried,    \* history: the fonts deleted that no user has brought back
  excused,   \* history: those of them a device may nevertheless bring back
  recorded   \* history: the associations made since the last declaration
             \*   that all runs under way agree on

historyVars == <<removed, buried, excused, recorded>>

syncVars == <<db, blobs, disk, settings, run, gestures, faults, historyVars>>

Disk == [installed : SUBSET Font, disabled : SUBSET Font]

Task == {"push", "uninstall", "deactivate", "activate", "pull", "install"}

RunState ==
  [at      : {"idle", "scanned", "registered", "working"},
   enabled : Switch \cup {{}},       \* the settings read at registration
   scan    : Disk,
   todo    : [Task -> SUBSET Font]]  \* "install": pulled and in hand

Nothing == [installed |-> {}, disabled |-> {}]

NoTask == [t \in Task |-> {}]

Idle == [at |-> "idle", enabled |-> {}, scan |-> Nothing, todo |-> NoTask]

SyncInit ==
  /\ Init
  /\ disk = [d \in Device |-> Nothing]
  /\ settings \in [Device -> Switch]
  /\ run = [r \in Run |-> Idle]
  /\ gestures = 0 /\ faults = 0
  /\ removed = {} /\ buried = {} /\ excused = {} /\ recorded = {}

OnDisk(d) == disk[d].installed \cup disk[d].disabled

(* Mutant: what lies in disabled/ is not declared. *)
MutantDeclared(r) == run[r].scan.installed

(* _declared_fonts: what is in disabled/ is declared like the rest. *)
Declared(r) == run[r].scan.installed \cup run[r].scan.disabled

(* A candidacy still open from a former life is left out: see LibraryHistory. *)
JustDeleted == (db'.deleted \ db.deleted) \ db.candidate

Buries == buried' = buried \cup JustDeleted

Installing(d) == UNION {run[r].todo["install"] : r \in {q \in Run : DeviceOf[q] = d}}

(* What r's declaration leaves out, after an older scan, although its       *)
(* device has the file or is installing it.                                *)
Omitted(r) ==
  LET d    == DeviceOf[r]
      decl == Declared(r)
  IN  IF decl = {} \/ Suspicious(db, d, decl) THEN {}
      ELSE (OnDisk(d) \cup Installing(d)) \ decl

(* A font deleted anew is no longer excused. *)
Excuses(F) == excused' = ((excused \cup F) \ JustDeleted) \cap buried'

ServerUnchanged == UNCHANGED <<db, blobs, buried, excused, recorded>>

UserUnchanged == UNCHANGED <<settings, gestures, removed>>

-----------------------------------------------------------------------------
(* The run: scan, register, delta ... *)

When(enabled, F) == IF enabled THEN F ELSE {}

Scan(r) ==
  /\ run[r].at = "idle"
  /\ run' = [run EXCEPT ![r] = [Idle EXCEPT !.at = "scanned",
                                            !.scan = disk[DeviceOf[r]]]]
  /\ ServerUnchanged /\ UserUnchanged /\ UNCHANGED <<disk, faults>>

(* Mutant: the run takes pushing to be always off. *)
MutantRegister(r) ==
  LET d == DeviceOf[r] IN
  /\ run[r].at = "scanned"
  /\ IF d \in Live(db) THEN UNCHANGED <<db, blobs>> ELSE RegisterDevice(d)
  /\ run' = [run EXCEPT ![r].at = "registered",
                        ![r].enabled = settings[d] \ {"auto_push"}]
  /\ UserUnchanged /\ UNCHANGED <<disk, faults, buried, recorded>>
  /\ Excuses(When(d \notin Live(db), OnDisk(d)))

Register(r) ==
  LET d == DeviceOf[r] IN
  /\ run[r].at = "scanned"
  /\ IF d \in Live(db) THEN UNCHANGED <<db, blobs>> ELSE RegisterDevice(d)
  /\ run' = [run EXCEPT ![r].at = "registered", ![r].enabled = settings[d]]
  /\ UserUnchanged /\ UNCHANGED <<disk, faults, buried, recorded>>
  /\ Excuses(When(d \notin Live(db), OnDisk(d)))

(* What the agent makes of the answer, computed in the state s after the   *)
(* commit.  Whatever it found in disabled/ and the server does not want    *)
(* there is activated.                                                     *)
Tasks(s, r) ==
  LET d    == DeviceOf[r]
      decl == Declared(r)
      off  == ToDeactivate(s, d, decl)
  IN  [NoTask EXCEPT
         !["push"] = When("auto_push" \in run[r].enabled, UnknownToServer(s, decl)),
         !["uninstall"] = When("propagate_deletions" \in settings[d],
                               ToUninstall(s, decl)),
         !["deactivate"] = off \cap run[r].scan.installed,
         !["activate"] = run[r].scan.disabled \ off,
         !["pull"] = When("auto_pull" \in run[r].enabled, MissingOnDevice(s, decl))]

(* What r declares is still there, will be declared by the runs that have  *)
(* yet to, and no run is about to take it away.                            *)
Agreed(r) ==
  {f \in Declared(r) \cap OnDisk(DeviceOf[r]) :
     \A q \in {x \in Run : DeviceOf[x] = DeviceOf[r]} :
       /\ run[q].at \in {"scanned", "registered"} => f \in Declared(q)
       /\ f \notin run[q].todo["uninstall"]}

Records(r) ==
  recorded' = (recorded \cup (db'.holds \ db.holds)) \ ({DeviceOf[r]} \X Agreed(r))

Declares(d, decl) ==
  IF decl = {} THEN UNCHANGED <<db, blobs>>
  ELSE SuspiciousDelta(d, decl) \/ CredibleDelta(d, decl, decl)

Delta(r) ==
  /\ run[r].at = "registered"
  /\ Declares(DeviceOf[r], Declared(r))
  /\ Records(r)
  /\ Buries
  /\ Excuses(Omitted(r))
  /\ run' = [run EXCEPT ![r].at = "working", ![r].todo = Tasks(db', r)]
  /\ UserUnchanged /\ UNCHANGED <<disk, faults>>

(* The answer is lost and _send sends the same declaration again. *)
DeltaAnswerLost(r) ==
  /\ run[r].at = "registered"
  /\ faults < MaxFaults
  /\ faults' = faults + 1
  /\ Declares(DeviceOf[r], Declared(r))
  /\ Records(r)
  /\ Buries
  /\ Excuses(Omitted(r))
  /\ UserUnchanged /\ UNCHANGED <<disk, run>>

-----------------------------------------------------------------------------
(* ... then push, uninstall, deactivate, activate and pull, font by font.  *)

Order == <<"push", "uninstall", "deactivate", "activate", "pull">>

(* The task comes after those before it in the run; a pulled font is       *)
(* installed before the next one is pulled.                                *)
Working(r, t, f) ==
  /\ run[r].at = "working"
  /\ f \in run[r].todo[t]
  /\ t # "install" => /\ run[r].todo["install"] = {}
                      /\ \E i \in 1..5 : /\ Order[i] = t
                                         /\ \A j \in 1..(i - 1) :
                                              run[r].todo[Order[j]] = {}

Tick(r, t, f) == run' = [run EXCEPT ![r].todo[t] = @ \ {f}]

(* The file may have gone; the server refuses invalid and deleted fonts. *)
PushFont(r, f) ==
  LET d == DeviceOf[r] IN
  /\ Working(r, "push", f)
  /\ IF f \in OnDisk(d) \cap Valid /\ f \notin db.deleted
     THEN Push(d, f) ELSE UNCHANGED <<db, blobs>>
  /\ Tick(r, "push", f)
  /\ recorded' = recorded \cup (db'.holds \ db.holds)
  /\ UserUnchanged /\ UNCHANGED <<disk, faults, buried, excused>>

(* The tasks that only change the disk. *)
DiskTask(r, t, f, installed, disabled) ==
  /\ Working(r, t, f)
  /\ disk' = [disk EXCEPT ![DeviceOf[r]] = [installed |-> installed,
                                            disabled |-> disabled]]
  /\ Tick(r, t, f)
  /\ ServerUnchanged /\ UserUnchanged /\ UNCHANGED faults

Uninstall(r, f) ==
  LET k == disk[DeviceOf[r]] IN
  DiskTask(r, "uninstall", f, k.installed \ {f}, k.disabled \ {f})

Deactivate(r, f) ==
  LET k == disk[DeviceOf[r]] IN
  DiskTask(r, "deactivate", f, k.installed \ {f},
           k.disabled \cup (k.installed \cap {f}))

(* Mutant: fonts are never brought back from disabled/. *)
MutantActivate(r, f) ==
  LET k == disk[DeviceOf[r]] IN
  DiskTask(r, "activate", f, k.installed, k.disabled)

Activate(r, f) ==
  LET k == disk[DeviceOf[r]] IN
  DiskTask(r, "activate", f, k.installed \cup (k.disabled \cap {f}),
           IF f \in k.installed THEN k.disabled ELSE k.disabled \ {f})

(* The server records the association when it sends the file. *)
PullFont(r, f) ==
  LET sent == f \in Active(db) \cap blobs IN
  /\ Working(r, "pull", f)
  /\ IF sent THEN Pull(DeviceOf[r], f) ELSE UNCHANGED <<db, blobs>>
  /\ run' = [run EXCEPT ![r].todo["pull"] = @ \ {f},
                        ![r].todo["install"] = IF sent THEN {f} ELSE {}]
  /\ recorded' = recorded \cup (db'.holds \ db.holds)
  /\ UserUnchanged /\ UNCHANGED <<disk, faults, buried, excused>>

Install(r, f) ==
  LET k == disk[DeviceOf[r]] IN
  DiskTask(r, "install", f, k.installed \cup ({f} \cap Installable), k.disabled)

(* The end: one reindexing of the fonts. *)
Finish(r) ==
  /\ run[r].at = "working"
  /\ run[r].todo = NoTask
  /\ run' = [run EXCEPT ![r] = Idle]
  /\ ServerUnchanged /\ UserUnchanged /\ UNCHANGED <<disk, faults>>

(* One font fails: it is logged and the run goes on. *)
TaskFails(r, t, f) ==
  /\ faults < MaxFaults
  /\ faults' = faults + 1
  /\ Working(r, t, f)
  /\ Tick(r, t, f)
  /\ ServerUnchanged /\ UserUnchanged /\ UNCHANGED disk

(* The process dies, or the server cannot be reached (SyncError). *)
RunStops(r) ==
  /\ faults < MaxFaults
  /\ faults' = faults + 1
  /\ run[r].at # "idle"
  /\ run' = [run EXCEPT ![r] = Idle]
  /\ ServerUnchanged /\ UserUnchanged /\ UNCHANGED disk

-----------------------------------------------------------------------------
(* What users do, on a disk and in the library. *)

Gesture ==
  /\ gestures < MaxGestures
  /\ gestures' = gestures + 1
  /\ UNCHANGED <<run, faults>>

UserAdds(d, f) ==
  /\ Gesture
  /\ f \notin disk[d].installed
  /\ disk' = [disk EXCEPT ![d].installed = @ \cup {f}]
  /\ buried' = buried \ {f} /\ excused' = excused \ {f}
  /\ UNCHANGED <<db, blobs, settings, removed, recorded>>

UserRemoves(d, f) ==
  /\ Gesture
  /\ f \in OnDisk(d)
  /\ disk' = [disk EXCEPT ![d] = [installed |-> @.installed \ {f},
                                  disabled |-> @.disabled \ {f}]]
  /\ removed' = removed \cup {<<d, f>>}
  /\ UNCHANGED <<db, blobs, settings, buried, excused, recorded>>

UpdateDevice(d, enabled) ==
  /\ Gesture
  /\ d \in Live(db)
  /\ enabled # settings[d]
  /\ settings' = [settings EXCEPT ![d] = enabled]
  /\ ServerUnchanged /\ UNCHANGED <<disk, removed>>

BringsBack(f) ==
  /\ Gesture
  /\ Upload(f) \/ RestoreFont(f)
  /\ buried' = buried \ {f} /\ excused' = excused \ {f}
  /\ UNCHANGED <<disk, settings, removed, recorded>>

OtherGesture(f) ==
  /\ Gesture
  /\ \/ DeleteFont(f) \/ PurgeFont(f) \/ ConfirmPendingDeletions
     \/ \E d \in Device : ActivateFont(d, f) \/ DeactivateFont(d, f)
  /\ Buries
  /\ Excuses({})
  /\ UNCHANGED <<disk, settings, removed, recorded>>

(* No run lasts as long as the grace period (days). *)
TimePasses(f) ==
  /\ \A r \in Run : run[r].at = "idle"
  /\ GraceElapses(f)
  /\ UNCHANGED <<disk, settings, run, gestures, faults, historyVars>>

-----------------------------------------------------------------------------
RunStep(r) ==
  \/ Scan(r) \/ Register(r) \/ Delta(r) \/ Finish(r)
  \/ \E f \in Font : \/ PushFont(r, f) \/ Uninstall(r, f) \/ Deactivate(r, f)
                     \/ Activate(r, f) \/ PullFont(r, f) \/ Install(r, f)

RunFault(r) ==
  \/ DeltaAnswerLost(r)
  \/ RunStops(r)
  \/ \E t \in Task, f \in Font : TaskFails(r, t, f)

UserStep ==
  \/ \E d \in Device, f \in Font : UserAdds(d, f) \/ UserRemoves(d, f)
  \/ \E d \in Device, enabled \in Switch : UpdateDevice(d, enabled)
  \/ \E f \in Font : BringsBack(f) \/ OtherGesture(f)

SyncNext ==
  \/ \E r \in Run : RunStep(r) \/ RunFault(r)
  \/ UserStep
  \/ \E f \in Font : TimePasses(f)

SyncSpec == SyncInit /\ [][SyncNext]_syncVars

(* launchd starts a run every StartInterval, and a run goes on to its end.  *)
(* A run can always go on, so this is WF_syncVars(RunStep(r)).             *)
FairSyncSpec == SyncSpec /\ \A r \in Run : []<><<RunStep(r)>>_syncVars

-----------------------------------------------------------------------------
(* Type invariant. *)
SyncTypeOK ==
  /\ TypeOK
  /\ disk \in [Device -> Disk]
  /\ settings \in [Device -> Switch]
  /\ run \in [Run -> RunState]
  /\ gestures \in 0..MaxGestures /\ faults \in 0..MaxFaults
  /\ removed \subseteq Device \X Font /\ recorded \subseteq Device \X Font
  /\ buried \subseteq Font /\ excused \subseteq buried

(* A delta takes a font out of the library on account of a device only if   *)
(* a user has taken the file off that device: neither a deactivation nor    *)
(* the agent's own work passes for a deletion.  Left out is what a pull or  *)
(* a push recorded and was not declared since, by every run under way: the  *)
(* agent may have failed to install it, or a run declare an older scan.     *)
OnlyRemovalsAreDetected ==
  [][\A d \in Device, f \in Font :
       (/\ gestures' = gestures
        /\ f \in db'.deleted \ db.deleted
        /\ <<d, f>> \in db.holds \ db'.holds)
       => <<d, f>> \in removed \cup recorded]_syncVars

(* Deleting a font is not undone by the devices that still have it: while   *)
(* no user uploads it, restores it or puts the file on a disk again, it     *)
(* stays out of the library, even once its row has been harvested.          *)
(* This is what a library with one device gives: its last declaration is    *)
(* the one that forgets the row.                                           *)
DeletionsHold == buried \cap Active(db) = {}

(* With several devices a deletion is undone without a user in two cases,   *)
(* and in no other: a device that joins the library had the file already,   *)
(* or one has declared it gone on a scan older than the file.               *)
OnlyExcusedFontsReturn == buried \cap Active(db) \subseteq excused

(* Once users and failures leave it alone, every device ends up with what   *)
(* its settings ask for: it has the library if it pulls, its fonts are      *)
(* known if it pushes, it has lost what was deleted if it propagates, and   *)
(* its fonts are where the user wants them, active or not.                  *)
Settled(d) ==
  LET on(s) == s \in settings[d]
      pair(f) == <<d, f>>
  IN  /\ on("auto_pull") => Active(db) \cap Installable \subseteq OnDisk(d)
      /\ on("auto_push") => OnDisk(d) \cap Valid \subseteq db.rows
      /\ on("propagate_deletions") => OnDisk(d) \cap db.confirmed = {}
      /\ \A f \in OnDisk(d) \cap Active(db) :
           f \in disk[d].installed <=> pair(f) \notin db.inactive

DevicesSettle == <>[](\A d \in Device : Settled(d))
=============================================================================
