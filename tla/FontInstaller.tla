--------------------------- MODULE FontInstaller ---------------------------
(***************************************************************************)
(* The agent's work on font files (agent/font_installer.py), by name:      *)
(* ~/Library/Fonts, a subfolder of it, and ~/.fontsync/disabled.  Users    *)
(* give their own fonts any name; two different fonts may share one.       *)
(*                                                                         *)
(* The operations are those a run calls: install a missing font, uninstall *)
(* a deleted one, and a pass that moves what it scanned to the folder the  *)
(* server wants it in.  A write that is cut short leaves a torn file.      *)
(***************************************************************************)
EXTENDS Integers, FiniteSets

CONSTANTS
  Name,            \* file names (without folder)
  UserName,        \* those that users give their files
  Content,         \* contents, told apart by their hash
  NoFile, Torn,    \* no file of that name; a file written in part
  Disambiguated,   \* _disambiguated_name: from a name and a hash
  Library,         \* the fonts of the library, each with its name
  Doomed,          \* ... those that are deleted
  MaxEdits,        \* bound on what the user and the server change
  MaxFaults        \* bound on interrupted writes

ASSUME NamesAssumption ==
  /\ UserName \subseteq Name
  /\ Disambiguated \in [Name \X Content -> Name]
  /\ \A n \in Name, c \in Content : Disambiguated[n, c] # n

ASSUME ContentsAssumption ==
  /\ NoFile \notin Content /\ Torn \notin Content /\ Torn # NoFile
  /\ Library \subseteq Name \X Content
  /\ Doomed \subseteq Library
  /\ MaxEdits \in Nat /\ MaxFaults \in Nat

VARIABLES
  file,    \* what each folder has under each name
  off,     \* the fonts the server wants deactivated on this device
  todo,    \* the names the current pass has left to switch
  edits,
  faults

vars == <<file, off, todo, edits, faults>>

Folder == {"installed", "nested", "disabled"}

Managed == {"installed", "disabled"}   \* the folders uninstall_font looks into

Switching == [deactivate : SUBSET Name, activate : SUBSET Name]

NoSwitch == [deactivate |-> {}, activate |-> {}]

Init ==
  /\ file = [dir \in Folder |-> [n \in Name |-> NoFile]]
  /\ off = {}
  /\ todo = NoSwitch
  /\ edits = 0 /\ faults = 0

Has(dir, c) == \E n \in Name : file[dir][n] = c

OnDisk(c) == \E dir \in Folder : Has(dir, c)

-----------------------------------------------------------------------------
(* install_font: where the font goes.  A name taken by another content is  *)
(* left to it.                                                             *)

(* Mutant: the font goes by its own name only. *)
MutantTarget(n, c) == n

Target(n, c) ==
  IF file["installed"][n] \in {NoFile, c} THEN n ELSE Disambiguated[n, c]

(* Mutant: the file is written as a folder. *)
MutantWrite(n, c) == file' = [file EXCEPT !["installed"] = c]

Write(n, c) == file' = [file EXCEPT !["installed"] = [@ EXCEPT ![n] = c]]

(* A font of the library that the device does not declare is pulled. *)
Install(n, c) ==
  /\ <<n, c>> \in Library \ Doomed
  /\ ~OnDisk(c)
  /\ file["installed"][Target(n, c)] \in {NoFile, c}
  /\ Write(Target(n, c), c)
  /\ UNCHANGED <<off, todo, edits, faults>>

(* The process stops in write_bytes. *)
InstallInterrupted(n, c) ==
  /\ faults < MaxFaults
  /\ <<n, c>> \in Library \ Doomed
  /\ ~OnDisk(c)
  /\ file["installed"][Target(n, c)] = NoFile
  /\ Write(Target(n, c), Torn)
  /\ faults' = faults + 1
  /\ UNCHANGED <<off, todo, edits>>

-----------------------------------------------------------------------------
(* uninstall_font: by the expected names, else wherever the hash is found. *)

Copies(names, c) ==
  {p \in Managed \X names : file[p[1]][p[2]] = c}

(* Mutant: only the expected names are looked at. *)
MutantUninstalled(n, c) == Copies({n, Disambiguated[n, c]}, c)

(* Mutant: what bears the expected names is removed unread. *)
MutantUnread(n, c) == Managed \X {n, Disambiguated[n, c]}

Uninstalled(n, c) ==
  LET expected == Copies({n, Disambiguated[n, c]}, c)
  IN  IF expected # {} THEN expected ELSE Copies(Name, c)

Uninstall(n, c) ==
  /\ <<n, c>> \in Doomed
  /\ Uninstalled(n, c) # {}
  /\ file' = [dir \in Folder |-> [m \in Name |->
                IF <<dir, m>> \in Uninstalled(n, c) THEN NoFile ELSE file[dir][m]]]
  /\ UNCHANGED <<off, todo, edits, faults>>

-----------------------------------------------------------------------------
(* The switching pass of a run: what is scanned is found again by name.    *)

StartPass ==
  /\ todo = NoSwitch
  /\ todo' = [deactivate |-> {n \in Name : \E dir \in {"installed", "nested"} :
                                             file[dir][n] \in off},
              activate   |-> {n \in Name : file["disabled"][n] \notin off \cup {NoFile}}]
  /\ todo' # NoSwitch
  /\ UNCHANGED <<file, off, edits, faults>>

Move(n, from, to) ==
  file' = [dir \in Folder |-> [file[dir] EXCEPT ![n] =
             IF dir = to THEN file[from][n] ELSE IF dir = from THEN NoFile ELSE @]]

(* deactivate_font removes what disabled/ has under that name. *)
Deactivate(n) ==
  /\ n \in todo.deactivate
  /\ IF file["installed"][n] # NoFile THEN Move(n, "installed", "disabled")
     ELSE UNCHANGED file
  /\ todo' = [todo EXCEPT !.deactivate = @ \ {n}]
  /\ UNCHANGED <<off, edits, faults>>

(* activate_font leaves everything in place when the name is taken. *)
Activate(n) ==
  /\ todo.deactivate = {}
  /\ n \in todo.activate
  /\ IF file["installed"][n] = NoFile /\ file["disabled"][n] # NoFile
     THEN Move(n, "disabled", "installed")
     ELSE UNCHANGED file
  /\ todo' = [todo EXCEPT !.activate = @ \ {n}]
  /\ UNCHANGED <<off, edits, faults>>

-----------------------------------------------------------------------------
Edit ==
  /\ edits < MaxEdits
  /\ edits' = edits + 1
  /\ UNCHANGED <<todo, faults>>

(* The user copies, replaces or removes a file, or renames one. *)
UserPuts(dir, n, c) ==
  /\ Edit
  /\ file' = [file EXCEPT ![dir] = [@ EXCEPT ![n] = c]]
  /\ UNCHANGED off

UserRenames(n, m) ==
  /\ Edit
  /\ file["installed"][n] # NoFile
  /\ file["installed"][m] = NoFile
  /\ file' = [file EXCEPT !["installed"] =
                 [@ EXCEPT ![m] = file["installed"][n], ![n] = NoFile]]
  /\ UNCHANGED off

UserSwitches(c) ==
  /\ Edit
  /\ off' = IF c \in off THEN off \ {c} ELSE off \cup {c}
  /\ UNCHANGED file

-----------------------------------------------------------------------------
AgentStep ==
  \/ \E n \in Name, c \in Content : Install(n, c) \/ Uninstall(n, c)
  \/ StartPass
  \/ \E n \in Name : Deactivate(n) \/ Activate(n)

UserStep ==
  \/ \E dir \in {"installed", "nested"}, n \in UserName, c \in Content \cup {NoFile} :
       UserPuts(dir, n, c)
  \/ \E n \in Name, m \in UserName : UserRenames(n, m)
  \/ \E c \in Content : UserSwitches(c)

Next ==
  \/ AgentStep
  \/ \E n \in Name, c \in Content : InstallInterrupted(n, c)
  \/ UserStep

Spec == Init /\ [][Next]_vars

(* Every run uninstalls what is deleted and finishes its pass; it pulls    *)
(* what is missing after its pass, in whatever state that leaves the names.*)
FairSpec ==
  /\ Spec
  /\ \A n \in Name, c \in Content : WF_vars(Uninstall(n, c))
  /\ \A n \in Name : WF_vars(Deactivate(n)) /\ WF_vars(Activate(n))
  /\ \A p \in Library : SF_vars(todo = NoSwitch /\ Install(p[1], p[2]))

-----------------------------------------------------------------------------
(* Type invariant. *)
TypeOK ==
  /\ file \in [Folder -> [Name -> Content \cup {NoFile, Torn}]]
  /\ off \subseteq Content
  /\ todo \in Switching
  /\ edits \in 0..MaxEdits /\ faults \in 0..MaxFaults

(* Installing or uninstalling a font touches no file of another content,   *)
(* whatever its name (the two invariants of the module's header).          *)
Spares(c) ==
  \A dir \in Folder, m \in Name :
     file[dir][m] \notin {NoFile, c} => file'[dir][m] = file[dir][m]

HomonymsAreSpared ==
  [][\A n \in Name, c \in Content :
       (Install(n, c) \/ InstallInterrupted(n, c) \/ Uninstall(n, c)) => Spares(c)]_vars

(* A deleted font leaves the two managed folders, under whatever names it   *)
(* is found there, however often users have copied or renamed it before.    *)
DoomedFontsGo ==
  <>[](\A p \in Doomed : ~Has("installed", p[2]) /\ ~Has("disabled", p[2]))

(* The code gives up on a font: its name belongs to a file that stays      *)
(* there, and a write under the disambiguated name was cut short.          *)
GivenUp(n, c) ==
  /\ file["installed"][n] \notin {NoFile, c} \cup {p[2] : p \in Doomed}
  /\ file["installed"][Disambiguated[n, c]] = Torn

(* A font of the library comes to the disk although its name is taken, for *)
(* a time or for good, or a write was cut short: what that write left is   *)
(* not taken for the font.  Only both together, a name that stays taken    *)
(* and a cut write under the disambiguated one, keep it away.              *)
LibraryFontsCome ==
  \A p \in Library \ Doomed : <>[](OnDisk(p[2]) \/ GivenUp(p[1], p[2]))

(* What the header says of switching a font off or on: "le fichier reste    *)
(* toujours sur le disque".                                                 *)
SwitchingKeepsFiles ==
  [][(\E n \in Name : Deactivate(n) \/ Activate(n)) =>
       \A c \in Content : OnDisk(c) => OnDisk(c)']_vars
=============================================================================
