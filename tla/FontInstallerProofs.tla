------------------------- MODULE FontInstallerProofs -------------------------
(***************************************************************************)
(* Installing and uninstalling spare the files of other fonts, for any     *)
(* names, contents and library.                                            *)
(***************************************************************************)
EXTENDS FontInstaller, TLAPS

LEMMA UserNamesType == UserName \subseteq Name
  BY NamesAssumption

LEMMA TargetType ==
  ASSUME NEW n \in Name, NEW c \in Content
  PROVE  Target(n, c) \in Name
  BY NamesAssumption DEF Target

(* What an uninstallation removes are copies of the font and nothing else. *)
LEMMA UninstalledAreCopies ==
  ASSUME NEW n \in Name, NEW c \in Content,
         NEW p \in Uninstalled(n, c)
  PROVE  p \in Managed \X Name /\ file[p[1]][p[2]] = c
  BY NamesAssumption DEF Uninstalled, Copies

(* A single file changes. *)
LEMMA PutType ==
  ASSUME TypeOK, NEW dir \in Folder, NEW n \in Name,
         NEW c \in Content \cup {NoFile, Torn},
         file' = [file EXCEPT ![dir] = [@ EXCEPT ![n] = c]]
  PROVE  file' \in [Folder -> [Name -> Content \cup {NoFile, Torn}]]
  BY DEF TypeOK

-----------------------------------------------------------------------------
LEMMA AgentType ==
  ASSUME TypeOK, AgentStep
  PROVE  TypeOK'
  <1>1. ASSUME NEW n \in Name, NEW c \in Content, Install(n, c) PROVE TypeOK'
    BY <1>1, TargetType, PutType DEF TypeOK, Install, Write, Folder
  <1>2. ASSUME NEW n \in Name, NEW c \in Content, Uninstall(n, c) PROVE TypeOK'
    BY <1>2 DEF TypeOK, Uninstall
  <1>3. CASE StartPass
    BY <1>3 DEF TypeOK, StartPass, Switching
  <1>4. ASSUME NEW n \in Name, NEW from \in Folder, NEW to \in Folder, Move(n, from, to)
        PROVE  file' \in [Folder -> [Name -> Content \cup {NoFile, Torn}]]
    BY <1>4 DEF TypeOK, Move
  <1>5. ASSUME NEW n \in Name, Deactivate(n) PROVE TypeOK'
    <2>1. file' \in [Folder -> [Name -> Content \cup {NoFile, Torn}]]
      BY <1>4, <1>5 DEF TypeOK, Deactivate, Folder
    <2> QED BY <2>1, <1>5 DEF TypeOK, Deactivate, Switching
  <1>6. ASSUME NEW n \in Name, Activate(n) PROVE TypeOK'
    <2>1. file' \in [Folder -> [Name -> Content \cup {NoFile, Torn}]]
      BY <1>4, <1>6 DEF TypeOK, Activate, Folder
    <2> QED BY <2>1, <1>6 DEF TypeOK, Activate, Switching
  <1> QED BY <1>1, <1>2, <1>3, <1>5, <1>6 DEF AgentStep

LEMMA UserType ==
  ASSUME TypeOK, UserStep
  PROVE  TypeOK'
  <1> USE ContentsAssumption
  <1>1. ASSUME NEW dir \in {"installed", "nested"}, NEW n \in UserName,
               NEW c \in Content \cup {NoFile}, UserPuts(dir, n, c)
        PROVE  TypeOK'
    BY <1>1, PutType, UserNamesType DEF TypeOK, UserPuts, Edit, Folder
  <1>2. ASSUME NEW n \in Name, NEW m \in UserName, UserRenames(n, m) PROVE TypeOK'
    BY <1>2, UserNamesType DEF TypeOK, UserRenames, Edit, Folder
  <1>3. ASSUME NEW c \in Content, UserSwitches(c) PROVE TypeOK'
    BY <1>3 DEF TypeOK, UserSwitches, Edit
  <1> QED BY <1>1, <1>2, <1>3 DEF UserStep

(* Every name has at most one file, whole or torn, in each folder.         *)
THEOREM InstallerTypeCorrect == Spec => []TypeOK
  <1>1. Init => TypeOK
    BY ContentsAssumption DEF Init, TypeOK, Switching, NoSwitch
  <1>2. TypeOK /\ [Next]_vars => TypeOK'
    <2> SUFFICES ASSUME TypeOK, [Next]_vars PROVE TypeOK'
      OBVIOUS
    <2>1. ASSUME NEW n \in Name, NEW c \in Content, InstallInterrupted(n, c) PROVE TypeOK'
      BY <2>1, TargetType, PutType, ContentsAssumption
         DEF TypeOK, InstallInterrupted, Write, Folder
    <2>2. CASE UNCHANGED vars
      BY <2>2 DEF TypeOK, vars
    <2> QED BY <2>1, <2>2, AgentType, UserType DEF Next
  <1> QED BY <1>1, <1>2, PTL DEF Spec

-----------------------------------------------------------------------------
LEMMA InstallSpares ==
  ASSUME TypeOK, NEW n \in Name, NEW c \in Content,
         Install(n, c) \/ InstallInterrupted(n, c)
  PROVE  Spares(c)
  <1>1. file["installed"][Target(n, c)] \in {NoFile, c}
    BY DEF Install, InstallInterrupted
  <1>2. PICK x : Write(Target(n, c), x)
    BY DEF Install, InstallInterrupted
  <1> QED BY <1>1, <1>2, TargetType DEF TypeOK, Write, Spares, Folder

LEMMA UninstallSpares ==
  ASSUME TypeOK, NEW n \in Name, NEW c \in Content, Uninstall(n, c)
  PROVE  Spares(c)
  <1> SUFFICES ASSUME NEW dir \in Folder, NEW m \in Name, file[dir][m] \notin {NoFile, c}
               PROVE  file'[dir][m] = file[dir][m]
    BY DEF Spares
  <1>1. <<dir, m>> \notin Uninstalled(n, c)
    BY UninstalledAreCopies
  <1> QED BY <1>1 DEF Uninstall

(* Installing or uninstalling a font changes no file of another content,   *)
(* whatever names the user's files, the library's and the disambiguated    *)
(* ones share.                                                             *)
THEOREM HomonymsStay == Spec => HomonymsAreSpared
  <1>1. TypeOK /\ [Next]_vars =>
          [\A n \in Name, c \in Content :
             (Install(n, c) \/ InstallInterrupted(n, c) \/ Uninstall(n, c))
               => Spares(c)]_vars
    BY InstallSpares, UninstallSpares
  <1> QED BY <1>1, InstallerTypeCorrect, PTL DEF Spec, HomonymsAreSpared
=============================================================================
