--------------------------- MODULE LibraryHistory ---------------------------
(***************************************************************************)
(* What the devices really said.  FontLibrary decides from what the        *)
(* database remembers (associations, times); this module runs it beside a  *)
(* record of the declarations and transfers themselves, kept from the      *)
(* requests and never from the columns, and compares the decisions with    *)
(* that record.                                                            *)
(***************************************************************************)
EXTENDS FontLibrary

VARIABLES
  vouched,    \* vouched[f]: devices that had f since it last became active
  witnessed,  \* witnessed[f]: devices credibly heard since f was last deleted
  claimed,    \* claimed[d]: installable fonts of d's last credible declaration
  leftOpen,   \* candidacies kept open past what should have closed them
  heard       \* the delta of the last step, <<>> after any other step

history == <<vouched, witnessed, claimed, leftOpen, heard>>

HistoryInit ==
  /\ Init
  /\ vouched = [f \in Font |-> {}]
  /\ witnessed = [f \in Font |-> {}]
  /\ claimed = [d \in Device |-> {}]
  /\ leftOpen = {}
  /\ heard = <<>>

(* voucher[f]: the devices this request shows to have f. *)
(* speakers: the devices whose declaration it brings.    *)
(* known: the candidates it declares installable that were already on the  *)
(* device's inventory, where they do not count as arrivals.                *)
Note(voucher, speakers, known) ==
  /\ vouched' = [f \in Font |->
       (IF f \in Active(db') \ Active(db) THEN {} ELSE vouched[f]) \cup voucher[f]]
  /\ witnessed' = [f \in Font |->
       IF f \notin db.deleted \cup db'.deleted THEN {}
       ELSE IF f \in db.deleted THEN witnessed[f] \cup speakers ELSE speakers]
  /\ leftOpen' = db'.candidate \cap (leftOpen \cup (db.deleted \ db'.deleted) \cup known)

(* Files the server would refuse are left out: they never become fonts. *)
DeclaredBy(d, decl) == [f \in Font |-> IF f \in decl \cap Valid THEN {d} ELSE {}]

NoVoucher == [f \in Font |-> {}]

HeardSuspicious(d, decl) ==
  /\ SuspiciousDelta(d, decl)
  /\ Note(DeclaredBy(d, decl), {}, {})
  /\ heard' = [device |-> d, decl |-> decl, credible |-> FALSE]
  /\ UNCHANGED claimed

HeardCredible(d, decl, ingestible) ==
  /\ CredibleDelta(d, decl, ingestible)
  /\ Note(DeclaredBy(d, decl), {d},
          {f \in ingestible \cap db.candidate : <<d, f>> \in db.holds})
  /\ heard' = [device |-> d, decl |-> decl, credible |-> TRUE]
  /\ claimed' = [claimed EXCEPT ![d] = ingestible \cap Valid]

Transferred(d, f) ==
  /\ Push(d, f) \/ Pull(d, f)
  /\ Note(DeclaredBy(d, {f}), {}, {})
  /\ heard' = <<>>
  /\ UNCHANGED claimed

(* The target of a merge is the same machine as its sources. *)
Merged(d, sources) ==
  /\ MergeDevices(d, sources)
  /\ Note([f \in Font |-> IF vouched[f] \cap sources # {} THEN {d} ELSE {}], {}, {})
  /\ heard' = <<>>
  /\ claimed' = [e \in Device |-> IF e \in sources THEN {} ELSE claimed[e]]

(* A device that comes back has said nothing yet. *)
Registered(d) ==
  /\ RegisterDevice(d)
  /\ Note(NoVoucher, {}, {})
  /\ heard' = <<>>
  /\ claimed' = [claimed EXCEPT ![d] = {}]

Unheard ==
  /\ \/ \E d \in Device : DeleteDevice(d)
     \/ \E d \in Device, f \in Font : ActivateFont(d, f) \/ DeactivateFont(d, f)
     \/ \E f \in Font : FontStep(f)
     \/ BulkStep
  /\ Note(NoVoucher, {}, {})
  /\ heard' = <<>>
  /\ UNCHANGED claimed

HistoryNext ==
  \/ \E d \in Device, decl \in SUBSET Font : HeardSuspicious(d, decl)
  \/ \E d \in Device, decl \in SUBSET Font : \E ingestible \in SUBSET decl :
       HeardCredible(d, decl, ingestible)
  \/ \E d \in Device, f \in Font : Transferred(d, f)
  \/ \E d \in Device, sources \in SUBSET Device : Merged(d, sources)
  \/ \E d \in Device : Registered(d)
  \/ Unheard

HistorySpec == HistoryInit /\ [][HistoryNext]_<<vars, history>>

-----------------------------------------------------------------------------
HistoryTypeOK ==
  /\ TypeOK
  /\ vouched \in [Font -> SUBSET Device]
  /\ witnessed \in [Font -> SUBSET Device]
  /\ claimed \in [Device -> SUBSET Font]
  /\ leftOpen \in SUBSET Font
  /\ heard \in {<<>>} \cup
       [device : Device, decl : SUBSET Font, credible : BOOLEAN]

(* A device is only believed to hold an active font if it declared it or   *)
(* transferred it since the font was last put back: a restoration or an    *)
(* upload empties the font's inventory, or the next delta of a machine     *)
(* that has meanwhile uninstalled it would quarantine it again, for ever   *)
(* (invariant I4, PLAN-ETATS-FONTS 3.5).                                   *)
AssociationsAreFresh ==
  \A d \in Device, f \in Active(db) : <<d, f>> \in db.holds => d \in vouched[f]

Harvested == db.rows \ db'.rows

(* A tombstone is forgotten only when every live device has declared since *)
(* the deletion: guard G7 of PLAN-ETATS-FONTS 3.4, for the candidacies the *)
(* code closes when it should.                                             *)
HarvestWaitsForEveryDevice ==
  [][\A f \in Harvested \ leftOpen : Live(db) \subseteq witnessed'[f]]_<<vars, history>>

(* ... and never while the last credible declaration of a live device      *)
(* still lists the font as one it would push back.                         *)
HarvestSparesDeclaredFonts ==
  [][\A f \in Harvested \ leftOpen, d \in Live(db) : f \notin claimed'[d]]_<<vars, history>>

(* Guard G8, which makes one omission harmless: the declaration that first *)
(* omits a font its device would push back does not harvest it.            *)
OmissionIsHarmless ==
  [][\A f \in Harvested \ leftOpen :
       heard' # <<>> => f \notin claimed[heard'.device]]_<<vars, history>>

(* G7 without the reservation.  An upload wakes a tombstone and leaves its *)
(* candidacy open, which then serves for the next deletion.                *)
EveryLiveDeviceDeclaredSinceDeletion ==
  [][\A f \in Harvested : Live(db) \subseteq witnessed'[f]]_<<vars, history>>

(* G8 without the reservation.  A device whose copy goes from the system   *)
(* layer to an installable one leaves the candidacy open.                  *)
OneOmissionIsNotFatal ==
  [][\A f \in Harvested :
       heard' # <<>> => f \notin claimed[heard'.device]]_<<vars, history>>

(* Guard G6 as PLAN-ETATS-FONTS 3.4 states it: a device retired from the   *)
(* interface goes on protecting what it holds.  A deletion wipes the       *)
(* font's associations; a device retired before its next declaration has   *)
(* none left to protect the font with.                                     *)
RetiredDevicesProtectTheirFonts ==
  [][\A f \in Harvested \ leftOpen, d \in db.retired : f \notin claimed[d]]_<<vars, history>>

(* A delta sent again, with nothing in between, is judged as it was the    *)
(* first time: the client retries it as a pure read.                       *)
RetryKeepsVerdict ==
  [][heard # <<>> /\ heard' # <<>> /\ heard'.device = heard.device
       /\ heard'.decl = heard.decl => heard'.credible = heard.credible]_<<vars, history>>
=============================================================================
