-------------------------- MODULE SyncSignalsProofs --------------------------
(***************************************************************************)
(* No wake-up is lost: while a device is stale for a change that is        *)
(* signalled, something is under way that will make it run.                *)
(***************************************************************************)
EXTENDS SyncSignals, TLAPS

AllServed == \A d \in Device : Served(d)

AllCovered == \A d \in stale \ missed : Covered(d)

IInv == TypeOK /\ AllServed /\ AllCovered

-----------------------------------------------------------------------------
LEMMA StreamType ==
  ASSUME TypeOK, NEW d \in Device, StreamStep(d)
  PROVE  TypeOK'
  <1> USE DEF TypeOK, agentVars
  <1>1. ASSUME NEW c \in Conn, Announced(d, c) PROVE TypeOK'
    BY <1>1 DEF Announced
  <1>2. ASSUME NEW c \in Conn, FirstSignal(d, c) PROVE TypeOK'
    BY <1>2 DEF FirstSignal, Received
  <1>3. ASSUME NEW c \in Conn, Signal(d, c) PROVE TypeOK'
    BY <1>3 DEF Signal, Received
  <1>4. ASSUME NEW c \in Conn, Close(d, c) PROVE TypeOK'
    BY <1>4 DEF Close
  <1>5. ASSUME NEW c \in Conn, CloseEarly(d, c) PROVE TypeOK'
    BY <1>5 DEF CloseEarly
  <1> QED BY <1>1, <1>2, <1>3, <1>4, <1>5 DEF StreamStep

LEMMA ListenerType ==
  ASSUME TypeOK, NEW d \in Device, ListenerStep(d)
  PROVE  TypeOK'
  BY DEF TypeOK, ListenerStep, TakeToken, StartRun, ReadLibrary, EndRun, serverVars

LEMMA FaultType ==
  ASSUME TypeOK, NEW d \in Device, Cut(d) \/ ListenerDies(d) \/ RunFails(d)
  PROVE  TypeOK'
  <1> USE SignalsAssumption DEF TypeOK, Fault, serverVars
  <1>1. CASE Cut(d)
    BY <1>1 DEF Cut
  <1>2. CASE ListenerDies(d)
    BY <1>2 DEF ListenerDies
  <1>3. CASE RunFails(d)
    BY <1>3 DEF RunFails
  <1> QED BY <1>1, <1>2, <1>3

LEMMA NextType == TypeOK /\ [Next]_vars => TypeOK'
  <1> SUFFICES ASSUME TypeOK, [Next]_vars PROVE TypeOK'
    OBVIOUS
  <1>1. ASSUME NEW D \in SUBSET Device, Change(D) PROVE TypeOK'
    BY <1>1, SignalsAssumption DEF TypeOK, Change, serverVars, agentVars
  <1>2. CASE Broadcast
    BY <1>2 DEF TypeOK, Broadcast, agentVars
  <1>3. CASE ServerRestarts
    BY <1>3, SignalsAssumption DEF TypeOK, ServerRestarts, Fault
  <1>4. ASSUME NEW d \in Device, SilentChange(d) PROVE TypeOK'
    BY <1>4, SignalsAssumption DEF TypeOK, SilentChange, serverVars, agentVars
  <1>5. ASSUME NEW d \in Device, PeriodicRun(d) PROVE TypeOK'
    BY <1>5 DEF TypeOK, PeriodicRun, serverVars, agentVars
  <1>6. ASSUME NEW d \in Device, NEW c \in Conn, Connect(d, c) PROVE TypeOK'
    BY <1>6 DEF TypeOK, Connect
  <1>7. CASE UNCHANGED vars
    BY <1>7 DEF TypeOK, vars
  <1> QED
    BY <1>1, <1>2, <1>3, <1>4, <1>5, <1>6, <1>7, StreamType, ListenerType, FaultType DEF Next

(* The variables of the streams and the listeners keep their types.        *)
THEOREM SignalsTypeCorrect == Spec => []TypeOK
  <1>1. Init => TypeOK
    BY SignalsAssumption DEF Init, TypeOK
  <1> QED BY <1>1, NextType, PTL DEF Spec

-----------------------------------------------------------------------------
(* The server's steps for one connection. *)

LEMMA StreamCovers ==
  ASSUME IInv, NEW d \in Device, StreamStep(d)
  PROVE  AllServed' /\ AllCovered'
  <1> USE DEF IInv, TypeOK, AllServed, AllCovered, Served, Covered
  <1>1. ASSUME NEW c \in Conn, Announced(d, c) PROVE AllServed' /\ AllCovered'
    BY <1>1 DEF Announced, agentVars
  <1>2. ASSUME NEW c \in Conn, FirstSignal(d, c) PROVE AllServed' /\ AllCovered'
    BY <1>2 DEF FirstSignal, Received
  <1>3. ASSUME NEW c \in Conn, Signal(d, c) PROVE AllServed' /\ AllCovered'
    BY <1>3 DEF Signal, Received
  <1>4. ASSUME NEW c \in Conn, Close(d, c) PROVE AllServed' /\ AllCovered'
    BY <1>4 DEF Close, agentVars
  <1>5. ASSUME NEW c \in Conn, CloseEarly(d, c) PROVE AllServed' /\ AllCovered'
    BY <1>5 DEF CloseEarly, agentVars
  <1> QED BY <1>1, <1>2, <1>3, <1>4, <1>5 DEF StreamStep

LEMMA ListenerCovers ==
  ASSUME IInv, NEW d \in Device, ListenerStep(d)
  PROVE  AllServed' /\ AllCovered'
  <1> USE DEF IInv, TypeOK, AllServed, AllCovered, Served, Covered, serverVars
  <1>1. CASE TakeToken(d)
    BY <1>1 DEF TakeToken
  <1>2. CASE StartRun(d)
    BY <1>2 DEF StartRun
  <1>3. CASE ReadLibrary(d)
    BY <1>3 DEF ReadLibrary
  <1>4. CASE EndRun(d)
    BY <1>4 DEF EndRun
  <1> QED BY <1>1, <1>2, <1>3, <1>4 DEF ListenerStep

LEMMA FaultCovers ==
  ASSUME IInv, NEW d \in Device, Cut(d) \/ ListenerDies(d) \/ RunFails(d)
  PROVE  AllServed' /\ AllCovered'
  <1> USE DEF IInv, TypeOK, AllServed, AllCovered, Served, Covered, serverVars, Fault
  <1>1. CASE Cut(d)
    BY <1>1 DEF Cut
  <1>2. CASE ListenerDies(d)
    BY <1>2 DEF ListenerDies
  <1>3. CASE RunFails(d)
    BY <1>3 DEF RunFails
  <1> QED BY <1>1, <1>2, <1>3

LEMMA NextCovers ==
  ASSUME IInv, [Next]_vars
  PROVE  AllServed' /\ AllCovered'
  <1> USE DEF IInv, TypeOK, AllServed, AllCovered, Served, Covered, serverVars, agentVars
  <1>1. ASSUME NEW D \in SUBSET Device, Change(D) PROVE AllServed' /\ AllCovered'
    BY <1>1 DEF Change
  <1>2. CASE Broadcast
    BY <1>2 DEF Broadcast
  <1>3. CASE ServerRestarts
    BY <1>3 DEF ServerRestarts, Fault
  <1>4. ASSUME NEW d \in Device, SilentChange(d) PROVE AllServed' /\ AllCovered'
    BY <1>4 DEF SilentChange
  <1>5. ASSUME NEW d \in Device, PeriodicRun(d) PROVE AllServed' /\ AllCovered'
    BY <1>5 DEF PeriodicRun
  <1>6. ASSUME NEW d \in Device, NEW c \in Conn, Connect(d, c) PROVE AllServed' /\ AllCovered'
    BY <1>6, SignalsAssumption DEF Connect
  <1>7. CASE UNCHANGED vars
    BY <1>7 DEF vars
  <1> QED
    BY <1>1, <1>2, <1>3, <1>4, <1>5, <1>6, <1>7, StreamCovers, ListenerCovers, FaultCovers
       DEF Next

(* No wake-up is lost, for any number of devices and connections, whatever *)
(* is cut, restarted or coalesced: a device that is stale for a signalled  *)
(* change is owed a signal, has one on its way, or is about to run.        *)
THEOREM NoWakeUpIsLost == Spec => []StalenessIsCovered
  <1>1. Init => IInv
    BY SignalsAssumption DEF Init, IInv, TypeOK, AllServed, AllCovered, Served
  <1>2. IInv /\ [Next]_vars => IInv'
    BY NextType, NextCovers DEF IInv
  <1>3. IInv => StalenessIsCovered
    BY DEF IInv, TypeOK, AllServed, AllCovered, StalenessIsCovered
  <1> QED BY <1>1, <1>2, <1>3, PTL DEF Spec
=============================================================================
