---------------------------- MODULE SyncSignals ----------------------------
(***************************************************************************)
(* How a device hears that the library has changed: the server's event     *)
(* streams (routers/agent_events.py, services/ws_manager.py), the agent's  *)
(* listener that turns signals into runs (agent/listen_command.py) and the *)
(* run launchd starts at intervals.                                        *)
(*                                                                         *)
(* What a run does is FontSync's; here it reads the library at one moment, *)
(* and a device is stale while the library has changed since then.         *)
(* Signals in one queue coalesce, so a queue is empty or not.              *)
(***************************************************************************)
EXTENDS Integers

CONSTANTS
  Device,
  Conn,           \* connections of a device, one slot each
  NoConn,         \* the listener is not connected
  MaxChanges,     \* bound on changes of the library
  MaxFaults       \* bound on cuts, restarts and failures

ASSUME SignalsAssumption ==
  /\ NoConn \notin Conn
  /\ MaxChanges \in Nat /\ MaxFaults \in Nat

VARIABLES
  stream,    \* server: what event_stream is doing for each connection
  subs,      \* server: _sse_subscribers, per device
  queued,    \* server: the connections whose queue is not empty
  owed,      \* server: the devices a committed change has yet to signal
  link,      \* agent: the listener's connection
  token,     \* agent: the queue between the listener's threads has a token
  listener,  \* agent: what the consuming thread is doing
  stale,     \* the devices whose last run has not seen the last change
  missed,    \* history: ... of which no signal tells, or no longer does
  changes,
  faults

serverVars == <<stream, subs, queued>>
agentVars  == <<link, token, listener>>
vars == <<stream, subs, queued, owed, link, token, listener, stale, missed,
          changes, faults>>

Init ==
  /\ stream = [d \in Device |-> [c \in Conn |-> "none"]]
  /\ subs = [d \in Device |-> {}]
  /\ queued = [d \in Device |-> {}]
  /\ owed = {}
  /\ link = [d \in Device |-> NoConn]
  /\ token = [d \in Device |-> FALSE]
  /\ listener = [d \in Device |-> "waiting"]
  /\ stale = {} /\ missed = {}
  /\ changes = 0 /\ faults = 0

-----------------------------------------------------------------------------
(* The server: changes and their signals. *)

(* A handler commits a change that concerns the devices D ... *)
Change(D) ==
  /\ changes < MaxChanges
  /\ changes' = changes + 1
  /\ stale' = stale \cup D /\ missed' = missed \ D
  /\ owed' = owed \cup D
  /\ UNCHANGED <<serverVars, agentVars, faults>>

(* ... and then calls broadcast_sync or signal_sync. *)
Broadcast ==
  /\ owed # {}
  /\ queued' = [d \in Device |-> IF d \in owed THEN subs[d] ELSE queued[d]]
  /\ owed' = {}
  /\ UNCHANGED <<stream, subs, agentVars, stale, missed, changes, faults>>

(* The settings of a device change without a signal. *)
SilentChange(d) ==
  /\ changes < MaxChanges
  /\ changes' = changes + 1
  /\ stale' = stale \cup {d} /\ missed' = missed \cup ({d} \ stale)
  /\ UNCHANGED <<serverVars, owed, agentVars, faults>>

-----------------------------------------------------------------------------
(* The server: one event stream. *)

(* The listener connects: its queue is subscribed, and if the device was   *)
(* not online the web clients are told first.                              *)
Connect(d, c) ==
  /\ link[d] = NoConn
  /\ stream[d][c] = "none" /\ c \notin subs[d]
  /\ link' = [link EXCEPT ![d] = c]
  /\ subs' = [subs EXCEPT ![d] = @ \cup {c}]
  /\ queued' = [queued EXCEPT ![d] = @ \ {c}]
  /\ stream' = [stream EXCEPT ![d] = [@ EXCEPT ![c] =
                  IF subs[d] = {} THEN "announcing" ELSE "starting"]]
  /\ UNCHANGED <<owed, token, listener, stale, missed, changes, faults>>

Announced(d, c) ==
  /\ stream[d][c] = "announcing"
  /\ stream' = [stream EXCEPT ![d] = [@ EXCEPT ![c] = "starting"]]
  /\ UNCHANGED <<subs, queued, owed, agentVars, stale, missed, changes, faults>>

(* Mutant: the token is the connection. *)
MutantReceived(d, c) == token' = [token EXCEPT ![d] = link[d]]

(* The listener's thread puts a token for each signal that reaches it. *)
Received(d, c) == token' = [token EXCEPT ![d] = @ \/ link[d] = c]

(* Mutant: a new stream waits for its first signal. *)
MutantFirstSignal(d, c) ==
  /\ stream[d][c] = "starting"
  /\ stream' = [stream EXCEPT ![d] = [@ EXCEPT ![c] = "open"]]
  /\ UNCHANGED <<subs, queued, owed, link, token, listener, stale, missed, changes, faults>>

(* The initial signal. *)
FirstSignal(d, c) ==
  /\ stream[d][c] = "starting"
  /\ stream' = [stream EXCEPT ![d] = [@ EXCEPT ![c] = "open"]]
  /\ Received(d, c)
  /\ UNCHANGED <<subs, queued, owed, link, listener, stale, missed, changes, faults>>

(* All signals in the queue are sent as one. *)
Signal(d, c) ==
  /\ stream[d][c] = "open"
  /\ c \in queued[d]
  /\ queued' = [queued EXCEPT ![d] = @ \ {c}]
  /\ Received(d, c)
  /\ UNCHANGED <<stream, subs, owed, link, listener, stale, missed, changes, faults>>

(* The server notices that the listener has gone: finally unsubscribes. *)
Close(d, c) ==
  /\ stream[d][c] \in {"starting", "open"}
  /\ link[d] # c
  /\ stream' = [stream EXCEPT ![d] = [@ EXCEPT ![c] = "none"]]
  /\ subs' = [subs EXCEPT ![d] = @ \ {c}]
  /\ queued' = [queued EXCEPT ![d] = @ \ {c}]
  /\ UNCHANGED <<owed, agentVars, stale, missed, changes, faults>>

(* Noticed during the announcement, before the try: nothing unsubscribes. *)
CloseEarly(d, c) ==
  /\ stream[d][c] = "announcing"
  /\ link[d] # c
  /\ stream' = [stream EXCEPT ![d] = [@ EXCEPT ![c] = "none"]]
  /\ UNCHANGED <<subs, queued, owed, agentVars, stale, missed, changes, faults>>

-----------------------------------------------------------------------------
(* The agent: the thread that consumes the tokens, and launchd's job. *)

TakeToken(d) ==
  /\ listener[d] = "waiting"
  /\ token[d]
  /\ listener' = [listener EXCEPT ![d] = "debouncing"]
  /\ token' = [token EXCEPT ![d] = FALSE]
  /\ UNCHANGED <<serverVars, owed, link, stale, missed, changes, faults>>

(* The tokens of a burst are drained before the run. *)
StartRun(d) ==
  /\ listener[d] = "debouncing"
  /\ listener' = [listener EXCEPT ![d] = "running"]
  /\ token' = [token EXCEPT ![d] = FALSE]
  /\ UNCHANGED <<serverVars, owed, link, stale, missed, changes, faults>>

ReadLibrary(d) ==
  /\ listener[d] = "running"
  /\ listener' = [listener EXCEPT ![d] = "finishing"]
  /\ stale' = stale \ {d} /\ missed' = missed \ {d}
  /\ UNCHANGED <<serverVars, owed, link, token, changes, faults>>

(* Mutant: the tokens are drained after the run. *)
MutantEndRun(d) ==
  /\ listener[d] = "finishing"
  /\ listener' = [listener EXCEPT ![d] = "waiting"]
  /\ token' = [token EXCEPT ![d] = FALSE]
  /\ UNCHANGED <<serverVars, owed, link, stale, missed, changes, faults>>

EndRun(d) ==
  /\ listener[d] = "finishing"
  /\ listener' = [listener EXCEPT ![d] = "waiting"]
  /\ UNCHANGED <<serverVars, owed, link, token, stale, missed, changes, faults>>

(* launchd's job, where it is installed, does what the listener's run does. *)
PeriodicRun(d) ==
  /\ d \in stale
  /\ stale' = stale \ {d} /\ missed' = missed \ {d}
  /\ UNCHANGED <<serverVars, owed, agentVars, changes, faults>>

-----------------------------------------------------------------------------
(* Faults. *)

Fault ==
  /\ faults < MaxFaults
  /\ faults' = faults + 1
  /\ UNCHANGED <<stale, changes>>

(* The connection is lost; the listener will connect again. *)
Cut(d) ==
  /\ Fault
  /\ link[d] # NoConn
  /\ link' = [link EXCEPT ![d] = NoConn]
  /\ UNCHANGED <<serverVars, owed, token, listener, missed>>

ServerRestarts ==
  /\ Fault
  /\ stream' = [d \in Device |-> [c \in Conn |-> "none"]]
  /\ subs' = [d \in Device |-> {}]
  /\ queued' = [d \in Device |-> {}]
  /\ owed' = {}
  /\ link' = [d \in Device |-> NoConn]
  /\ UNCHANGED <<token, listener, missed>>

(* launchd starts the listener again (KeepAlive). *)
ListenerDies(d) ==
  /\ Fault
  /\ link' = [link EXCEPT ![d] = NoConn]
  /\ token' = [token EXCEPT ![d] = FALSE]
  /\ listener' = [listener EXCEPT ![d] = "waiting"]
  /\ UNCHANGED <<serverVars, owed, missed>>

(* A run that fails is logged and not made again. *)
RunFails(d) ==
  /\ Fault
  /\ listener[d] = "running"
  /\ listener' = [listener EXCEPT ![d] = "waiting"]
  /\ missed' = missed \cup ({d} \cap stale)
  /\ UNCHANGED <<serverVars, owed, link, token>>

-----------------------------------------------------------------------------
StreamStep(d) ==
  \E c \in Conn : \/ Announced(d, c) \/ FirstSignal(d, c) \/ Signal(d, c)
                  \/ Close(d, c) \/ CloseEarly(d, c)

ListenerStep(d) ==
  TakeToken(d) \/ StartRun(d) \/ ReadLibrary(d) \/ EndRun(d)

Next ==
  \/ \E D \in SUBSET Device : Change(D)
  \/ Broadcast
  \/ ServerRestarts
  \/ \E d \in Device :
       \/ SilentChange(d) \/ StreamStep(d) \/ ListenerStep(d) \/ PeriodicRun(d)
       \/ \E c \in Conn : Connect(d, c)
       \/ Cut(d) \/ ListenerDies(d) \/ RunFails(d)

Spec == Init /\ [][Next]_vars

(* The event loop runs every stream, the listener reconnects after a delay *)
(* and its consumer never stops.  Nothing is asked of launchd's job.       *)
Fairness ==
  /\ WF_vars(Broadcast)
  /\ \A d \in Device :
       /\ WF_vars(StreamStep(d)) /\ WF_vars(ListenerStep(d))
       /\ WF_vars(\E c \in Conn : Connect(d, c))

FairSpec == Spec /\ Fairness

-----------------------------------------------------------------------------
(* Type invariant. *)
TypeOK ==
  /\ stream \in [Device -> [Conn -> {"none", "announcing", "starting", "open"}]]
  /\ subs \in [Device -> SUBSET Conn]
  /\ queued \in [Device -> SUBSET Conn]
  /\ owed \subseteq Device /\ stale \subseteq Device /\ missed \subseteq stale
  /\ link \in [Device -> Conn \cup {NoConn}]
  /\ token \in [Device -> BOOLEAN]
  /\ listener \in [Device -> {"waiting", "debouncing", "running", "finishing"}]
  /\ changes \in 0..MaxChanges /\ faults \in 0..MaxFaults

(* A connected listener has a stream that runs and a queue that is signalled *)
Served(d) ==
  link[d] # NoConn => /\ link[d] \in subs[d]
                      /\ stream[d][link[d]] # "none"

(* A signal is about to be sent or on its way, the listener has a token or  *)
(* a run that has yet to read the library, or it will be sent one as it     *)
(* connects.                                                                *)
Covered(d) ==
  \/ d \in owed
  \/ link[d] = NoConn
  \/ stream[d][link[d]] \in {"announcing", "starting"}
  \/ link[d] \in queued[d]
  \/ token[d]
  \/ listener[d] \in {"debouncing", "running"}

(* No wake-up is lost: while a device is stale for a change that is         *)
(* signalled, and its run has not failed, something is under way that will  *)
(* make it run, on a connection that works if it has one.                   *)
StalenessIsCovered == \A d \in stale \ missed : Served(d) /\ Covered(d)

(* Every signalled change reaches every device it concerns, by the signals  *)
(* alone, whatever is cut, restarted or coalesced, unless the very run it   *)
(* leads to fails (then only launchd's job, or another change, makes up).   *)
ChangesReachDevices ==
  \A d \in Device : d \in stale \ missed ~> (d \notin stale \/ d \in missed)

(* What ws_manager says of connected_sse_devices: "une clé présente <=> au  *)
(* moins un abonné actif".                                                  *)
SubscribersAreActive ==
  \A d \in Device : subs[d] # {} => \E c \in subs[d] : stream[d][c] # "none"
=============================================================================
