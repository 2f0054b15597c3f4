----------------------------- MODULE LogBridge -----------------------------
(***************************************************************************)
(* The route of a log record from the Helm SDK to the host's callback      *)
(* (capi/logging.go, pkg/wrapper/logging.go), while host threads install   *)
(* and clear that callback. Two variables behind two locks make up the     *)
(* route: the callback with its user_data and level (logCBMu), and the     *)
(* slog handler that new configs capture (logMu). A record passes the      *)
(* first lock twice: in Enabled and, for the delivery itself, in Handle.   *)
(***************************************************************************)
EXTENDS Naturals

CONSTANTS
  Setters,   \* host threads that call helm_set_log_handler
  Loggers,   \* goroutines that log
  Configs,   \* bound: configs that may be created
  Data,      \* bound: callbacks ever registered, each with a user_data of its own
  NoData,    \* the NULL callback
  NoConfig,  \* a record of a handlerWriter, which belongs to no config
  NoThread

ASSUME BridgeAssumption ==
  /\ NoData \notin Data /\ NoConfig \notin Configs
  /\ NoThread \notin Setters \cup Loggers
  /\ Setters \cap Loggers = {}

VARIABLES
  logCB,       \* the registered callback with its user_data, or NoData
  logCBLevel,  \* the minimum level
  writer, readers, queued,      \* logCBMu
  logHandler,  \* wrapper.logHandler: "discard" or "bridge" (a cLogHandler)
  captured,    \* the handler each config was created with, "none" before
  pc,          \* where each setter and each logger is
  new, newLevel,                \* the arguments of a set call
  replaced,    \* the callback a set call has taken out
  recLevel,    \* the level of the record each logger is on
  arg,         \* the user_data a running callback was given
  used,        \* history: callbacks registered so far
  retired,     \* history: callbacks whose replacing set call has returned
  alone,       \* history: no other set call was under way when the last began
  least        \* history: the least minimum in force since each logger's record began

lockVars  == <<writer, readers, queued>>
routeVars == <<logCB, logCBLevel, logHandler, captured>>
setVars   == <<new, newLevel, replaced>>
recVars   == <<recLevel, arg>>
histVars  == <<used, retired, alone, least>>
vars      == <<routeVars, lockVars, pc, setVars, recVars, histVars>>

logCBMu == INSTANCE RWMutex WITH Threads <- Setters \cup Loggers

Level == {0, 1}                \* records, and the minimum: two suffice to be below

SetterPC == {"idle", "lock", "locked", "swap"}

LoggerPC == {"idle", "enabled?", "enabled", "handle", "deliver", "callback"}

Goto(t, l) == pc' = [pc EXCEPT ![t] = l]

-----------------------------------------------------------------------------
(* newActionConfiguration captures CurrentLogHandler for good. *)
NewConfig(c) ==
  /\ captured[c] = "none"
  /\ captured' = [captured EXCEPT ![c] = logHandler]
  /\ UNCHANGED <<logCB, logCBLevel, logHandler, lockVars, pc, setVars, recVars, histVars>>

(* helm_set_log_handler(cb, user_data, min_level); cb may be NULL. *)
SetBegins(s, d, l) ==
  /\ pc[s] = "idle"
  /\ d \notin used
  /\ new' = [new EXCEPT ![s] = d]
  /\ newLevel' = [newLevel EXCEPT ![s] = l]
  /\ used' = used \cup ({d} \ {NoData})
  /\ alone' = \A u \in Setters : pc[u] = "idle"
  /\ Goto(s, "lock")
  /\ UNCHANGED <<routeVars, lockVars, replaced, recVars, retired, least>>

SetLocks(s) ==
  /\ pc[s] = "lock"
  /\ logCBMu!Announce(s)
  /\ Goto(s, "locked")
  /\ UNCHANGED <<routeVars, setVars, recVars, histVars>>

(* History: a minimum of l takes effect for the records on their way. *)
Lowers(l) == least' = [g \in Loggers |-> IF l < least[g] THEN l ELSE least[g]]

(* Wrong variant of SetWrites: the write lock is not given back. *)
SetWritesKeeping(s) ==
  /\ pc[s] = "locked"
  /\ logCBMu!HoldsWrite(s)
  /\ replaced' = [replaced EXCEPT ![s] = logCB]
  /\ logCB' = new[s]
  /\ logCBLevel' = newLevel[s]
  /\ Lowers(newLevel[s])
  /\ Goto(s, "swap")
  /\ UNCHANGED <<lockVars, logHandler, captured, new, newLevel, recVars, used, retired, alone>>

(* Under the write lock: the callback, its user_data and its level. *)
SetWrites(s) ==
  /\ pc[s] = "locked"
  /\ logCBMu!HoldsWrite(s)
  /\ replaced' = [replaced EXCEPT ![s] = logCB]
  /\ logCB' = new[s]
  /\ logCBLevel' = newLevel[s]
  /\ Lowers(newLevel[s])
  /\ logCBMu!Unlock
  /\ Goto(s, "swap")
  /\ UNCHANGED <<logHandler, captured, new, newLevel, recVars, used, retired, alone>>

(* Wrong variant of SetSwaps: clearing leaves the bridge to new configs. *)
SetSwapsOnlySetting(s) ==
  /\ pc[s] = "swap"
  /\ logHandler' = IF new[s] = NoData THEN logHandler ELSE "bridge"
  /\ retired' = retired \cup ({replaced[s]} \ {NoData})
  /\ Goto(s, "idle")
  /\ new' = [new EXCEPT ![s] = NoData]
  /\ newLevel' = [newLevel EXCEPT ![s] = 0]
  /\ replaced' = [replaced EXCEPT ![s] = NoData]
  /\ UNCHANGED <<logCB, logCBLevel, captured, lockVars, recVars, used, alone, least>>

(* wrapper.SetLogHandler, under the other lock; then the call returns. *)
SetSwaps(s) ==
  /\ pc[s] = "swap"
  /\ logHandler' = IF new[s] = NoData THEN "discard" ELSE "bridge"
  /\ retired' = retired \cup ({replaced[s]} \ {NoData})
  /\ Goto(s, "idle")
  /\ new' = [new EXCEPT ![s] = NoData]
  /\ newLevel' = [newLevel EXCEPT ![s] = 0]
  /\ replaced' = [replaced EXCEPT ![s] = NoData]
  /\ UNCHANGED <<logCB, logCBLevel, captured, lockVars, recVars, used, alone, least>>

-----------------------------------------------------------------------------
(* A record at level l reaches a cLogHandler, through the handler a config *)
(* captured or through a handlerWriter, which asks for the current one.    *)
Emit(g, c, l) ==
  /\ pc[g] = "idle"
  /\ IF c = NoConfig THEN logHandler = "bridge" ELSE captured[c] = "bridge"
  /\ recLevel' = [recLevel EXCEPT ![g] = l]
  /\ least' = [least EXCEPT ![g] = logCBLevel]
  /\ Goto(g, "enabled?")
  /\ UNCHANGED <<routeVars, lockVars, setVars, arg, used, retired, alone>>

(* The record is done with; its logger holds no lock any more. *)
Done(g) ==
  /\ Goto(g, "idle")
  /\ recLevel' = [recLevel EXCEPT ![g] = 0]
  /\ arg' = [arg EXCEPT ![g] = NoData]
  /\ logCBMu!RUnlock(g)

(* cLogHandler.Enabled: RLock, read, RUnlock. *)
EnabledLocks(g) ==
  /\ pc[g] = "enabled?"
  /\ logCBMu!RLock(g)
  /\ Goto(g, "enabled")
  /\ UNCHANGED <<routeVars, setVars, recVars, histVars>>

(* Wrong variant of EnabledYes: every record is let through. *)
EnabledYesToAll(g) ==
  /\ pc[g] = "enabled"
  /\ logCBMu!HoldsRead(g)
  /\ logCB # NoData
  /\ logCBMu!RUnlock(g)
  /\ Goto(g, "handle")
  /\ UNCHANGED <<routeVars, setVars, recVars, histVars>>

EnabledYes(g) ==
  /\ pc[g] = "enabled"
  /\ logCBMu!HoldsRead(g)
  /\ logCB # NoData /\ recLevel[g] >= logCBLevel
  /\ logCBMu!RUnlock(g)
  /\ Goto(g, "handle")
  /\ UNCHANGED <<routeVars, setVars, recVars, histVars>>

EnabledNo(g) ==
  /\ pc[g] = "enabled"
  /\ logCBMu!HoldsRead(g)
  /\ logCB = NoData \/ recLevel[g] < logCBLevel
  /\ Done(g)
  /\ UNCHANGED <<routeVars, setVars, histVars>>

(* cLogHandler.Handle: the read lock is held across the host's callback.   *)
(* The level is not looked at again.                                       *)
HandleLocks(g) ==
  /\ pc[g] = "handle"
  /\ logCBMu!RLock(g)
  /\ Goto(g, "deliver")
  /\ UNCHANGED <<routeVars, setVars, recVars, histVars>>

(* Wrong variant of HandleDrops: the early return keeps the read lock. *)
HandleDropsHolding(g) ==
  /\ pc[g] = "deliver"
  /\ logCBMu!HoldsRead(g)
  /\ logCB = NoData
  /\ Goto(g, "idle")
  /\ recLevel' = [recLevel EXCEPT ![g] = 0]
  /\ UNCHANGED <<routeVars, lockVars, setVars, arg, histVars>>

HandleDrops(g) ==
  /\ pc[g] = "deliver"
  /\ logCBMu!HoldsRead(g)
  /\ logCB = NoData
  /\ Done(g)
  /\ UNCHANGED <<routeVars, setVars, histVars>>

(* Wrong variant of HandleCalls: the lock is released before the callback. *)
HandleCallsUnlocked(g) ==
  /\ pc[g] = "deliver"
  /\ logCBMu!HoldsRead(g)
  /\ logCB # NoData
  /\ arg' = [arg EXCEPT ![g] = logCB]
  /\ logCBMu!RUnlock(g)
  /\ Goto(g, "callback")
  /\ UNCHANGED <<routeVars, setVars, recLevel, histVars>>

HandleCalls(g) ==
  /\ pc[g] = "deliver"
  /\ logCBMu!HoldsRead(g)
  /\ logCB # NoData
  /\ arg' = [arg EXCEPT ![g] = logCB]
  /\ Goto(g, "callback")
  /\ UNCHANGED <<routeVars, lockVars, setVars, recLevel, histVars>>

CallbackReturns(g) ==
  /\ pc[g] = "callback"
  /\ Done(g)
  /\ UNCHANGED <<routeVars, setVars, histVars>>

-----------------------------------------------------------------------------
Init ==
  /\ logCB = NoData /\ logCBLevel = 0
  /\ logCBMu!LockInit
  /\ logHandler = "discard"
  /\ captured = [c \in Configs |-> "none"]
  /\ pc = [t \in Setters \cup Loggers |-> "idle"]
  /\ new = [s \in Setters |-> NoData]
  /\ newLevel = [s \in Setters |-> 0]
  /\ replaced = [s \in Setters |-> NoData]
  /\ recLevel = [g \in Loggers |-> 0]
  /\ arg = [g \in Loggers |-> NoData]
  /\ used = {} /\ retired = {} /\ alone = TRUE /\ least = [g \in Loggers |-> 0]

SetStarts(s) == \E d \in Data \cup {NoData}, l \in Level : SetBegins(s, d, l)

SetGoesOn(s) == SetWrites(s) \/ SetSwaps(s)

LogStarts(g) == \E c \in Configs \cup {NoConfig}, l \in Level : Emit(g, c, l)

LogGoesOn(g) ==
  \/ EnabledLocks(g) \/ EnabledYes(g) \/ EnabledNo(g)
  \/ HandleLocks(g) \/ HandleDrops(g) \/ HandleCalls(g)
  \/ CallbackReturns(g)

Next ==
  \/ \E c \in Configs : NewConfig(c)
  \/ \E s \in Setters : SetStarts(s) \/ SetLocks(s) \/ SetGoesOn(s)
  \/ \E g \in Loggers : LogStarts(g) \/ LogGoesOn(g)

Spec == Init /\ [][Next]_vars

(* Goroutines and host threads are scheduled and the host's callback       *)
(* returns, as its contract asks. The mutex between writers hands itself   *)
(* over to a waiter that has waited long (sync.Mutex's starvation mode),   *)
(* hence strong fairness for it. Nobody has to set or to log anything.     *)
Fairness ==
  /\ \A s \in Setters : SF_vars(SetLocks(s)) /\ WF_vars(SetGoesOn(s))
  /\ \A g \in Loggers : WF_vars(LogGoesOn(g))

FairSpec == Spec /\ Fairness

-----------------------------------------------------------------------------
(* Every variable keeps its type. *)
TypeOK ==
  /\ logCB \in Data \cup {NoData} /\ logCBLevel \in Level
  /\ logCBMu!LockTypeOK
  /\ logHandler \in {"discard", "bridge"}
  /\ captured \in [Configs -> {"none", "discard", "bridge"}]
  /\ pc \in [Setters \cup Loggers -> SetterPC \cup LoggerPC]
  /\ new \in [Setters -> Data \cup {NoData}]
  /\ newLevel \in [Setters -> Level]
  /\ replaced \in [Setters -> Data \cup {NoData}]
  /\ recLevel \in [Loggers -> Level]
  /\ arg \in [Loggers -> Data \cup {NoData}]
  /\ used \subseteq Data /\ retired \subseteq Data /\ alone \in BOOLEAN
  /\ least \in [Loggers -> Level]

(* Once helm_set_log_handler returns, no callback will touch the old        *)
(* user_data again (capi/logging.go:83-85): the host may free it, however   *)
(* many records were on their way and whoever else sets a handler.          *)
NoStaleUserData == \A g \in Loggers : pc[g] = "callback" => arg[g] \notin retired

(* The two halves of the route, behind two locks, agree once the set calls  *)
(* are over: new configs are wired to the bridge exactly if a callback is   *)
(* registered, provided the last set call ran alone. Two at once may take   *)
(* the locks in opposite orders, so "Thread-safe: yes (handler swap is      *)
(* atomic ...)" (API.md:709) is true of one set call, not of two.           *)
HalvesAgree ==
  alone /\ (\A s \in Setters : pc[s] = "idle") => (logHandler = "bridge" <=> logCB # NoData)

(* A record reaches the host only if its level met a minimum that was in    *)
(* force while it was on its way. Handle does not look at the level again   *)
(* (logging.go:90-94), so what Enabled read may be stale by then, but never *)
(* older than the record: "records below it never cross into C"             *)
(* (API.md:695) fails for a minimum raised meanwhile, and for no other.     *)
LevelWasMet ==
  \A g \in Loggers : pc[g] \in {"handle", "deliver", "callback"} => recLevel[g] >= least[g]

(* Whoever waits for logCBMu waits for a thread that is inside and goes on  *)
(* without waiting for anybody: the lock is kept on no path out, and nobody *)
(* waits for it while holding it, as long as no callback calls back into    *)
(* helm-c (logging.go:83-89).                                               *)
NobodyIsStuck ==
  /\ \A t \in readers : t \in Loggers /\ pc[t] \in {"enabled", "deliver", "callback"}
  /\ writer # NoThread => writer \in Setters /\ pc[writer] = "locked"
  /\ \A s \in Setters : pc[s] = "locked" => writer = s
  /\ \A g \in Loggers : pc[g] \in {"enabled", "deliver"} =>
       g \in readers \/ (g \in queued /\ writer # NoThread)

(* To the host the swap of handlers is atomic with respect to the logging   *)
(* in flight (API.md:709): no callback runs while it is replaced.           *)
Route == INSTANCE LogContract WITH
  current  <- logCB,
  running  <- [g \in Loggers |-> IF pc[g] = "callback" THEN arg[g] ELSE NoData],
  released <- retired

ImplementsRoute == Route!Spec

(* A set call returns though others keep logging: new readers queue behind  *)
(* it, and every path out of Enabled and Handle gives its read lock back.   *)
SetReturns == \A s \in Setters : pc[s] = "lock" ~> pc[s] = "idle"

(* A record is delivered or dropped though others keep setting handlers.    *)
RecordsEnd == \A g \in Loggers : pc[g] = "enabled?" ~> pc[g] = "idle"
=============================================================================
