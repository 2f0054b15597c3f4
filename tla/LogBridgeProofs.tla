-------------------------- MODULE LogBridgeProofs --------------------------
(***************************************************************************)
(* Theorems about the log bridge, for any number of setters, loggers,      *)
(* configs and callbacks. That a callback whose replacement has returned   *)
(* never runs again, and that the bridge implements LogContract, hold      *)
(* because a running callback holds a read lock and so is the registered   *)
(* one, and because a callback that is replaced is never the registered    *)
(* one again. What a record's level met and who waits for whom need        *)
(* invariants of their own.                                                *)
(***************************************************************************)
EXTENDS LogBridge, TLAPS

LEMMA TypeInductive ==
  /\ Init => TypeOK
  /\ TypeOK /\ [Next]_vars => TypeOK'
<1>1. Init => TypeOK
  BY DEF Init, TypeOK, Level, SetterPC, LoggerPC, logCBMu!LockInit, logCBMu!LockTypeOK
<1>2. TypeOK /\ [Next]_vars => TypeOK'
  <2> SUFFICES ASSUME TypeOK, [Next]_vars
               PROVE  TypeOK'
    OBVIOUS
  <2> USE DEF TypeOK, logCBMu!LockTypeOK, Goto, SetterPC, LoggerPC
  <2>1. ASSUME NEW c \in Configs, NewConfig(c)
        PROVE  TypeOK'
    BY <2>1 DEF NewConfig, lockVars, setVars, recVars, histVars
  <2>2. ASSUME NEW s \in Setters, SetStarts(s)
        PROVE  TypeOK'
    BY <2>2 DEF SetStarts, SetBegins, routeVars, lockVars, recVars
  <2>3. ASSUME NEW s \in Setters, SetLocks(s)
        PROVE  TypeOK'
    BY <2>3 DEF SetLocks, logCBMu!Announce, routeVars, setVars, recVars, histVars
  <2>4. ASSUME NEW s \in Setters, SetWrites(s)
        PROVE  TypeOK'
    BY <2>4 DEF SetWrites, Lowers, logCBMu!Unlock, recVars
  <2>5. ASSUME NEW s \in Setters, SetSwaps(s)
        PROVE  TypeOK'
    BY <2>5 DEF SetSwaps, lockVars, recVars, Level
  <2>6. ASSUME NEW g \in Loggers, LogStarts(g)
        PROVE  TypeOK'
    BY <2>6 DEF LogStarts, Emit, routeVars, lockVars, setVars
  <2>7. ASSUME NEW g \in Loggers, EnabledLocks(g) \/ HandleLocks(g)
        PROVE  TypeOK'
    BY <2>7 DEF EnabledLocks, HandleLocks, logCBMu!RLock, routeVars, setVars, recVars, histVars
  <2>8. ASSUME NEW g \in Loggers, EnabledYes(g)
        PROVE  TypeOK'
    BY <2>8 DEF EnabledYes, logCBMu!RUnlock, routeVars, setVars, recVars, histVars
  <2>9. ASSUME NEW g \in Loggers, EnabledNo(g) \/ HandleDrops(g) \/ CallbackReturns(g)
        PROVE  TypeOK'
    BY <2>9 DEF EnabledNo, HandleDrops, CallbackReturns, Done, logCBMu!RUnlock, Level,
                routeVars, setVars, histVars
  <2>10. ASSUME NEW g \in Loggers, HandleCalls(g)
         PROVE  TypeOK'
    BY <2>10 DEF HandleCalls, routeVars, lockVars, setVars, histVars
  <2>11. CASE UNCHANGED vars
    BY <2>11 DEF vars, routeVars, lockVars, setVars, recVars, histVars
  <2> QED
    BY <2>1, <2>2, <2>3, <2>4, <2>5, <2>6, <2>7, <2>8, <2>9, <2>10, <2>11
       DEF Next, SetGoesOn, LogGoesOn
<1> QED
  BY <1>1, <1>2

(* Every variable of the bridge keeps its type, in every interleaving. *)
THEOREM BridgeTypeCorrect == Spec => []TypeOK
BY TypeInductive, PTL DEF Spec

-----------------------------------------------------------------------------
(* A running callback is the registered one: its logger holds a read lock. *)
RunningIsRegistered ==
  \A g \in Loggers : pc[g] = "callback" => g \in readers /\ arg[g] = logCB /\ logCB # NoData

(* What has been replaced is not registered, nor about to be again. *)
ReplacedIsGone ==
  /\ logCB \notin retired
  /\ \A s \in Setters : replaced[s] # NoData => replaced[s] # logCB

(* What a set call is about to register is known to nobody else yet. *)
NewIsFresh ==
  \A s \in Setters : pc[s] \in {"lock", "locked"} /\ new[s] # NoData =>
    /\ new[s] # logCB /\ new[s] \notin retired
    /\ \A u \in Setters : new[s] # replaced[u] /\ (u # s => new[s] # new[u])

AllUsed ==
  /\ logCB \in used \cup {NoData} /\ retired \subseteq used
  /\ \A s \in Setters : new[s] \in used \cup {NoData} /\ replaced[s] \in used \cup {NoData}

BridgeInv == RunningIsRegistered /\ ReplacedIsGone /\ NewIsFresh /\ AllUsed

(* A step of logger g that leaves the route and the set calls alone, and    *)
(* takes away no read lock but g's own.                                     *)
LEMMA LoggerStep ==
  ASSUME TypeOK, TypeOK', BridgeInv, NEW g \in Loggers,
         UNCHANGED <<logCB, setVars, used, retired>>,
         \A t \in Setters \cup Loggers : t # g => pc'[t] = pc[t],
         \A h \in Loggers : h # g => arg'[h] = arg[h] /\ (h \in readers => h \in readers'),
         pc'[g] = "callback" => g \in readers' /\ arg'[g] = logCB /\ logCB # NoData
  PROVE  BridgeInv'
<1>1. RunningIsRegistered'
  BY DEF BridgeInv, RunningIsRegistered
<1>2. ReplacedIsGone' /\ AllUsed'
  BY DEF BridgeInv, ReplacedIsGone, AllUsed, setVars
<1>3. \A s \in Setters : pc'[s] = pc[s]
  BY BridgeAssumption
<1>4. NewIsFresh'
  BY <1>3 DEF BridgeInv, NewIsFresh, setVars
<1> QED
  BY <1>1, <1>2, <1>4 DEF BridgeInv

LEMMA LoggerKeepsInv ==
  ASSUME TypeOK, TypeOK', BridgeInv, NEW g \in Loggers, LogStarts(g) \/ LogGoesOn(g)
  PROVE  BridgeInv'
<1> USE DEF Goto
<1>1. CASE LogStarts(g)
  BY <1>1, LoggerStep DEF LogStarts, Emit, TypeOK, routeVars, lockVars, setVars, histVars
<1>2. CASE EnabledLocks(g) \/ HandleLocks(g)
  BY <1>2, LoggerStep DEF EnabledLocks, HandleLocks, logCBMu!RLock, TypeOK,
                          routeVars, setVars, recVars, histVars
<1>3. CASE EnabledYes(g)
  BY <1>3, LoggerStep DEF EnabledYes, logCBMu!RUnlock, TypeOK,
                          routeVars, setVars, recVars, histVars
<1>4. CASE EnabledNo(g) \/ HandleDrops(g) \/ CallbackReturns(g)
  BY <1>4, LoggerStep DEF EnabledNo, HandleDrops, CallbackReturns, Done, logCBMu!RUnlock,
                          TypeOK, routeVars, setVars, histVars
<1>5. CASE HandleCalls(g)
  BY <1>5, LoggerStep DEF HandleCalls, logCBMu!HoldsRead, TypeOK,
                          routeVars, lockVars, setVars, histVars
<1> QED
  BY <1>1, <1>2, <1>3, <1>4, <1>5 DEF LogGoesOn

LEMMA SetterKeepsInv ==
  ASSUME TypeOK, TypeOK', BridgeInv, NEW s \in Setters,
         SetStarts(s) \/ SetLocks(s) \/ SetGoesOn(s)
  PROVE  BridgeInv'
<1> USE DEF Goto
<1>0. \A g \in Loggers : g # s /\ g \in Setters \cup Loggers
  BY BridgeAssumption
<1>1. CASE SetStarts(s)
  <2>1. PICK d \in Data \cup {NoData}, l \in Level : SetBegins(s, d, l)
    BY <1>1 DEF SetStarts
  <2>2. /\ d \notin used /\ new' = [new EXCEPT ![s] = d] /\ used' = used \cup ({d} \ {NoData})
        /\ pc' = [pc EXCEPT ![s] = "lock"]
        /\ UNCHANGED <<logCB, readers, replaced, arg, retired>>
    BY <2>1 DEF SetBegins, routeVars, lockVars, recVars
  <2>3. RunningIsRegistered'
    BY <1>0, <2>2 DEF BridgeInv, RunningIsRegistered, TypeOK
  <2>4. ReplacedIsGone'
    BY <2>2 DEF BridgeInv, ReplacedIsGone
  <2>5. AllUsed'
    BY <2>2 DEF BridgeInv, AllUsed, TypeOK
  <2>6. NewIsFresh'
    BY <2>2 DEF BridgeInv, NewIsFresh, AllUsed, TypeOK
  <2> QED
    BY <2>3, <2>4, <2>5, <2>6 DEF BridgeInv
<1>2. CASE SetLocks(s)
  <2>1. /\ pc[s] = "lock" /\ pc' = [pc EXCEPT ![s] = "locked"]
        /\ UNCHANGED <<logCB, readers, new, replaced, arg, used, retired>>
    BY <1>2 DEF SetLocks, logCBMu!Announce, routeVars, setVars, recVars, histVars
  <2>2. RunningIsRegistered'
    BY <1>0, <2>1 DEF BridgeInv, RunningIsRegistered, TypeOK
  <2>3. ReplacedIsGone' /\ AllUsed'
    BY <2>1 DEF BridgeInv, ReplacedIsGone, AllUsed
  <2>4. NewIsFresh'
    BY <2>1 DEF BridgeInv, NewIsFresh, TypeOK
  <2> QED
    BY <2>2, <2>3, <2>4 DEF BridgeInv
<1>3. CASE SetWrites(s)
  <2>1. /\ pc[s] = "locked" /\ pc' = [pc EXCEPT ![s] = "swap"]
        /\ readers = {} /\ logCB' = new[s]
        /\ replaced' = [replaced EXCEPT ![s] = logCB]
        /\ UNCHANGED <<new, arg, used, retired>>
    BY <1>3 DEF SetWrites, logCBMu!HoldsWrite, recVars, histVars
  <2>2. RunningIsRegistered'
    BY <1>0, <2>1 DEF BridgeInv, RunningIsRegistered, TypeOK
  <2>3. ReplacedIsGone'
    BY <2>1, BridgeAssumption DEF BridgeInv, ReplacedIsGone, NewIsFresh, AllUsed, TypeOK
  <2>4. AllUsed'
    BY <2>1 DEF BridgeInv, AllUsed, TypeOK
  <2>5. NewIsFresh'
    BY <2>1 DEF BridgeInv, NewIsFresh, TypeOK
  <2> QED
    BY <2>2, <2>3, <2>4, <2>5 DEF BridgeInv
<1>4. CASE SetSwaps(s)
  <2>1. /\ pc' = [pc EXCEPT ![s] = "idle"]
        /\ retired' = retired \cup ({replaced[s]} \ {NoData})
        /\ new' = [new EXCEPT ![s] = NoData] /\ replaced' = [replaced EXCEPT ![s] = NoData]
        /\ UNCHANGED <<logCB, readers, arg, used>>
    BY <1>4 DEF SetSwaps, lockVars, recVars
  <2>2. RunningIsRegistered'
    BY <1>0, <2>1 DEF BridgeInv, RunningIsRegistered, TypeOK
  <2>3. ReplacedIsGone'
    BY <2>1 DEF BridgeInv, ReplacedIsGone, TypeOK
  <2>4. AllUsed'
    BY <2>1 DEF BridgeInv, AllUsed, TypeOK
  <2>5. NewIsFresh'
    BY <2>1 DEF BridgeInv, NewIsFresh, TypeOK
  <2> QED
    BY <2>2, <2>3, <2>4, <2>5 DEF BridgeInv
<1> QED
  BY <1>1, <1>2, <1>3, <1>4 DEF SetGoesOn

LEMMA BridgeInvHolds == Spec => []BridgeInv
<1>1. Init => BridgeInv
  BY DEF Init, BridgeInv, RunningIsRegistered, ReplacedIsGone, NewIsFresh, AllUsed
<1>2. TypeOK /\ TypeOK' /\ BridgeInv /\ [Next]_vars => BridgeInv'
  <2> SUFFICES ASSUME TypeOK, TypeOK', BridgeInv, [Next]_vars
               PROVE  BridgeInv'
    OBVIOUS
  <2>1. ASSUME NEW c \in Configs, NewConfig(c)
        PROVE  BridgeInv'
    BY <2>1 DEF NewConfig, lockVars, setVars, recVars, histVars, BridgeInv, RunningIsRegistered,
                ReplacedIsGone, NewIsFresh, AllUsed
  <2>2. CASE UNCHANGED vars
    BY <2>2 DEF vars, routeVars, lockVars, setVars, recVars, histVars, BridgeInv,
                RunningIsRegistered, ReplacedIsGone, NewIsFresh, AllUsed
  <2> QED
    BY <2>1, <2>2, SetterKeepsInv, LoggerKeepsInv DEF Next
<1> QED
  BY <1>1, <1>2, TypeInductive, PTL DEF Spec

(* Once the set call that replaced a callback has returned, that callback   *)
(* never runs with its old user_data again.                                 *)
THEOREM NoCallbackAfterReplacement == Spec => []NoStaleUserData
<1>1. BridgeInv => NoStaleUserData
  BY DEF BridgeInv, RunningIsRegistered, ReplacedIsGone, NoStaleUserData
<1> QED
  BY <1>1, BridgeInvHolds, PTL

(* What a step of a setter or of a logger is to the host: the swap itself,  *)
(* giving the old user_data back, a callback that starts or one that ends,  *)
(* or nothing it can see.                                                   *)
LEMMA SetterStepOfRoute ==
  ASSUME TypeOK, BridgeInv, NEW s \in Setters,
         SetStarts(s) \/ SetLocks(s) \/ SetGoesOn(s)
  PROVE  [Route!Next]_Route!vars
<1> DEFINE running == [g \in Loggers |-> IF pc[g] = "callback" THEN arg[g] ELSE NoData]
<1>1. arg' = arg /\ \A g \in Loggers : pc'[g] = pc[g]
  <2>1. \E l \in SetterPC : pc' = [pc EXCEPT ![s] = l]
    BY DEF SetStarts, SetBegins, SetLocks, SetGoesOn, SetWrites, SetSwaps, Goto, SetterPC
  <2>2. arg' = arg
    BY DEF SetStarts, SetBegins, SetLocks, SetGoesOn, SetWrites, SetSwaps, recVars
  <2> QED
    BY <2>1, <2>2, BridgeAssumption DEF TypeOK
<1>2. running' = running
  BY <1>1
<1>3. CASE SetStarts(s) \/ SetLocks(s)
  <2>1. UNCHANGED <<logCB, retired>>
    BY <1>3 DEF SetStarts, SetBegins, SetLocks, routeVars, histVars
  <2> QED
    BY <1>2, <2>1 DEF Route!vars
<1>4. CASE SetWrites(s)
  <2>1. /\ logCB' = new[s] /\ readers = {} /\ pc[s] = "locked" /\ retired' = retired
    BY <1>4 DEF SetWrites, logCBMu!HoldsWrite
  <2>2. new[s] \in (Data \ retired) \cup {NoData}
    BY <2>1 DEF BridgeInv, NewIsFresh, TypeOK
  <2>3. \A g \in Loggers : running[g] = NoData
    BY <2>1 DEF BridgeInv, RunningIsRegistered
  <2>4. Route!Register(new[s])
    BY <1>2, <2>1, <2>2, <2>3 DEF Route!Register
  <2> QED
    BY <2>2, <2>4 DEF Route!Next
<1>5. CASE SetSwaps(s)
  <2>1. logCB' = logCB /\ retired' = retired \cup ({replaced[s]} \ {NoData})
    BY <1>5 DEF SetSwaps
  <2>2. CASE replaced[s] = NoData
    <3>1. retired' = retired
      BY <2>1, <2>2
    <3> QED
      BY <1>2, <2>1, <3>1 DEF Route!vars
  <2>3. CASE replaced[s] # NoData
    <3>1. replaced[s] \in Data /\ replaced[s] # logCB
      BY <2>3 DEF TypeOK, BridgeInv, ReplacedIsGone
    <3>2. \A g \in Loggers : running[g] # replaced[s]
      BY <2>3, <3>1 DEF BridgeInv, RunningIsRegistered
    <3>3. Route!GiveBack(replaced[s])
      BY <1>2, <2>1, <2>3, <3>1, <3>2 DEF Route!GiveBack
    <3> QED
      BY <3>1, <3>3 DEF Route!Next
  <2> QED
    BY <2>2, <2>3
<1> QED
  BY <1>3, <1>4, <1>5 DEF SetGoesOn

LEMMA LoggerStepOfRoute ==
  ASSUME TypeOK, BridgeInv, NEW g \in Loggers, LogStarts(g) \/ LogGoesOn(g)
  PROVE  [Route!Next]_Route!vars
<1> USE DEF Goto
<1> DEFINE running == [h \in Loggers |-> IF pc[h] = "callback" THEN arg[h] ELSE NoData]
<1>1. UNCHANGED <<logCB, retired>>
  BY DEF LogStarts, Emit, LogGoesOn, EnabledLocks, EnabledYes, EnabledNo, HandleLocks,
         HandleDrops, HandleCalls, CallbackReturns, routeVars, histVars
<1>2. CASE LogStarts(g) \/ EnabledLocks(g) \/ EnabledYes(g) \/ HandleLocks(g)
  <2>1. arg' = arg /\ pc[g] # "callback"
    BY <1>2 DEF LogStarts, Emit, EnabledLocks, EnabledYes, HandleLocks, recVars
  <2>2. \E l \in {"enabled?", "enabled", "handle", "deliver"} : pc' = [pc EXCEPT ![g] = l]
    BY <1>2 DEF LogStarts, Emit, EnabledLocks, EnabledYes, HandleLocks
  <2>3. \A h \in Loggers : pc'[h] = "callback" <=> pc[h] = "callback"
    BY <2>1, <2>2 DEF TypeOK
  <2>4. running' = running
    BY <2>1, <2>3
  <2> QED
    BY <1>1, <2>4 DEF Route!vars
<1>3. CASE EnabledNo(g) \/ HandleDrops(g)
  <2>1. /\ arg' = [arg EXCEPT ![g] = NoData] /\ pc' = [pc EXCEPT ![g] = "idle"]
        /\ pc[g] # "callback"
    BY <1>3 DEF EnabledNo, HandleDrops, Done
  <2>2. running' = running
    BY <2>1 DEF TypeOK
  <2> QED
    BY <1>1, <2>2 DEF Route!vars
<1>4. CASE HandleCalls(g)
  <2>1. /\ arg' = [arg EXCEPT ![g] = logCB] /\ pc' = [pc EXCEPT ![g] = "callback"]
        /\ pc[g] # "callback" /\ logCB # NoData
    BY <1>4 DEF HandleCalls
  <2>2. running' = [running EXCEPT ![g] = logCB] /\ running[g] = NoData
    BY <2>1 DEF TypeOK
  <2>3. Route!Deliver(g)
    BY <1>1, <2>1, <2>2 DEF Route!Deliver
  <2> QED
    BY <2>3 DEF Route!Next
<1>5. CASE CallbackReturns(g)
  <2>1. /\ arg' = [arg EXCEPT ![g] = NoData] /\ pc' = [pc EXCEPT ![g] = "idle"]
        /\ pc[g] = "callback"
    BY <1>5 DEF CallbackReturns, Done
  <2>2. running' = [running EXCEPT ![g] = NoData]
    BY <2>1 DEF TypeOK
  <2>3. running[g] # NoData
    BY <2>1 DEF BridgeInv, RunningIsRegistered
  <2>4. Route!Return(g)
    BY <1>1, <2>2, <2>3 DEF Route!Return
  <2> QED
    BY <2>4 DEF Route!Next
<1> QED
  BY <1>2, <1>3, <1>4, <1>5 DEF LogGoesOn

(* The two locks, the queue behind them and the level come to this: the     *)
(* host sees one callback at a time, replaced only while it does not run,   *)
(* and its user_data given back for good.                                   *)
THEOREM BridgeImplementsRoute == Spec => ImplementsRoute
<1>1. Init => Route!Init
  BY DEF Init, Route!Init
<1>2. TypeOK /\ BridgeInv /\ [Next]_vars => [Route!Next]_Route!vars
  <2> SUFFICES ASSUME TypeOK, BridgeInv, [Next]_vars
               PROVE  [Route!Next]_Route!vars
    OBVIOUS
  <2>1. CASE UNCHANGED vars \/ \E c \in Configs : NewConfig(c)
    BY <2>1 DEF NewConfig, vars, routeVars, lockVars, recVars, histVars, Route!vars
  <2> QED
    BY <2>1, SetterStepOfRoute, LoggerStepOfRoute DEF Next
<1> QED
  BY <1>1, <1>2, TypeInductive, BridgeInvHolds, PTL DEF Spec, ImplementsRoute, Route!Spec

(* What that contract means to a host: what it registered and has not been  *)
(* given back is all that ever runs, and it runs while it is registered.    *)
THEOREM WhatRunsIsKept == Spec => []Route!InUseIsKept
<1>1. Route!Init => Route!Sound
  BY BridgeAssumption DEF Route!Init, Route!Sound, Route!InUseIsKept
<1>2. Route!Sound /\ [Route!Next]_(Route!vars) => Route!Sound'
  <2> SUFFICES ASSUME Route!Sound, [Route!Next]_(Route!vars)
               PROVE  Route!Sound'
    OBVIOUS
  <2> USE DEF Route!Sound, Route!InUseIsKept
  <2>1. ASSUME NEW d \in Data \cup {NoData}, Route!Register(d)
        PROVE  Route!Sound'
    BY <2>1, BridgeAssumption DEF Route!Register
  <2>2. ASSUME NEW d \in Data, Route!GiveBack(d)
        PROVE  Route!Sound'
    BY <2>2 DEF Route!GiveBack
  <2>3. ASSUME NEW g \in Loggers, Route!Deliver(g)
        PROVE  Route!Sound'
    BY <2>3 DEF Route!Deliver
  <2>4. ASSUME NEW g \in Loggers, Route!Return(g)
        PROVE  Route!Sound'
    BY <2>4 DEF Route!Return
  <2>5. CASE UNCHANGED Route!vars
    BY <2>5 DEF Route!vars
  <2> QED
    BY <2>1, <2>2, <2>3, <2>4, <2>5 DEF Route!Next
<1>3. Route!Sound => Route!InUseIsKept
  BY DEF Route!Sound
<1> QED
  BY <1>1, <1>2, <1>3, BridgeImplementsRoute, PTL DEF ImplementsRoute, Route!Spec

-----------------------------------------------------------------------------
(* While a set call runs alone: no other is under way, and between its      *)
(* write and its swap the callback is its own. Once it is over, they agree. *)
AloneInv ==
  alone =>
    /\ \A s, u \in Setters : pc[s] # "idle" /\ pc[u] # "idle" => s = u
    /\ (\A s \in Setters : pc[s] = "idle") => (logHandler = "bridge" <=> logCB # NoData)
    /\ \A s \in Setters : pc[s] = "swap" => logCB = new[s]

LEMMA AloneStep ==
  ASSUME TypeOK, AloneInv, [Next]_vars
  PROVE  AloneInv'
<1> USE DEF Goto
<1>1. ASSUME \A s \in Setters : pc'[s] = pc[s],
             UNCHANGED <<logCB, logHandler, new, alone>>
      PROVE  AloneInv'
  BY <1>1 DEF AloneInv
<1>2. ASSUME NEW g \in Loggers, LogStarts(g) \/ LogGoesOn(g) PROVE AloneInv'
  <2>1. UNCHANGED <<logCB, logHandler, new, alone>>
    BY <1>2 DEF LogStarts, LogGoesOn, Emit, EnabledLocks, EnabledYes, EnabledNo, HandleLocks,
                HandleDrops, HandleCalls, CallbackReturns, routeVars, setVars, histVars
  <2>2. \E l \in LoggerPC : pc' = [pc EXCEPT ![g] = l]
    BY <1>2 DEF LogStarts, LogGoesOn, Emit, EnabledLocks, EnabledYes, EnabledNo, HandleLocks,
                HandleDrops, HandleCalls, CallbackReturns, Done, LoggerPC
  <2>3. \A s \in Setters : pc'[s] = pc[s]
    BY <2>2, BridgeAssumption DEF TypeOK
  <2> QED
    BY <1>1, <2>1, <2>3
<1>3. ASSUME NEW c \in Configs, NewConfig(c) PROVE AloneInv'
  BY <1>1, <1>3 DEF NewConfig, setVars, histVars
<1>4. ASSUME NEW s \in Setters, SetStarts(s) PROVE AloneInv'
  <2>1. PICK d \in Data \cup {NoData}, l \in Level : SetBegins(s, d, l)
    BY <1>4 DEF SetStarts
  <2>2. /\ pc[s] = "idle" /\ pc' = [pc EXCEPT ![s] = "lock"]
        /\ alone' <=> \A u \in Setters : pc[u] = "idle"
        /\ UNCHANGED <<logCB, logHandler>>
    BY <2>1 DEF SetBegins, routeVars
  <2>3. CASE \E u \in Setters : pc[u] # "idle"
    BY <2>2, <2>3 DEF AloneInv
  <2>4. CASE \A u \in Setters : pc[u] = "idle"
    BY <2>2, <2>4 DEF AloneInv, TypeOK
  <2> QED
    BY <2>3, <2>4
<1>5. ASSUME NEW s \in Setters, SetLocks(s) PROVE AloneInv'
  <2>1. /\ pc[s] = "lock" /\ pc' = [pc EXCEPT ![s] = "locked"]
        /\ UNCHANGED <<logCB, logHandler, new, alone>>
    BY <1>5 DEF SetLocks, routeVars, setVars, histVars
  <2> QED
    BY <2>1 DEF AloneInv, TypeOK
<1>6. ASSUME NEW s \in Setters, SetWrites(s) PROVE AloneInv'
  <2>1. /\ pc[s] = "locked" /\ pc' = [pc EXCEPT ![s] = "swap"] /\ logCB' = new[s]
        /\ UNCHANGED <<logHandler, new, alone>>
    BY <1>6 DEF SetWrites, histVars
  <2> QED
    BY <2>1 DEF AloneInv, TypeOK
<1>7. ASSUME NEW s \in Setters, SetSwaps(s) PROVE AloneInv'
  <2>1. /\ pc[s] = "swap" /\ pc' = [pc EXCEPT ![s] = "idle"]
        /\ logHandler' = IF new[s] = NoData THEN "discard" ELSE "bridge"
        /\ new' = [new EXCEPT ![s] = NoData]
        /\ UNCHANGED <<logCB, alone>>
    BY <1>7 DEF SetSwaps
  <2> QED
    BY <2>1 DEF AloneInv, TypeOK
<1>8. CASE UNCHANGED vars
  BY <1>1, <1>8 DEF vars, routeVars, setVars, histVars
<1> QED
  BY <1>2, <1>3, <1>4, <1>5, <1>6, <1>7, <1>8 DEF Next, SetGoesOn

(* After a set call that ran alone, the callback and the handler of new     *)
(* configs agree, whatever was logged and created meanwhile.                *)
THEOREM RouteIsWhole == Spec => []HalvesAgree
<1>1. Init => AloneInv
  BY BridgeAssumption DEF Init, AloneInv
<1>2. TypeOK /\ AloneInv /\ [Next]_vars => AloneInv'
  BY AloneStep
<1>3. AloneInv => HalvesAgree
  BY DEF AloneInv, HalvesAgree
<1> QED
  BY <1>1, <1>2, <1>3, TypeInductive, PTL DEF Spec
-----------------------------------------------------------------------------
(* No record is below a minimum it was let through by, and the least        *)
(* minimum seen by a record is never above the one in force.                *)
LevelInv ==
  /\ \A g \in Loggers : least[g] <= logCBLevel
  /\ LevelWasMet

LEMMA LevelStep ==
  ASSUME TypeOK, LevelInv, [Next]_vars
  PROVE  LevelInv'
<1> USE DEF Goto, Level
<1>0. /\ \A s \in Setters : s \in Setters \cup Loggers /\ s \notin Loggers
      /\ \A g \in Loggers : g \in Setters \cup Loggers
  BY BridgeAssumption
<1>1. ASSUME UNCHANGED <<recLevel, least, logCBLevel>>,
             \A g \in Loggers : pc'[g] \in {"handle", "deliver", "callback"} =>
               \/ pc[g] \in {"handle", "deliver", "callback"}
               \/ recLevel[g] >= logCBLevel
      PROVE  LevelInv'
  BY <1>1 DEF LevelInv, LevelWasMet, TypeOK
<1>2. ASSUME NEW s \in Setters, SetStarts(s) \/ SetLocks(s) \/ SetSwaps(s)
      PROVE  LevelInv'
  <2>1. UNCHANGED <<recLevel, least, logCBLevel>>
    BY <1>2 DEF SetStarts, SetBegins, SetLocks, SetSwaps, routeVars, recVars, histVars
  <2>2. \E l \in SetterPC : pc' = [pc EXCEPT ![s] = l]
    BY <1>2 DEF SetStarts, SetBegins, SetLocks, SetSwaps, SetterPC
  <2>3. \A g \in Loggers : pc'[g] = pc[g]
    BY <1>0, <2>2 DEF TypeOK
  <2> QED
    BY <1>1, <2>1, <2>3
<1>3. ASSUME NEW s \in Setters, SetWrites(s)
      PROVE  LevelInv'
  <2>1. /\ logCBLevel' = newLevel[s] /\ newLevel[s] \in Level
        /\ least' = [g \in Loggers |-> IF newLevel[s] < least[g] THEN newLevel[s] ELSE least[g]]
        /\ recLevel' = recLevel /\ pc' = [pc EXCEPT ![s] = "swap"]
    BY <1>3 DEF SetWrites, Lowers, recVars, TypeOK
  <2>2. \A g \in Loggers : /\ pc'[g] = pc[g] /\ least'[g] <= least[g]
                           /\ least'[g] <= logCBLevel'
    BY <1>0, <2>1 DEF TypeOK
  <2>3. \A g \in Loggers : least'[g] \in Level /\ least[g] \in Level /\ recLevel[g] \in Level
    BY <2>1 DEF TypeOK
  <2> QED
    BY <2>1, <2>2, <2>3 DEF LevelInv, LevelWasMet
<1>4. ASSUME NEW g \in Loggers, LogStarts(g)
      PROVE  LevelInv'
  <2>1. /\ least' = [least EXCEPT ![g] = logCBLevel]
        /\ \E l \in Level : recLevel' = [recLevel EXCEPT ![g] = l]
        /\ pc' = [pc EXCEPT ![g] = "enabled?"] /\ logCBLevel' = logCBLevel
    BY <1>4 DEF LogStarts, Emit, routeVars
  <2> QED
    BY <1>0, <2>1 DEF LevelInv, LevelWasMet, TypeOK
<1>5. ASSUME NEW g \in Loggers, EnabledLocks(g) \/ HandleLocks(g) \/ HandleCalls(g)
      PROVE  LevelInv'
  <2>1. /\ UNCHANGED <<recLevel, least, logCBLevel>>
        /\ \/ pc' = [pc EXCEPT ![g] = "enabled"]
           \/ pc[g] \in {"handle", "deliver"} /\ \E l \in LoggerPC : pc' = [pc EXCEPT ![g] = l]
    BY <1>5 DEF EnabledLocks, HandleLocks, HandleCalls, LoggerPC, routeVars, recVars, histVars
  <2> QED
    BY <1>0, <1>1, <2>1 DEF TypeOK
<1>6. ASSUME NEW g \in Loggers, EnabledYes(g)
      PROVE  LevelInv'
  <2>1. /\ UNCHANGED <<recLevel, least, logCBLevel>> /\ recLevel[g] >= logCBLevel
        /\ pc' = [pc EXCEPT ![g] = "handle"]
    BY <1>6 DEF EnabledYes, routeVars, recVars, histVars
  <2> QED
    BY <1>0, <1>1, <2>1 DEF TypeOK
<1>7. ASSUME NEW g \in Loggers, EnabledNo(g) \/ HandleDrops(g) \/ CallbackReturns(g)
      PROVE  LevelInv'
  <2>1. /\ UNCHANGED <<least, logCBLevel>>
        /\ recLevel' = [recLevel EXCEPT ![g] = 0] /\ pc' = [pc EXCEPT ![g] = "idle"]
    BY <1>7 DEF EnabledNo, HandleDrops, CallbackReturns, Done, routeVars, histVars
  <2> QED
    BY <1>0, <2>1 DEF LevelInv, LevelWasMet, TypeOK
<1>8. ASSUME NEW c \in Configs, NewConfig(c)
      PROVE  LevelInv'
  BY <1>1, <1>8 DEF NewConfig, recVars, histVars
<1>9. CASE UNCHANGED vars
  BY <1>1, <1>9 DEF vars, routeVars, recVars, histVars
<1> QED
  BY <1>2, <1>3, <1>4, <1>5, <1>6, <1>7, <1>8, <1>9 DEF Next, SetGoesOn, LogGoesOn

(* No record reaches the host below every minimum in force on its way, with *)
(* any number of records and of changes of the minimum under way.           *)
THEOREM NoRecordBelowEveryMinimum == Spec => []LevelWasMet
<1>1. Init => LevelInv
  BY DEF Init, LevelInv, LevelWasMet
<1>2. TypeOK /\ LevelInv /\ [Next]_vars => LevelInv'
  BY LevelStep
<1>3. LevelInv => LevelWasMet
  BY DEF LevelInv
<1> QED
  BY <1>1, <1>2, <1>3, TypeInductive, PTL DEF Spec

-----------------------------------------------------------------------------
(* Whoever queues for the lock is not inside, and is where it queued. *)
QueuedWait ==
  \A t \in queued : t \in Loggers /\ pc[t] \in {"enabled", "deliver"} /\ t \notin readers

LockInv == NobodyIsStuck /\ QueuedWait

LEMMA LockStep ==
  ASSUME TypeOK, LockInv, [Next]_vars
  PROVE  LockInv'
<1> USE DEF Goto
<1>0. \A s \in Setters : s \notin Loggers /\ s # NoThread
  BY BridgeAssumption
<1>1. ASSUME UNCHANGED <<lockVars, pc>>
      PROVE  LockInv'
  BY <1>1 DEF LockInv, NobodyIsStuck, QueuedWait, lockVars
<1>2. ASSUME NEW s \in Setters, SetStarts(s) \/ SetSwaps(s)
      PROVE  LockInv'
  <2>1. /\ UNCHANGED <<writer, readers, queued>> /\ pc[s] # "locked"
        /\ pc' = [pc EXCEPT ![s] = "lock"] \/ pc' = [pc EXCEPT ![s] = "idle"]
    BY <1>2 DEF SetStarts, SetBegins, SetSwaps, lockVars
  <2> QED
    BY <1>0, <2>1 DEF LockInv, NobodyIsStuck, QueuedWait, TypeOK
<1>3. ASSUME NEW s \in Setters, SetLocks(s)
      PROVE  LockInv'
  <2>1. /\ writer = NoThread /\ writer' = s /\ UNCHANGED <<readers, queued>>
        /\ pc' = [pc EXCEPT ![s] = "locked"]
    BY <1>3 DEF SetLocks, logCBMu!Announce
  <2> QED
    BY <1>0, <2>1 DEF LockInv, NobodyIsStuck, QueuedWait, TypeOK
<1>4. ASSUME NEW s \in Setters, SetWrites(s)
      PROVE  LockInv'
  <2>1. /\ writer = s /\ writer' = NoThread
        /\ readers = {} /\ readers' = queued /\ queued' = {}
        /\ pc' = [pc EXCEPT ![s] = "swap"]
    BY <1>4 DEF SetWrites, logCBMu!HoldsWrite, logCBMu!Unlock
  <2> QED
    BY <1>0, <2>1 DEF LockInv, NobodyIsStuck, QueuedWait, TypeOK
<1>5. ASSUME NEW g \in Loggers, EnabledLocks(g) \/ HandleLocks(g)
      PROVE  LockInv'
  <2>1. /\ readers' = IF writer = NoThread THEN readers \cup {g} ELSE readers
        /\ queued' = IF writer = NoThread THEN queued ELSE queued \cup {g}
        /\ writer' = writer /\ pc[g] \in {"enabled?", "handle"}
        /\ pc' = [pc EXCEPT ![g] = "enabled"] \/ pc' = [pc EXCEPT ![g] = "deliver"]
    BY <1>5 DEF EnabledLocks, HandleLocks, logCBMu!RLock
  <2>2. g \notin readers /\ g \notin queued
    BY <2>1 DEF LockInv, NobodyIsStuck, QueuedWait
  <2> QED
    BY <1>0, <2>1, <2>2 DEF LockInv, NobodyIsStuck, QueuedWait, TypeOK
<1>6. ASSUME NEW g \in Loggers,
             EnabledYes(g) \/ EnabledNo(g) \/ HandleDrops(g) \/ CallbackReturns(g)
      PROVE  LockInv'
  <2>1. /\ readers' = readers \ {g} /\ UNCHANGED <<writer, queued>>
        /\ g \in readers \/ pc[g] = "callback"
        /\ pc' = [pc EXCEPT ![g] = "handle"] \/ pc' = [pc EXCEPT ![g] = "idle"]
    BY <1>6 DEF EnabledYes, EnabledNo, HandleDrops, CallbackReturns, Done, logCBMu!RUnlock,
                logCBMu!HoldsRead
  <2>2. g \notin queued
    BY <2>1 DEF LockInv, QueuedWait
  <2> QED
    BY <1>0, <2>1, <2>2 DEF LockInv, NobodyIsStuck, QueuedWait, TypeOK
<1>7. ASSUME NEW g \in Loggers, HandleCalls(g)
      PROVE  LockInv'
  <2>1. /\ UNCHANGED <<writer, readers, queued>> /\ g \in readers
        /\ pc' = [pc EXCEPT ![g] = "callback"]
    BY <1>7 DEF HandleCalls, logCBMu!HoldsRead, lockVars
  <2> QED
    BY <1>0, <2>1 DEF LockInv, NobodyIsStuck, QueuedWait, TypeOK
<1>8. ASSUME NEW g \in Loggers, LogStarts(g)
      PROVE  LockInv'
  <2>1. /\ UNCHANGED <<writer, readers, queued>> /\ pc[g] = "idle"
        /\ pc' = [pc EXCEPT ![g] = "enabled?"]
    BY <1>8 DEF LogStarts, Emit, lockVars
  <2> QED
    BY <1>0, <2>1 DEF LockInv, NobodyIsStuck, QueuedWait, TypeOK
<1>9. ASSUME NEW c \in Configs, NewConfig(c)
      PROVE  LockInv'
  BY <1>1, <1>9 DEF NewConfig
<1>10. CASE UNCHANGED vars
  BY <1>1, <1>10 DEF vars
<1> QED
  BY <1>2, <1>3, <1>4, <1>5, <1>6, <1>7, <1>8, <1>9, <1>10 DEF Next, SetGoesOn, LogGoesOn

(* Every wait for logCBMu is a wait for a thread that is inside and waits   *)
(* for nobody, with any number of setters and loggers.                      *)
THEOREM NoWaitInCircles == Spec => []NobodyIsStuck
<1>1. Init => LockInv
  BY DEF Init, LockInv, NobodyIsStuck, QueuedWait, logCBMu!LockInit
<1>2. TypeOK /\ LockInv /\ [Next]_vars => LockInv'
  BY LockStep
<1>3. LockInv => NobodyIsStuck
  BY DEF LockInv
<1> QED
  BY <1>1, <1>2, <1>3, TypeInductive, PTL DEF Spec
=============================================================================
