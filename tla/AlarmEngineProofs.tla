------------------------- MODULE AlarmEngineProofs -------------------------
(***************************************************************************)
(* Proofs about AlarmEngine for any keys, hold times and numbers of        *)
(* alarms.                                                                 *)
(***************************************************************************)
EXTENDS AlarmEngine, TLAPS

LEMMA InitAInv == Init => AInv
<1> SUFFICES ASSUME Init PROVE AInv
  OBVIOUS
<1> USE AlarmAssumption
<1>1. TypeOK
  BY DEF Init, TypeOK, Time, Keys, LevelKeys
<1>2. AidsUnique /\ TimersOK
  BY DEF Init, AidsUnique, TimersOK
<1>3. ActiveIsOpen /\ RaisedAtHold /\ NormalMeansClear
  BY DEF Init, ActiveIsOpen, RaisedAtHold, NormalMeansClear, Keys
<1> QED BY <1>1, <1>2, <1>3 DEF AInv

\* Raising an alarm for a key without one keeps map and table in agreement.
LEMMA RaiseStep ==
  ASSUME AInv, NEW k \in Keys, active[k] = 0, Raise(k)
  PROVE  /\ rows' \in SUBSET AlarmRow /\ active' \in [Keys -> Nat]
         /\ AidsUnique' /\ ActiveIsOpen'
         /\ active'[k] # 0 /\ \A j \in Keys : j # k => active'[j] = active[j]
<1> USE AlarmAssumption
<1>1. PICK aid \in 1..MaxAid :
        /\ \A r \in rows : r.aid < aid
        /\ rows' = rows \cup {[aid |-> aid, key |-> k, state |-> "RAISED", cleared |-> 0]}
        /\ active' = [active EXCEPT ![k] = aid]
  BY DEF Raise, IsNewAid
<1> DEFINE new == [aid |-> aid, key |-> k, state |-> "RAISED", cleared |-> 0]
<1>2. new.aid = aid /\ new.key = k /\ new.state = "RAISED" /\ new \in AlarmRow
  BY DEF AlarmRow, Open, Time
<1>3. rows' = rows \cup {new}
  BY <1>1
<1> HIDE DEF new
<1>4. \A r \in rows : r.aid \in Nat /\ r.aid # aid /\ r.key \in Keys
  BY <1>1 DEF AInv, TypeOK, AlarmRow
<1>5. /\ active' \in [Keys -> Nat] /\ active'[k] = aid
      /\ \A j \in Keys : j # k => active'[j] = active[j]
  BY <1>1 DEF AInv, TypeOK
<1>6. rows' \in SUBSET AlarmRow
  BY <1>2, <1>3 DEF AInv, TypeOK
<1>7. AidsUnique'
  BY <1>2, <1>3, <1>4 DEF AInv, AidsUnique
<1>8. \A r \in rows : r.state \in Open => r.key # k
  BY <1>4 DEF AInv, ActiveIsOpen, TypeOK, AlarmRow
<1>9. ActiveIsOpen'
  <2>1. \A j \in Keys : active'[j] # 0 =>
          \E r \in rows' : r.aid = active'[j] /\ r.key = j /\ r.state \in Open
    BY <1>2, <1>3, <1>5 DEF AInv, ActiveIsOpen, Open
  <2>2. \A r \in rows' : r.state \in Open => active'[r.key] = r.aid
    BY <1>2, <1>3, <1>4, <1>5, <1>8 DEF AInv, ActiveIsOpen
  <2> QED BY <2>1, <2>2 DEF ActiveIsOpen
<1> QED BY <1>5, <1>6, <1>7, <1>9

\* Updating one row by its id leaves the others and all ids and keys alone.
LEMMA SetStateRows ==
  ASSUME AInv, NEW aid \in Nat, NEW state \in Open \cup {"CLEARED"}, NEW t \in Time,
         rows' = SetState(aid, state, t)
  PROVE  /\ rows' \in SUBSET AlarmRow
         /\ \A q \in rows' : \E r \in rows :
              /\ q.aid = r.aid /\ q.key = r.key
              /\ r.aid = aid => q.state = state
              /\ r.aid # aid => q = r
         /\ \A r \in rows : \E q \in rows' :
              /\ q.aid = r.aid /\ q.key = r.key
              /\ r.aid = aid => q.state = state
              /\ r.aid # aid => q = r
         /\ AidsUnique'
<1> DEFINE Upd(r) == IF r.aid = aid THEN [r EXCEPT !.state = state, !.cleared = t] ELSE r
<1>1. rows \in SUBSET AlarmRow
  BY DEF AInv, TypeOK
<1>2. rows' = {Upd(r) : r \in rows}
  BY DEF SetState
<1>3. \A r \in rows : /\ Upd(r) \in AlarmRow /\ Upd(r).aid = r.aid /\ Upd(r).key = r.key
                      /\ r.aid = aid => Upd(r).state = state
                      /\ r.aid # aid => Upd(r) = r
  BY <1>1 DEF AlarmRow
<1> HIDE DEF Upd
<1>4. AidsUnique'
  BY <1>2, <1>3 DEF AInv, AidsUnique
<1> QED BY <1>2, <1>3, <1>4

\* Clearing the open alarm of a key.
LEMMA ClearStep ==
  ASSUME AInv, NEW k \in Keys, active[k] # 0, NEW t \in Time, Clear(k, t)
  PROVE  /\ rows' \in SUBSET AlarmRow /\ active' \in [Keys -> Nat]
         /\ AidsUnique' /\ ActiveIsOpen'
         /\ active'[k] = 0 /\ \A j \in Keys : j # k => active'[j] = active[j]
<1>1. active[k] \in Nat
  BY DEF AInv, TypeOK
<1>2. /\ active' \in [Keys -> Nat] /\ active'[k] = 0
      /\ \A j \in Keys : j # k => active'[j] = active[j]
  BY DEF Clear, AInv, TypeOK
<1>3. /\ rows' \in SUBSET AlarmRow /\ AidsUnique'
      /\ \A q \in rows' : \E r \in rows :
           /\ q.aid = r.aid /\ q.key = r.key
           /\ r.aid = active[k] => q.state = "CLEARED"
           /\ r.aid # active[k] => q = r
      /\ \A r \in rows : \E q \in rows' :
           /\ q.aid = r.aid /\ q.key = r.key
           /\ r.aid = active[k] => q.state = "CLEARED"
           /\ r.aid # active[k] => q = r
  <2>1. rows' = SetState(active[k], "CLEARED", t)
    BY DEF Clear
  <2>2. "CLEARED" \in Open \cup {"CLEARED"}
    OBVIOUS
  <2> QED BY <1>1, <2>1, <2>2, SetStateRows
<1>4. PICK o \in rows : o.aid = active[k] /\ o.key = k
  BY DEF AInv, ActiveIsOpen
<1>5. ASSUME NEW j \in Keys, active'[j] # 0
      PROVE  \E q \in rows' : q.aid = active'[j] /\ q.key = j /\ q.state \in Open
  <2>1. j # k /\ active'[j] = active[j]
    BY <1>2, <1>5
  <2>2. PICK r \in rows : r.aid = active[j] /\ r.key = j /\ r.state \in Open
    BY <1>5, <2>1 DEF AInv, ActiveIsOpen
  <2>3. r.aid # active[k]
    BY <1>4, <2>1, <2>2 DEF AInv, AidsUnique
  <2> QED BY <1>3, <2>1, <2>2, <2>3
<1>6. ASSUME NEW q \in rows', q.state \in Open
      PROVE  active'[q.key] = q.aid
  <2>1. PICK r \in rows : /\ q.aid = r.aid /\ q.key = r.key
                          /\ r.aid = active[k] => q.state = "CLEARED"
                          /\ r.aid # active[k] => q = r
    BY <1>3
  <2>2. r.aid # active[k] /\ q = r
    BY <1>6, <2>1 DEF Open
  <2>3. active[q.key] = q.aid /\ q.key \in Keys
    BY <1>6, <2>2 DEF AInv, ActiveIsOpen, TypeOK, AlarmRow
  <2> QED BY <1>2, <2>2, <2>3
<1> QED BY <1>2, <1>3, <1>5, <1>6 DEF ActiveIsOpen

\* A restart rebuilds the map it had.
LEMMA RestoreStep ==
  ASSUME AInv, NEW k \in Keys
  PROVE  Restored(k) = active[k]
<1>1. CASE active[k] = 0
  <2>1. ~ \E r \in rows : r.key = k /\ r.state \in Open
    BY <1>1 DEF AInv, ActiveIsOpen, TypeOK, AlarmRow
  <2> QED BY <1>1, <2>1 DEF Restored
<1>2. CASE active[k] # 0
  <2>1. \E r \in rows : r.key = k /\ r.state \in Open
    BY <1>2 DEF AInv, ActiveIsOpen
  <2>2. {r.aid : r \in {s \in rows : s.key = k /\ s.state \in Open}} = {active[k]}
    BY <2>1 DEF AInv, ActiveIsOpen
  <2>3. (CHOOSE aid \in {active[k]} : TRUE) = active[k]
    OBVIOUS
  <2> QED BY <2>1, <2>2, <2>3 DEF Restored
<1> QED BY <1>1, <1>2

-----------------------------------------------------------------------------
(* check and comm *)

\* One observation of a level key, good or bad, keeps the invariant.
LEMMA ObserveStep ==
  ASSUME AInv, NEW k \in LevelKeys, NEW t \in Time, t <= now,
         lastTs[k] # None => lastTs[k] <= t,
         lastTs' = [lastTs EXCEPT ![k] = t], now' = now,
         Normal(k, t) \/ Deviating(k, t)
  PROVE  /\ AInv'
         /\ \A j \in LevelKeys : active[j] = 0 /\ active'[j] # 0 =>
              devFrom'[j] # None /\ lastTs'[j] - devFrom'[j] >= Hold(j)
<1> USE AlarmAssumption
<1>0. k \in Keys /\ t \in Nat /\ \A j \in LevelKeys : j \in Keys
  BY DEF Keys, Time
<1>1. /\ lastTs' \in [LevelKeys -> Time \cup {None}] /\ lastTs'[k] = t /\ t # None
      /\ \A j \in LevelKeys : j # k => lastTs'[j] = lastTs[j]
  BY <1>0 DEF AInv, TypeOK
<1>2. CASE Normal(k, t)
  <2>1. /\ timers' \in [LevelKeys -> Time \cup {None}] /\ timers'[k] = None
        /\ devFrom' \in [LevelKeys -> Time \cup {None}] /\ devFrom'[k] = None
        /\ \A j \in LevelKeys : j # k => timers'[j] = timers[j] /\ devFrom'[j] = devFrom[j]
    BY <1>2 DEF Normal, Stopped, AInv, TypeOK
  <2>2. /\ rows' \in SUBSET AlarmRow /\ active' \in [Keys -> Nat]
        /\ AidsUnique' /\ ActiveIsOpen'
        /\ active'[k] = 0 /\ \A j \in Keys : j # k => active'[j] = active[j]
    <3>1. CASE active[k] # 0
      BY <1>0, <1>2, <3>1, ClearStep DEF Normal, Clearable
    <3>2. CASE active[k] = 0
      BY <1>2, <3>2 DEF Normal, Clearable, AInv, TypeOK, AidsUnique, ActiveIsOpen
    <3> QED BY <3>1, <3>2
  <2>3. TypeOK'
    BY <1>1, <2>1, <2>2 DEF AInv, TypeOK
  <2>4. TimersOK'
    BY <1>1, <2>1 DEF AInv, TimersOK
  <2>5. RaisedAtHold' /\ NormalMeansClear'
    BY <1>0, <1>1, <2>1, <2>2 DEF AInv, RaisedAtHold, NormalMeansClear
  <2> QED BY <1>0, <2>2, <2>3, <2>4, <2>5 DEF AInv
<1>3. CASE Deviating(k, t)
  <2> DEFINE start == IF timers[k] = None THEN t ELSE timers[k]
             from == IF devFrom[k] = None THEN t ELSE devFrom[k]
  <2>1. /\ timers' \in [LevelKeys -> Time \cup {None}] /\ timers'[k] = start
        /\ devFrom' \in [LevelKeys -> Time \cup {None}] /\ devFrom'[k] = from
        /\ \A j \in LevelKeys : j # k => timers'[j] = timers[j] /\ devFrom'[j] = devFrom[j]
    BY <1>3 DEF Deviating, Started, AInv, TypeOK
  <2>2. start \in Nat /\ from \in Nat /\ start # None /\ from # None
    BY <1>0 DEF AInv, TypeOK, Time
  <2>3. from <= start /\ start <= t
    <3>1. /\ devFrom[k] # None => lastTs[k] # None /\ devFrom[k] <= lastTs[k]
          /\ timers[k] # None => devFrom[k] # None /\ devFrom[k] <= timers[k] /\ timers[k] <= lastTs[k]
      BY DEF AInv, TimersOK
    <3>2. /\ lastTs[k] # None => lastTs[k] \in Nat
          /\ timers[k] # None => timers[k] \in Nat
          /\ devFrom[k] # None => devFrom[k] \in Nat
      BY DEF AInv, TypeOK, Time
    <3> QED BY <1>0, <3>1, <3>2
  <2>4. HoldReached(k, t) <=> t - start >= Hold(k)
    BY DEF HoldReached, Started, AInv, TypeOK
  <2>5. Hold(k) \in Nat
    BY DEF Hold
  <2> HIDE DEF start, from
  <2>6. /\ rows' \in SUBSET AlarmRow /\ active' \in [Keys -> Nat]
        /\ AidsUnique' /\ ActiveIsOpen'
        /\ \A j \in Keys : j # k => active'[j] = active[j]
        /\ active'[k] = 0 <=> active[k] = 0 /\ ~(t - start >= Hold(k))
    <3>1. CASE active[k] = 0 /\ t - start >= Hold(k)
      BY <1>0, <1>3, <2>4, <3>1, RaiseStep DEF Deviating
    <3>2. CASE ~(active[k] = 0 /\ t - start >= Hold(k))
      BY <1>3, <2>4, <3>2 DEF Deviating, AInv, TypeOK, AidsUnique, ActiveIsOpen
    <3> QED BY <3>1, <3>2
  <2>7. TypeOK'
    BY <1>1, <2>1, <2>6 DEF AInv, TypeOK
  <2>8. TimersOK'
    <3>1. from <= t
      BY <1>0, <2>2, <2>3
    <3> QED BY <1>1, <2>1, <2>2, <2>3, <3>1 DEF AInv, TimersOK
  <2>9. RaisedAtHold'
    <3> SUFFICES ASSUME NEW j \in LevelKeys, timers'[j] # None, lastTs'[j] - timers'[j] >= Hold(j)
                 PROVE  active'[j] # 0
      BY DEF RaisedAtHold
    <3>1. CASE j = k
      BY <1>1, <2>1, <2>6, <3>1
    <3>2. CASE j # k
      BY <1>0, <1>1, <2>1, <2>6, <3>2 DEF AInv, RaisedAtHold
    <3> QED BY <3>1, <3>2
  <2>10. NormalMeansClear'
    BY <1>0, <1>1, <2>1, <2>2, <2>6 DEF AInv, NormalMeansClear
  <2>11. active[k] = 0 /\ active'[k] # 0 => t - from >= Hold(k)
    BY <1>0, <2>2, <2>3, <2>5, <2>6
  <2> QED BY <1>0, <1>1, <2>1, <2>2, <2>6, <2>7, <2>8, <2>9, <2>10, <2>11 DEF AInv
<1> QED BY <1>2, <1>3

-----------------------------------------------------------------------------
(* event, ack, purge, restart *)

\* Re-raising the open alarm of a key, or confirming a condition alarm,
\* changes the state of an open row to an open state.
LEMMA ReopenStep ==
  ASSUME AInv, NEW k \in Keys, active[k] # 0, NEW state \in Open,
         rows' = SetState(active[k], state, 0), active' = active
  PROVE  rows' \in SUBSET AlarmRow /\ AidsUnique' /\ ActiveIsOpen'
<1>1. active[k] \in Nat /\ 0 \in Time
  BY AlarmAssumption DEF AInv, TypeOK, Time
<1>2. /\ rows' \in SUBSET AlarmRow /\ AidsUnique'
      /\ \A q \in rows' : \E r \in rows :
           /\ q.aid = r.aid /\ q.key = r.key
           /\ r.aid = active[k] => q.state = state
           /\ r.aid # active[k] => q = r
      /\ \A r \in rows : \E q \in rows' :
           /\ q.aid = r.aid /\ q.key = r.key
           /\ r.aid = active[k] => q.state = state
           /\ r.aid # active[k] => q = r
  BY <1>1, SetStateRows
<1>3. PICK o \in rows : o.aid = active[k] /\ o.key = k
  BY DEF AInv, ActiveIsOpen
<1>4. ASSUME NEW j \in Keys, active[j] # 0
      PROVE  \E q \in rows' : q.aid = active[j] /\ q.key = j /\ q.state \in Open
  <2>1. PICK r \in rows : r.aid = active[j] /\ r.key = j /\ r.state \in Open
    BY <1>4 DEF AInv, ActiveIsOpen
  <2> QED BY <1>2, <2>1
<1>5. ASSUME NEW q \in rows', q.state \in Open
      PROVE  active[q.key] = q.aid
  <2>1. PICK r \in rows : /\ q.aid = r.aid /\ q.key = r.key
                          /\ r.aid # active[k] => q = r
    BY <1>2
  <2>2. CASE r.aid = active[k]
    BY <1>3, <2>1, <2>2 DEF AInv, AidsUnique
  <2>3. CASE r.aid # active[k]
    BY <1>5, <2>1, <2>3 DEF AInv, ActiveIsOpen
  <2> QED BY <2>2, <2>3
<1> QED BY <1>2, <1>4, <1>5 DEF ActiveIsOpen

\* Steps that neither observe a level key nor open or close its alarm.
LEMMA SteadyStep ==
  ASSUME AInv, now' \in Time, now <= now',
         timers' = timers \/ timers' = [k \in LevelKeys |-> None],
         lastTs' = lastTs, devFrom' = devFrom,
         rows' \in SUBSET AlarmRow, active' \in [Keys -> Nat],
         \A k \in LevelKeys : active'[k] = active[k],
         AidsUnique', ActiveIsOpen'
  PROVE  /\ AInv'
         /\ \A k \in LevelKeys : ~(active[k] = 0 /\ active'[k] # 0)
<1>1. timers' \in [LevelKeys -> Time \cup {None}]
  BY DEF AInv, TypeOK
<1>2. TypeOK'
  BY <1>1 DEF AInv, TypeOK
<1>3. \A k \in LevelKeys : timers'[k] # None => timers'[k] = timers[k]
  OBVIOUS
<1>4. TimersOK'
  <2>1. now \in Nat /\ now' \in Nat /\ \A k \in LevelKeys : lastTs[k] # None => lastTs[k] \in Nat
    BY AlarmAssumption DEF AInv, TypeOK, Time
  <2> QED BY <1>3, <2>1 DEF AInv, TimersOK
<1>5. RaisedAtHold' /\ NormalMeansClear'
  BY <1>3 DEF AInv, RaisedAtHold, NormalMeansClear
<1> QED BY <1>2, <1>4, <1>5 DEF AInv

LEMMA EventStep ==
  ASSUME AInv, NEW k \in EventKeys, Event(k)
  PROVE  /\ AInv'
         /\ \A j \in LevelKeys : ~(active[j] = 0 /\ active'[j] # 0)
<1>1. k \in Keys /\ (\A j \in LevelKeys : j # k /\ j \in Keys) /\ active \in [Keys -> Nat]
  BY AlarmAssumption DEF Keys, LevelKeys, AInv, TypeOK
<1>2. /\ rows' \in SUBSET AlarmRow /\ active' \in [Keys -> Nat] /\ AidsUnique' /\ ActiveIsOpen'
      /\ \A j \in Keys : j # k => active'[j] = active[j]
  <2>1. CASE active[k] # 0
    <3>1. rows' = SetState(active[k], "RAISED", 0) /\ active' = active /\ "RAISED" \in Open
      BY <2>1 DEF Event, Open
    <3> QED BY <1>1, <2>1, <3>1, ReopenStep
  <2>2. CASE active[k] = 0
    BY <1>1, <2>2, RaiseStep DEF Event
  <2> QED BY <2>1, <2>2
<1>3. now' = now /\ timers' = timers /\ lastTs' = lastTs /\ devFrom' = devFrom
  BY DEF Event
<1>4. now' \in Time /\ now <= now'
  BY <1>3, AlarmAssumption DEF AInv, TypeOK, Time
<1> QED BY <1>1, <1>2, <1>3, <1>4, SteadyStep

LEMMA AckStep ==
  ASSUME AInv, NEW aid \in 1..MaxAid, Ack(aid)
  PROVE  /\ AInv'
         /\ \A j \in LevelKeys : ~(active[j] = 0 /\ active'[j] # 0)
<1>1. PICK o \in rows :
        /\ o.aid = aid /\ o.state = "RAISED"
        /\ IF o.key \in EventKeys
           THEN rows' = SetState(aid, "CLEARED", now) /\ active' = Forget(aid)
           ELSE rows' = SetState(aid, "ACKED", 0) /\ active' = active
  BY DEF Ack
<1>2. active[o.key] = aid /\ o.key \in Keys /\ aid # 0 /\ aid \in Nat
  BY <1>1 DEF AInv, ActiveIsOpen, TypeOK, AlarmRow, Open
<1>3. now' = now /\ timers' = timers /\ lastTs' = lastTs /\ devFrom' = devFrom
  BY DEF Ack
<1>4. now' \in Time /\ now <= now' /\ now \in Time
  BY <1>3, AlarmAssumption DEF AInv, TypeOK, Time
<1>5. CASE o.key \in EventKeys
  <2>1. \A j \in Keys : active[j] = aid => j = o.key
    BY <1>1, <1>2 DEF AInv, ActiveIsOpen, AidsUnique
  <2>2. active' = [active EXCEPT ![o.key] = 0]
    BY <1>1, <1>2, <1>5, <2>1 DEF Forget, AInv, TypeOK
  <2>3. Clear(o.key, now) /\ active[o.key] # 0
    BY <1>1, <1>2, <1>5, <2>2 DEF Clear
  <2>4. /\ rows' \in SUBSET AlarmRow /\ active' \in [Keys -> Nat] /\ AidsUnique' /\ ActiveIsOpen'
        /\ \A j \in Keys : j # o.key => active'[j] = active[j]
    BY <1>2, <1>4, <2>3, ClearStep
  <2>5. \A j \in LevelKeys : j # o.key /\ j \in Keys
    BY <1>5, AlarmAssumption DEF Keys, LevelKeys
  <2> QED BY <1>3, <1>4, <2>4, <2>5, SteadyStep
<1>6. CASE o.key \notin EventKeys
  <2>1. rows' = SetState(active[o.key], "ACKED", 0) /\ active' = active /\ "ACKED" \in Open
    BY <1>1, <1>2, <1>6 DEF Open
  <2>2. rows' \in SUBSET AlarmRow /\ AidsUnique' /\ ActiveIsOpen'
    BY <1>2, <2>1, ReopenStep
  <2> QED BY <1>3, <1>4, <2>1, <2>2, SteadyStep DEF AInv, TypeOK
<1> QED BY <1>5, <1>6

LEMMA PurgeStep ==
  ASSUME AInv, NEW cut \in Time, Purge(cut)
  PROVE  /\ AInv'
         /\ \A j \in LevelKeys : ~(active[j] = 0 /\ active'[j] # 0)
<1>1. /\ now' = now /\ timers' = timers /\ lastTs' = lastTs /\ devFrom' = devFrom
      /\ active' = active /\ rows' \subseteq rows
  BY DEF Purge
<1>2. \A r \in rows : r.state \in Open => r \in rows'
  BY DEF Purge, Purgeable, Open
<1>3. AidsUnique' /\ ActiveIsOpen'
  BY <1>1, <1>2 DEF AInv, AidsUnique, ActiveIsOpen
<1>4. now' \in Time /\ now <= now' /\ rows' \in SUBSET AlarmRow /\ active' \in [Keys -> Nat]
  BY <1>1, AlarmAssumption DEF AInv, TypeOK, Time
<1> QED BY <1>1, <1>3, <1>4, SteadyStep

LEMMA RestartStep ==
  ASSUME AInv, Restart
  PROVE  AInv' /\ active' = active
<1>1. active' = active
  BY RestoreStep DEF Restart, AInv, TypeOK
<1>2. AidsUnique' /\ ActiveIsOpen'
  BY <1>1 DEF Restart, AInv, AidsUnique, ActiveIsOpen
<1>3. now' \in Time /\ now <= now'
  BY AlarmAssumption DEF Restart, AInv, TypeOK, Time
<1> QED BY <1>1, <1>2, <1>3, SteadyStep DEF Restart, AInv, TypeOK

\* Every step keeps the invariant, raises level alarms only after their hold
\* time, and a restart keeps the map.
LEMMA NextAInv ==
  ASSUME AInv, [Next]_vars
  PROVE  /\ AInv'
         /\ \A j \in LevelKeys : active[j] = 0 /\ active'[j] # 0 =>
              devFrom'[j] # None /\ lastTs'[j] - devFrom'[j] >= Hold(j)
<1>1. ASSUME NEW k \in CondKeys, NEW t \in Time, Check(k, t)
      PROVE  /\ AInv'
             /\ \A j \in LevelKeys : active[j] = 0 /\ active'[j] # 0 =>
                  devFrom'[j] # None /\ lastTs'[j] - devFrom'[j] >= Hold(j)
  <2>1. t <= now /\ (lastTs[k] # None => lastTs[k] <= t) /\ k \in LevelKeys
    BY <1>1, AlarmAssumption DEF Check, Earliest, AInv, TypeOK, Time, LevelKeys
  <2> QED BY <1>1, <2>1, ObserveStep DEF Check
<1>2. ASSUME NEW k \in CommKeys, Comm(k)
      PROVE  /\ AInv'
             /\ \A j \in LevelKeys : active[j] = 0 /\ active'[j] # 0 =>
                  devFrom'[j] # None /\ lastTs'[j] - devFrom'[j] >= Hold(j)
  <2>1. /\ now \in Time /\ now <= now /\ (lastTs[k] # None => lastTs[k] <= now)
        /\ k \in LevelKeys
    BY <1>2, AlarmAssumption DEF AInv, TypeOK, Time, LevelKeys, TimersOK
  <2> QED BY <1>2, <2>1, ObserveStep DEF Comm
<1>3. ASSUME NEW k \in EventKeys, Event(k)
      PROVE  AInv' /\ \A j \in LevelKeys : ~(active[j] = 0 /\ active'[j] # 0)
  BY <1>3, EventStep
<1>4. ASSUME NEW aid \in 1..MaxAid, Ack(aid)
      PROVE  AInv' /\ \A j \in LevelKeys : ~(active[j] = 0 /\ active'[j] # 0)
  BY <1>4, AckStep
<1>5. ASSUME NEW cut \in Time, Purge(cut)
      PROVE  AInv' /\ \A j \in LevelKeys : ~(active[j] = 0 /\ active'[j] # 0)
  BY <1>5, PurgeStep
<1>6. CASE Restart
  BY <1>6, RestartStep
<1>7. CASE Tick
  <2>1. /\ now' \in Time /\ now <= now' /\ timers' = timers /\ lastTs' = lastTs
        /\ devFrom' = devFrom /\ rows' = rows /\ active' = active
    BY <1>7, AlarmAssumption DEF Tick, AInv, TypeOK, Time
  <2>2. AidsUnique' /\ ActiveIsOpen'
    BY <2>1 DEF AInv, AidsUnique, ActiveIsOpen
  <2> QED BY <2>1, <2>2, SteadyStep DEF AInv, TypeOK
<1>8. CASE UNCHANGED vars
  BY <1>8 DEF vars, AInv, TypeOK, AidsUnique, TimersOK, ActiveIsOpen, RaisedAtHold, NormalMeansClear
<1> QED BY <1>1, <1>2, <1>3, <1>4, <1>5, <1>6, <1>7, <1>8 DEF Next

-----------------------------------------------------------------------------
\* The map of open alarms and the table agree in every state, for any keys.
THEOREM AlarmInvariance == Spec => []AInv
<1>1. AInv /\ [Next]_vars => AInv'
  BY NextAInv
<1> QED BY <1>1, InitAInv, PTL DEF Spec

\* Table, map, timers and clocks keep their types.
THEOREM AlarmTypes == Spec => []TypeOK
<1>1. AInv => TypeOK
  BY DEF AInv
<1> QED BY <1>1, AlarmInvariance, PTL

\* A key has at most one open alarm and the map names it.
THEOREM ActiveAgrees == Spec => []ActiveIsOpen
<1>1. AInv => ActiveIsOpen
  BY DEF AInv
<1> QED BY <1>1, AlarmInvariance, PTL

\* An alarm is up once its hold time has been reached.
THEOREM AlarmNotMissed == Spec => []RaisedAtHold
<1>1. AInv => RaisedAtHold
  BY DEF AInv
<1> QED BY <1>1, AlarmInvariance, PTL

\* No open alarm outlives a normal observation.
THEOREM NormalClears == Spec => []NormalMeansClear
<1>1. AInv => NormalMeansClear
  BY DEF AInv
<1> QED BY <1>1, AlarmInvariance, PTL

\* A restart of the MES takes up exactly the open alarms.
THEOREM RestartExact == Spec => RestartKeepsActive
<1>1. AInv /\ [Next]_vars => [Restart => active' = active]_vars
  BY RestartStep
<1> QED BY <1>1, AlarmInvariance, PTL DEF Spec, RestartKeepsActive

\* No alarm is raised before every observation of its hold time deviated.
THEOREM HoldRespected == Spec => NotBeforeHold
<1>1. AInv /\ [Next]_vars =>
        [\A k \in LevelKeys : active[k] = 0 /\ active'[k] # 0 =>
           devFrom'[k] # None /\ lastTs'[k] - devFrom'[k] >= Hold(k)]_vars
  BY NextAInv
<1> QED BY <1>1, AlarmInvariance, PTL DEF Spec, NotBeforeHold

=============================================================================
