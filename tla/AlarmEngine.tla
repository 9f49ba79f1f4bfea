---------------------------- MODULE AlarmEngine ----------------------------
(***************************************************************************)
(* The alarm engine of the MES (mes/alarms.py) over its table TWIN_ALARM.  *)
(*                                                                         *)
(* Three kinds of alarm share the table and the map `active':              *)
(*   condition  a CCP limit left for hold_sec of collected time (check);   *)
(*   event      a metal or weight failure, open until confirmed (event);   *)
(*   comm       a link or device bad for 3 s of wall time (comm).          *)
(* The callers are the distribution of an ingested batch, the periodic     *)
(* sync_comm_alarms, the acknowledge request, the daily purge, and the     *)
(* constructor after a restart.  Each runs without an await, so each is    *)
(* one step.                                                               *)
(*                                                                         *)
(* Data.  A key (rule, equipment, sub) is a model value; a sample is       *)
(* whether it deviates and its collection time; messages, severities and   *)
(* the publication to the dashboards are left out.  Samples of one key     *)
(* come in collection order but may come late, as buffered ones do.        *)
(***************************************************************************)
EXTENDS Naturals

CONSTANTS CondKeys,   \* keys of check: rules with limits or a band
          EventKeys,  \* keys of event: ng_immediate and band_pct rules
          CommKeys,   \* keys of comm
          CondHold,   \* rule.hold_sec
          CommHold,   \* hold_s of comm
          MaxTime,    \* bound: clock
          MaxAid,     \* bound: ALARM_ID
          None        \* no timer, no sample

ASSUME AlarmAssumption ==
  /\ CondHold \in Nat /\ CommHold \in Nat /\ MaxTime \in Nat /\ MaxAid \in Nat
  /\ None \notin Nat
  /\ CondKeys \cap EventKeys = {}
  /\ CondKeys \cap CommKeys = {}
  /\ EventKeys \cap CommKeys = {}

VARIABLES now,        \* wall clock
          timers,     \* start of the current deviation, or None
          active,     \* ALARM_ID of the open alarm of a key, 0 if none
          rows,       \* TWIN_ALARM
          lastTs,     \* history: collection time of the newest sample
          devFrom     \* history: first sample of the unbroken deviation

vars == <<now, timers, active, rows, lastTs, devFrom>>

LevelKeys == CondKeys \cup CommKeys
Keys == LevelKeys \cup EventKeys
Time == 0..MaxTime

Open == {"RAISED", "ACKED"}
AlarmRow == [aid : Nat \ {0}, key : Keys, state : Open \cup {"CLEARED"}, cleared : Time]

Hold(k) == IF k \in CondKeys THEN CondHold ELSE CommHold

-----------------------------------------------------------------------------
(* Storage: _raise, _clear *)

\* INTEGER PRIMARY KEY without AUTOINCREMENT: one more than the largest key,
\* so the key of a purged row comes back when it was the largest.
IsNewAid(aid) ==
  /\ \A r \in rows : r.aid < aid
  /\ aid = 1 \/ \E r \in rows : r.aid = aid - 1

\* A new RAISED row becomes the open alarm of its key.
Raise(k) ==
  \E aid \in 1..MaxAid :
    /\ IsNewAid(aid)
    /\ rows' = rows \cup {[aid |-> aid, key |-> k, state |-> "RAISED", cleared |-> 0]}
    /\ active' = [active EXCEPT ![k] = aid]

\* Seeded fault: a state name the readers of the table do not know.
SetStateMisspelt(aid, state, t) ==
  {IF r.aid = aid THEN [r EXCEPT !.state = IF state = "ACKED" THEN "ACK" ELSE state, !.cleared = t]
   ELSE r : r \in rows}

\* UPDATE TWIN_ALARM SET STATE=... WHERE ALARM_ID=aid
SetState(aid, state, t) ==
  {IF r.aid = aid THEN [r EXCEPT !.state = state, !.cleared = t] ELSE r : r \in rows}

Clear(k, t) ==
  /\ active' = [active EXCEPT ![k] = 0]
  /\ rows' = SetState(active[k], "CLEARED", t)

-----------------------------------------------------------------------------
(* check and comm *)

\* Seeded fault: a return to normal leaves the timer running.
StoppedNever(k) == timers

\* timers.pop(key)
Stopped(k) == [timers EXCEPT ![k] = None]

\* timers.setdefault(key, t)
Started(k, t) == IF timers[k] = None THEN [timers EXCEPT ![k] = t] ELSE timers

\* Seeded fault: the limit itself is not enough.
HoldExceeded(k, t) == t - Started(k, t)[k] > Hold(k)

\* not (t - start < hold)
HoldReached(k, t) == t - Started(k, t)[k] >= Hold(k)

\* Seeded fault: only a deviation timed in this run of the program is cleared.
ClearableTimed(k) == active[k] # 0 /\ timers[k] # None

\* key in self.active
Clearable(k) == active[k] # 0

\* A normal observation stops the timer and clears the open alarm.
Normal(k, t) ==
  /\ timers' = Stopped(k)
  /\ devFrom' = [devFrom EXCEPT ![k] = None]
  /\ IF Clearable(k) THEN Clear(k, t) ELSE UNCHANGED <<active, rows>>

\* A deviating one starts it, and raises once the hold time is reached.
Deviating(k, t) ==
  /\ timers' = Started(k, t)
  /\ devFrom' = IF devFrom[k] = None THEN [devFrom EXCEPT ![k] = t] ELSE devFrom
  /\ IF active[k] = 0 /\ HoldReached(k, t) THEN Raise(k) ELSE UNCHANGED <<active, rows>>

\* Samples of a key come in collection order.
Earliest(k) == IF lastTs[k] = None THEN 0 ELSE lastTs[k]

\* A sample collected at t is checked against its rule.
Check(k, t) ==
  /\ k \in CondKeys
  /\ t \in Earliest(k)..now
  /\ lastTs' = [lastTs EXCEPT ![k] = t]
  /\ Normal(k, t) \/ Deviating(k, t)
  /\ UNCHANGED now

\* sync_comm_alarms reports a link or device as good or bad, now.
Comm(k) ==
  /\ k \in CommKeys
  /\ lastTs' = [lastTs EXCEPT ![k] = now]
  /\ Normal(k, now) \/ Deviating(k, now)
  /\ UNCHANGED now

-----------------------------------------------------------------------------
(* event, ack, purge, restart *)

\* A failed inspection: the open alarm is raised again, or a new one is.
Event(k) ==
  /\ k \in EventKeys
  /\ IF active[k] # 0
     THEN rows' = SetState(active[k], "RAISED", 0) /\ UNCHANGED active
     ELSE Raise(k)
  /\ UNCHANGED <<now, timers, lastTs, devFrom>>

\* Seeded fault: the confirmed event alarm stays in the map.
ForgetNothing(aid) == active

\* The keys mapped to a confirmed event alarm are dropped.
Forget(aid) == [k \in Keys |-> IF active[k] = aid THEN 0 ELSE active[k]]

\* Confirmation by ALARM_ID: an event alarm is over, any other is marked.  A
\* row that is not RAISED is left as it is.
Ack(aid) ==
  /\ \E r \in rows :
       /\ r.aid = aid
       /\ r.state = "RAISED"
       /\ IF r.key \in EventKeys
          THEN rows' = SetState(aid, "CLEARED", now) /\ active' = Forget(aid)
          ELSE rows' = SetState(aid, "ACKED", 0) /\ UNCHANGED active
  /\ UNCHANGED <<now, timers, lastTs, devFrom>>

\* Seeded fault: confirmed alarms are purged as if they were over.
PurgeableNotRaised(cut) == {r \in rows : r.state # "RAISED" /\ r.cleared < cut}

\* STATE='CLEARED' AND CLEARED_DT < cutoff
Purgeable(cut) == {r \in rows : r.state = "CLEARED" /\ r.cleared < cut}

\* The daily purge of the MES.
Purge(cut) ==
  /\ Purgeable(cut) # {}
  /\ rows' = rows \ Purgeable(cut)
  /\ UNCHANGED <<now, timers, active, lastTs, devFrom>>

\* Seeded fault: alarms that were confirmed are not taken up again.
RestoredRaised(k) ==
  IF \E r \in rows : r.key = k /\ r.state = "RAISED"
  THEN CHOOSE aid \in {r.aid : r \in {s \in rows : s.key = k /\ s.state = "RAISED"}} : TRUE
  ELSE 0

\* SELECT ... WHERE STATE IN ('RAISED','ACKED'): the last row read of a key
\* stays in the map.
Restored(k) ==
  IF \E r \in rows : r.key = k /\ r.state \in Open
  THEN CHOOSE aid \in {r.aid : r \in {s \in rows : s.key = k /\ s.state \in Open}} : TRUE
  ELSE 0

\* The constructor: open alarms are taken up, timers start empty.
Restart ==
  /\ timers' = [k \in LevelKeys |-> None]
  /\ active' = [k \in Keys |-> Restored(k)]
  /\ UNCHANGED <<now, rows, lastTs, devFrom>>

Tick ==
  /\ now < MaxTime
  /\ now' = now + 1
  /\ UNCHANGED <<timers, active, rows, lastTs, devFrom>>

-----------------------------------------------------------------------------
Init ==
  /\ now = 0
  /\ timers = [k \in LevelKeys |-> None]
  /\ active = [k \in Keys |-> 0]
  /\ rows = {}
  /\ lastTs = [k \in LevelKeys |-> None]
  /\ devFrom = [k \in LevelKeys |-> None]

Next ==
  \/ \E k \in CondKeys, t \in Time : Check(k, t)
  \/ \E k \in CommKeys : Comm(k)
  \/ \E k \in EventKeys : Event(k)
  \/ \E aid \in 1..MaxAid : Ack(aid)
  \/ \E cut \in Time : Purge(cut)
  \/ Restart
  \/ Tick

Spec == Init /\ [][Next]_vars

-----------------------------------------------------------------------------
TypeOK ==
  /\ now \in Time
  /\ timers \in [LevelKeys -> Time \cup {None}]
  /\ active \in [Keys -> Nat]
  /\ rows \in SUBSET AlarmRow
  /\ lastTs \in [LevelKeys -> Time \cup {None}]
  /\ devFrom \in [LevelKeys -> Time \cup {None}]

\* The map and the table agree: the map names, for each key, the one row that
\* is RAISED or ACKED, and there is none when the map has no entry.  So a key
\* never has two open alarms, a clear never hits another key's row although
\* purged ALARM_IDs are used again, and no open alarm is out of reach.
ActiveIsOpen ==
  /\ \A k \in Keys : active[k] # 0 =>
       \E r \in rows : r.aid = active[k] /\ r.key = k /\ r.state \in Open
  /\ \A r \in rows : r.state \in Open => active[r.key] = r.aid

\* A restart takes up exactly the alarms that were open, confirmed or not.
RestartKeepsActive == [][Restart => active' = active]_vars

\* No condition or communication alarm before its hold time (AC-05, AC-06):
\* when one is raised, every observation for the last Hold(k) deviated,
\* whatever restarts happened in between.
NotBeforeHold ==
  [][\A k \in LevelKeys :
       active[k] = 0 /\ active'[k] # 0 =>
         devFrom'[k] # None /\ lastTs'[k] - devFrom'[k] >= Hold(k)]_vars

\* Nor is one missing once the hold time has been reached since the start of
\* the program, confirmed or not.
RaisedAtHold ==
  \A k \in LevelKeys :
    timers[k] # None /\ lastTs[k] - timers[k] >= Hold(k) => active[k] # 0

\* A key whose newest observation is normal has no open alarm, also when the
\* alarm was raised before a restart.
NormalMeansClear ==
  \A k \in LevelKeys : lastTs[k] # None /\ devFrom[k] = None => active[k] = 0

-----------------------------------------------------------------------------
(* The inductive invariant behind them. *)

\* ALARM_ID is a key.
AidsUnique == \A r, s \in rows : r.aid = s.aid => r = s

\* A timer runs only within an unbroken deviation, from no earlier than it.
TimersOK ==
  \A k \in LevelKeys :
    /\ lastTs[k] # None => lastTs[k] <= now
    /\ devFrom[k] # None => lastTs[k] # None /\ devFrom[k] <= lastTs[k]
    /\ timers[k] # None => devFrom[k] # None /\ devFrom[k] <= timers[k] /\ timers[k] <= lastTs[k]

AInv ==
  /\ TypeOK /\ AidsUnique /\ TimersOK
  /\ ActiveIsOpen /\ RaisedAtHold /\ NormalMeansClear

=============================================================================
