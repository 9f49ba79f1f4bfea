---------------------------- MODULE Distribution ----------------------------
(***************************************************************************)
(* The MES side of a batch (mes/store.py): ingest opens a transaction,     *)
(* route distributes the new samples in the order of their collection      *)
(* times, and the handlers keep batches of the brining tanks, run          *)
(* intervals and differences of counters.  What the differences are taken  *)
(* from is memory (_run_state, _md_prev, _pkg_prev): it is lost in a       *)
(* restart and not rolled back with a transaction.                         *)
(*                                                                         *)
(* ingest and purge contain no await, so nothing interleaves with an open  *)
(* transaction; it may fail, or the process may die in it.  Samples come   *)
(* as EdgeDelivery lets them: urgent ones first, otherwise in the order    *)
(* they were collected, each distributed once.                             *)
(*                                                                         *)
(* An exception in a handler is caught: what the handler has written and   *)
(* remembered so far stays, the other samples go on, and the COMMIT        *)
(* acknowledges all of them, so the sample does not come again.            *)
(*                                                                         *)
(* Data.  One device of each kind: the brine sensor, the packer, the metal *)
(* detector and an environment sensor.  A sample is collected at every     *)
(* instant, and the packer's count is the instant.  Alarms are the subject *)
(* of AlarmEngine; here check may or may not return a new alarm.  _filler  *)
(* keeps a run log as _taping does, in rows of its own device, and inserts *)
(* a row; _sanitizer and _weight insert a row and remember nothing.        *)
(***************************************************************************)
EXTENDS Naturals, FiniteSets

CONSTANTS NTanks,      \* brining tanks of the configuration
          PlanHours,   \* PLAN_HOURS of a batch
          BatchMax,    \* bound: samples of one request
          MaxTime,     \* bound: samples collected
          MaxFaults    \* bound: failed handlers and transactions, and restarts

Tanks == 1..NTanks

ASSUME DistributionAssumption ==
  /\ NTanks \in Nat \ {0}
  /\ PlanHours \in Nat \ {0}
  /\ BatchMax \in Nat \ {0}
  /\ MaxTime \in Nat
  /\ MaxFaults \in Nat

VARIABLES
  (* environment *)
  clock,      \* collection time of the newest sample
  md,         \* counts of the metal detector
  waiting,    \* samples the Edge holds
  faults,
  (* ingest *)
  batch,      \* samples of the open transaction, {} outside one
  todo,       \* of these, the ones not yet distributed
  saved,      \* the database when the transaction began
  (* mes.db *)
  db,         \* the tables; history are lastRun, the quantities booked since the
              \* MES started (ng, packed), and what a failing handler left out
              \* (missing)
  (* memory of MesStore *)
  runState,   \* _run_state of the packer, None if missing
  mdPrev,     \* _md_prev of the detector, or NoCounts
  pkgPrev,    \* _pkg_prev of the packer, 0 if missing
  (* history *)
  mdSeen,     \* NG counts distributed since the MES started
  pkgFirst,   \* first pack count distributed since the MES started, or 0
  torn,       \* a transaction was rolled back after a sample was distributed
  overtaken   \* a sample of the detector came in a request before an older one

envVars == <<clock, md, waiting, faults>>
memVars == <<runState, mdPrev, pkgPrev, mdSeen, pkgFirst>>
flags == <<torn, overtaken>>
vars == <<envVars, batch, todo, saved, db, memVars, flags>>

-----------------------------------------------------------------------------
Null == 0           \* SQL NULL in END_DT; collection times start with 1
None == "none"
RUNNING == "RUNNING"
STOPPED == "STOPPED"
RunStatus == {RUNNING, STOPPED}

Time == 1..MaxTime
Counts == [insp : Nat, ng : Nat]
NoCounts == [insp |-> 0, ng |-> 0]     \* the detector has inspected before

\* `what' is the tank that was measured, the run status or the counts.
TankSample == [ts : Time, kind : {"tank"}, urgent : {FALSE}, what : Tanks]
RunSample == [ts : Time, kind : {"run"}, urgent : {FALSE}, what : RunStatus]
MetalSample == [ts : Time, kind : {"metal"}, urgent : BOOLEAN, what : Counts]
EnvSample == [ts : Time, kind : {"env"}, urgent : {FALSE}, what : {None}]
Sample == TankSample \cup RunSample \cup MetalSample \cup EnvSample

\* ORDER BY the key DESC LIMIT 1
Newest(rows) == CHOOSE r \in rows : \A s \in rows : s.id <= r.id

\* INTEGER PRIMARY KEY without AUTOINCREMENT: one more than the largest.
NewKey(rows) == IF rows = {} THEN 1 ELSE Newest(rows).id + 1

-----------------------------------------------------------------------------
(* _salinity and _tank_opr *)

OpenBatches(t) == {o \in db.opr : o.tank = t /\ o.end = Null}

\* Seeded fault: a sample at the very end still belongs to the batch.
BatchesPassedLate(o, ts) ==
  IF ts <= o.start + PlanHours THEN 0 ELSE (ts - o.start) \div PlanHours

\* How many batches after o the sample belongs to: the turns of the loop.
BatchesPassed(o, ts) ==
  IF ts < o.start + PlanHours THEN 0 ELSE (ts - o.start) \div PlanHours

\* Seeded fault: the batches that are skipped are not completed.
FollowingBatchesOpen(o, k) ==
  {[id |-> NewKey(db.opr) + i - 1, tank |-> o.tank,
    start |-> o.start + i * PlanHours, end |-> Null] : i \in 1..k}

\* The batch after o, and so on up to the k-th, which stays open.
FollowingBatches(o, k) ==
  {[id |-> NewKey(db.opr) + i - 1, tank |-> o.tank,
    start |-> o.start + i * PlanHours,
    end |-> IF i = k THEN Null ELSE o.start + (i + 1) * PlanHours] : i \in 1..k}

\* SLT_TANK_OPR after k turns of the loop: the open batch was completed at its
\* planned end and the next one opened there, k times.
AfterTurns(o, k) ==
  IF k = 0 THEN db.opr
  ELSE (db.opr \ {o}) \cup {[o EXCEPT !.end = o.start + PlanHours]}
       \cup FollowingBatches(o, k)

\* SLT_TANK_OPR after _tank_opr: there are turns until a batch contains ts.
TankOpr(t, ts) ==
  IF OpenBatches(t) = {}
  THEN db.opr \cup {[id |-> NewKey(db.opr), tank |-> t, start |-> ts, end |-> Null]}
  ELSE LET o == Newest(OpenBatches(t)) IN AfterTurns(o, BatchesPassed(o, ts))

RouteTank(s) ==
  LET opr == TankOpr(s.what, s.ts)
      o == Newest({p \in opr : p.tank = s.what /\ p.end = Null})
  IN
  /\ s.kind = "tank"
  /\ db' = [db EXCEPT !.opr = opr,
                      !.sal = @ \cup {[opr |-> o.id, tank |-> s.what, ts |-> s.ts]}]
  /\ UNCHANGED memVars

\* The UPDATE of the turn after that, without the INSERT.
HalfTurn(o, k) ==
  {IF p.tank = o.tank /\ p.end = Null THEN [p EXCEPT !.end = p.start + PlanHours] ELSE p :
     p \in AfterTurns(o, k)}

\* The handler fails in or after _tank_opr: there is no salinity row.
TankCut(s) ==
  /\ s.kind = "tank"
  /\ \/ db' = [db EXCEPT !.opr = TankOpr(s.what, s.ts)]
     \/ /\ OpenBatches(s.what) # {}
        /\ LET o == Newest(OpenBatches(s.what)) IN
           \E k \in 0..(BatchesPassed(o, s.ts) - 1) :
             \/ db' = [db EXCEPT !.opr = AfterTurns(o, k)]
             \/ db' = [db EXCEPT !.opr = HalfTurn(o, k), !.missing = @ \cup {"batch"}]
  /\ UNCHANGED memVars

-----------------------------------------------------------------------------
(* _taping and _run_log *)

OpenRuns == {r \in db.run : r.end = Null}

\* Seeded fault: after a restart the device is taken to be running.
PrevRunAssumed(state) == IF state # None THEN state ELSE RUNNING

\* What is taken as the state before: memory, or else the open interval.
PrevRun(state) ==
  IF state # None THEN state
  ELSE IF OpenRuns = {} THEN None ELSE Newest(OpenRuns).status

\* Seeded fault: the interval before is left open.
ClosedRunNot(ts) == db.run

\* The open interval ends at ts.
ClosedRun(ts) ==
  IF OpenRuns = {} THEN db.run
  ELSE LET r == Newest(OpenRuns) IN (db.run \ {r}) \cup {[r EXCEPT !.end = ts]}

\* EQP_RUN_LOG after _run_log.
RunLog(status, ts) ==
  IF PrevRun(runState) = status THEN db.run
  ELSE (IF PrevRun(runState) = None THEN db.run ELSE ClosedRun(ts))
       \cup {[id |-> NewKey(db.run), status |-> status, start |-> ts, end |-> Null]}

\* Seeded fault: the difference is taken the wrong way round.
PackedReversed(cur) == IF pkgPrev # 0 /\ cur > pkgPrev THEN pkgPrev - cur ELSE 0

\* PACK_QTY of the new row, 0 for no row.
Packed(cur) == IF pkgPrev # 0 /\ cur > pkgPrev THEN cur - pkgPrev ELSE 0

RouteRun(s) ==
  /\ s.kind = "run"
  /\ db' = [db EXCEPT !.run = RunLog(s.what, s.ts), !.lastRun = s.what,
                      !.packed = @ + Packed(s.ts)]
  /\ runState' = s.what
  /\ pkgPrev' = s.ts
  /\ pkgFirst' = IF pkgFirst = 0 THEN s.ts ELSE pkgFirst
  /\ UNCHANGED <<mdPrev, mdSeen>>

\* The UPDATE that closes the interval, without the INSERT of the next one.
RunCut(s) ==
  /\ s.kind = "run"
  /\ OpenRuns # {} /\ PrevRun(runState) # s.what
  /\ db' = [db EXCEPT !.run = ClosedRun(s.ts), !.missing = @ \cup {"run"}]
  /\ UNCHANGED memVars

\* The count is remembered, and the row with the packs is not inserted.
PacksCut(s) ==
  /\ s.kind = "run"
  /\ Packed(s.ts) > 0
  /\ db' = [db EXCEPT !.run = RunLog(s.what, s.ts), !.lastRun = s.what,
                      !.missing = @ \cup {"packs"}]
  /\ runState' = s.what
  /\ pkgPrev' = s.ts
  /\ UNCHANGED <<mdPrev, mdSeen, pkgFirst>>

-----------------------------------------------------------------------------
(* _metal *)

\* NG_QTY of the new row, 0 also when there is none: nothing is remembered,
\* the inspections have gone down, or no count has risen.
NgQty(cur) ==
  IF mdPrev = NoCounts \/ cur.insp < mdPrev.insp \/ cur.ng <= mdPrev.ng THEN 0
  ELSE cur.ng - mdPrev.ng

RouteMetal(s) ==
  /\ s.kind = "metal"
  /\ db' = [db EXCEPT !.ng = @ + NgQty(s.what)]
  /\ mdPrev' = s.what
  /\ mdSeen' = mdSeen \cup {s.what.ng}
  /\ UNCHANGED <<runState, pkgPrev, pkgFirst>>

\* The counts are remembered, and the row with the NG is not inserted.
NgCut(s) ==
  /\ s.kind = "metal"
  /\ NgQty(s.what) > 0
  /\ db' = [db EXCEPT !.missing = @ \cup {"ng"}]
  /\ mdPrev' = s.what
  /\ mdSeen' = mdSeen \cup {s.what.ng}
  /\ UNCHANGED <<runState, pkgPrev, pkgFirst>>

-----------------------------------------------------------------------------
(* _env *)

\* check may return a new alarm, which is stored with the log row it is about.
RouteEnv(s) ==
  LET log == NewKey(db.env) IN
  /\ s.kind = "env"
  /\ \E alarms \in {{}, {[log |-> log, ts |-> s.ts]}} :
       db' = [db EXCEPT !.env = @ \cup {[id |-> log, ts |-> s.ts]},
                        !.envAlarm = @ \cup alarms]
  /\ UNCHANGED memVars

-----------------------------------------------------------------------------
(* ingest *)

\* The order in which the Edge sends (EdgeDelivery!Precedes).
SentBefore(r, s) == (r.urgent /\ ~s.urgent) \/ (r.urgent = s.urgent /\ r.ts < s.ts)

\* BEGIN; the samples are new to IF_SENSOR_RAW.
Begin(S) ==
  /\ batch = {}
  /\ S # {} /\ Cardinality(S) <= BatchMax
  /\ \A s \in S, r \in waiting : SentBefore(r, s) => r \in S
  /\ batch' = S
  /\ todo' = S
  /\ saved' = db
  /\ waiting' = waiting \ S
  /\ overtaken' = (overtaken \/ \E s \in S, r \in waiting \ S :
                     s.kind = "metal" /\ r.kind = "metal" /\ r.ts < s.ts)
  /\ UNCHANGED <<clock, md, faults, db, memVars, torn>>

\* Seeded fault: the samples of a batch are taken as they come in it, the
\* urgent one first.
NextGroupAsSent(s) == \A r \in todo : r = s \/ SentBefore(s, r)

\* sorted(groups.items(), key=collection time)
NextGroup(s) == \A r \in todo : s.ts <= r.ts

Handled(s) == RouteTank(s) \/ RouteRun(s) \/ RouteMetal(s) \/ RouteEnv(s)

\* route: the next sample goes to the handler of its target table.
Route(s) ==
  /\ s \in todo
  /\ NextGroup(s)
  /\ Handled(s)
  /\ todo' = todo \ {s}
  /\ UNCHANGED <<envVars, batch, saved, flags>>

\* Its first statement fails, or the tank is not in the configuration; _metal
\* has remembered the counts before that.
NothingDone(s) == s.kind # "metal" /\ UNCHANGED <<db, memVars>>

\* The handler fails and the loop goes on.  A failure behind everything that is
\* kept here is Route.
RouteFails(s) ==
  /\ faults < MaxFaults
  /\ faults' = faults + 1
  /\ s \in todo
  /\ NextGroup(s)
  /\ NothingDone(s) \/ TankCut(s) \/ RunCut(s) \/ PacksCut(s) \/ NgCut(s)
  /\ todo' = todo \ {s}
  /\ UNCHANGED <<clock, md, waiting, batch, saved, flags>>

\* COMMIT; all samples are acknowledged.
Commit ==
  /\ batch # {}
  /\ todo = {}
  /\ batch' = {}
  /\ saved' = db
  /\ UNCHANGED <<envVars, todo, db, memVars, flags>>

\* The transaction is undone, and the Edge keeps its samples.
Undo ==
  /\ faults < MaxFaults
  /\ faults' = faults + 1
  /\ batch' = {} /\ todo' = {}
  /\ waiting' = waiting \cup batch
  /\ UNCHANGED <<clock, md>>

\* A statement outside the handlers or the COMMIT fails: ROLLBACK.  Memory stays
\* as it is.
TxFails ==
  /\ batch # {}
  /\ Undo
  /\ db' = saved
  /\ torn' = (torn \/ todo # batch)
  /\ UNCHANGED <<saved, memVars, overtaken>>

\* The MES dies, in a transaction or outside one, and starts again.
Restart ==
  /\ Undo
  /\ db' = [saved EXCEPT !.ng = 0, !.packed = 0, !.missing = @ \ {"ng", "packs"}]
  /\ saved' = db'
  /\ runState' = None
  /\ mdPrev' = NoCounts
  /\ pkgPrev' = 0
  /\ mdSeen' = {} /\ pkgFirst' = 0
  /\ UNCHANGED flags

-----------------------------------------------------------------------------
(* purge *)

\* Seeded fault: the age of a batch is that of its start.
OldBatchesByStart(c, sal) == {o \in db.opr : o.end # Null /\ o.start < c}

\* Batches that ended before c and that no remaining row refers to.
OldBatches(c, sal) ==
  {o \in db.opr : o.end # Null /\ o.end < c /\ \A s \in sal : s.opr # o.id}

\* One transaction over all tables, children before parents.
Purge(c) ==
  LET sal == {s \in db.sal : s.ts >= c}
      alarms == {a \in db.envAlarm : a.ts >= c}
  IN
  /\ batch = {}
  /\ db' = [db EXCEPT
       !.envAlarm = alarms,
       !.env = {l \in @ : l.ts >= c \/ \E a \in alarms : a.log = l.id},
       !.sal = sal,
       !.opr = @ \ OldBatches(c, sal),
       !.run = {r \in @ : r.end = Null \/ r.end >= c}]
  /\ db' # db
  /\ saved' = db'
  /\ UNCHANGED <<envVars, batch, todo, memVars, flags>>

-----------------------------------------------------------------------------
(* Samples; how the Edge decides what is urgent is in SampleIntake. *)

Collected(s) ==
  /\ clock < MaxTime
  /\ clock' = clock + 1
  /\ waiting' = waiting \cup {s}
  /\ UNCHANGED <<faults, batch, todo, saved, db, memVars, flags>>

NewSample(kind, urgent, what) ==
  [ts |-> clock + 1, kind |-> kind, urgent |-> urgent, what |-> what]

Collect ==
  /\ batch = {}
  /\ \/ \E t \in Tanks : Collected(NewSample("tank", FALSE, t)) /\ UNCHANGED md
     \/ \E r \in RunStatus : Collected(NewSample("run", FALSE, r)) /\ UNCHANGED md
     \/ Collected(NewSample("env", FALSE, None)) /\ UNCHANGED md
     \/ \E passed \in {0, 1}, found \in {0, 1} :
          /\ found <= passed
          /\ md' = [insp |-> md.insp + passed, ng |-> md.ng + found]
          /\ Collected(NewSample("metal", found = 1, md'))

-----------------------------------------------------------------------------
\* _seed: a batch per tank; tanks beyond n were configured later.
SeedRows(n) == {[id |-> t, tank |-> t, start |-> 0, end |-> Null] : t \in 1..n}

Init ==
  /\ clock = 0 /\ faults = 0 /\ waiting = {}
  /\ md = [insp |-> 1, ng |-> 0]
  /\ batch = {} /\ todo = {}
  /\ \E n \in Tanks :
       db = [opr |-> SeedRows(n), sal |-> {}, run |-> {}, env |-> {}, envAlarm |-> {},
             lastRun |-> None, packed |-> 0, ng |-> 0, missing |-> {}]
  /\ saved = db
  /\ runState = None /\ mdPrev = NoCounts /\ pkgPrev = 0
  /\ mdSeen = {} /\ pkgFirst = 0
  /\ torn = FALSE /\ overtaken = FALSE

Next ==
  \/ Collect
  \/ \E S \in SUBSET waiting : Begin(S)
  \/ \E s \in todo : Route(s)
  \/ \E s \in todo : RouteFails(s)
  \/ Commit
  \/ TxFails
  \/ Restart
  \/ \E c \in Time : Purge(c)

Spec == Init /\ [][Next]_vars

-----------------------------------------------------------------------------
Batch == [id : Nat, tank : Tanks, start : Nat, end : Nat]
Interval == [id : Nat, status : RunStatus, start : Time, end : Nat]

Database ==
  [opr : SUBSET Batch,
   sal : SUBSET [opr : Nat, tank : Tanks, ts : Time],
   run : SUBSET Interval,
   env : SUBSET [id : Nat, ts : Time],
   envAlarm : SUBSET [log : Nat, ts : Time],
   lastRun : RunStatus \cup {None},
   packed : Nat, ng : Nat,
   missing : SUBSET {"batch", "run", "packs", "ng"}]

TypeOK ==
  /\ clock \in 0..MaxTime
  /\ md \in Counts
  /\ waiting \subseteq Sample
  /\ faults \in 0..MaxFaults
  /\ batch \subseteq Sample /\ todo \subseteq batch
  /\ saved \in Database /\ db \in Database
  /\ runState \in RunStatus \cup {None}
  /\ mdPrev \in Counts
  /\ pkgPrev \in Nat /\ pkgFirst \in Nat
  /\ mdSeen \subseteq Nat
  /\ torn \in BOOLEAN /\ overtaken \in BOOLEAN

Before(r, s) == r.end # Null /\ r.end <= s.start

\* The rows of one tank, or of the packer, as intervals in time: no two overlap,
\* so at most one, the last, is open.
Apart(rows) ==
  /\ \A r \in rows : r.end # Null => r.start < r.end
  /\ \A r, s \in rows : r = s \/ Before(r, s) \/ Before(s, r)

\* Where one ends the next begins.
Joined(rows) == \A r \in rows : r.end # Null => \E s \in rows : s.start = r.end

\* Batches of a tank follow each other without gap or overlap, however many
\* planned ends lie between two samples: purges remove the oldest only, and
\* rollbacks and restarts tear no hole.  Only a handler that fails between
\* completing a batch and opening the next leaves a gap, and never an overlap.
BatchesTile ==
  \A t \in Tanks :
    LET rows == {o \in db.opr : o.tank = t} IN
    Apart(rows) /\ ("batch" \notin db.missing => Joined(rows))

\* So do the run intervals of a device (AC-08).
RunsTile == Apart(db.run) /\ ("run" \notin db.missing => Joined(db.run))

\* A salinity value is booked on the batch of its tank that was in the brine
\* when it was measured: never a negative elapsed time nor one beyond the plan.
SalinityInBatch ==
  \A s \in db.sal, o \in db.opr : o.id = s.opr =>
    o.tank = s.tank /\ o.start <= s.ts /\ s.ts < o.start + PlanHours

\* D-017: the purge keeps the parents of the rows that stay, and keys that
\* come free are not taken by another parent while a child refers to them.
ParentsKept ==
  /\ \A s \in db.sal : \E o \in db.opr : o.id = s.opr
  /\ \A a \in db.envAlarm : \E l \in db.env : l.id = a.log /\ l.ts = a.ts

\* The open interval shows the status of the last sample whose handler kept it,
\* over restarts, purges and handlers that fail, unless a rollback has left memory
\* ahead of the table or an interval was closed and the next one not opened.
RunFollows ==
  ~torn /\ "run" \notin db.missing =>
    IF db.lastRun = None THEN OpenRuns = {}
    ELSE {r.status : r \in OpenRuns} = {db.lastRun}

\* Quantities booked since the MES started are the differences of the counts:
\* nothing is booked twice or left out, also when an urgent sample stands
\* before older ones in its request, or a handler fails before it has remembered
\* the count.
CountsExact ==
  ~torn =>
    /\ pkgFirst # 0 /\ "packs" \notin db.missing => db.packed = pkgPrev - pkgFirst
    /\ ~overtaken /\ "ng" \notin db.missing => \A n, m \in mdSeen :
         (\A k \in mdSeen : n <= k /\ k <= m) => db.ng = m - n

\* AC-07: no more NG are booked in QUA_METAL_LOG than the detector has found.
NgBookedOnce == db.ng <= md.ng

=============================================================================
