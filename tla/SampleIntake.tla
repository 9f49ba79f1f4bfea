---------------------------- MODULE SampleIntake ----------------------------
(***************************************************************************)
(* What happens to a sample before it reaches the buffer:                  *)
(* EdgeCollector._on_sample and _priority (edge/collector.py) with the     *)
(* NoiseFilter (edge/core.py).  All of it is memory of the collector and   *)
(* is gone after a restart of the Edge.                                    *)
(*                                                                         *)
(* Data.  A device whose items Keys have a range and a max_step, and the   *)
(* metal detector, whose items have neither; of these only the cumulative  *)
(* NG count matters.  Readings are small naturals.  The filter keeps its   *)
(* state by device and item, so one filtered device shows every case.      *)
(***************************************************************************)
EXTENDS Naturals

CONSTANTS Keys,        \* filtered items of the device
          MaxReading,  \* bound: readings are 0..MaxReading
          RangeMin,    \* it.range[0]
          RangeMax,    \* it.range[1]
          MaxStep,     \* it.max_step
          Confirm,     \* jumps that are taken for a real change: 3
          MaxNg,       \* bound: NG count of the metal detector
          MaxRestarts  \* bound: restarts of the Edge

ASSUME ConstantsAssumption ==
  /\ MaxReading \in Nat /\ RangeMin \in Nat /\ RangeMax \in Nat
  /\ MaxStep \in Nat
  /\ Confirm \in Nat \ {0}
  /\ MaxNg \in Nat
  /\ MaxRestarts \in Nat

Reading == 0..MaxReading
NoReading == MaxReading + 1
NoNg == MaxNg + 1

VARIABLES
  last,       \* filter.last[k], NoReading when there is none
  pending,    \* filter.pending[k]
  mdNg,       \* _md_ng of the metal detector, NoNg when there is none
  (* history *)
  ngTold,     \* NG count of the last sample the buffer got
  late,       \* a risen NG count went to the buffer as a normal sample
  jumps,      \* jumps[k]: jumps read since a value was accepted
  rises,      \* rises[k]: readings up to now that all jumped up from last[k],
  falls,      \* falls[k]: or all down
  turned,     \* a jump was accepted without Confirm of them in its direction
  restarts

intakeVars == <<last, pending, mdNg, ngTold, late, jumps, rises, falls, turned, restarts>>

-----------------------------------------------------------------------------
(* edge/core.py: NoiseFilter *)

InRange(v) == RangeMin <= v /\ v <= RangeMax

Distance(v, w) == IF v > w THEN v - w ELSE w - v

\* abs(v - prev) > it.max_step, when a value was accepted before.
Jump(k, v) == last[k] # NoReading /\ Distance(v, last[k]) > MaxStep

\* Seeded fault: one jump more than meant.
ConfirmedLate(n) == n > Confirm

\* A jump is taken for real: not n < 3.
Confirmed(n) == n >= Confirm

\* _accept
Accept(k, v) == InRange(v) /\ (Jump(k, v) => Confirmed(pending[k] + 1))

\* pending after v; a value out of range does not touch it.
PendingAfter(k, v) ==
  IF ~InRange(v) THEN pending[k]
  ELSE IF Accept(k, v) THEN 0 ELSE pending[k] + 1

\* History: the readings in a row, v included, that jumped the same way.
Rises(k, v) == IF InRange(v) /\ Jump(k, v) /\ v > last[k] THEN rises[k] + 1 ELSE 0
Falls(k, v) == IF InRange(v) /\ Jump(k, v) /\ v < last[k] THEN falls[k] + 1 ELSE 0

\* _on_sample: the filter judges every item; what is left, if anything, goes
\* to the buffer as a normal sample.
OnSample(v) ==
  /\ last' = [k \in Keys |-> IF Accept(k, v[k]) THEN v[k] ELSE last[k]]
  /\ pending' = [k \in Keys |-> PendingAfter(k, v[k])]
  /\ jumps' = [k \in Keys |->
       IF ~InRange(v[k]) THEN jumps[k]
       ELSE IF Accept(k, v[k]) THEN 0 ELSE jumps[k] + 1]
  /\ rises' = [k \in Keys |-> IF Accept(k, v[k]) THEN 0 ELSE Rises(k, v[k])]
  /\ falls' = [k \in Keys |-> IF Accept(k, v[k]) THEN 0 ELSE Falls(k, v[k])]
  /\ turned' = (turned \/ \E k \in Keys :
       /\ Accept(k, v[k]) /\ Jump(k, v[k])
       /\ Rises(k, v[k]) < Confirm /\ Falls(k, v[k]) < Confirm)
  /\ UNCHANGED <<mdNg, ngTold, late, restarts>>

-----------------------------------------------------------------------------
(* edge/collector.py: _priority *)

\* Seeded fault: a previous count of zero passes for none (prev and ng_cnt > prev).
IsUrgentFromOne(n) == mdNg \notin {0, NoNg} /\ n > mdNg

\* prev is not None and ng_cnt > prev
IsUrgent(n) == mdNg # NoNg /\ n > mdNg

\* _on_sample for the metal detector.
OnMetal(n) ==
  /\ mdNg' = n
  /\ ngTold' = n
  /\ late' = (late \/ (n > ngTold /\ ~IsUrgent(n)))
  /\ UNCHANGED <<last, pending, jumps, rises, falls, turned, restarts>>

\* restart_edge: a new collector with an empty filter.
RestartEdge ==
  /\ restarts < MaxRestarts
  /\ restarts' = restarts + 1
  /\ last' = [k \in Keys |-> NoReading]
  /\ pending' = [k \in Keys |-> 0]
  /\ mdNg' = NoNg
  /\ jumps' = [k \in Keys |-> 0] /\ rises' = jumps' /\ falls' = jumps'
  /\ UNCHANGED <<ngTold, late, turned>>

IntakeInit ==
  /\ last = [k \in Keys |-> NoReading]
  /\ pending = [k \in Keys |-> 0]
  /\ mdNg = NoNg
  /\ ngTold = NoNg
  /\ late = FALSE
  /\ jumps = [k \in Keys |-> 0]
  /\ rises = jumps /\ falls = jumps
  /\ turned = FALSE
  /\ restarts = 0

IntakeNext ==
  \/ \E v \in [Keys -> Reading] : OnSample(v)
  \/ \E n \in 0..MaxNg : OnMetal(n)
  \/ RestartEdge

IntakeSpec == IntakeInit /\ [][IntakeNext]_intakeVars

-----------------------------------------------------------------------------
\* A real change gets through: at most two readings in range are dropped in a
\* row, whatever noise lies between them.
NotSilenced == \A k \in Keys : jumps[k] < Confirm


\* EDG-10: whenever the NG count has risen since the last sample, the sample
\* overtakes the waiting ones, the first NG of all included; only a restart of
\* the Edge between the two samples hides the rise.
NgUrgent == late => restarts > 0

=============================================================================
