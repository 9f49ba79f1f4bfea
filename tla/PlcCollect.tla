----------------------------- MODULE PlcCollect -----------------------------
(***************************************************************************)
(* From the field devices to the Edge: a bus scanner of one PLC polls its  *)
(* devices one after the other and records each in its block of the D area *)
(* (plc/runtime.py, common/util.py), and the PlcReader of the Edge reads   *)
(* the D area over Modbus TCP and turns every block whose update counter   *)
(* has changed into a sample (edge/collectors.py).                         *)
(*                                                                         *)
(* Scanner, PLC server and reader are tasks of one asyncio loop: a step is *)
(* the code between two awaits, and every await is one Modbus request.     *)
(* The PLC may be stopped and started, and the Edge restarted, at any of   *)
(* them.                                                                   *)
(*                                                                         *)
(* Data.  A device answers a read group (the registers of one function     *)
(* code) with some member of Values; 0 is what the D area starts with.     *)
(* Register addresses, scaling and tags are abstracted, and so is the      *)
(* time at which a poll is due.                                            *)
(***************************************************************************)
EXTENDS Naturals, Sequences

CONSTANTS NEquip,      \* devices of the bus, in configuration order
          NGroups,     \* read groups of a device (_read_groups)
          Values,      \* answers of a device to one group
          Retries,     \* bus.retries
          NRanges,     \* requests of one reader poll (PlcReader._ranges)
          RangeOf(_),  \* the range that holds the block of a device
          CounterMod,  \* 2^16: the width of the update counter
          DownAfter,   \* consecutive failed polls that mean DOWN: 3
          MaxPolls,    \* bound: successful polls of a device
          MaxFails,    \* bound: consecutive failed polls of a device
          MaxFaults    \* bound: PLC stops and Edge restarts

Equip == 1..NEquip
Groups == 1..NGroups
Polls == 1..MaxPolls

ASSUME ConstantsAssumption ==
  /\ NEquip \in Nat \ {0}
  /\ NGroups \in Nat \ {0}
  /\ 0 \notin Values
  /\ Retries \in Nat
  /\ NRanges \in Nat \ {0}
  /\ \A e \in Equip : RangeOf(e) \in 1..NRanges
  /\ CounterMod \in Nat /\ CounterMod > 2
  /\ DownAfter \in Nat \ {0}
  /\ MaxPolls \in Nat /\ MaxFails \in Nat /\ MaxFaults \in Nat

VARIABLES
  (* PLC; all of it outlives stop and start *)
  mem,        \* mem[e]: the block of e in the D area
  diag,       \* diag[e]: consecutive_fail, counter and ever_ok
  running,    \* PlcRuntime.running: server and scanner are up
  (* BusScanner.run and poll *)
  due,        \* devices still to be polled in this round
  reads,      \* values of the groups this poll has read so far
  attempt,    \* failed attempts on the group now being read
  (* PlcReader *)
  rpos,       \* the range being read, 0 between polls
  snap,       \* snap[e]: status and counter of e as read in this poll
  seen,       \* dev[e].counter, 0 for None
  shown,      \* dev[e].plc_status
  linkOk,     \* link_ok
  (* history *)
  polls,      \* polls[e]: successful polls of e
  missed,     \* missed[e]: polls that failed since the last success of e
  got,        \* got[e]: what the last successful poll of e has read
  emits,      \* emits[e][n]: samples of success n since the Edge started
  faults

plcVars == <<mem, diag, running>>
scanVars == <<due, reads, attempt>>
readerVars == <<rpos, snap, seen, shown, linkOk>>
histVars == <<polls, missed, got, emits>>
vars == <<plcVars, scanVars, readerVars, histVars, faults>>

-----------------------------------------------------------------------------
(* common/util.py: Diag *)

STATUS_OK == 0
STATUS_DELAY == 1
STATUS_DOWN == 2
STATUS_ERROR == 3

\* Seeded fault: the wrap-around of spec.md 4.2, which passes through 0.
CounterThroughZero(c) == (c + 1) % CounterMod

\* (counter + 1) & 0xFFFF or 1
CounterAfter(c) == IF (c + 1) % CounterMod = 0 THEN 1 ELSE (c + 1) % CounterMod

\* Seeded fault: a success leaves the failures where they were.
DiagNoReset(d, ok) ==
  IF ok THEN [d EXCEPT !.counter = CounterAfter(@), !.everOk = TRUE]
  ELSE [d EXCEPT !.fails = @ + 1]

\* Diag.poll
DiagPoll(d, ok) ==
  IF ok THEN [fails |-> 0, counter |-> CounterAfter(d.counter), everOk |-> TRUE]
  ELSE [d EXCEPT !.fails = @ + 1]

\* Diag.status: which of the other three it is depends on the error rate of
\* the last 60 s and on the last response times.
Status(d) ==
  IF ~d.everOk \/ d.fails >= DownAfter THEN {STATUS_DOWN}
  ELSE {STATUS_OK, STATUS_DELAY, STATUS_ERROR}

-----------------------------------------------------------------------------
(* plc/runtime.py: BusScanner *)

\* The devices of a round are polled in configuration order.
Current == CHOOSE e \in due : \A f \in due : e <= f

\* run: a round over the devices whose next_due has come.
ScanRound ==
  /\ running
  /\ due = {}
  /\ due' \in (SUBSET Equip) \ {{}}
  /\ reads' = <<>>
  /\ attempt' = 0
  /\ UNCHANGED <<plcVars, readerVars, histVars, faults>>

\* The poll of e has ended: on to the next device of the round.
PollEnds(e) ==
  /\ due' = due \ {e}
  /\ reads' = <<>>
  /\ attempt' = 0

\* poll: one more group is answered.
ReadGroup(v) ==
  /\ running
  /\ due # {}
  /\ Len(reads) < NGroups - 1
  /\ reads' = Append(reads, v)
  /\ attempt' = 0
  /\ UNCHANGED <<plcVars, due, readerVars, histVars, faults>>

\* poll: the last group is answered.  Values, status and update counter are
\* written to the block with no await between them.
PollSucceeds(v) ==
  LET e == Current
      words == Append(reads, v)
  IN
  /\ running
  /\ due # {}
  /\ Len(reads) = NGroups - 1
  /\ polls[e] < MaxPolls
  /\ diag' = [diag EXCEPT ![e] = DiagPoll(@, TRUE)]
  /\ \E s \in Status(diag'[e]) :
       mem' = [mem EXCEPT ![e] = [status |-> s, fails |-> diag'[e].fails,
                                  vals |-> words, counter |-> diag'[e].counter]]
  /\ polls' = [polls EXCEPT ![e] = @ + 1]
  /\ missed' = [missed EXCEPT ![e] = 0]
  /\ got' = [got EXCEPT ![e] = words]
  /\ PollEnds(e)
  /\ UNCHANGED <<running, readerVars, emits, faults>>

\* poll: an attempt on the group fails and another one is left.
AttemptFails ==
  /\ running
  /\ due # {}
  /\ attempt < Retries
  /\ attempt' = attempt + 1
  /\ UNCHANGED <<plcVars, due, reads, readerVars, histVars, faults>>

\* Seeded fault: what the failed poll has read goes to the block.
ValuesPartlyRead(vals) ==
  [g \in Groups |-> IF g <= Len(reads) THEN reads[g] ELSE vals[g]]

\* +2..+7 after a failed poll: what the last success has left there.
ValuesKept(vals) == vals

\* poll: the last attempt on a group fails.  What earlier groups of this poll
\* have brought is dropped; only status and failure count are written.
PollFails ==
  LET e == Current IN
  /\ running
  /\ due # {}
  /\ attempt = Retries
  /\ diag[e].fails < MaxFails
  /\ diag' = [diag EXCEPT ![e] = DiagPoll(@, FALSE)]
  /\ \E s \in Status(diag'[e]) :
       mem' = [mem EXCEPT ![e].status = s, ![e].fails = diag'[e].fails,
                          ![e].vals = ValuesKept(@)]
  /\ missed' = [missed EXCEPT ![e] = @ + 1]
  /\ PollEnds(e)
  /\ UNCHANGED <<running, readerVars, polls, got, emits, faults>>

-----------------------------------------------------------------------------
(* plc/runtime.py: PlcRuntime.stop and start, for the fault plc_down *)

\* The tasks are cancelled at the request they wait for; a poll in progress
\* leaves no trace.
StopPlc ==
  /\ running
  /\ faults < MaxFaults
  /\ faults' = faults + 1
  /\ running' = FALSE
  /\ due' = {} /\ reads' = <<>> /\ attempt' = 0
  /\ UNCHANGED <<mem, diag, readerVars, histVars>>

StartPlc ==
  /\ ~running
  /\ running' = TRUE
  /\ UNCHANGED <<mem, diag, scanVars, readerVars, histVars, faults>>

-----------------------------------------------------------------------------
(* edge/collectors.py: PlcReader *)

NoBlock == [status |-> STATUS_OK, fails |-> 0,
            vals |-> [g \in Groups |-> 0], counter |-> 0]

\* The blocks of range r as the server answers now, each with the number of
\* the success its counter stands for.
Answered(r) ==
  [e \in Equip |->
     IF RangeOf(e) = r
     THEN [status |-> mem[e].status, counter |-> mem[e].counter, n |-> polls[e]]
     ELSE snap[e]]

\* The local `mem' of PlcReader.poll, before the first range.
NoSnap == [e \in Equip |-> [status |-> STATUS_OK, counter |-> 0, n |-> 0]]

\* Seeded fault: the counter is compared with 0 only.
ChangedAlways(c, known) == c # 0

\* _update_device goes on: counter == 0 or counter == st["counter"] returns.
Changed(c, known) == c # 0 /\ c # known

\* poll begins with the first range.
ReaderStarts ==
  /\ rpos = 0
  /\ rpos' = 1
  /\ UNCHANGED <<plcVars, scanVars, snap, seen, shown, linkOk, histVars, faults>>

\* A range is answered, and it is not the last.
RangeRead ==
  /\ running
  /\ rpos \in 1..(NRanges - 1)
  /\ snap' = Answered(rpos)
  /\ rpos' = rpos + 1
  /\ UNCHANGED <<plcVars, scanVars, seen, shown, linkOk, histVars, faults>>

\* The devices with a new counter value become samples.
Emitted(s) == {e \in Equip : Changed(s[e].counter, seen[e])}

Count(f, s) ==
  [e \in Equip |-> [n \in Polls |-> f[e][n] + (IF e \in Emitted(s) /\ s[e].n = n THEN 1 ELSE 0)]]

\* The last range is answered: every device is updated, with no await.
ReaderEnds ==
  /\ running
  /\ rpos = NRanges
  /\ LET s == Answered(rpos) IN
       /\ shown' = [e \in Equip |-> s[e].status]
       /\ seen' = [e \in Equip |-> IF e \in Emitted(s) THEN s[e].counter ELSE seen[e]]
       /\ emits' = Count(emits, s)
  /\ rpos' = 0
  /\ snap' = NoSnap
  /\ linkOk' = TRUE
  /\ UNCHANGED <<plcVars, scanVars, polls, missed, got, faults>>

\* A request fails or times out: nothing of this poll is used.
ReaderFails ==
  /\ rpos # 0
  /\ rpos' = 0
  /\ snap' = NoSnap
  /\ linkOk' = FALSE
  /\ UNCHANGED <<plcVars, scanVars, seen, shown, histVars, faults>>

\* restart_edge: a new PlcReader, which has seen nothing.
RestartEdge ==
  /\ faults < MaxFaults
  /\ faults' = faults + 1
  /\ rpos' = 0
  /\ snap' = NoSnap
  /\ seen' = [e \in Equip |-> 0]
  /\ shown' = [e \in Equip |-> STATUS_DOWN]
  /\ linkOk' = FALSE
  /\ emits' = [e \in Equip |-> [n \in Polls |-> 0]]
  /\ UNCHANGED <<plcVars, scanVars, polls, missed, got>>

-----------------------------------------------------------------------------
Init ==
  /\ mem = [e \in Equip |-> NoBlock]
  /\ diag = [e \in Equip |-> [fails |-> 0, counter |-> 0, everOk |-> FALSE]]
  /\ running = TRUE
  /\ due = {} /\ reads = <<>> /\ attempt = 0
  /\ rpos = 0
  /\ snap = NoSnap
  /\ seen = [e \in Equip |-> 0]
  /\ shown = [e \in Equip |-> STATUS_DOWN]
  /\ linkOk = FALSE
  /\ polls = [e \in Equip |-> 0]
  /\ missed = [e \in Equip |-> 0]
  /\ got = [e \in Equip |-> [g \in Groups |-> 0]]
  /\ emits = [e \in Equip |-> [n \in Polls |-> 0]]
  /\ faults = 0

Next ==
  \/ ScanRound
  \/ \E v \in Values : ReadGroup(v) \/ PollSucceeds(v)
  \/ AttemptFails
  \/ PollFails
  \/ StopPlc
  \/ StartPlc
  \/ ReaderStarts
  \/ RangeRead
  \/ ReaderEnds
  \/ ReaderFails
  \/ RestartEdge

Spec == Init /\ [][Next]_vars

-----------------------------------------------------------------------------
StatusCode == {STATUS_OK, STATUS_DELAY, STATUS_DOWN, STATUS_ERROR}

Block == [status  : StatusCode,
          fails   : Nat,
          vals    : [Groups -> Values \cup {0}],
          counter : 0..(CounterMod - 1)]

TypeOK ==
  /\ mem \in [Equip -> Block]
  /\ diag \in [Equip -> [fails : Nat, counter : 0..(CounterMod - 1), everOk : BOOLEAN]]
  /\ running \in BOOLEAN
  /\ due \subseteq Equip
  /\ reads \in Seq(Values) /\ Len(reads) < NGroups
  /\ attempt \in 0..Retries
  /\ rpos \in 0..NRanges
  /\ snap \in [Equip -> [status : StatusCode, counter : 0..(CounterMod - 1), n : 0..MaxPolls]]
  /\ seen \in [Equip -> 0..(CounterMod - 1)]
  /\ shown \in [Equip -> StatusCode]
  /\ linkOk \in BOOLEAN
  /\ polls \in [Equip -> 0..MaxPolls]
  /\ missed \in [Equip -> Nat]
  /\ got \in [Equip -> [Groups -> Values \cup {0}]]
  /\ emits \in [Equip -> [Polls -> Nat]]
  /\ faults \in 0..MaxFaults

\* What the Edge may read as one block belongs together: the values are those
\* of the last complete poll, also after polls that failed half way and after
\* the PLC was stopped in the middle of one.
BlockWhole == \A e \in Equip : mem[e].vals = got[e]

\* A block that says OK, DELAY or ERROR after the first poll of its device
\* means that the device has answered in one of its last three polls, and DOWN
\* that it has not (ARCHITECTURE 6).
StatusTruthful ==
  \A e \in Equip :
    (polls[e] > 0 \/ missed[e] > 0) =>
      (mem[e].status = STATUS_DOWN <=> polls[e] = 0 \/ missed[e] >= DownAfter)

\* EDG-05: while a collector runs, a successful poll becomes at most one
\* sample, however often its block is read, while polls fail, the link to the
\* PLC breaks or the PLC is stopped and started.
SampledOnce == \A e \in Equip, n \in Polls : emits[e][n] <= 1

\* Successes of e that this collector has made samples of.
Used(e) == {n \in Polls : emits[e][n] > 0}

\* A success is never overlooked: when a poll of the reader ends with a block
\* whose success this collector has not used, it becomes a sample, unless the
\* counter has gone exactly round since the last one.
SuccessNoticed ==
  [][\A e \in Equip :
       LET n == Answered(NRanges)[e].n IN
       /\ rpos = NRanges /\ rpos' = 0 /\ linkOk'
       /\ n > 0
       /\ \A u \in Used(e) : n > u /\ n < u + CounterMod - 1
       => emits'[e][n] = 1]_vars

=============================================================================
