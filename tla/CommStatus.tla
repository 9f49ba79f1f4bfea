----------------------------- MODULE CommStatus -----------------------------
(***************************************************************************)
(* How the twin finds out what is broken: heartbeats and the slave mirror  *)
(* of the PLCs (plc/runtime.py), the ages kept by the Edge's readers       *)
(* (edge/collectors.py), and the communication alarms derived from them    *)
(* (mes/views.py, mes/alarms.py), while faults come and go                 *)
(* (field/faults.py) and the supervisor makes the PLCs follow them.        *)
(*                                                                         *)
(* Time.  Ticks of half a second.  due[t] says when task t runs next; it   *)
(* begins anywhere in the period, and a task may be held up.  The tasks    *)
(* due in one tick run in the order of the data, from the PLCs to the MES, *)
(* or against it, as chosen at the start.  What happens to the system      *)
(* happens between ticks.  An age is the time since a change was seen and  *)
(* counts no further than what it is compared with.                        *)
(*                                                                         *)
(* Data.  A counter (heartbeat, mirror, update counter) matters only as    *)
(* changed since it was last looked at or not.  One device on the bus of   *)
(* the SLAVE stands for all; it answers or is silent.                      *)
(***************************************************************************)
EXTENDS Naturals, Sequences, SequencesExt

CONSTANTS
    Period,       \* of the 1 s tasks
    ReadPeriod,   \* plc_poll_ms of the readers
    MaxLate,      \* how late a task that is held up runs
    HbLimit,      \* 3.0 s
    StaleLimit,   \* stale_s of the device
    DownAfter,    \* failed polls: 3
    Hold,         \* hold_s of comm
    Grace,        \* COMM_GRACE_S
    Settle,       \* history: how long alarms may take to follow
    Breakable,    \* targets of the faults that are injected
    MaxStop,      \* how long a collector takes to stop
    Restarts,     \* bound: restarts of the Edge under way at once
    MaxEvents     \* bound: faults, late tasks, lost polls and restarts of the Edge

ASSUME CommAssumption ==
    /\ Period \in Nat \ {0} /\ ReadPeriod \in Nat \ {0} /\ MaxLate \in Nat
    /\ HbLimit \in Nat /\ StaleLimit \in Nat /\ DownAfter \in Nat \ {0}
    /\ Hold \in Nat /\ Grace \in Nat /\ Settle \in Nat /\ MaxStop \in Nat /\ MaxEvents \in Nat
    /\ Breakable \subseteq {"MASTER", "SLAVE", "DEV", "MASTER-SLAVE", "EDGE-MES"}

Plcs == {"MASTER", "SLAVE"}
Keys == Plcs \cup {"DEV", "MASTER-SLAVE", "EDGE-MES"}
PlcTasks == {<<"heartbeat", p>> : p \in Plcs} \cup {<<"mirror", "MASTER">>, <<"scan", "SLAVE">>}
EdgeTasks == {<<"read", p>> : p \in Plcs}
Tasks == PlcTasks \cup EdgeTasks \cup {<<"sync", "MES">>}
DataFlow ==
    <<<<"scan", "SLAVE">>, <<"heartbeat", "SLAVE">>, <<"heartbeat", "MASTER">>,
      <<"mirror", "MASTER">>, <<"read", "SLAVE">>, <<"read", "MASTER">>, <<"sync", "MES">>>>
NoTimer == Hold + 1
Idle == MaxStop + 1
Unpolled == DownAfter + 1     \* devFails before the first poll: the status word reads OK
NoCounter == StaleLimit + 2   \* devAge while the reader has seen no update counter

VARIABLES
    order,      \* the order of the tasks in a tick
    faults,     \* targets of the active faults
    up,         \* running of each PlcRuntime
    due,        \* ticks until a task runs
    hbNew,      \* hbNew[p]: the reader has not seen the heartbeat in the D area
    hbAhead,    \* the heartbeat of the SLAVE is not mirrored
    mirNew,     \* MASTER's reader has not seen the mirrored heartbeat
    devNew,     \* SLAVE's reader has not seen the update counter
    devFails,   \* consecutive_fail of the device, no further than DownAfter, which is
                \* also what it is as long as no poll has succeeded (ever_ok)
    linkOk,     \* link_ok of each reader
    hbAge,      \* time since hb_changed
    mirAge,     \* time since mirror_changed
    devAge,     \* time since changed of the device
    devDown,    \* plc_status of the device in its reader is DOWN
    mesDown,    \* mes_link_state of the Edge is DOWN, neither OK nor UNKNOWN
    stops,      \* stops[i]: ticks until restart i has stopped its collector, or Idle
    edgeRuns,   \* the tasks of twin.edge run
    orphans,    \* other collectors whose tasks run
    grace,      \* what is left of the grace period
    timer,      \* timer[k]: age of the alarm timer, or NoTimer
    alarms,     \* keys whose communication alarm is open
    (* history *)
    broken,     \* targets that ever had a fault
    calm,       \* ticks since anything happened to the system
    overlapped, \* a restart began while another one was under way
    events

plcVars == <<up, hbNew, hbAhead, mirNew, devNew, devFails>>
edgeVars == <<linkOk, hbAge, mirAge, devAge, devDown, mesDown>>
mesVars == <<grace, timer, alarms>>
superVars == <<stops, edgeRuns, orphans>>
history == <<broken, calm, overlapped, events>>
vars == <<order, faults, due, plcVars, edgeVars, superVars, mesVars, history>>

\* A task of a stopped PLC or collector does not exist.
IsDue(t) ==
    /\ due[t] = 0
    /\ t \in PlcTasks => up[t[2]]
    /\ t \in EdgeTasks => edgeRuns
BetweenTicks == \A t \in Tasks : ~IsDue(t)

\* It is the turn of task t, which then sleeps for its period.
Runs(t, period) ==
    /\ IsDue(t)
    /\ t = Head(SelectSeq(order, IsDue))
    /\ due' = [due EXCEPT ![t] = period]
    /\ UNCHANGED order

-----------------------------------------------------------------------------
(* plc/runtime.py                                                          *)

\* _heartbeat
Heartbeat(p) ==
    /\ Runs(<<"heartbeat", p>>, Period)
    /\ hbNew' = [hbNew EXCEPT ![p] = TRUE]
    /\ hbAhead' = (hbAhead \/ p = "SLAVE")
    /\ UNCHANGED <<faults, up, mirNew, devNew, devFails, edgeVars, superVars, mesVars, history>>

\* _slave_mirror
SlaveMirror ==
    /\ Runs(<<"mirror", "MASTER">>, Period)
    /\ LET reads == up["SLAVE"] /\ "MASTER-SLAVE" \notin faults
       IN  /\ mirNew' = (mirNew \/ (reads /\ hbAhead))
           /\ hbAhead' = (hbAhead /\ ~reads)
    /\ UNCHANGED <<faults, up, hbNew, devNew, devFails, edgeVars, superVars, mesVars, history>>

\* BusScanner.poll of the device, with Diag.poll
Scan ==
    /\ Runs(<<"scan", "SLAVE">>, Period)
    /\ devNew' = (devNew \/ "DEV" \notin faults)
    /\ devFails' = IF "DEV" \notin faults THEN 0
                   ELSE IF devFails < DownAfter THEN devFails + 1 ELSE DownAfter
    /\ UNCHANGED <<faults, up, hbNew, hbAhead, mirNew, edgeVars, superVars, mesVars, history>>

-----------------------------------------------------------------------------
(* edge/collectors.py: PlcReader                                           *)

Seen(new, age) == IF new THEN 0 ELSE age

\* poll: all ranges are read.
ReaderPolls(p) ==
    /\ up[p]
    /\ Runs(<<"read", p>>, ReadPeriod)
    /\ linkOk' = [linkOk EXCEPT ![p] = TRUE]
    /\ hbAge' = [hbAge EXCEPT ![p] = Seen(hbNew[p], @)]
    /\ hbNew' = [hbNew EXCEPT ![p] = FALSE]
    /\ IF p = "MASTER"
       THEN /\ mirAge' = Seen(mirNew, mirAge)
            /\ mirNew' = FALSE
            /\ UNCHANGED <<devAge, devNew, devDown>>
       ELSE /\ devAge' = Seen(devNew, devAge)
            /\ devNew' = FALSE
            /\ devDown' = (devFails = DownAfter)
            /\ UNCHANGED <<mirAge, mirNew>>
    /\ UNCHANGED <<faults, up, hbAhead, devFails, mesDown, superVars, mesVars, history>>

\* poll: a range is not read, because the PLC is stopped.
ReaderFails(p) ==
    /\ ~up[p]
    /\ Runs(<<"read", p>>, ReadPeriod)
    /\ linkOk' = [linkOk EXCEPT ![p] = FALSE]
    /\ UNCHANGED <<faults, plcVars, hbAge, mirAge, devAge, devDown, mesDown, superVars, mesVars, history>>

PlcState(p) == IF ~linkOk[p] \/ hbAge[p] > HbLimit THEN "DOWN" ELSE "OK"

SlaveLinkState ==
    IF ~linkOk["MASTER"] THEN "UNKNOWN"
    ELSE IF mirAge <= HbLimit THEN "OK" ELSE "DOWN"

DeviceState ==
    IF PlcState("SLAVE") = "DOWN" THEN "STALE"
    ELSE IF devDown THEN "DOWN"
    ELSE IF devAge = StaleLimit + 1 THEN "STALE" ELSE "OK"

\* _sender: what became of the newest attempt to send, whenever there is one.
SenderTries ==
    /\ BetweenTicks /\ edgeRuns
    /\ mesDown' = ("EDGE-MES" \in faults)
    /\ UNCHANGED <<order, faults, due, plcVars, linkOk, hbAge, mirAge, devAge, devDown, superVars, mesVars, history>>

-----------------------------------------------------------------------------
(* mes/views.py: sync_comm_alarms, with alarms.comm                        *)

\* Seeded fault: the devices of a dead PLC get their alarms, too.
BadDeviceUnmasked == DeviceState \in {"DOWN", "STALE"}

\* The alarm of its PLC stands for those of the device.
BadDevice == PlcState("SLAVE") = "OK" /\ DeviceState \in {"DOWN", "STALE"}

BadLink == (\A p \in Plcs : PlcState(p) = "OK") /\ SlaveLinkState = "DOWN"

\* The keys comm is called for with bad = True.
Bad ==
    {p \in Plcs : PlcState(p) = "DOWN"}
    \cup (IF BadDevice THEN {"DEV"} ELSE {})
    \cup (IF BadLink THEN {"MASTER-SLAVE"} ELSE {})
    \cup (IF mesDown THEN {"EDGE-MES"} ELSE {})

\* Seeded fault: the timer is set at every sync of a bad state.
TimerAfterSet(k) == IF k \in Bad THEN 0 ELSE NoTimer

\* setdefault, or pop
TimerAfter(k) ==
    IF k \notin Bad THEN NoTimer
    ELSE IF timer[k] = NoTimer THEN 0 ELSE timer[k]

SyncCommAlarms ==
    /\ Runs(<<"sync", "MES">>, Period)
    /\ IF grace > 0
       THEN UNCHANGED <<timer, alarms>>
       ELSE /\ timer' = [k \in Keys |-> TimerAfter(k)]
            /\ alarms' = {k \in Bad : k \in alarms \/ TimerAfter(k) = Hold}
    /\ UNCHANGED <<faults, plcVars, edgeVars, superVars, grace, history>>

-----------------------------------------------------------------------------
(* What happens to the system.                                             *)

Disturbs ==
    /\ BetweenTicks
    /\ events < MaxEvents
    /\ events' = events + 1
    /\ calm' = 0

\* faults.add
AddFault(x) ==
    /\ x \notin faults
    /\ Disturbs
    /\ faults' = faults \cup {x}
    /\ broken' = broken \cup {x}
    /\ UNCHANGED <<order, due, plcVars, edgeVars, superVars, mesVars, overlapped>>

\* faults.remove, or the fault has expired.
RemoveFault(x) ==
    /\ BetweenTicks
    /\ x \in faults
    /\ faults' = faults \ {x}
    /\ calm' = 0
    /\ UNCHANGED <<order, due, plcVars, edgeVars, superVars, mesVars, broken, overlapped, events>>

\* A reader's poll times out once although the PLC is up.
LosePoll(p) ==
    /\ up[p] /\ edgeRuns
    /\ Disturbs
    /\ due' = [due EXCEPT ![<<"read", p>>] = ReadPeriod + 1]
    /\ linkOk' = [linkOk EXCEPT ![p] = FALSE]
    /\ UNCHANGED <<order, faults, plcVars, hbAge, mirAge, devAge, devDown, mesDown, superVars, mesVars, broken, overlapped>>

\* A slow neighbour on the bus, or the event loop, holds up a task of a PLC.
HoldUp(t) ==
    /\ Disturbs
    /\ due' = [due EXCEPT ![t] = @ + MaxLate]
    /\ UNCHANGED <<order, faults, plcVars, edgeVars, superVars, mesVars, broken, overlapped>>

\* _reconcile: the tasks of a stopped PLC are gone, those of a started one run
\* at once; the D area stays.
Reconcile(p) ==
    /\ BetweenTicks
    /\ up[p] = (p \in faults)
    /\ up' = [up EXCEPT ![p] = ~@]
    /\ due' = [t \in Tasks |-> IF t \in PlcTasks /\ t[2] = p THEN 0 ELSE due[t]]
    /\ calm' = 0
    /\ UNCHANGED <<order, faults, hbNew, hbAhead, mirNew, devNew, devFails, edgeVars, superVars, mesVars, broken, overlapped, events>>

\* Seeded fault: the new collector is made without waiting for the old one.
OthersAtStopKept == IF edgeRuns THEN orphans + 1 ELSE orphans

\* collector.stop: the tasks of twin.edge are cancelled; no other collector is
\* touched.
OthersAtStop == orphans

\* restart_edge, up to the end of stop.  What the old readers had seen stays as
\* it is and grows old.
RestartBegins(i) ==
    /\ stops[i] = Idle
    /\ Disturbs
    /\ \E n \in 0..MaxStop : stops' = [stops EXCEPT ![i] = n]
    /\ orphans' = OthersAtStop
    /\ edgeRuns' = FALSE
    /\ overlapped' = (overlapped \/ \E j \in Restarts : stops[j] # Idle)
    /\ UNCHANGED <<order, faults, due, plcVars, edgeVars, mesVars, broken>>

\* restart_edge goes on: a new collector, whose readers have seen nothing, is
\* started and becomes twin.edge.  The one a restart under way at the same
\* time has started in the meantime runs on.
RestartEnds(i) ==
    /\ stops[i] = 0
    /\ BetweenTicks
    /\ stops' = [stops EXCEPT ![i] = Idle]
    /\ orphans' = IF edgeRuns THEN orphans + 1 ELSE orphans
    /\ edgeRuns' = TRUE
    /\ calm' = 0
    /\ due' = [t \in Tasks |-> IF t \in EdgeTasks THEN 0 ELSE due[t]]
    /\ linkOk' = [p \in Plcs |-> FALSE]
    /\ hbAge' = [p \in Plcs |-> HbLimit + 1]
    /\ mirAge' = HbLimit + 1
    /\ devAge' = NoCounter
    /\ devDown' = TRUE
    /\ mesDown' = FALSE
    /\ hbNew' = [p \in Plcs |-> TRUE]
    /\ mirNew' = TRUE
    /\ devNew' = (devFails # Unpolled)
    /\ UNCHANGED <<order, faults, up, hbAhead, devFails, mesVars, broken, overlapped, events>>

-----------------------------------------------------------------------------
Older(age, limit) == IF age > limit THEN age ELSE age + 1

Tick ==
    /\ BetweenTicks
    /\ \A i \in Restarts : stops[i] # 0
    /\ stops' = [i \in Restarts |-> IF stops[i] = Idle THEN Idle ELSE stops[i] - 1]
    /\ due' = [t \in Tasks |-> IF due[t] > 0 THEN due[t] - 1 ELSE 0]
    /\ hbAge' = [p \in Plcs |-> Older(hbAge[p], HbLimit)]
    /\ mirAge' = Older(mirAge, HbLimit)
    /\ devAge' = Older(devAge, StaleLimit)
    /\ timer' = [k \in Keys |-> IF timer[k] < Hold THEN timer[k] + 1 ELSE timer[k]]
    /\ grace' = IF grace > 0 THEN grace - 1 ELSE 0
    /\ calm' = IF calm < Settle THEN calm + 1 ELSE calm
    /\ UNCHANGED <<order, faults, plcVars, linkOk, devDown, mesDown, edgeRuns, orphans, alarms,
                   broken, overlapped, events>>

\* Everything has just been started, and nothing polled or read.
Init ==
    /\ order \in {DataFlow, Reverse(DataFlow)}
    /\ faults = {}
    /\ up = [p \in Plcs |-> TRUE]
    /\ due \in [Tasks -> 0..(Period - 1)]
    /\ \A t \in EdgeTasks : due[t] < ReadPeriod
    /\ hbNew = [p \in Plcs |-> TRUE] /\ hbAhead = TRUE
    /\ mirNew = TRUE /\ devNew = FALSE /\ devFails = Unpolled
    /\ linkOk = [p \in Plcs |-> FALSE]
    /\ hbAge = [p \in Plcs |-> HbLimit + 1]
    /\ mirAge = HbLimit + 1 /\ devAge = NoCounter /\ devDown = TRUE
    /\ mesDown = FALSE
    /\ stops = [i \in Restarts |-> Idle]
    /\ edgeRuns = TRUE /\ orphans = 0 /\ overlapped = FALSE
    /\ grace = Grace
    /\ timer = [k \in Keys |-> NoTimer]
    /\ alarms = {}
    /\ broken = {} /\ calm = 0 /\ events = 0

Next ==
    \/ \E p \in Plcs : Heartbeat(p) \/ ReaderPolls(p) \/ ReaderFails(p) \/ LosePoll(p) \/ Reconcile(p)
    \/ SlaveMirror \/ Scan \/ SenderTries \/ SyncCommAlarms
    \/ \E x \in Breakable : AddFault(x) \/ RemoveFault(x)
    \/ \E i \in Restarts : RestartBegins(i) \/ RestartEnds(i)
    \/ \E t \in PlcTasks : HoldUp(t)
    \/ Tick

Spec == Init /\ [][Next]_vars

-----------------------------------------------------------------------------
\* Only what has been broken is blamed: a PLC that goes down and comes back
\* leaves no alarm of its device or of the MASTER-SLAVE link, and lost polls and
\* restarts of the Edge leave none at all.
RightCulprit == alarms \subseteq broken

\* What is broken now, as an operator would be told: a stopped PLC stands for
\* its device and for the link.
Culprits ==
    {p \in Plcs : ~up[p]}
    \cup (IF up["SLAVE"] THEN faults \cap {"DEV"} ELSE {})
    \cup (IF \A p \in Plcs : up[p] THEN faults \cap {"MASTER-SLAVE"} ELSE {})

\* The alarms follow: when nothing has happened for a while, exactly what is
\* broken has an open alarm.
AlarmsFollow ==
    calm = Settle /\ grace = 0 => alarms \ {"EDGE-MES"} = Culprits

\* AC-10, collection resumes: once all restarts are through, the collector the
\* MES asks polls; and it is the only one unless restarts overlapped.
OneCollector ==
    /\ (\A i \in Restarts : stops[i] = Idle) => edgeRuns
    /\ ~overlapped => orphans = 0

=============================================================================
