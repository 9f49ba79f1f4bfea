-------------------------- MODULE CommStatusProofs --------------------------
(***************************************************************************)
(* Proofs about CommStatus: who collects, for any number of restarts of    *)
(* the Edge under way at once and any time a collector takes to stop; and  *)
(* what is blamed, as far as that does not depend on periods and limits.   *)
(***************************************************************************)
EXTENDS CommStatus, TLAPS

RestartType ==
    /\ stops \in [Restarts -> 0..Idle]
    /\ edgeRuns \in BOOLEAN /\ orphans \in Nat /\ overlapped \in BOOLEAN

Restarting == {i \in Restarts : stops[i] # Idle}

\* As long as restarts have not overlapped, there is at most one of them, and
\* while it is under way no collector runs: the one it starts is the only one.
OneAtATime ==
    ~overlapped =>
        /\ \A i, j \in Restarting : i = j
        /\ Restarting # {} => ~edgeRuns

RestartInv == RestartType /\ OneAtATime /\ OneCollector

LEMMA IdleIsLast == Idle \in 0..Idle /\ Idle \in Nat /\ 0..MaxStop \subseteq 0..Idle
                    /\ Idle \notin 0..MaxStop /\ 0 # Idle /\ Idle - 1 = MaxStop
BY CommAssumption DEF Idle

LEMMA InitRestartInv == Init => RestartInv
<1> SUFFICES ASSUME Init PROVE RestartInv
  OBVIOUS
<1>1. stops = [i \in Restarts |-> Idle] /\ edgeRuns = TRUE /\ orphans = 0 /\ overlapped = FALSE
  BY DEF Init
<1>2. RestartType
  BY <1>1, IdleIsLast DEF RestartType
<1>3. OneAtATime /\ OneCollector
  BY <1>1 DEF OneAtATime, OneCollector, Restarting
<1> QED BY <1>2, <1>3 DEF RestartInv

LEMMA RestartBeginsInv ==
  ASSUME RestartInv, NEW i \in Restarts, RestartBegins(i)
  PROVE  RestartInv'
<1>1. PICK n \in 0..MaxStop : stops' = [stops EXCEPT ![i] = n]
  BY DEF RestartBegins
<1>2. /\ orphans' = orphans /\ edgeRuns' = FALSE
      /\ overlapped' = (overlapped \/ \E j \in Restarts : stops[j] # Idle)
  BY DEF RestartBegins, OthersAtStop
<1>3. n \in 0..Idle /\ n # Idle
  BY IdleIsLast
<1>4. stops \in [Restarts -> 0..Idle]
  BY DEF RestartInv, RestartType
<1>5. RestartType'
  BY <1>1, <1>2, <1>3, <1>4 DEF RestartInv, RestartType, Idle
<1>6. stops'[i] # Idle /\ \A j \in Restarts : j # i => stops'[j] = stops[j]
  BY <1>1, <1>3, <1>4
<1>7. OneAtATime'
  BY <1>2, <1>6 DEF OneAtATime, Restarting, Idle
<1>8. OneCollector'
  BY <1>2, <1>6 DEF RestartInv, OneCollector, Idle
<1> QED BY <1>5, <1>7, <1>8 DEF RestartInv

LEMMA RestartEndsInv ==
  ASSUME RestartInv, NEW i \in Restarts, RestartEnds(i)
  PROVE  RestartInv'
<1>1. /\ stops[i] = 0 /\ stops' = [stops EXCEPT ![i] = Idle]
      /\ orphans' = (IF edgeRuns THEN orphans + 1 ELSE orphans)
      /\ edgeRuns' = TRUE /\ overlapped' = overlapped
  BY DEF RestartEnds
<1>2. stops \in [Restarts -> 0..Idle] /\ orphans \in Nat /\ 0 # Idle
  BY IdleIsLast DEF RestartInv, RestartType
<1>3. RestartType'
  BY <1>1, <1>2, IdleIsLast DEF RestartInv, RestartType, Idle
<1>4. i \in Restarting
  BY <1>1, <1>2 DEF Restarting
<1>5. stops'[i] = Idle /\ \A j \in Restarts : j # i => stops'[j] = stops[j]
  BY <1>1, <1>2
<1>6. ~overlapped => Restarting' = {} /\ ~edgeRuns
  BY <1>4, <1>5 DEF RestartInv, OneAtATime, Restarting, Idle
<1>7. OneAtATime'
  BY <1>1, <1>6 DEF OneAtATime
<1>8. OneCollector'
  BY <1>1, <1>6 DEF RestartInv, OneCollector
<1> QED BY <1>3, <1>7, <1>8 DEF RestartInv

LEMMA TickInv ==
  ASSUME RestartInv, Tick
  PROVE  RestartInv'
<1>1. /\ stops' = [i \in Restarts |-> IF stops[i] = Idle THEN Idle ELSE stops[i] - 1]
      /\ \A i \in Restarts : stops[i] # 0
      /\ UNCHANGED <<edgeRuns, orphans, overlapped>>
  BY DEF Tick
<1>2. stops \in [Restarts -> 0..Idle] /\ Idle \in Nat
  BY IdleIsLast DEF RestartInv, RestartType
<1>3. \A i \in Restarts : stops'[i] \in 0..Idle /\ (stops'[i] = Idle <=> stops[i] = Idle)
  BY <1>1, <1>2
<1>4. RestartType'
  BY <1>1, <1>3 DEF RestartInv, RestartType, Idle
<1>5. OneAtATime' /\ OneCollector'
  BY <1>1, <1>3 DEF RestartInv, OneAtATime, OneCollector, Restarting, Idle
<1> QED BY <1>4, <1>5 DEF RestartInv

LEMMA NextRestartInv == RestartInv /\ [Next]_vars => RestartInv'
<1> SUFFICES ASSUME RestartInv, [Next]_vars PROVE RestartInv'
  OBVIOUS
<1>1. ASSUME UNCHANGED <<stops, edgeRuns, orphans, overlapped>> PROVE RestartInv'
  BY <1>1 DEF RestartInv, RestartType, OneAtATime, OneCollector, Restarting, Idle
<1>2. ASSUME NEW p \in Plcs, Heartbeat(p) \/ ReaderPolls(p) \/ ReaderFails(p) \/ LosePoll(p) \/ Reconcile(p)
      PROVE  RestartInv'
  BY <1>1, <1>2 DEF Heartbeat, ReaderPolls, ReaderFails, LosePoll, Reconcile, superVars, history
<1>3. CASE SlaveMirror \/ Scan \/ SenderTries \/ SyncCommAlarms
  BY <1>1, <1>3 DEF SlaveMirror, Scan, SenderTries, SyncCommAlarms, superVars, history
<1>4. ASSUME NEW x \in Breakable, AddFault(x) \/ RemoveFault(x) PROVE RestartInv'
  BY <1>1, <1>4 DEF AddFault, RemoveFault, superVars
<1>5. ASSUME NEW i \in Restarts, RestartBegins(i) PROVE RestartInv'
  BY <1>5, RestartBeginsInv
<1>6. ASSUME NEW i \in Restarts, RestartEnds(i) PROVE RestartInv'
  BY <1>6, RestartEndsInv
<1>7. ASSUME NEW t \in PlcTasks, HoldUp(t) PROVE RestartInv'
  BY <1>1, <1>7 DEF HoldUp, superVars
<1>8. CASE Tick
  BY <1>8, TickInv
<1>9. CASE UNCHANGED vars
  BY <1>1, <1>9 DEF vars, superVars, history
<1> QED BY <1>2, <1>3, <1>4, <1>5, <1>6, <1>7, <1>8, <1>9 DEF Next

\* Once all restarts are through a collector runs, and it is the only one unless
\* restarts overlapped, for any number of restarts.
THEOREM CollectorIsAlone == Spec => []OneCollector
<1>1. RestartInv => OneCollector
  BY DEF RestartInv
<1> QED BY <1>1, InitRestartInv, NextRestartInv, PTL DEF Spec

-----------------------------------------------------------------------------
(* Blame that needs no clock.                                              *)

\* The scanner counts up to a device that is down only if the device failed, and
\* a reader with a link has read that count, and not one from before a restart.
DownNeedsFault ==
    /\ faults \subseteq broken
    /\ devFails \in 1..DownAfter => "DEV" \in broken
    /\ devFails \in 0..Unpolled
    /\ linkOk \in [Plcs -> BOOLEAN]
    /\ linkOk["SLAVE"] /\ devDown => "DEV" \in broken
    /\ mesDown => "EDGE-MES" \in broken
    /\ "EDGE-MES" \in alarms => "EDGE-MES" \in broken

\* Not even for a moment, whatever is late or restarted, does the Edge show a
\* device as DOWN (STALE is another matter) that has answered every poll, or the
\* MES blame a link to the Edge that was never cut: neither the status a new
\* reader starts with nor polls not made yet are taken for a failure.
BlameNeedsFault ==
    /\ DeviceState = "DOWN" => "DEV" \in broken
    /\ "EDGE-MES" \in Bad \cup alarms => "EDGE-MES" \in broken

LEMMA InitDownNeedsFault == Init => DownNeedsFault
<1> SUFFICES ASSUME Init PROVE DownNeedsFault
  OBVIOUS
<1>1. /\ faults = {} /\ devFails = DownAfter + 1 /\ linkOk = [p \in Plcs |-> FALSE]
      /\ mesDown = FALSE /\ alarms = {} /\ DownAfter \in Nat
  BY CommAssumption DEF Init, Unpolled
<1>2. devFails \in 0..Unpolled /\ devFails \notin 1..DownAfter
  BY <1>1 DEF Unpolled
<1>3. linkOk \in [Plcs -> BOOLEAN] /\ ~linkOk["SLAVE"]
  BY <1>1 DEF Plcs
<1> QED BY <1>1, <1>2, <1>3 DEF DownNeedsFault

LEMMA ScanBlames ==
  ASSUME DownNeedsFault, Scan
  PROVE  DownNeedsFault'
<1>1. /\ devFails' = IF "DEV" \notin faults THEN 0
                     ELSE IF devFails < DownAfter THEN devFails + 1 ELSE DownAfter
      /\ UNCHANGED <<faults, linkOk, devDown, mesDown, alarms, broken>>
  BY DEF Scan, edgeVars, mesVars, history
<1>2. DownAfter \in Nat \ {0} /\ devFails \in 0..(DownAfter + 1)
  BY CommAssumption DEF DownNeedsFault, Unpolled
<1>3. CASE "DEV" \notin faults
  <2>1. devFails' = 0
    BY <1>1, <1>3
  <2>2. 0 \in 0..(DownAfter + 1) /\ 0 \notin 1..DownAfter
    BY <1>2
  <2> QED BY <1>1, <2>1, <2>2 DEF DownNeedsFault, Unpolled
<1>4. CASE "DEV" \in faults
  <2>1. devFails' \in 0..(DownAfter + 1)
    BY <1>1, <1>2, <1>4
  <2>2. "DEV" \in broken'
    BY <1>1, <1>4 DEF DownNeedsFault
  <2> QED BY <1>1, <2>1, <2>2 DEF DownNeedsFault, Unpolled
<1> QED BY <1>3, <1>4

LEMMA ReaderPollsBlames ==
  ASSUME DownNeedsFault, NEW p \in Plcs, ReaderPolls(p)
  PROVE  DownNeedsFault'
<1>1. /\ linkOk' = [linkOk EXCEPT ![p] = TRUE]
      /\ IF p = "MASTER" THEN devDown' = devDown ELSE devDown' = (devFails = DownAfter)
      /\ UNCHANGED <<faults, devFails, mesDown, alarms, broken>>
  BY DEF ReaderPolls, mesVars, history
<1>2. linkOk' \in [Plcs -> BOOLEAN]
  BY <1>1 DEF DownNeedsFault
<1>3. CASE p = "MASTER"
  <2>1. linkOk'["SLAVE"] = linkOk["SLAVE"] /\ devDown' = devDown
    BY <1>1, <1>3 DEF DownNeedsFault, Plcs
  <2> QED BY <1>1, <1>2, <2>1 DEF DownNeedsFault, Unpolled
<1>4. CASE p # "MASTER"
  <2>1. devDown' = (devFails = DownAfter)
    BY <1>1, <1>4
  <2>2. DownAfter \in 1..DownAfter
    BY CommAssumption
  <2>3. devDown' => "DEV" \in broken
    BY <2>1, <2>2 DEF DownNeedsFault
  <2> QED BY <1>1, <1>2, <2>3 DEF DownNeedsFault, Unpolled
<1> QED BY <1>3, <1>4

\* A reader that loses its link, or is new, judges no device.
LEMMA LinkLostBlames ==
  ASSUME DownNeedsFault, NEW p \in Plcs, ReaderFails(p) \/ LosePoll(p)
  PROVE  DownNeedsFault'
<1>1. /\ linkOk' = [linkOk EXCEPT ![p] = FALSE]
      /\ UNCHANGED <<faults, devFails, devDown, mesDown, alarms, broken>>
  BY DEF ReaderFails, LosePoll, plcVars, mesVars, history
<1>2. linkOk' \in [Plcs -> BOOLEAN] /\ (linkOk'["SLAVE"] => linkOk["SLAVE"])
  BY <1>1 DEF DownNeedsFault, Plcs
<1> QED BY <1>1, <1>2 DEF DownNeedsFault, Unpolled

LEMMA RestartBlames ==
  ASSUME DownNeedsFault, NEW i \in Restarts, RestartEnds(i)
  PROVE  DownNeedsFault'
<1>1. /\ linkOk' = [p \in Plcs |-> FALSE] /\ mesDown' = FALSE
      /\ UNCHANGED <<faults, devFails, alarms, broken>>
  BY DEF RestartEnds, mesVars
<1>2. linkOk' \in [Plcs -> BOOLEAN] /\ ~linkOk'["SLAVE"]
  BY <1>1 DEF Plcs
<1> QED BY <1>1, <1>2 DEF DownNeedsFault, Unpolled

LEMMA BadLinkBlames == ASSUME DownNeedsFault PROVE "EDGE-MES" \in Bad => "EDGE-MES" \in broken
BY DEF DownNeedsFault, Bad, Plcs

LEMMA SyncBlames ==
  ASSUME DownNeedsFault, SyncCommAlarms
  PROVE  DownNeedsFault'
<1>1. UNCHANGED <<faults, devFails, linkOk, devDown, mesDown, broken>>
  BY DEF SyncCommAlarms, plcVars, edgeVars, history
<1>2. alarms' = alarms \/ alarms' \subseteq Bad
  BY DEF SyncCommAlarms
<1>3. "EDGE-MES" \in alarms' => "EDGE-MES" \in broken'
  BY <1>1, <1>2, BadLinkBlames DEF DownNeedsFault
<1> QED BY <1>1, <1>3 DEF DownNeedsFault, Unpolled

LEMMA NextDownNeedsFault == DownNeedsFault /\ [Next]_vars => DownNeedsFault'
<1> SUFFICES ASSUME DownNeedsFault, [Next]_vars PROVE DownNeedsFault'
  OBVIOUS
<1>1. ASSUME UNCHANGED <<faults, devFails, linkOk, devDown, mesDown, alarms, broken>>
      PROVE  DownNeedsFault'
  BY <1>1 DEF DownNeedsFault, Unpolled
<1>2. ASSUME NEW p \in Plcs, Heartbeat(p) \/ Reconcile(p) PROVE DownNeedsFault'
  BY <1>1, <1>2 DEF Heartbeat, Reconcile, edgeVars, mesVars, history
<1>3. ASSUME NEW p \in Plcs, ReaderPolls(p) PROVE DownNeedsFault'
  BY <1>3, ReaderPollsBlames
<1>4. ASSUME NEW p \in Plcs, ReaderFails(p) \/ LosePoll(p) PROVE DownNeedsFault'
  BY <1>4, LinkLostBlames
<1>5. CASE SlaveMirror
  BY <1>1, <1>5 DEF SlaveMirror, edgeVars, mesVars, history
<1>6. CASE Scan
  BY <1>6, ScanBlames
<1>7. CASE SenderTries
  <2>1. /\ mesDown' = ("EDGE-MES" \in faults)
        /\ UNCHANGED <<faults, devFails, linkOk, devDown, alarms, broken>>
    BY <1>7 DEF SenderTries, plcVars, mesVars, history
  <2>2. mesDown' => "EDGE-MES" \in broken'
    BY <2>1 DEF DownNeedsFault
  <2> QED BY <2>1, <2>2 DEF DownNeedsFault, Unpolled
<1>8. CASE SyncCommAlarms
  BY <1>8, SyncBlames
<1>9. ASSUME NEW x \in Breakable, AddFault(x) \/ RemoveFault(x) PROVE DownNeedsFault'
  <2>1. /\ UNCHANGED <<devFails, linkOk, devDown, mesDown, alarms>>
        /\ broken \subseteq broken' /\ faults' \subseteq broken'
    BY <1>9 DEF AddFault, RemoveFault, plcVars, edgeVars, mesVars, DownNeedsFault
  <2> QED BY <2>1 DEF DownNeedsFault, Unpolled
<1>10. ASSUME NEW i \in Restarts, RestartBegins(i) PROVE DownNeedsFault'
  BY <1>1, <1>10 DEF RestartBegins, plcVars, edgeVars, mesVars
<1>11. ASSUME NEW i \in Restarts, RestartEnds(i) PROVE DownNeedsFault'
  BY <1>11, RestartBlames
<1>12. ASSUME NEW t \in PlcTasks, HoldUp(t) PROVE DownNeedsFault'
  BY <1>1, <1>12 DEF HoldUp, plcVars, edgeVars, mesVars
<1>13. CASE Tick
  BY <1>1, <1>13 DEF Tick, plcVars
<1>14. CASE UNCHANGED vars
  BY <1>1, <1>14 DEF vars, plcVars, edgeVars, mesVars, history
<1> QED
  BY <1>2, <1>3, <1>4, <1>5, <1>6, <1>7, <1>8, <1>9, <1>10, <1>11, <1>12, <1>13, <1>14
  DEF Next

\* The part of RightCulprit that does not depend on how periods, limits and hold
\* times relate: whatever is late or restarted, no device is taken to be down and
\* no Edge-MES alarm is raised that was never broken.
THEOREM BlameIsJust == Spec => []BlameNeedsFault
<1>1. DownNeedsFault => BlameNeedsFault
  <2> SUFFICES ASSUME DownNeedsFault PROVE BlameNeedsFault
    OBVIOUS
  <2>1. DeviceState = "DOWN" => linkOk["SLAVE"] /\ devDown
    <3>1. CASE PlcState("SLAVE") = "DOWN"
      <4>1. DeviceState = "STALE"
        BY <3>1 DEF DeviceState
      <4> QED BY <4>1
    <3>2. CASE PlcState("SLAVE") # "DOWN"
      <4>1. linkOk["SLAVE"]
        BY <3>2 DEF PlcState
      <4>2. ~devDown => DeviceState \in {"STALE", "OK"}
        BY <3>2 DEF DeviceState
      <4> QED BY <4>1, <4>2
    <3> QED BY <3>1, <3>2
  <2> QED BY <2>1, BadLinkBlames DEF BlameNeedsFault, DownNeedsFault
<1> QED BY <1>1, InitDownNeedsFault, NextDownNeedsFault, PTL DEF Spec

=============================================================================
