------------------------------ MODULE LiveFeed ------------------------------
(***************************************************************************)
(* The live feed of the dashboard: WsHub and the /ws handler of the MES,   *)
(* one browser with the store that reduces what it receives, and the       *)
(* tables both are about.  Every await of the hub is a step boundary: the  *)
(* snapshot is taken before the socket is accepted and registered, and the *)
(* hub sends to its sockets one after the other while messages go on being *)
(* published.  The browser reconnects with a new socket.                   *)
(***************************************************************************)
EXTENDS Naturals, Sequences, FiniteSetsExt

CONSTANTS
    Items,       \* the items of the one equipment shown
    MaxEvents,   \* how many samples, acknowledgements, changes and alarm calls happen
    MaxSock      \* how many sockets the browser opens

ASSUME FeedAssumption ==
    /\ MaxEvents \in Nat
    /\ MaxSock \in Nat \ {0}

VARIABLES
    alarm,      \* TWIN_ALARM by ALARM_ID; gen tells what was raised under one number apart
    lastVals,   \* MesStore.last_values: the sample each item comes from
    status,     \* the status of the equipment, as topology() computes it
    statusPrev, \* WsHub._status_prev
    queue,      \* WsHub._queue
    pending,    \* WsHub._pending_values, 0 for an item that is not in it
    clients,    \* WsHub.clients
    sending,    \* _send_all: the payload and the sockets that still have to get it
    sock,       \* the number of the browser's newest socket
    phase,      \* how far that socket is
    snap,       \* the snapshot its handler has taken
    view,       \* TwinState of the dashboard
    events,     \* how many of them have happened; numbers samples and alarms
    missed      \* history: "payload" when one was lost, or left without this socket or
                \* before its snapshot, "status" when the snapshot was ahead of equip_status,
                \* "topology" until the first slow payload has reached the socket

feed == <<queue, pending, clients, sending>>
browser == <<sock, phase, snap, view>>
mes == <<alarm, lastVals, status, statusPrev>>
vars == <<mes, feed, browser, events, missed>>

Aids == 1..MaxEvents
NoAlarm == [gen |-> 0, st |-> "CLEARED"]
Open == {"RAISED", "ACKED"}

AlarmMsg(i, row) == [type |-> "alarm", id |-> i, row |-> row]
ValueMsg(v) == [type |-> "value", vals |-> v]

\* {**prev, **vals}: the items of the newer message replace those of the older.
Merge(prev, v) == [i \in Items |-> IF v[i] > 0 THEN v[i] ELSE prev[i]]
NoSnap == [type |-> "none"]
Nothing == [i \in Items |-> 0]

-----------------------------------------------------------------------------
(* What the MES does: alarms come and go, samples are routed.              *)

\* SQLite numbers a row after the largest number in the table.
NewAid == 1 + Max({0} \cup {i \in Aids : alarm[i].gen > 0})

NoCall == [id |-> 0, row |-> NoAlarm]

\* What one call of the alarm engine may do: nothing, raise, raise the active
\* alarm of an event again with new contents, or clear one.
AlarmCalls ==
    {NoCall}
    \cup {[id |-> NewAid, row |-> [gen |-> events + 1, st |-> "RAISED"]]}
    \cup {[id |-> i, row |-> [gen |-> events + 1, st |-> "RAISED"]] :
              i \in {j \in Aids : alarm[j].st = "RAISED"}}
    \cup {[id |-> i, row |-> [alarm[i] EXCEPT !.st = "CLEARED"]] :
              i \in {j \in Aids : alarm[j].st \in Open}}

Applied(c) == IF c.id = 0 THEN alarm ELSE [alarm EXCEPT ![c.id] = c.row]
Emitted(c) == IF c.id = 0 THEN <<>> ELSE <<AlarmMsg(c.id, c.row)>>

\* Seeded fault: a newer message of an equipment replaces the waiting one.
CoalescedLast(v) == v

\* publish of a value: merged into the one that waits for the same equipment.
Coalesced(v) == Merge(pending, v)

\* route: the handler may call the alarm engine; the values are merged into
\* last_values and published.  Two calls of one handler leave what two routes in
\* a row leave: there is no await between them.  When the handler fails after a
\* call, no values follow (S is empty).  The transaction is taken to commit.
Route ==
    /\ events < MaxEvents
    /\ events' = events + 1
    /\ \E S \in SUBSET Items, c \in AlarmCalls :
         LET v == [i \in Items |-> IF i \in S THEN events + 1 ELSE 0] IN
         /\ alarm' = Applied(c)
         /\ queue' = queue \o Emitted(c)
         /\ lastVals' = Merge(lastVals, v)
         /\ pending' = Coalesced(v)
    /\ UNCHANGED <<status, statusPrev, clients, sending, browser, missed>>

\* POST /api/alarms/{id}/ack for an alarm the dashboard shows as raised: an
\* alarm of the raised row is acknowledged, one of an event also ends.  Any row
\* that is found is published again.
Ack(i) ==
    /\ events < MaxEvents
    /\ events' = events + 1
    /\ view.alarms[i].st = "RAISED"
    /\ alarm[i].gen > 0
    /\ \E st \in IF alarm[i].st = "RAISED" THEN {"ACKED", "CLEARED"} ELSE {alarm[i].st} :
         /\ alarm' = [alarm EXCEPT ![i].st = st]
         /\ queue' = Append(queue, AlarmMsg(i, alarm'[i]))
    /\ UNCHANGED <<lastVals, status, statusPrev, pending, clients, sending, browser, missed>>

\* The daily purge deletes cleared alarms; their numbers become free.
Purge ==
    /\ \E i \in Aids : alarm[i].gen > 0 /\ alarm[i].st = "CLEARED"
    /\ alarm' = [i \in Aids |-> IF alarm[i].st = "CLEARED" THEN NoAlarm ELSE alarm[i]]
    /\ UNCHANGED <<lastVals, status, statusPrev, feed, browser, events, missed>>

\* The state the Edge reports for the equipment changes.
StatusChanges ==
    /\ events < MaxEvents
    /\ events' = events + 1
    /\ status' = IF status = "OK" THEN "DOWN" ELSE "OK"
    /\ UNCHANGED <<alarm, lastVals, statusPrev, feed, browser, missed>>

-----------------------------------------------------------------------------
(* The hub.                                                                *)

\* reduce: a snapshot replaces alarms, values and status, other messages change
\* what they are about.
Reduce(v, m) ==
    CASE m.type = "snapshot" ->
             [alarms |-> m.alarms, vals |-> m.vals, status |-> m.st, topo |-> m.st]
      [] m.type = "alarm" -> [v EXCEPT !.alarms[m.id] = m.row]
      [] m.type = "value" -> [v EXCEPT !.vals = Merge(@, m.vals)]
      [] m.type = "equip_status" -> [v EXCEPT !.status = m.st]
      [] m.type = "topology" -> [v EXCEPT !.topo = m.st]

\* onmessage: the messages of a payload one after the other.
Received(v, msgs) ==
    LET after[n \in 0..Len(msgs)] ==
            IF n = 0 THEN v ELSE Reduce(after[n - 1], msgs[n])
    IN  after[Len(msgs)]

Idle == [msgs |-> <<>>, to |-> {}, slow |-> FALSE]

\* Seeded fault: the topology is sent like equip_status, when it has changed.
SlowMessagesOnChange ==
    IF statusPrev # status
    THEN <<[type |-> "topology", st |-> status], [type |-> "equip_status", st |-> status]>>
    ELSE <<>>

\* What goes out once a second: the topology always, a status when it differs
\* from the one sent last.
SlowMessages ==
    <<[type |-> "topology", st |-> status]>>
    \o (IF statusPrev # status THEN <<[type |-> "equip_status", st |-> status]>> ELSE <<>>)

\* Seeded fault: the status is noted at every turn, sent or not.
StatusNotedAlways(slow) == status

\* _status_prev: the status the slow part has sent.
StatusNoted(slow) == IF slow THEN status ELSE statusPrev

\* One turn of run: what waits, and once a second what sync_comm_alarms raises or
\* clears and the slow messages, become the payload for the sockets there are.
Flush(slow) ==
    /\ sending = Idle
    /\ \E c \in IF slow /\ events < MaxEvents THEN AlarmCalls ELSE {NoCall} :
         LET msgs == queue \o (IF pending = Nothing THEN <<>> ELSE <<ValueMsg(pending)>>)
                       \o Emitted(c) \o (IF slow THEN SlowMessages ELSE <<>>) IN
         /\ msgs # <<>>
         /\ alarm' = Applied(c)
         /\ events' = IF c.id = 0 THEN events ELSE events + 1
         /\ sending' = IF clients = {} THEN Idle ELSE [msgs |-> msgs, to |-> clients, slow |-> slow]
         /\ missed' = IF phase = "accepting" THEN missed \cup {"payload"} ELSE missed
    /\ queue' = <<>>
    /\ pending' = Nothing
    /\ statusPrev' = StatusNoted(slow)
    /\ UNCHANGED <<lastVals, status, clients, browser>>

\* The slow part fails, in summary or topology or after the status was noted: what
\* the turn has taken is lost, and the error is logged.
FlushFails ==
    /\ sending = Idle
    /\ events < MaxEvents
    /\ events' = events + 1
    /\ \E c \in AlarmCalls :
         /\ alarm' = Applied(c)
         /\ queue' \in {<<>>, Emitted(c)}
    /\ pending' = Nothing
    /\ statusPrev' \in {statusPrev, status}
    /\ missed' = missed \cup {"payload"}
                   \cup (IF statusPrev' = statusPrev THEN {} ELSE {"status", "topology"})
    /\ UNCHANGED <<lastVals, status, clients, sending, browser>>

\* The payload without the socket s; the turn ends with the last one.
SentTo(s) == IF sending.to = {s} THEN Idle ELSE [sending EXCEPT !.to = @ \ {s}]

\* send_text to the browser's socket.
Send(s) ==
    /\ s \in sending.to
    /\ s = sock /\ phase \in {"greeting", "open"}
    /\ view' = Received(view, sending.msgs)
    /\ sending' = SentTo(s)
    /\ missed' = IF phase = "greeting" THEN missed \cup {"payload"}
                 ELSE IF sending.slow THEN missed \ {"topology"} ELSE missed
    /\ UNCHANGED <<mes, queue, pending, clients, sock, phase, snap, events>>

\* send_text fails on a socket that is gone: the hub forgets the socket.
SendFails(s) ==
    /\ s \in sending.to
    /\ s # sock \/ phase = "closed"
    /\ clients' = clients \ {s}
    /\ sending' = SentTo(s)
    /\ UNCHANGED <<mes, queue, pending, browser, events, missed>>

\* send_text takes more than 2 s: the hub forgets the socket as well, and does
\* not close it.  What was written may still arrive.
SendTimesOut(s) ==
    /\ s \in sending.to
    /\ s = sock /\ phase \in {"greeting", "open"}
    /\ clients' = clients \ {s}
    /\ sending' = SentTo(s)
    /\ view' \in {view, Received(view, sending.msgs)}
    /\ UNCHANGED <<mes, queue, pending, sock, phase, snap, events, missed>>

-----------------------------------------------------------------------------
(* The browser and the handler of its socket.                              *)

\* A new socket: the handler of /ws takes the snapshot before it awaits.
Connect ==
    /\ phase = "closed"
    /\ sock < MaxSock
    /\ sock' = sock + 1
    /\ phase' = "accepting"
    /\ snap' = [type |-> "snapshot", vals |-> lastVals, st |-> status,
                alarms |-> [i \in Aids |-> IF alarm[i].st \in Open THEN alarm[i] ELSE NoAlarm]]
    /\ missed' = {"topology"} \cup (IF statusPrev \in {"UNSENT", status} THEN {} ELSE {"status"})
    /\ UNCHANGED <<mes, feed, view, events>>

\* add: the socket is accepted and registered, ...
Register ==
    /\ phase = "accepting"
    /\ phase' = "greeting"
    /\ clients' = clients \cup {sock}
    /\ UNCHANGED <<mes, queue, pending, sending, sock, snap, view, events, missed>>

\* ... and the snapshot is sent.
Greet ==
    /\ phase = "greeting"
    /\ phase' = "open"
    /\ view' = Received(view, <<snap>>)
    /\ snap' = NoSnap
    /\ UNCHANGED <<mes, feed, sock, events, missed>>

\* The connection breaks; the handler removes the socket, unless add itself was
\* interrupted, whose call is outside the try.
Disconnect ==
    /\ phase # "closed"
    /\ phase' = "closed"
    /\ snap' = NoSnap
    /\ clients' = IF phase = "open" THEN clients \ {sock} ELSE clients
    /\ UNCHANGED <<mes, queue, pending, sending, sock, view, events, missed>>

-----------------------------------------------------------------------------
Init ==
    /\ alarm = [i \in Aids |-> NoAlarm]
    /\ lastVals = Nothing
    /\ status = "OK" /\ statusPrev = "UNSENT"
    /\ queue = <<>> /\ pending = Nothing
    /\ clients = {} /\ sending = Idle
    /\ sock = 0 /\ phase = "closed"
    /\ snap = NoSnap
    /\ view = [alarms |-> alarm, vals |-> Nothing, status |-> "NONE", topo |-> "NONE"]
    /\ events = 0
    /\ missed = {}

Hub == Flush(TRUE) \/ Flush(FALSE) \/ FlushFails

Next ==
    \/ Route \/ Purge \/ StatusChanges
    \/ \E i \in Aids : Ack(i)
    \/ Hub
    \/ \E s \in 1..MaxSock : Send(s) \/ SendFails(s) \/ SendTimesOut(s)
    \/ Connect \/ Register \/ Greet \/ Disconnect

Spec == Init /\ [][Next]_vars

-----------------------------------------------------------------------------
OpenAlarms(t) == {<<i, t[i]>> : i \in {j \in Aids : t[j].st \in Open}}
Delivered ==
    /\ queue = <<>> /\ pending = Nothing /\ sending = Idle
    /\ phase = "open" /\ sock \in clients

\* Once everything published has been delivered, a dashboard that was registered
\* before the next payload left shows exactly the open alarms of TWIN_ALARM, each
\* with its state and never one whose number was reused, and the newest value of
\* every item, whatever was coalesced, purged or reconnected on the way.
Converged ==
    Delivered /\ "payload" \notin missed =>
        /\ OpenAlarms(view.alarms) = OpenAlarms(alarm)
        /\ view.vals = lastVals

\* The status of a device is sent on changes only, compared with what was sent
\* last to whoever was there: a dashboard whose snapshot agreed with it shows the
\* status of the device once the hub has caught up.
StatusFollows == Delivered /\ missed \subseteq {"topology"} /\ statusPrev = status => view.status = status

\* Whatever a dashboard missed while it connected, and however its snapshot was
\* overtaken, from the first slow payload it gets as an open socket its topology
\* is that of the hub's last second.
TopologyHeals == Delivered /\ "topology" \notin missed => view.topo = statusPrev
=============================================================================
