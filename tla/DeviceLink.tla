----------------------------- MODULE DeviceLink -----------------------------
(***************************************************************************)
(* One link to field devices and the polls that use it: the links of       *)
(* plc/link.py under BusScanner.poll and ModbusTcpDriver.poll, and the     *)
(* AsciiScaleDriver, against the servers of field/servers/servers.py.      *)
(*                                                                         *)
(* A request may be answered late, spoilt or not at all, and the client    *)
(* gives up after its timeout.  What keeps a late answer from being taken  *)
(* for that of a later request is that the connection is closed: answers   *)
(* written to a connection that is gone vanish.                            *)
(*                                                                         *)
(* Data.  A request is its number, unit and read group (function code); of *)
(* these a Modbus TCP answer repeats the number (the transaction id) and   *)
(* the group, an RTU answer the unit and the group, a scale nothing.       *)
(* Register contents do not matter: an answer carries words, refuses       *)
(* (an exception response, an unstable weight) or is spoilt (CRC, length). *)
(***************************************************************************)
EXTENDS Naturals, Sequences, SequencesExt

CONSTANTS
    Kinds,       \* classes of links
    Units,       \* slave addresses on the line
    NGroups,     \* read groups of a Modbus device
    Tries,       \* attempts per group: 1 + retries, 2 for ModbusTcpDriver
    MaxReq       \* bound: requests sent

ASSUME LinkAssumption ==
    /\ Kinds \subseteq {"rtu", "tcp", "serial", "ascii"}
    /\ NGroups \in Nat \ {0} /\ Tries \in Nat \ {0} /\ MaxReq \in Nat

VARIABLES
    kind,      \* the class of the link
    conn,      \* the open connection, 0 for none
    conns,     \* connections opened so far
    server,    \* requests the server still has to serve, in order of arrival
    stream,    \* answers on the open connection, not yet read
    pc,        \* "idle", "ask" or "wait"
    unit,      \* the device polled
    got,       \* answers accepted in this poll, by group
    tries,     \* failed attempts on the group now being read
    req,       \* number of the newest request
    (* history *)
    first,     \* the first request of this poll
    sample,    \* the newest poll that succeeded, and what it read
    mixed,     \* an answer to an earlier request was accepted
    abandoned  \* a request was given up: its answer may still come

vars == <<kind, conn, conns, server, stream, pc, unit, got, tries, req,
          first, sample, mixed, abandoned>>

\* The scale has one thing to say and is asked once per poll.
LastGroup == IF kind = "ascii" THEN 1 ELSE NGroups
Attempts == IF kind = "ascii" THEN 1 ELSE Tries
Group == Len(got) + 1

-----------------------------------------------------------------------------
(* The client.                                                             *)

\* Seeded fault: what a failed poll has read is left to the next one.
ReadsAtStartKept == got

\* reads = {}
ReadsAtStart == <<>>

\* A poll of device u begins with its first group.
PollStarts(u) ==
    /\ pc = "idle"
    /\ req < MaxReq
    /\ pc' = "ask"
    /\ unit' = u
    /\ got' = ReadsAtStart
    /\ tries' = 0
    /\ first' = req + 1
    /\ UNCHANGED <<kind, conn, conns, server, stream, req, sample, mixed, abandoned>>

\* _ensure and write: the connection is opened when there is none.
Ask ==
    /\ pc = "ask"
    /\ req < MaxReq
    /\ pc' = "wait"
    /\ req' = req + 1
    /\ conns' = IF conn = 0 THEN conns + 1 ELSE conns
    /\ conn' = IF conn = 0 THEN conns' ELSE conn
    /\ server' = Append(server, [conn |-> conn', req |-> req', unit |-> unit, group |-> Group])
    /\ UNCHANGED <<kind, stream, unit, got, tries, first, sample, mixed, abandoned>>

\* What the checks of read find wrong with an answer, in their order.  The
\* serial port does not look at the unit.
Verdict(a) ==
    IF kind = "tcp" /\ a.req # req THEN "tid"
    ELSE IF kind = "tcp" /\ a.refuses THEN "exception"
    ELSE IF a.spoilt THEN IF kind \in {"rtu", "serial"} THEN "crc" ELSE "frame"
    ELSE IF kind = "rtu" /\ a.unit # unit THEN "unit"
    ELSE IF kind # "ascii" /\ a.group # Group THEN "frame"
    ELSE IF a.refuses THEN "exception" ELSE "ok"

\* Seeded fault: a link keeps its stream when it has waited in vain.
ClosesOnError(error) == kind \in {"rtu", "tcp"} /\ error \in {"crc", "unit", "tid"}

\* The errors after which read closes the connection.
ClosesOn(error) ==
    CASE kind = "rtu" -> error \in {"timeout", "crc", "unit"}
      [] kind = "tcp" -> error \in {"timeout", "tid", "frame"}
      [] kind = "ascii" -> error = "timeout"
      [] kind = "serial" -> FALSE

\* An attempt fails and leaves rest unread: there is another one, or the poll
\* is over.
Fails(error, rest) ==
    /\ conn' = IF ClosesOn(error) THEN 0 ELSE conn
    /\ stream' = IF ClosesOn(error) THEN <<>> ELSE rest
    /\ tries' = tries + 1
    /\ pc' = IF tries + 1 < Attempts THEN "ask" ELSE "idle"
    /\ UNCHANGED <<kind, conns, server, unit, got, req, first, sample, mixed>>

\* No answer in time, or the connection breaks.
Timeout ==
    /\ pc = "wait"
    /\ Fails("timeout", stream)
    /\ abandoned' = TRUE

\* An answer is read and refused.
Refuse ==
    /\ pc = "wait" /\ stream # <<>>
    /\ Verdict(Head(stream)) # "ok"
    /\ Fails(Verdict(Head(stream)), Tail(stream))
    /\ UNCHANGED abandoned

\* An answer is accepted; the last one of a poll completes the sample.
Receive ==
    /\ pc = "wait" /\ stream # <<>>
    /\ Verdict(Head(stream)) = "ok"
    /\ got' = Append(got, Head(stream))
    /\ stream' = Tail(stream)
    /\ tries' = 0
    /\ pc' = IF Group = LastGroup THEN "idle" ELSE "ask"
    /\ sample' = IF Group = LastGroup THEN [unit |-> unit, first |-> first, reads |-> got'] ELSE sample
    /\ mixed' = (mixed \/ Head(stream).req # req)
    /\ UNCHANGED <<kind, conn, conns, server, unit, req, first, abandoned>>

\* The PLC or the collector is stopped: its tasks are cancelled where they wait,
\* then its links are closed.
Stop ==
    /\ conn # 0
    /\ pc' = "idle"
    /\ conn' = 0 /\ stream' = <<>>
    /\ abandoned' = (abandoned \/ pc = "wait")
    /\ UNCHANGED <<kind, conns, server, unit, got, tries, req, first, sample, mixed>>

-----------------------------------------------------------------------------
(* The servers and their devices.                                          *)

\* Whose turn it is: every connection has its task and serves its requests in
\* order, and on a bus the lock of the line lets one request be handled after
\* the other, those of closed connections included.
Turn(i) ==
    \A j \in 1..(i - 1) : kind \in {"tcp", "ascii"} /\ server[j].conn # server[i].conn

\* What the device may say to request q: nothing (sensor_disconnect, bus_cut),
\* its words, an exception or an unstable weight, and any of these spoilt
\* (crc_error).  How long it takes (sensor_delay) is when Serve happens.
Answers(q) ==
    {<<>>} \cup {<<[req |-> q.req, unit |-> q.unit, group |-> q.group, refuses |-> r, spoilt |-> s]>> :
                     r \in BOOLEAN, s \in BOOLEAN}

\* A request is served; what is written to a closed connection is lost, while a
\* serial line has only one other end.
Serve(i) ==
    /\ Turn(i)
    /\ server' = RemoveAt(server, i)
    /\ \E answers \in Answers(server[i]) :
         stream' = IF conn # 0 /\ (kind = "serial" \/ server[i].conn = conn)
                   THEN stream \o answers
                   ELSE stream
    /\ UNCHANGED <<kind, conn, conns, pc, unit, got, tries, req, first, sample, mixed, abandoned>>

-----------------------------------------------------------------------------
Init ==
    /\ kind \in Kinds
    /\ conn = 0 /\ conns = 0
    /\ server = <<>> /\ stream = <<>>
    /\ pc = "idle" /\ unit \in Units
    /\ got = <<>> /\ tries = 0
    /\ req = 0 /\ first = 0
    /\ sample = [unit |-> unit, first |-> 0, reads |-> <<>>]
    /\ mixed = FALSE /\ abandoned = FALSE

Next ==
    \/ \E u \in Units : PollStarts(u)
    \/ Ask \/ Timeout \/ Refuse \/ Receive \/ Stop
    \/ \E i \in DOMAIN server : Serve(i)

Spec == Init /\ [][Next]_vars

-----------------------------------------------------------------------------
\* A serial port keeps its stream whatever happens; what follows is promised
\* for it only as long as no request was given up.
Reliable == kind = "serial" => ~abandoned

\* link.py:44: no late answer is mixed in.  What read returns was sent in answer
\* to the very request it has made, however late answers come, however often
\* the device is asked again and whatever answers were spoilt in between.
NoLateAnswer == Reliable => ~mixed

\* A sample is of one device and one poll: all its groups are there, each read
\* from the device polled by a request of that poll, although polls are given up
\* half way or stopped and devices take turns on the line.
SampleOfOnePoll ==
    Reliable /\ sample.reads # <<>> =>
      /\ Len(sample.reads) = LastGroup
      /\ \A g \in DOMAIN sample.reads :
           /\ sample.reads[g].group = g
           /\ sample.reads[g].unit = sample.unit
           /\ sample.reads[g].req >= sample.first

=============================================================================
