---------------------------- MODULE EdgeDelivery ----------------------------
(***************************************************************************)
(* Store-and-forward from the Edge collector to the MES: the SQLite buffer *)
(* (edge/core.py, Buffer), the sender and purger tasks of the collector    *)
(* (edge/collector.py), the HTTP request between them, and the MES ledger  *)
(* IF_SENSOR_RAW (mes/store.py, ingest and purge).                         *)
(*                                                                         *)
(* Everything runs on asyncio loops, so a step of the model is the code    *)
(* between two awaits.  The sender awaits while its POST is in flight and  *)
(* while it backs off; samples, both purges, fault injection and an Edge   *)
(* restart may happen there.  The 5 s client timeout gives up on a request *)
(* without recalling it, so a request may be served after its sender has   *)
(* failed, retried or been restarted.                                      *)
(*                                                                         *)
(* Data.  A message is its number in msg_id; a row holds the messages of   *)
(* one sample.  Durations and clocks are abstracted: `cut' is the newest   *)
(* row (message) older than the retention limit.  Row ids and message      *)
(* numbers grow with created_at and collect_dt, so what a purge deletes is *)
(* a prefix.                                                               *)
(***************************************************************************)
EXTENDS Naturals, FiniteSets

CONSTANTS MaxSeq,      \* bound: messages numbered by the Edge
          BatchMax,    \* runtime.edge.batch_max
          MaxItems,    \* bound: items of one sample
          MaxFaults    \* bound: failed calls, restarts and kills together

ASSUME ConstantsAssumption ==
  /\ MaxSeq \in Nat
  /\ BatchMax \in Nat \ {0}
  /\ MaxItems \in Nat \ {0}
  /\ MaxFaults \in Nat

VARIABLES
  (* edge_buffer.db, survives a restart *)
  buffer,      \* table buffer: a set of rows
  lastRow,     \* sqlite_sequence of the AUTOINCREMENT key
  seq,         \* meta.seq: number of the last message
  sent,        \* meta.sent: items acknowledged
  resent,      \* meta.resent: of these, items sent as RESEND_YN=Y
  purged,      \* meta.purged: items deleted by the retention rule
  (* memory of the running EdgeCollector *)
  pc,          \* where _sender is: "ready", "posting" or "backoff"
  batch,       \* rows of the request being posted
  linkOk,      \* link_ok: "UNKNOWN" (None), "OK" or "DOWN"
  (* between the Edge and the MES *)
  net,         \* requests sent and not yet served
  posts,       \* number of the newest request
  reply,       \* answer waiting for the request being posted
  linkFault,   \* fault mes_link_down on EDGE-MES is active
  faults,      \* failures so far
  (* mes.db *)
  ledger,      \* MSG_IDs in IF_SENSOR_RAW
  (* history *)
  stored,      \* stored[m]: times m entered the ledger and was distributed
  erased,      \* erased[m]: times the MES purge removed m from the ledger
  expired,     \* messages deleted by the Edge retention rule
  tried,       \* messages posted since the collector (re)started
  prioOf,      \* prioOf[m]: priority m was enqueued with
  killed       \* a kill has separated a DELETE from its counter

dbVars == <<buffer, lastRow, seq, sent, resent, purged>>
senderVars == <<pc, batch, linkOk>>
netVars == <<net, posts, reply>>
mesVars == <<ledger, stored, erased>>
histVars == <<expired, tried, prioOf, killed>>
vars == <<dbVars, senderVars, netVars, linkFault, faults, mesVars, histVars>>

-----------------------------------------------------------------------------
PRIORITY_URGENT == 0
PRIORITY_NORMAL == 1

Msg == 1..MaxSeq

\* One row of table buffer; resend stands for attempts > 0 or buffered = 1.
Row == [id     : Nat,
        prio   : {PRIORITY_URGENT, PRIORITY_NORMAL},
        resend : BOOLEAN,
        msgs   : SUBSET Msg]

Request == [no : Nat, rows : SUBSET Row]

\* Answers to the request being posted: none yet, an HTTP error, or a 200
\* with the accepted MSG_IDs.
NoReply == [kind |-> "none", accepted |-> {}]
ErrorReply == [kind |-> "error", accepted |-> {}]
OkReply(A) == [kind |-> "ok", accepted |-> A]
Reply == [kind : {"none", "error", "ok"}, accepted : SUBSET Msg]

Items(rows) == UNION {r.msgs : r \in rows}
NItems(rows) == Cardinality(Items(rows))


-----------------------------------------------------------------------------
(* edge/core.py: Buffer *)

\* Seeded fault: the key of the newest row plus one, as SQLite picks it for a
\* key declared without AUTOINCREMENT.
NewRowIdReused(rows) ==
  CHOOSE i \in 1..(Cardinality(rows) + lastRow + 1) :
     /\ \A r \in rows : r.id < i
     /\ i = 1 \/ \E r \in rows : r.id = i - 1

\* The key AUTOINCREMENT gives to the next row.
NewRowId(rows) == lastRow + 1

\* Seeded fault: newest rows first.
PrecedesNewestFirst(r, s) == r.prio < s.prio \/ (r.prio = s.prio /\ r.id > s.id)

\* ORDER BY priority, id
Precedes(r, s) == r.prio < s.prio \/ (r.prio = s.prio /\ r.id < s.id)

\* Rows are taken in order until one no longer fits; the first always fits.
\* A sample has at least one item, so LIMIT max_items never cuts earlier.
NextBatch(rows) ==
  {r \in rows :
     LET upTo == {s \in rows : s = r \/ Precedes(s, r)}
     IN  upTo = {r} \/ NItems(upTo) <= BatchMax}

\* Seeded fault: only the row at the head of the queue is marked.
MarkFailedHead(rows) ==
  {[r EXCEPT !.resend = @ \/ \A s \in rows : ~Precedes(s, r)] : r \in rows}

\* UPDATE buffer SET attempts = attempts + 1, buffered = 1, on every row.
MarkFailedAll(rows) == {[r EXCEPT !.resend = TRUE] : r \in rows}

\* Seeded fault: only the first row of the batch is deleted.
AckFirstOnly(rows, acked) ==
  {r \in rows : \A a \in acked : r.id # a.id \/ \E b \in acked : b.id < a.id}

\* DELETE FROM buffer WHERE id=?, for the rows that were posted.
AckRows(rows, acked) == {r \in rows : \A a \in acked : r.id # a.id}

\* Seeded fault: rows are counted where items are meant.
PurgedRowCount(old) == Cardinality(old)

\* Seeded fault: the difference is taken the wrong way round.
PurgedNegative(old) == 0 - NItems(old)

\* SUM(n_items) of the rows about to be deleted.
PurgedCount(old) == NItems(old)

-----------------------------------------------------------------------------
(* edge/collector.py: _on_sample, _sender, _purger *)

\* A sample that passed the filter, with n items, is numbered and stored in
\* one transaction.  It is marked as buffered when the link is known down.
Enqueue(n, prio) ==
  /\ seq + n <= MaxSeq
  /\ seq' = seq + n
  /\ lastRow' = NewRowId(buffer)
  /\ buffer' = buffer \cup
       {[id |-> lastRow', prio |-> prio, resend |-> linkOk = "DOWN",
         msgs |-> (seq + 1)..(seq + n)]}
  /\ prioOf' = [m \in Msg |-> IF m \in (seq + 1)..(seq + n) THEN prio ELSE prioOf[m]]
  /\ UNCHANGED <<sent, resent, purged, senderVars, netVars, linkFault, faults,
                 mesVars, expired, tried, killed>>

\* _sender forms a batch and posts it; the await begins.
SendBatch ==
  /\ pc = "ready"
  /\ buffer # {}
  /\ ~linkFault
  /\ batch' = NextBatch(buffer)
  /\ pc' = "posting"
  /\ posts' = posts + 1
  /\ net' = net \cup {[no |-> posts', rows |-> batch']}
  /\ reply' = NoReply
  /\ tried' = tried \cup Items(batch')
  /\ UNCHANGED <<dbVars, linkOk, linkFault, faults, mesVars, expired, prioOf, killed>>

\* The except branch of _sender: the link is down, every waiting row is marked
\* for resending, and the sender sleeps.
SendFailed ==
  /\ pc' = "backoff"
  /\ linkOk' = "DOWN"
  /\ buffer' = MarkFailedAll(buffer)
  /\ batch' = {}
  /\ reply' = NoReply
  /\ UNCHANGED <<lastRow, seq, sent, resent, purged>>

\* The injected link fault raises before anything is posted.
SendRefused ==
  /\ pc = "ready"
  /\ buffer # {}
  /\ linkFault
  /\ SendFailed
  /\ UNCHANGED <<net, posts, linkFault, faults, mesVars, histVars>>

\* The POST raises: the connection is refused or breaks, or 5 s pass, also
\* when the MES has served the request and its answer is under way.  The
\* request is lost with the connection or stays on its way to the MES.
PostFails ==
  /\ pc = "posting"
  /\ faults < MaxFaults
  /\ faults' = faults + 1
  /\ net' \in {net, {q \in net : q.no # posts}}
  /\ SendFailed
  /\ UNCHANGED <<posts, linkFault, mesVars, histVars>>

\* raise_for_status, or an accepted list that misses an item of the batch.
PostRejected ==
  /\ pc = "posting"
  /\ \/ reply.kind = "error"
     \/ reply.kind = "ok" /\ ~(Items(batch) \subseteq reply.accepted)
  /\ SendFailed
  /\ UNCHANGED <<net, posts, linkFault, faults, mesVars, histVars>>

\* Everything posted was accepted: the rows are deleted and counted.
PostAccepted ==
  /\ pc = "posting"
  /\ reply.kind = "ok"
  /\ Items(batch) \subseteq reply.accepted
  /\ pc' = "ready"
  /\ linkOk' = "OK"
  /\ buffer' = AckRows(buffer, batch)
  /\ sent' = sent + NItems(batch)
  /\ resent' = resent + NItems({r \in batch : r.resend})
  /\ batch' = {}
  /\ reply' = NoReply
  /\ UNCHANGED <<lastRow, seq, purged, net, posts, linkFault, faults, mesVars, histVars>>

\* Seeded fault: the sender waits for a link that only it can find restored.
BackoffUntilLinkOk ==
  /\ pc = "backoff"
  /\ linkOk # "DOWN"
  /\ pc' = "ready"
  /\ UNCHANGED <<dbVars, batch, linkOk, netVars, linkFault, faults, mesVars, histVars>>

\* asyncio.sleep(backoff) ends.
BackoffEnds ==
  /\ pc = "backoff"
  /\ pc' = "ready"
  /\ UNCHANGED <<dbVars, batch, linkOk, netVars, linkFault, faults, mesVars, histVars>>

\* _purger: rows up to cut are past the retention limit.
Purge(cut) ==
  LET old == {r \in buffer : r.id <= cut} IN
  /\ old # {}
  /\ buffer' = buffer \ old
  /\ purged' = purged + PurgedCount(old)
  /\ expired' = expired \cup Items(old)
  /\ UNCHANGED <<lastRow, seq, sent, resent, senderVars, netVars, linkFault, faults,
                 mesVars, tried, prioOf, killed>>

-----------------------------------------------------------------------------
(* supervisor.py: restart_edge; and the death of the process *)

\* A new EdgeCollector over the same buffer; the cancelled POST is not marked
\* as failed, and the MES may still serve it.
FreshCollector ==
  /\ faults < MaxFaults
  /\ faults' = faults + 1
  /\ pc' = "ready"
  /\ batch' = {}
  /\ linkOk' = "UNKNOWN"
  /\ reply' = NoReply
  /\ tried' = {}

RestartEdge ==
  /\ FreshCollector
  /\ UNCHANGED <<dbVars, net, posts, linkFault, mesVars, expired, prioOf, killed>>

\* The process dies inside Buffer.ack, whose statements commit one by one:
\* some of the rows are deleted, and `sent' is counted only after them all.
KillInAck ==
  /\ pc = "posting"
  /\ reply.kind = "ok"
  /\ Items(batch) \subseteq reply.accepted
  /\ \E done \in SUBSET batch :
       /\ \A r \in done, s \in batch : Precedes(s, r) => s \in done
       /\ buffer' = AckRows(buffer, done)
       /\ \/ sent' = sent
          \/ done = batch /\ sent' = sent + NItems(batch)
  /\ killed' = TRUE
  /\ FreshCollector
  /\ UNCHANGED <<lastRow, seq, resent, purged, net, posts, linkFault, mesVars,
                 expired, prioOf>>

\* The process dies inside Buffer.purge, between the DELETE and the counter.
KillInPurge(cut) ==
  LET old == {r \in buffer : r.id <= cut} IN
  /\ old # {}
  /\ buffer' = buffer \ old
  /\ expired' = expired \cup Items(old)
  /\ killed' = TRUE
  /\ FreshCollector
  /\ UNCHANGED <<lastRow, seq, sent, resent, purged, net, posts, linkFault, mesVars,
                 prioOf>>

\* mes_link_down is injected or removed.
SetLinkFault ==
  /\ ~linkFault
  /\ faults < MaxFaults
  /\ faults' = faults + 1
  /\ linkFault' = TRUE
  /\ UNCHANGED <<dbVars, senderVars, netVars, mesVars, histVars>>

ClearLinkFault ==
  /\ linkFault
  /\ linkFault' = FALSE
  /\ UNCHANGED <<dbVars, senderVars, netVars, faults, mesVars, histVars>>

-----------------------------------------------------------------------------
(* mes/store.py: ingest, purge *)

\* The answer reaches the sender only if it still waits for this request.
Answer(q, r) == reply' = IF pc = "posting" /\ q.no = posts THEN r ELSE reply

\* Seeded fault: a plain INSERT, without OR IGNORE on MSG_ID.
FreshAll(msgs) == msgs

\* INSERT OR IGNORE on the unique MSG_ID: the rows that are new.
Fresh(msgs) == msgs \ ledger

\* accepted.append(it["msg_id"]), for duplicates as well.
Accepted(msgs) == msgs

\* One transaction: new messages enter the ledger and are distributed, all
\* are acknowledged.  Every equipment code is known: both sides read the same
\* equipment list.
Ingest(q) ==
  LET msgs == Items(q.rows) IN
  /\ q \in net
  /\ net' = net \ {q}
  /\ ledger' = ledger \cup Fresh(msgs)
  /\ stored' = [m \in Msg |-> stored[m] + (IF m \in Fresh(msgs) THEN 1 ELSE 0)]
  /\ Answer(q, OkReply(Accepted(msgs)))
  /\ UNCHANGED <<dbVars, senderVars, posts, linkFault, faults, erased, histVars>>

\* The transaction raises and is rolled back; the client gets a 500.
IngestFails(q) ==
  /\ q \in net
  /\ faults < MaxFaults
  /\ faults' = faults + 1
  /\ net' = net \ {q}
  /\ Answer(q, ErrorReply)
  /\ UNCHANGED <<dbVars, senderVars, posts, linkFault, mesVars, histVars>>

\* The daily purge removes ledger rows collected before its cutoff.
MesPurge(cut) ==
  LET old == {m \in ledger : m <= cut} IN
  /\ old # {}
  /\ ledger' = ledger \ old
  /\ erased' = [m \in Msg |-> erased[m] + (IF m \in old THEN 1 ELSE 0)]
  /\ UNCHANGED <<dbVars, senderVars, netVars, linkFault, faults, stored, histVars>>

-----------------------------------------------------------------------------
Init ==
  /\ buffer = {} /\ lastRow = 0 /\ seq = 0
  /\ sent = 0 /\ resent = 0 /\ purged = 0
  /\ pc = "ready" /\ batch = {} /\ linkOk = "UNKNOWN"
  /\ net = {} /\ posts = 0 /\ reply = NoReply
  /\ linkFault = FALSE /\ faults = 0
  /\ ledger = {}
  /\ stored = [m \in Msg |-> 0]
  /\ erased = [m \in Msg |-> 0]
  /\ expired = {} /\ tried = {} /\ killed = FALSE
  /\ prioOf = [m \in Msg |-> PRIORITY_NORMAL]

Sender == SendBatch \/ SendRefused \/ PostRejected \/ PostAccepted \/ BackoffEnds

Next ==
  \/ \E n \in 1..MaxItems, prio \in {PRIORITY_URGENT, PRIORITY_NORMAL} : Enqueue(n, prio)
  \/ Sender
  \/ PostFails
  \/ \E cut \in 1..lastRow : Purge(cut) \/ KillInPurge(cut)
  \/ RestartEdge
  \/ KillInAck
  \/ SetLinkFault
  \/ ClearLinkFault
  \/ \E q \in net : Ingest(q) \/ IngestFails(q)
  \/ \E cut \in Msg : MesPurge(cut)

Spec == Init /\ [][Next]_vars

\* The sender task is scheduled whenever it is not awaiting; the MES serves a
\* request that waits; injected link faults are removed.  Failures are bounded
\* by MaxFaults, so the link works from some point on.
FairSpec ==
  /\ Spec
  /\ WF_vars(Sender)
  /\ WF_vars(\E q \in net : q.no = posts /\ Ingest(q))
  /\ WF_vars(ClearLinkFault)

-----------------------------------------------------------------------------
Pending == Items(buffer)
Received == {m \in Msg : stored[m] > 0}

TypeOK ==
  /\ buffer \in SUBSET Row
  /\ lastRow \in Nat
  /\ seq \in 0..MaxSeq
  /\ sent \in Nat /\ resent \in Nat /\ purged \in Nat
  /\ pc \in {"ready", "posting", "backoff"}
  /\ batch \in SUBSET Row
  /\ linkOk \in {"UNKNOWN", "OK", "DOWN"}
  /\ net \in SUBSET Request
  /\ posts \in Nat
  /\ reply \in Reply
  /\ linkFault \in BOOLEAN
  /\ faults \in 0..MaxFaults
  /\ ledger \in SUBSET Msg
  /\ stored \in [Msg -> Nat]
  /\ erased \in [Msg -> Nat]
  /\ expired \in SUBSET Msg /\ tried \in SUBSET Msg
  /\ prioOf \in [Msg -> {PRIORITY_URGENT, PRIORITY_NORMAL}]
  /\ killed \in BOOLEAN

\* No message is lost: whatever was numbered is still in the buffer, or was
\* committed by the MES, or was dropped by the retention rule.  This is what
\* deleting rows only on a full acknowledgement, by keys that are never used
\* again, is for (EDG-07, AC-09, AC-10): an acknowledgement may come after the
\* purger has deleted its rows and new samples have come in.
NoLoss == \A m \in 1..seq : m \in Pending \/ m \in Received \/ m \in expired

\* MSG_ID deduplication: however often a batch is retried, a message enters
\* the ledger, and is distributed to the process tables, once for every time
\* the MES purge has forgotten it, plus one while it is there.
LedgerOnce ==
  \A m \in Msg : stored[m] = erased[m] + (IF m \in ledger THEN 1 ELSE 0)

\* What was posted before by this collector goes out as RESEND_YN=Y (EDG-08):
\* no row waiting to be posted was tried and left unmarked.
RetriesMarked ==
  pc # "posting" => \A r \in buffer : r.msgs \cap tried # {} => r.resend

\* EDG-08 and EDG-10 together: a message reaches the MES before any younger
\* message that is not more urgent, unless it expired; timeouts, retries and
\* late requests do not reorder the stream.
NotOvertaken ==
  \A m, k \in 1..seq :
    m < k /\ prioOf[m] <= prioOf[k] /\ k \in Received => m \in Received \cup expired

\* The buffer statistics leave no item out: what is neither waiting nor counted
\* as sent or purged does not exist, unless a kill separated the two.
Accounted == ~killed => seq <= sent + purged + Cardinality(Pending)

\* The sent counter never runs ahead of the MES: each item is counted once,
\* after it was committed, whatever was retried.
SentReached == sent <= Cardinality(Received)

\* The MES stores and distributes a MSG_ID once.
StoredOnce == \A m \in Msg : stored[m] <= 1

\* Once failures stop the buffer empties, whatever was retried and whatever
\* the MES already has: a retry is acknowledged like the first delivery.
\* A message never comes back to the buffer and their number is bounded, so this
\* says of each of them that it leaves.
Drains == []<>(Pending = {})

-----------------------------------------------------------------------------
(* The inductive invariant behind the safety properties, in parts. *)

\* Keys are given once and in order, rows share no message, and both orders
\* agree: this is what lets an acknowledgement delete by key.
RowsOK ==
  /\ \A r \in buffer : r.id <= lastRow /\ r.msgs \subseteq 1..seq
  /\ \A r, s \in buffer : r.id = s.id => r = s
  /\ \A r, s \in buffer : r.id < s.id => \A m \in r.msgs, k \in s.msgs : m < k
  /\ \A r \in buffer : \A m \in r.msgs : prioOf[m] = r.prio

\* A key remembered by the sender names the same messages or nothing.
BatchOK ==
  /\ \A b \in batch : b.id <= lastRow
  /\ \A b \in batch, r \in buffer : r.id = b.id => r.msgs = b.msgs

\* Requests carry only numbered messages, and with a message everything that
\* has to arrive before it and has not arrived.
NetOK ==
  \A q \in net :
    /\ Items(q.rows) \subseteq 1..seq
    /\ \A k \in Items(q.rows) : \A m \in 1..seq :
         m < k /\ prioOf[m] <= prioOf[k] => m \in Items(q.rows) \cup Received \cup expired

\* An acknowledgement names only what the MES has committed.
ReplyOK == reply.accepted \subseteq Received

\* Nothing with a number still to be given has been received or tried.
FutureOK == Received \subseteq 1..seq /\ tried \subseteq 1..seq

\* Tried rows are marked, or are in the batch being posted.
TriedOK ==
  \A r \in buffer : r.msgs \cap tried # {} =>
    r.resend \/ (pc = "posting" /\ \E b \in batch : b.id = r.id)

IInv ==
  /\ TypeOK /\ RowsOK /\ BatchOK /\ NetOK /\ ReplyOK /\ FutureOK /\ TriedOK
  /\ NoLoss /\ LedgerOnce /\ NotOvertaken

\* What the counters need beyond that: a message of the batch waits, if at all,
\* in the row the sender remembers, and what was counted as sent is neither
\* waiting nor in the batch, so that it cannot be counted again.
BatchApart ==
  \A b \in batch :
    /\ b.msgs \subseteq 1..seq
    /\ \A r \in buffer : r.id = b.id \/ r.msgs \cap b.msgs = {}

SentApart == sent <= Cardinality(Received \ (Pending \cup Items(batch)))

StatInv == BatchApart /\ SentApart /\ Accounted

-----------------------------------------------------------------------------
Abstract == INSTANCE Outbox WITH
  produced <- 1..seq, held <- Pending, delivered <- Received

\* The whole of it: every behaviour of the buffer, the sender, the network and
\* the MES is a behaviour of an at-least-once outbox.
ImplementsOutbox == Abstract!OutboxSpec

=============================================================================
