------------------------- MODULE EdgeDeliveryProofs -------------------------
(***************************************************************************)
(* Proofs about EdgeDelivery for every number of messages, batch size,     *)
(* sample size and number of failures.                                     *)
(***************************************************************************)
EXTENDS EdgeDelivery, FiniteSetTheorems, TLAPS

\* Messages of a set of rows are messages, and there are finitely many.
LEMMA ItemsType ==
  ASSUME NEW rows \in SUBSET Row
  PROVE  Items(rows) \in SUBSET Msg /\ IsFiniteSet(Items(rows)) /\ NItems(rows) \in Nat
<1>1. Items(rows) \in SUBSET Msg
  BY DEF Items, Row
<1>2. IsFiniteSet(Msg)
  BY ConstantsAssumption, FS_Interval DEF Msg
<1>3. IsFiniteSet(Items(rows))
  BY <1>1, <1>2, FS_Subset
<1>4. NItems(rows) \in Nat
  BY <1>3, FS_CardinalityType DEF NItems
<1> QED BY <1>1, <1>3, <1>4

\* More rows hold at least as many items.
LEMMA NItemsMonotone ==
  ASSUME NEW rows \in SUBSET Row, NEW more \in SUBSET Row, rows \subseteq more
  PROVE  NItems(rows) <= NItems(more)
<1>1. Items(rows) \subseteq Items(more)
  BY DEF Items
<1> QED BY <1>1, ItemsType, FS_Subset DEF NItems

\* The operators on the buffer keep its type.
LEMMA BufferOpsType ==
  ASSUME NEW rows \in SUBSET Row, NEW acked \in SUBSET Row
  PROVE  /\ NextBatch(rows) \in SUBSET rows
         /\ MarkFailedAll(rows) \in SUBSET Row
         /\ AckRows(rows, acked) \in SUBSET rows
BY DEF NextBatch, MarkFailedAll, AckRows, Row

LEMMA InitTypeOK == Init => TypeOK
<1> SUFFICES ASSUME Init PROVE TypeOK
  OBVIOUS
<1>1. 0 \in 0..MaxSeq /\ 0 \in 0..MaxFaults
  BY ConstantsAssumption
<1>2. NoReply \in Reply
  BY DEF NoReply, Reply
<1>3. /\ stored \in [Msg -> Nat] /\ erased \in [Msg -> Nat]
      /\ prioOf \in [Msg -> {PRIORITY_URGENT, PRIORITY_NORMAL}]
  BY DEF Init
<1> QED BY <1>1, <1>2, <1>3 DEF Init, TypeOK

\* The step of the sender that fails, whatever it failed on.
LEMMA SendFailedType ==
  ASSUME TypeOK, SendFailed
  PROVE  /\ buffer' \in SUBSET Row /\ batch' \in SUBSET Row
         /\ pc' \in {"ready", "posting", "backoff"}
         /\ linkOk' \in {"UNKNOWN", "OK", "DOWN"}
         /\ reply' \in Reply
         /\ lastRow' \in Nat /\ seq' \in 0..MaxSeq
         /\ sent' \in Nat /\ resent' \in Nat /\ purged' \in Nat
BY BufferOpsType DEF TypeOK, SendFailed, Reply, NoReply

LEMMA NextTypeOK == TypeOK /\ [Next]_vars => TypeOK'
<1> SUFFICES ASSUME TypeOK, [Next]_vars PROVE TypeOK'
  OBVIOUS
<1> USE ConstantsAssumption
<1>1. ASSUME NEW n \in 1..MaxItems, NEW prio \in {PRIORITY_URGENT, PRIORITY_NORMAL}, Enqueue(n, prio)
      PROVE  TypeOK'
  <2> DEFINE new == [id |-> lastRow', prio |-> prio, resend |-> linkOk = "DOWN",
                     msgs |-> (seq + 1)..(seq + n)]
  <2>1. lastRow' \in Nat /\ seq' \in 0..MaxSeq
    BY <1>1 DEF Enqueue, TypeOK, NewRowId
  <2>2. (seq + 1)..(seq + n) \in SUBSET Msg
    BY <1>1 DEF Enqueue, TypeOK, Msg
  <2>3. new \in Row
    BY <2>1, <2>2 DEF Row
  <2>4. buffer' = buffer \cup {new}
    BY <1>1 DEF Enqueue
  <2>5. prioOf' \in [Msg -> {PRIORITY_URGENT, PRIORITY_NORMAL}]
    BY <1>1 DEF Enqueue, TypeOK
  <2> HIDE DEF new
  <2> QED BY <1>1, <2>1, <2>3, <2>4, <2>5 DEF Enqueue, TypeOK, senderVars, netVars, mesVars
<1>2. CASE SendBatch
  <2>1. batch' \in SUBSET Row
    BY <1>2, BufferOpsType DEF SendBatch, TypeOK
  <2>2. Items(batch') \in SUBSET Msg
    BY <2>1, ItemsType
  <2>3. posts' \in Nat /\ net' \in SUBSET Request /\ reply' \in Reply
    BY <1>2, <2>1 DEF SendBatch, TypeOK, Request, Reply, NoReply
  <2> QED BY <1>2, <2>1, <2>2, <2>3 DEF SendBatch, TypeOK, dbVars, mesVars
<1>3. CASE SendRefused
  BY <1>3, SendFailedType DEF SendRefused, TypeOK, mesVars, histVars
<1>4. CASE PostFails
  BY <1>4, SendFailedType DEF PostFails, TypeOK, mesVars, histVars
<1>5. CASE PostRejected
  BY <1>5, SendFailedType DEF PostRejected, TypeOK, mesVars, histVars
<1>6. CASE PostAccepted
  <2>1. buffer' \in SUBSET Row
    BY <1>6, BufferOpsType DEF PostAccepted, TypeOK
  <2>2. NItems(batch) \in Nat /\ NItems({r \in batch : r.resend}) \in Nat
    BY ItemsType DEF TypeOK
  <2> QED BY <1>6, <2>1, <2>2 DEF PostAccepted, TypeOK, Reply, NoReply, mesVars, histVars
<1>7. CASE BackoffEnds
  BY <1>7 DEF BackoffEnds, TypeOK, dbVars, netVars, mesVars, histVars
<1>8. ASSUME NEW cut \in 1..lastRow, Purge(cut)
      PROVE  TypeOK'
  <2> DEFINE old == {r \in buffer : r.id <= cut}
  <2>1. old \in SUBSET Row
    BY DEF TypeOK
  <2>2. NItems(old) \in Nat /\ Items(old) \in SUBSET Msg
    BY <2>1, ItemsType
  <2> QED BY <1>8, <2>2 DEF Purge, PurgedCount, TypeOK, senderVars, netVars, mesVars
<1>9. ASSUME NEW cut \in 1..lastRow, KillInPurge(cut)
      PROVE  TypeOK'
  <2> DEFINE old == {r \in buffer : r.id <= cut}
  <2>1. old \in SUBSET Row
    BY DEF TypeOK
  <2>2. Items(old) \in SUBSET Msg
    BY <2>1, ItemsType
  <2> QED BY <1>9, <2>2 DEF KillInPurge, FreshCollector, TypeOK, mesVars, Reply, NoReply
<1>10. CASE RestartEdge
  BY <1>10 DEF RestartEdge, FreshCollector, TypeOK, dbVars, mesVars, Reply, NoReply
<1>11. CASE KillInAck
  <2>1. NItems(batch) \in Nat
    BY ItemsType DEF TypeOK
  <2>2. sent' \in Nat
    BY <1>11, <2>1 DEF KillInAck, TypeOK
  <2>3. PICK done \in SUBSET batch : buffer' = AckRows(buffer, done)
    BY <1>11 DEF KillInAck
  <2>4. buffer' \in SUBSET Row
    BY <2>3, BufferOpsType DEF TypeOK
  <2> QED BY <1>11, <2>2, <2>4 DEF KillInAck, FreshCollector, TypeOK, mesVars, Reply, NoReply
<1>12. CASE SetLinkFault
  BY <1>12 DEF SetLinkFault, TypeOK, dbVars, senderVars, netVars, mesVars, histVars
<1>13. CASE ClearLinkFault
  BY <1>13 DEF ClearLinkFault, TypeOK, dbVars, senderVars, netVars, mesVars, histVars
<1>14. ASSUME NEW q \in net, Ingest(q)
       PROVE  TypeOK'
  <2>1. Items(q.rows) \in SUBSET Msg
    BY ItemsType DEF TypeOK, Request
  <2>2. stored' \in [Msg -> Nat] /\ ledger' \in SUBSET Msg /\ net' \in SUBSET Request
    BY <1>14, <2>1 DEF Ingest, Fresh, TypeOK
  <2>3. reply' \in Reply
    BY <1>14, <2>1 DEF Ingest, Answer, OkReply, Accepted, TypeOK, Reply
  <2> QED BY <1>14, <2>2, <2>3 DEF Ingest, TypeOK, dbVars, senderVars, histVars
<1>15. ASSUME NEW q \in net, IngestFails(q)
       PROVE  TypeOK'
  BY <1>15 DEF IngestFails, Answer, ErrorReply, Reply, TypeOK, dbVars, senderVars, mesVars, histVars
<1>16. ASSUME NEW cut \in Msg, MesPurge(cut)
       PROVE  TypeOK'
  <2>1. erased' \in [Msg -> Nat]
    BY <1>16 DEF MesPurge, TypeOK
  <2> QED BY <1>16, <2>1 DEF MesPurge, TypeOK, dbVars, senderVars, netVars, histVars
<1>17. CASE UNCHANGED vars
  BY <1>17 DEF vars, TypeOK, dbVars, senderVars, netVars, mesVars, histVars
<1> QED
  BY <1>1, <1>2, <1>3, <1>4, <1>5, <1>6, <1>7, <1>8, <1>9, <1>10, <1>11, <1>12, <1>13,
     <1>14, <1>15, <1>16, <1>17 DEF Next, Sender

\* Every variable keeps its type in every behaviour of the buffer, the sender
\* and the MES ledger.
THEOREM TypeCorrect == Spec => []TypeOK
BY InitTypeOK, NextTypeOK, PTL DEF Spec

-----------------------------------------------------------------------------
(* Facts shared by several actions. *)

\* Rows only leave the buffer, and the sender keeps or forgets its batch.
LEMMA ShrinkRows ==
  ASSUME IInv, buffer' \subseteq buffer, lastRow' = lastRow, seq' = seq, prioOf' = prioOf,
         batch' = batch \/ batch' = {}
  PROVE  RowsOK' /\ BatchOK'
BY DEF IInv, RowsOK, BatchOK

\* Marking rows for resending changes nothing else about them.
LEMMA MarkRows ==
  ASSUME IInv, SendFailed, prioOf' = prioOf
  PROVE  RowsOK' /\ BatchOK' /\ TriedOK' /\ Pending' = Pending
<1>1. \A r \in buffer' : /\ r.resend = TRUE
                         /\ \E s \in buffer : r.id = s.id /\ r.prio = s.prio /\ r.msgs = s.msgs
  BY DEF SendFailed, MarkFailedAll, IInv, TypeOK, Row
<1>2. \A s \in buffer : \E r \in buffer' : r.id = s.id /\ r.prio = s.prio /\ r.msgs = s.msgs
  <2> TAKE s \in buffer
  <2>1. [s EXCEPT !.resend = TRUE] \in buffer'
    BY DEF SendFailed, MarkFailedAll
  <2>2. s \in Row
    BY DEF IInv, TypeOK
  <2> QED BY <2>1, <2>2 DEF Row
<1>3. buffer' \in SUBSET Row
  BY SendFailedType DEF IInv
<1>4. \A r, s \in buffer' : r.id = s.id => r = s
  BY <1>1, <1>3 DEF IInv, RowsOK, Row
<1>5. RowsOK'
  BY <1>1, <1>4 DEF IInv, RowsOK, SendFailed
<1>6. BatchOK'
  BY DEF BatchOK, SendFailed
<1>7. TriedOK'
  BY <1>1 DEF TriedOK
<1>8. Pending' = Pending
  <2>1. \A m : m \in Pending <=> \E s \in buffer : m \in s.msgs
    BY DEF Pending, Items
  <2>2. \A m : m \in Pending' <=> \E r \in buffer' : m \in r.msgs
    BY DEF Pending, Items
  <2>3. \A m : m \in Pending' <=> m \in Pending
    BY <1>1, <1>2, <2>1, <2>2
  <2> QED BY <2>3
<1> QED BY <1>5, <1>6, <1>7, <1>8

\* Requests leave the network while the MES and the retention rule only learn
\* more.
LEMMA ShrinkNet ==
  ASSUME IInv, net' \subseteq net, seq' = seq, prioOf' = prioOf,
         Received \subseteq Received', expired \subseteq expired'
  PROVE  NetOK'
BY DEF IInv, NetOK

\* The history properties when the MES commits nothing.
LEMMA QuietMes ==
  ASSUME IInv, stored' = stored, seq' = seq, prioOf' = prioOf, expired \subseteq expired'
  PROVE  /\ Received' = Received
         /\ NotOvertaken'
         /\ (reply' = reply \/ reply' = NoReply \/ reply' = ErrorReply) => ReplyOK'
         /\ (tried' = tried \/ tried' = {}) => FutureOK'
         /\ Pending' = Pending => NoLoss'
         /\ (ledger' = ledger /\ erased' = erased) => LedgerOnce'
<1>1. Received' = Received
  BY DEF Received
<1>2. NotOvertaken'
  BY <1>1 DEF IInv, NotOvertaken
<1>3. (reply' = reply \/ reply' = NoReply \/ reply' = ErrorReply) => ReplyOK'
  BY <1>1 DEF IInv, ReplyOK, NoReply, ErrorReply
<1>4. (tried' = tried \/ tried' = {}) => FutureOK'
  BY <1>1 DEF IInv, FutureOK
<1>5. Pending' = Pending => NoLoss'
  BY <1>1 DEF IInv, NoLoss
<1>6. (ledger' = ledger /\ erased' = erased) => LedgerOnce'
  BY DEF IInv, LedgerOnce
<1> QED BY <1>1, <1>2, <1>3, <1>4, <1>5, <1>6

\* A batch is closed under the send order.
LEMMA BatchIsPrefix ==
  ASSUME NEW rows \in SUBSET Row, NEW r \in NextBatch(rows), NEW s \in rows, Precedes(s, r)
  PROVE  s \in NextBatch(rows)
<1> DEFINE UpTo(x) == {y \in rows : y = x \/ Precedes(y, x)}
<1>1. r \in rows /\ (UpTo(r) = {r} \/ NItems(UpTo(r)) <= BatchMax)
  BY DEF NextBatch
<1>2. s # r
  BY DEF Precedes, Row, PRIORITY_URGENT, PRIORITY_NORMAL
<1>3. s \in UpTo(r)
  OBVIOUS
<1>4. NItems(UpTo(r)) <= BatchMax
  BY <1>1, <1>2, <1>3
<1>5. UpTo(s) \subseteq UpTo(r)
  BY <1>1 DEF Precedes, Row, PRIORITY_URGENT, PRIORITY_NORMAL
<1>6. NItems(UpTo(s)) <= NItems(UpTo(r)) /\ NItems(UpTo(s)) \in Nat /\ NItems(UpTo(r)) \in Nat
  <2>1. UpTo(s) \in SUBSET Row /\ UpTo(r) \in SUBSET Row
    OBVIOUS
  <2> HIDE DEF UpTo
  <2> QED BY <2>1, <1>5, NItemsMonotone, ItemsType
<1>7. NItems(UpTo(s)) <= BatchMax
  <2> HIDE DEF UpTo
  <2> QED BY <1>4, <1>6, ConstantsAssumption
<1> QED BY <1>7 DEF NextBatch

\* Rows may go when their messages are with the MES or have expired.
LEMMA LetGo ==
  ASSUME IInv, buffer' \subseteq buffer, seq' = seq, stored' = stored, expired \subseteq expired',
         \A r \in buffer : r \in buffer' \/ r.msgs \subseteq Received \cup expired'
  PROVE  NoLoss'
<1>1. Received' = Received
  BY DEF Received
<1>2. SUFFICES ASSUME NEW m \in 1..seq, m \in Pending
               PROVE  m \in Pending' \/ m \in Received \/ m \in expired'
  BY <1>1 DEF IInv, NoLoss
<1>3. PICK r \in buffer : m \in r.msgs
  BY <1>2 DEF Pending, Items
<1> QED BY <1>3 DEF Pending, Items

-----------------------------------------------------------------------------
(* One lemma per action. *)

LEMMA EnqueueIInv ==
  ASSUME IInv, TypeOK', NEW n \in 1..MaxItems,
         NEW prio \in {PRIORITY_URGENT, PRIORITY_NORMAL}, Enqueue(n, prio)
  PROVE  IInv'
<1> DEFINE new == [id |-> lastRow + 1, prio |-> prio, resend |-> linkOk = "DOWN",
                   msgs |-> (seq + 1)..(seq + n)]
<1>1. /\ buffer' = buffer \cup {new} /\ lastRow' = lastRow + 1 /\ seq' = seq + n
      /\ seq \in Nat /\ n \in Nat /\ lastRow \in Nat /\ seq' <= MaxSeq
  BY ConstantsAssumption DEF Enqueue, NewRowId, IInv, TypeOK
<1>2. /\ batch' = batch /\ net' = net /\ reply' = reply /\ pc' = pc
      /\ stored' = stored /\ erased' = erased /\ ledger' = ledger
      /\ expired' = expired /\ tried' = tried
  BY DEF Enqueue, senderVars, netVars, mesVars
<1>3. Received' = Received
  BY <1>2 DEF Received
<1>4. \A m \in 1..seq : prioOf'[m] = prioOf[m]
  BY <1>1, ConstantsAssumption DEF Enqueue, Msg
<1>5. new.id = lastRow + 1 /\ new.prio = prio /\ new.msgs = (seq + 1)..(seq + n)
  OBVIOUS
<1>6. \A m \in new.msgs : prioOf'[m] = prio
  BY <1>1, <1>5, ConstantsAssumption DEF Enqueue, Msg
<1>7. \A r \in buffer : r.id \in Nat /\ r.id <= lastRow /\ r.msgs \subseteq 1..seq
  BY DEF IInv, RowsOK, TypeOK, Row
<1> HIDE DEF new
<1>8. RowsOK'
  <2>1. \A r \in buffer' : r.id <= lastRow' /\ r.msgs \subseteq 1..seq'
    BY <1>1, <1>5, <1>7
  <2>2. \A r, s \in buffer' : r.id = s.id => r = s
    BY <1>1, <1>5, <1>7 DEF IInv, RowsOK
  <2>3. \A r, s \in buffer' : r.id < s.id => \A m \in r.msgs, k \in s.msgs : m < k
    BY <1>1, <1>5, <1>7 DEF IInv, RowsOK
  <2>4. \A r \in buffer' : \A m \in r.msgs : prioOf'[m] = r.prio
    BY <1>1, <1>4, <1>5, <1>6, <1>7 DEF IInv, RowsOK
  <2> QED BY <2>1, <2>2, <2>3, <2>4 DEF RowsOK
<1>9. BatchOK'
  <2>1. \A b \in batch : b.id \in Nat /\ b.id <= lastRow
    BY DEF IInv, BatchOK, TypeOK, Row
  <2> QED BY <1>1, <1>2, <1>5, <2>1 DEF IInv, BatchOK
<1>10. NetOK'
  <2> SUFFICES ASSUME NEW q \in net
               PROVE  /\ Items(q.rows) \subseteq 1..seq'
                      /\ \A k \in Items(q.rows) : \A m \in 1..seq' :
                           m < k /\ prioOf'[m] <= prioOf'[k] =>
                             m \in Items(q.rows) \cup Received \cup expired
    BY <1>2, <1>3 DEF NetOK
  <2>1. /\ Items(q.rows) \subseteq 1..seq
        /\ \A k \in Items(q.rows) : \A m \in 1..seq :
             m < k /\ prioOf[m] <= prioOf[k] => m \in Items(q.rows) \cup Received \cup expired
    BY DEF IInv, NetOK
  <2> QED BY <2>1, <1>1, <1>4
<1>11. ReplyOK' /\ FutureOK'
  BY <1>1, <1>2, <1>3 DEF IInv, ReplyOK, FutureOK
<1>12. TriedOK'
  <2>1. new.msgs \cap tried = {}
    BY <1>1, <1>5 DEF IInv, FutureOK
  <2> QED BY <1>1, <1>2, <2>1 DEF IInv, TriedOK
<1>13. NoLoss'
  <2> SUFFICES ASSUME NEW m \in 1..seq'
               PROVE  m \in Pending' \/ m \in Received \/ m \in expired
    BY <1>2, <1>3 DEF NoLoss
  <2>1. CASE m \in 1..seq
    <3>1. Pending \subseteq Pending'
      BY <1>1 DEF Pending, Items
    <3> QED BY <2>1, <3>1 DEF IInv, NoLoss
  <2>2. CASE m \notin 1..seq
    BY <1>1, <1>5, <2>2 DEF Pending, Items
  <2> QED BY <2>1, <2>2
<1>14. LedgerOnce'
  BY <1>2 DEF IInv, LedgerOnce
<1>15. NotOvertaken'
  BY <1>1, <1>2, <1>3, <1>4 DEF IInv, NotOvertaken, FutureOK
<1> QED
  BY <1>8, <1>9, <1>10, <1>11, <1>12, <1>13, <1>14, <1>15 DEF IInv

LEMMA SendBatchIInv ==
  ASSUME IInv, TypeOK', SendBatch
  PROVE  IInv'
<1>1. /\ buffer' = buffer /\ lastRow' = lastRow /\ seq' = seq /\ prioOf' = prioOf
      /\ batch' = NextBatch(buffer) /\ pc' = "posting" /\ reply' = NoReply
      /\ net' = net \cup {[no |-> posts', rows |-> batch']}
      /\ stored' = stored /\ erased' = erased /\ ledger' = ledger
      /\ expired' = expired /\ tried' = tried \cup Items(batch')
  BY DEF SendBatch, dbVars, mesVars
<1>2. batch' \subseteq buffer /\ buffer \in SUBSET Row
  BY <1>1, BufferOpsType DEF IInv, TypeOK
<1>3. Received' = Received
  BY <1>1 DEF Received
<1>4. Items(batch') \subseteq 1..seq
  BY <1>2 DEF Items, IInv, RowsOK
<1>5. RowsOK'
  BY <1>1 DEF IInv, RowsOK
<1>6. BatchOK'
  BY <1>1, <1>2 DEF IInv, RowsOK, BatchOK
<1>7. ASSUME NEW k \in Items(batch'), NEW m \in 1..seq, m < k, prioOf[m] <= prioOf[k]
      PROVE  m \in Items(batch') \cup Received \cup expired
  <2>1. CASE m \in Pending
    <3>1. PICK s \in buffer : m \in s.msgs
      BY <2>1 DEF Pending, Items
    <3>2. PICK r \in batch' : k \in r.msgs
      BY <1>7 DEF Items
    <3>3. s.id \in Nat /\ r.id \in Nat /\ s.prio = prioOf[m] /\ r.prio = prioOf[k]
      BY <1>2, <3>1, <3>2 DEF IInv, RowsOK, Row
    <3>4. s.id <= r.id
      <4>1. SUFFICES ASSUME r.id < s.id PROVE FALSE
        BY <3>3
      <4>2. k < m
        BY <1>2, <3>1, <3>2, <4>1 DEF IInv, RowsOK
      <4>3. k \in Nat /\ m \in Nat
        BY <1>4, <1>7
      <4> QED BY <1>7, <4>2, <4>3
    <3>5. CASE s.id = r.id
      BY <1>2, <3>1, <3>2, <3>5 DEF IInv, RowsOK, Items
    <3>6. CASE s.id < r.id
      <4>1. Precedes(s, r)
        BY <1>2, <1>7, <3>1, <3>2, <3>3, <3>6 DEF Precedes, Row, PRIORITY_URGENT, PRIORITY_NORMAL
      <4>2. s \in batch'
        BY <1>1, <1>2, <3>1, <3>2, <4>1, BatchIsPrefix
      <4> QED BY <3>1, <4>2 DEF Items
    <3> QED BY <3>3, <3>4, <3>5, <3>6
  <2>2. CASE m \notin Pending
    BY <2>2 DEF IInv, NoLoss
  <2> QED BY <2>1, <2>2
<1>8. NetOK'
  <2> DEFINE req == [no |-> posts', rows |-> batch']
  <2>1. req.rows = batch'
    OBVIOUS
  <2> HIDE DEF req
  <2>2. net' = net \cup {req}
    BY <1>1 DEF req
  <2>3. \A q \in net :
          /\ Items(q.rows) \subseteq 1..seq
          /\ \A k \in Items(q.rows) : \A m \in 1..seq :
               m < k /\ prioOf[m] <= prioOf[k] => m \in Items(q.rows) \cup Received \cup expired
    BY DEF IInv, NetOK
  <2>4. /\ Items(req.rows) \subseteq 1..seq
        /\ \A k \in Items(req.rows) : \A m \in 1..seq :
             m < k /\ prioOf[m] <= prioOf[k] => m \in Items(req.rows) \cup Received \cup expired
    BY <1>4, <1>7, <2>1
  <2> QED BY <1>1, <1>3, <2>2, <2>3, <2>4 DEF NetOK
<1>9. TriedOK'
  <2> SUFFICES ASSUME NEW r \in buffer, r.msgs \cap tried' # {}
               PROVE  r.resend \/ \E b \in batch' : b.id = r.id
    BY <1>1 DEF TriedOK
  <2>1. CASE r.msgs \cap tried # {}
    BY <2>1 DEF IInv, TriedOK, SendBatch
  <2>2. CASE r.msgs \cap Items(batch') # {}
    <3>1. PICK m \in r.msgs, b \in batch' : m \in b.msgs
      BY <2>2 DEF Items
    <3>2. m < m \/ b.id = r.id
      BY <1>2, <3>1 DEF IInv, RowsOK, Row
    <3>3. m \in Nat
      BY <3>1 DEF IInv, RowsOK
    <3> QED BY <3>2, <3>3
  <2> QED BY <1>1, <2>1, <2>2
<1>10. FutureOK'
  BY <1>1, <1>3, <1>4 DEF IInv, FutureOK
<1>11. ReplyOK' /\ LedgerOnce' /\ NotOvertaken' /\ NoLoss'
  BY <1>1, QuietMes DEF Pending
<1> QED BY <1>5, <1>6, <1>8, <1>9, <1>10, <1>11 DEF IInv

\* The failing branch of the sender, after whatever it failed on.
LEMMA SendFailedIInv ==
  ASSUME IInv, TypeOK', SendFailed, net' \subseteq net,
         stored' = stored, erased' = erased, ledger' = ledger,
         expired' = expired, tried' = tried, prioOf' = prioOf
  PROVE  IInv'
<1>1. seq' = seq /\ reply' = NoReply
  BY DEF SendFailed
<1>2. RowsOK' /\ BatchOK' /\ TriedOK' /\ Pending' = Pending
  BY MarkRows
<1>3. Received' = Received /\ ReplyOK' /\ FutureOK' /\ LedgerOnce' /\ NotOvertaken' /\ NoLoss'
  BY <1>1, <1>2, QuietMes
<1>4. NetOK'
  BY <1>1, <1>3, ShrinkNet
<1> QED BY <1>2, <1>3, <1>4 DEF IInv

LEMMA PostAcceptedIInv ==
  ASSUME IInv, TypeOK', PostAccepted
  PROVE  IInv'
<1>1. /\ buffer' = AckRows(buffer, batch) /\ lastRow' = lastRow /\ seq' = seq /\ prioOf' = prioOf
      /\ batch' = {} /\ reply' = NoReply /\ net' = net
      /\ stored' = stored /\ erased' = erased /\ ledger' = ledger
      /\ expired' = expired /\ tried' = tried
  BY DEF PostAccepted, mesVars, histVars
<1>2. buffer' \subseteq buffer
  BY <1>1 DEF AckRows
<1>3. RowsOK' /\ BatchOK'
  BY <1>1, <1>2, ShrinkRows
<1>4. Received' = Received /\ ReplyOK' /\ FutureOK' /\ LedgerOnce' /\ NotOvertaken'
  BY <1>1, QuietMes
<1>5. NetOK'
  BY <1>1, <1>4, ShrinkNet
<1>6. TriedOK'
  BY <1>1 DEF IInv, TriedOK, AckRows
<1>7. \A r \in buffer : r \in buffer' \/ r.msgs \subseteq Received
  <2> SUFFICES ASSUME NEW r \in buffer, r \notin buffer' PROVE r.msgs \subseteq Received
    OBVIOUS
  <2>1. PICK b \in batch : b.id = r.id
    BY <1>1 DEF AckRows
  <2>2. r.msgs = b.msgs
    BY <2>1 DEF IInv, BatchOK
  <2>3. b.msgs \subseteq reply.accepted
    BY <2>1 DEF PostAccepted, Items
  <2> QED BY <2>2, <2>3 DEF IInv, ReplyOK
<1>8. NoLoss'
  BY <1>1, <1>2, <1>7, LetGo
<1> QED BY <1>3, <1>4, <1>5, <1>6, <1>8 DEF IInv

\* The buffer, the batch and the MES stay as they are.
LEMMA QuietIInv ==
  ASSUME IInv, TypeOK', buffer' = buffer, lastRow' = lastRow, seq' = seq, prioOf' = prioOf,
         batch' = batch, net' \subseteq net, expired' = expired, tried' = tried,
         pc' = pc \/ pc = "backoff",
         reply' = reply \/ reply' = NoReply \/ reply' = ErrorReply,
         stored' = stored, erased' = erased, ledger' = ledger
  PROVE  IInv'
<1>1. Received' = Received /\ ReplyOK' /\ FutureOK' /\ LedgerOnce' /\ NotOvertaken' /\ NoLoss'
  BY QuietMes DEF Pending
<1>2. NetOK'
  BY <1>1, ShrinkNet
<1>3. RowsOK' /\ BatchOK'
  BY ShrinkRows
<1>4. TriedOK'
  BY DEF IInv, TriedOK
<1> QED BY <1>1, <1>2, <1>3, <1>4 DEF IInv

\* Rows past retention leave, in the purger or in a kill inside it.
LEMMA ExpireIInv ==
  ASSUME IInv, TypeOK', NEW cut \in 1..lastRow,
         buffer' = buffer \ {r \in buffer : r.id <= cut},
         expired' = expired \cup Items({r \in buffer : r.id <= cut}),
         lastRow' = lastRow, seq' = seq, prioOf' = prioOf, net' = net,
         stored' = stored, erased' = erased, ledger' = ledger,
         \/ batch' = batch /\ pc' = pc /\ reply' = reply /\ tried' = tried
         \/ batch' = {} /\ reply' = NoReply /\ tried' = {}
  PROVE  IInv'
<1>1. buffer' \subseteq buffer /\ expired \subseteq expired'
  OBVIOUS
<1>2. RowsOK' /\ BatchOK'
  BY <1>1, ShrinkRows
<1>3. Received' = Received /\ ReplyOK' /\ FutureOK' /\ LedgerOnce' /\ NotOvertaken'
  BY <1>1, QuietMes
<1>4. NetOK'
  BY <1>1, <1>3, ShrinkNet
<1>5. TriedOK'
  BY <1>1 DEF IInv, TriedOK
<1>6. \A r \in buffer : r \in buffer' \/ r.msgs \subseteq expired'
  BY DEF Items
<1>7. NoLoss'
  BY <1>1, <1>6, LetGo
<1> QED BY <1>2, <1>3, <1>4, <1>5, <1>7 DEF IInv

LEMMA RestartEdgeIInv ==
  ASSUME IInv, TypeOK', RestartEdge
  PROVE  IInv'
<1>1. /\ buffer' = buffer /\ lastRow' = lastRow /\ seq' = seq /\ prioOf' = prioOf
      /\ batch' = {} /\ reply' = NoReply /\ net' = net
      /\ stored' = stored /\ erased' = erased /\ ledger' = ledger
      /\ expired' = expired /\ tried' = {}
  BY DEF RestartEdge, FreshCollector, dbVars, mesVars
<1>2. Received' = Received /\ ReplyOK' /\ FutureOK' /\ LedgerOnce' /\ NotOvertaken' /\ NoLoss'
  BY <1>1, QuietMes DEF Pending
<1>3. NetOK'
  BY <1>1, <1>2, ShrinkNet
<1>4. RowsOK' /\ BatchOK'
  BY <1>1, ShrinkRows
<1>5. TriedOK'
  BY <1>1 DEF TriedOK
<1> QED BY <1>2, <1>3, <1>4, <1>5 DEF IInv

LEMMA KillInAckIInv ==
  ASSUME IInv, TypeOK', KillInAck
  PROVE  IInv'
<1>1. /\ lastRow' = lastRow /\ seq' = seq /\ prioOf' = prioOf
      /\ batch' = {} /\ reply' = NoReply /\ net' = net
      /\ stored' = stored /\ erased' = erased /\ ledger' = ledger
      /\ expired' = expired /\ tried' = {}
  BY DEF KillInAck, FreshCollector, mesVars
<1>2. PICK done \in SUBSET batch : buffer' = AckRows(buffer, done)
  BY DEF KillInAck
<1>3. buffer' \subseteq buffer
  BY <1>2 DEF AckRows
<1>4. RowsOK' /\ BatchOK'
  BY <1>1, <1>3, ShrinkRows
<1>5. Received' = Received /\ ReplyOK' /\ FutureOK' /\ LedgerOnce' /\ NotOvertaken'
  BY <1>1, QuietMes
<1>6. NetOK'
  BY <1>1, <1>5, ShrinkNet
<1>7. TriedOK'
  BY <1>1 DEF TriedOK
<1>8. \A r \in buffer : r \in buffer' \/ r.msgs \subseteq Received
  <2> SUFFICES ASSUME NEW r \in buffer, r \notin buffer' PROVE r.msgs \subseteq Received
    OBVIOUS
  <2>1. PICK b \in batch : b.id = r.id
    BY <1>2 DEF AckRows
  <2>2. r.msgs = b.msgs
    BY <2>1 DEF IInv, BatchOK
  <2>3. b.msgs \subseteq reply.accepted
    BY <2>1 DEF KillInAck, Items
  <2> QED BY <2>2, <2>3 DEF IInv, ReplyOK
<1>9. NoLoss'
  BY <1>1, <1>3, <1>8, LetGo
<1> QED BY <1>4, <1>5, <1>6, <1>7, <1>9 DEF IInv

LEMMA IngestIInv ==
  ASSUME IInv, TypeOK', NEW q \in net, Ingest(q)
  PROVE  IInv'
<1> DEFINE msgs == Items(q.rows)
<1>1. /\ buffer' = buffer /\ lastRow' = lastRow /\ seq' = seq /\ prioOf' = prioOf
      /\ batch' = batch /\ pc' = pc /\ net' = net \ {q} /\ erased' = erased
      /\ expired' = expired /\ tried' = tried
      /\ ledger' = ledger \cup (msgs \ ledger)
      /\ stored' = [m \in Msg |-> stored[m] + (IF m \in msgs \ ledger THEN 1 ELSE 0)]
      /\ reply' = reply \/ reply' = OkReply(msgs)
  BY DEF Ingest, Fresh, Answer, Accepted, dbVars, senderVars, histVars
<1>2. /\ msgs \subseteq 1..seq /\ msgs \subseteq Msg
      /\ \A k \in msgs : \A m \in 1..seq :
           m < k /\ prioOf[m] <= prioOf[k] => m \in msgs \cup Received \cup expired
  <2>1. q.rows \in SUBSET Row
    BY DEF IInv, TypeOK, Request
  <2> QED BY <2>1, ItemsType DEF IInv, NetOK
<1> HIDE DEF msgs
<1>3. /\ \A m \in Msg : stored[m] \in Nat /\ erased[m] \in Nat
      /\ \A m \in Msg : stored[m] = erased[m] + (IF m \in ledger THEN 1 ELSE 0)
  BY DEF IInv, TypeOK, LedgerOnce
<1>4. \A m \in Msg : stored'[m] = stored[m] + (IF m \in msgs \ ledger THEN 1 ELSE 0)
  BY <1>1
<1>5. Received' = Received \cup msgs
  <2>1. \A m \in Msg : stored'[m] > 0 <=> stored[m] > 0 \/ m \in msgs
    BY <1>3, <1>4
  <2> QED BY <1>2, <2>1 DEF Received
<1>6. LedgerOnce'
  BY <1>1, <1>3, <1>4 DEF LedgerOnce
<1>7. RowsOK' /\ BatchOK'
  BY <1>1, ShrinkRows
<1>8. NetOK'
  BY <1>1, <1>5, ShrinkNet
<1>9. ReplyOK' /\ FutureOK'
  BY <1>1, <1>2, <1>5 DEF IInv, ReplyOK, FutureOK, OkReply
<1>10. TriedOK'
  BY <1>1 DEF IInv, TriedOK
<1>11. NoLoss'
  BY <1>1, <1>5 DEF IInv, NoLoss, Pending
<1>12. NotOvertaken'
  BY <1>1, <1>2, <1>5 DEF IInv, NotOvertaken
<1> QED BY <1>6, <1>7, <1>8, <1>9, <1>10, <1>11, <1>12 DEF IInv

LEMMA MesPurgeIInv ==
  ASSUME IInv, TypeOK', NEW cut \in Msg, MesPurge(cut)
  PROVE  IInv'
<1> DEFINE old == {m \in ledger : m <= cut}
<1>1. /\ buffer' = buffer /\ lastRow' = lastRow /\ seq' = seq /\ prioOf' = prioOf
      /\ batch' = batch /\ pc' = pc /\ net' = net /\ reply' = reply
      /\ stored' = stored /\ expired' = expired /\ tried' = tried
      /\ ledger' = ledger \ old
      /\ erased' = [m \in Msg |-> erased[m] + (IF m \in old THEN 1 ELSE 0)]
  BY DEF MesPurge, dbVars, senderVars, netVars, histVars
<1>2. LedgerOnce'
  <2>1. \A m \in Msg : erased[m] \in Nat /\ stored[m] = erased[m] + (IF m \in ledger THEN 1 ELSE 0)
    BY DEF IInv, TypeOK, LedgerOnce
  <2> QED BY <1>1, <2>1 DEF LedgerOnce
<1>3. Received' = Received /\ ReplyOK' /\ FutureOK' /\ NotOvertaken' /\ NoLoss'
  BY <1>1, QuietMes DEF Pending
<1>4. NetOK'
  BY <1>1, <1>3, ShrinkNet
<1>5. RowsOK' /\ BatchOK'
  BY <1>1, ShrinkRows
<1>6. TriedOK'
  BY <1>1 DEF IInv, TriedOK
<1> QED BY <1>2, <1>3, <1>4, <1>5, <1>6 DEF IInv

-----------------------------------------------------------------------------
LEMMA InitIInv == Init => IInv
<1> SUFFICES ASSUME Init PROVE IInv
  OBVIOUS
<1>1. TypeOK
  BY InitTypeOK
<1>2. Received = {} /\ LedgerOnce
  BY DEF Init, Received, LedgerOnce
<1>3. RowsOK /\ BatchOK /\ NetOK /\ TriedOK
  BY DEF Init, RowsOK, BatchOK, NetOK, TriedOK
<1>4. ReplyOK /\ FutureOK /\ NotOvertaken
  BY <1>2 DEF Init, ReplyOK, FutureOK, NotOvertaken, NoReply
<1>5. NoLoss
  BY DEF Init, NoLoss
<1> QED BY <1>1, <1>2, <1>3, <1>4, <1>5 DEF IInv

LEMMA NextIInv == IInv /\ [Next]_vars => IInv'
<1> SUFFICES ASSUME IInv, [Next]_vars PROVE IInv'
  OBVIOUS
<1>0. TypeOK'
  BY NextTypeOK DEF IInv
<1>1. ASSUME NEW n \in 1..MaxItems, NEW prio \in {PRIORITY_URGENT, PRIORITY_NORMAL}, Enqueue(n, prio)
      PROVE  IInv'
  BY <1>0, <1>1, EnqueueIInv
<1>2. CASE SendBatch
  BY <1>0, <1>2, SendBatchIInv
<1>3. CASE SendRefused
  BY <1>0, <1>3, SendFailedIInv DEF SendRefused, mesVars, histVars
<1>4. CASE PostFails
  BY <1>0, <1>4, SendFailedIInv DEF PostFails, mesVars, histVars
<1>5. CASE PostRejected
  BY <1>0, <1>5, SendFailedIInv DEF PostRejected, mesVars, histVars
<1>6. CASE PostAccepted
  BY <1>0, <1>6, PostAcceptedIInv
<1>7. CASE BackoffEnds
  BY <1>0, <1>7, QuietIInv DEF BackoffEnds, dbVars, netVars, mesVars, histVars
<1>8. ASSUME NEW cut \in 1..lastRow, Purge(cut)
      PROVE  IInv'
  BY <1>0, <1>8, ExpireIInv DEF Purge, senderVars, netVars, mesVars
<1>9. ASSUME NEW cut \in 1..lastRow, KillInPurge(cut)
      PROVE  IInv'
  BY <1>0, <1>9, ExpireIInv DEF KillInPurge, FreshCollector, mesVars
<1>10. CASE RestartEdge
  BY <1>0, <1>10, RestartEdgeIInv
<1>11. CASE KillInAck
  BY <1>0, <1>11, KillInAckIInv
<1>12. CASE SetLinkFault
  BY <1>0, <1>12, QuietIInv DEF SetLinkFault, dbVars, senderVars, netVars, mesVars, histVars
<1>13. CASE ClearLinkFault
  BY <1>0, <1>13, QuietIInv DEF ClearLinkFault, dbVars, senderVars, netVars, mesVars, histVars
<1>14. ASSUME NEW q \in net, Ingest(q)
       PROVE  IInv'
  BY <1>0, <1>14, IngestIInv
<1>15. ASSUME NEW q \in net, IngestFails(q)
       PROVE  IInv'
  BY <1>0, <1>15, QuietIInv DEF IngestFails, Answer, dbVars, senderVars, mesVars, histVars
<1>16. ASSUME NEW cut \in Msg, MesPurge(cut)
       PROVE  IInv'
  BY <1>0, <1>16, MesPurgeIInv
<1>17. CASE UNCHANGED vars
  BY <1>0, <1>17, QuietIInv DEF vars, dbVars, senderVars, netVars, mesVars, histVars
<1> QED
  BY <1>1, <1>2, <1>3, <1>4, <1>5, <1>6, <1>7, <1>8, <1>9, <1>10, <1>11, <1>12, <1>13,
     <1>14, <1>15, <1>16, <1>17 DEF Next, Sender

\* The strengthened invariant is inductive.
THEOREM Invariance == Spec => []IInv
BY InitIInv, NextIInv, PTL DEF Spec

\* No message is lost between the Edge buffer and the MES ledger, for any
\* number of messages, failures, restarts and kills.
THEOREM NoMessageLost == Spec => []NoLoss
<1>1. IInv => NoLoss
  BY DEF IInv
<1> QED BY <1>1, Invariance, PTL

\* A message enters the ledger once between two MES purges of it.
THEOREM Deduplicated == Spec => []LedgerOnce
<1>1. IInv => LedgerOnce
  BY DEF IInv
<1> QED BY <1>1, Invariance, PTL

\* What a collector has tried is marked when it is tried again.
THEOREM RetriesAreMarked == Spec => []RetriesMarked
<1>1. IInv => RetriesMarked
  BY DEF IInv, TriedOK, RetriesMarked
<1> QED BY <1>1, Invariance, PTL

\* The stream is not reordered against the send order.
THEOREM OrderKept == Spec => []NotOvertaken
<1>1. IInv => NotOvertaken
  BY DEF IInv
<1> QED BY <1>1, Invariance, PTL

-----------------------------------------------------------------------------
(* The statistics of the buffer. *)

\* Rows share no message.
LEMMA RowsShareNothing ==
  ASSUME IInv
  PROVE  \A r, s \in buffer : r.msgs \cap s.msgs # {} => r = s
<1> SUFFICES ASSUME NEW r \in buffer, NEW s \in buffer, NEW m \in r.msgs, m \in s.msgs
             PROVE  r = s
  OBVIOUS
<1>1. r.id \in Nat /\ s.id \in Nat /\ m \in Nat
  BY DEF IInv, TypeOK, RowsOK, Row
<1>2. ~(r.id < s.id) /\ ~(s.id < r.id)
  BY <1>1 DEF IInv, RowsOK
<1> QED BY <1>1, <1>2 DEF IInv, RowsOK

\* Sets of messages are finite, and a smaller one has fewer members.
LEMMA MsgSets ==
  ASSUME NEW S \in SUBSET Msg, NEW T \in SUBSET Msg
  PROVE  /\ IsFiniteSet(S) /\ Cardinality(S) \in Nat
         /\ S \subseteq T => Cardinality(S) <= Cardinality(T)
         /\ Cardinality(S \cup T) <= Cardinality(S) + Cardinality(T)
         /\ S \cap T = {} => Cardinality(S \cup T) = Cardinality(S) + Cardinality(T)
<1>1. IsFiniteSet(Msg)
  BY ConstantsAssumption, FS_Interval DEF Msg
<1>2. IsFiniteSet(S) /\ IsFiniteSet(T) /\ IsFiniteSet(S \cap T)
  BY <1>1, FS_Subset
<1>3. Cardinality(S) \in Nat /\ Cardinality(T) \in Nat /\ Cardinality(S \cap T) \in Nat
  BY <1>2, FS_CardinalityType
<1>4. S \subseteq T => Cardinality(S) <= Cardinality(T)
  BY <1>2, FS_Subset
<1>5. Cardinality(S \cup T) = Cardinality(S) + Cardinality(T) - Cardinality(S \cap T)
  BY <1>2, FS_Union
<1>6. S \cap T = {} => Cardinality(S \cap T) = 0
  BY FS_EmptySet
<1> QED BY <1>2, <1>3, <1>4, <1>5, <1>6

\* Nothing is counted, and no message that was counted comes back.
LEMMA SentSteady ==
  ASSUME TypeOK, TypeOK', SentApart, sent' = sent, Received \subseteq Received',
         (Pending' \cup Items(batch')) \cap Received \subseteq Pending \cup Items(batch)
  PROVE  SentApart'
<1> DEFINE C == Received \ (Pending \cup Items(batch))
           D == Received' \ (Pending' \cup Items(batch'))
<1>1. C \in SUBSET Msg /\ D \in SUBSET Msg /\ C \subseteq D
  BY DEF Received
<1>2. Cardinality(C) \in Nat /\ Cardinality(D) \in Nat /\ Cardinality(C) <= Cardinality(D)
  <2> HIDE DEF C, D
  <2> QED BY <1>1, MsgSets
<1>3. sent <= Cardinality(C) /\ sent \in Nat
  BY DEF SentApart, TypeOK
<1>4. sent' <= Cardinality(D)
  <2> HIDE DEF C, D
  <2> QED BY <1>2, <1>3
<1> QED BY <1>4 DEF SentApart

\* The batch is counted: it is with the MES, and no row that waits holds any of it.
LEMMA BatchCounted ==
  ASSUME TypeOK, SentApart, sent' = sent + NItems(batch), batch' = {},
         Received' = Received, Items(batch) \subseteq Received,
         Pending' \subseteq Pending, Pending' \cap Items(batch) = {}
  PROVE  SentApart'
<1> DEFINE C == Received \ (Pending \cup Items(batch))
           D == Received' \ (Pending' \cup Items(batch'))
<1>1. Items(batch') = {}
  BY DEF Items
<1>2. /\ C \in SUBSET Msg /\ D \in SUBSET Msg /\ Items(batch) \in SUBSET Msg
      /\ C \cup Items(batch) \subseteq D /\ C \cap Items(batch) = {}
  BY <1>1 DEF Received
<1>3. sent <= Cardinality(C) /\ sent \in Nat /\ NItems(batch) = Cardinality(Items(batch))
  BY DEF SentApart, TypeOK, NItems
<1> HIDE DEF C, D
<1>4. C \cup Items(batch) \in SUBSET Msg
  BY <1>2
<1>5. /\ Cardinality(C) \in Nat /\ Cardinality(D) \in Nat /\ Cardinality(Items(batch)) \in Nat
      /\ Cardinality(C \cup Items(batch)) = Cardinality(C) + Cardinality(Items(batch))
  BY <1>2, MsgSets
<1>6. Cardinality(C \cup Items(batch)) <= Cardinality(D)
  BY <1>2, <1>4, MsgSets
<1>7. sent' <= Cardinality(D)
  BY <1>3, <1>5, <1>6
<1> QED BY <1>7 DEF SentApart, D

\* What leaves the buffer is counted.
LEMMA LeavesCounted ==
  ASSUME TypeOK, TypeOK', Accounted, seq' = seq, killed' = killed, NEW X \in SUBSET Msg,
         Pending \subseteq Pending' \cup X,
         sent' + purged' = sent + purged + Cardinality(X)
  PROVE  Accounted'
<1> SUFFICES ASSUME ~killed PROVE seq <= sent' + purged' + Cardinality(Pending')
  BY DEF Accounted
<1>1. Pending \in SUBSET Msg /\ Pending' \in SUBSET Msg
  BY ItemsType DEF TypeOK, Pending, Items, Row
<1>2. Pending' \cup X \in SUBSET Msg
  BY <1>1
<1>3. /\ Cardinality(Pending) <= Cardinality(Pending' \cup X)
      /\ Cardinality(Pending' \cup X) <= Cardinality(Pending') + Cardinality(X)
  BY <1>1, <1>2, MsgSets
<1>4. /\ Cardinality(Pending) \in Nat /\ Cardinality(Pending') \in Nat
      /\ Cardinality(X) \in Nat /\ Cardinality(Pending' \cup X) \in Nat
  BY <1>1, <1>2, MsgSets
<1>5. seq <= sent + purged + Cardinality(Pending)
  BY DEF Accounted
<1>6. seq \in Nat /\ sent \in Nat /\ purged \in Nat /\ sent' \in Nat /\ purged' \in Nat
  BY ConstantsAssumption DEF TypeOK
<1> QED BY <1>3, <1>4, <1>5, <1>6

\* Nothing leaves the buffer, and nothing is counted.
LEMMA NothingLeaves ==
  ASSUME TypeOK, TypeOK', Accounted, seq' = seq, killed' = killed \/ killed',
         Pending' = Pending, sent' = sent, purged' = purged
  PROVE  Accounted'
BY DEF Accounted

\* Rows only leave, and the batch is kept or forgotten.
LEMMA ShrinkApart ==
  ASSUME BatchApart, buffer' \subseteq buffer, seq' = seq, batch' = batch \/ batch' = {}
  PROVE  /\ BatchApart'
         /\ Pending' \subseteq Pending /\ Items(batch') \subseteq Items(batch)
BY DEF BatchApart, Pending, Items

\* The rows of an acknowledged batch are gone, and all of it with them.
LEMMA AckedIsGone ==
  ASSUME IInv, StatInv, buffer' = AckRows(buffer, batch)
  PROVE  /\ Pending' \cap Items(batch) = {}
         /\ Pending \subseteq Pending' \cup Items(batch)
<1>1. \A r \in buffer' : \A b \in batch : r.msgs \cap b.msgs = {}
  BY DEF AckRows, StatInv, BatchApart
<1>2. \A r \in buffer : r \in buffer' \/ \E b \in batch : r.msgs = b.msgs
  BY DEF AckRows, IInv, BatchOK
<1> QED BY <1>1, <1>2 DEF Pending, Items

LEMMA EnqueueStat ==
  ASSUME IInv, StatInv, TypeOK', NEW n \in 1..MaxItems,
         NEW prio \in {PRIORITY_URGENT, PRIORITY_NORMAL}, Enqueue(n, prio)
  PROVE  StatInv'
<1> DEFINE N == (seq + 1)..(seq + n)
           new == [id |-> lastRow + 1, prio |-> prio, resend |-> linkOk = "DOWN", msgs |-> N]
<1>1. /\ buffer' = buffer \cup {new} /\ seq' = seq + n
      /\ seq \in Nat /\ n \in Nat /\ seq + n <= MaxSeq
      /\ batch' = batch /\ stored' = stored /\ sent' = sent /\ purged' = purged /\ killed' = killed
  BY ConstantsAssumption DEF Enqueue, NewRowId, IInv, TypeOK, senderVars, mesVars
<1>2. Received' = Received /\ new.msgs = N
  BY <1>1 DEF Received
<1>3. Pending' = Pending \cup N
  <2> HIDE DEF new
  <2> QED BY <1>1, <1>2 DEF Pending, Items
<1>4. Pending \subseteq 1..seq /\ Received \subseteq 1..seq
  BY DEF Pending, Items, IInv, RowsOK, FutureOK
<1>5. N \cap (1..seq) = {} /\ N \in SUBSET Msg
  BY <1>1, ConstantsAssumption DEF Msg
<1>6. SentApart'
  <2>1. (Pending' \cup Items(batch')) \cap Received \subseteq Pending \cup Items(batch)
    BY <1>1, <1>3, <1>4, <1>5
  <2> HIDE DEF N
  <2> QED BY <1>1, <1>2, <2>1, SentSteady DEF IInv, StatInv
<1>7. BatchApart'
  <2>1. \A b \in batch : b.msgs \subseteq 1..seq
    BY DEF StatInv, BatchApart
  <2>2. \A b \in batch : b.msgs \subseteq 1..seq' /\ new.msgs \cap b.msgs = {}
    BY <1>1, <1>2, <1>5, <2>1
  <2> HIDE DEF new
  <2> QED BY <1>1, <2>2 DEF StatInv, BatchApart
<1>8. Accounted'
  <2> SUFFICES ASSUME ~killed PROVE seq + n <= sent + purged + Cardinality(Pending \cup N)
    BY <1>1, <1>3 DEF Accounted
  <2>1. Pending \in SUBSET Msg /\ Pending \cap N = {}
    BY <1>4, <1>5, <1>1, ConstantsAssumption DEF Msg
  <2>2. Cardinality(Pending \cup N) = Cardinality(Pending) + Cardinality(N)
    <3> HIDE DEF N
    <3> QED BY <2>1, <1>5, MsgSets
  <2>3. Cardinality(N) = n
    BY <1>1, FS_Interval
  <2>4. Cardinality(Pending) \in Nat
    BY <2>1, MsgSets
  <2>5. seq <= sent + purged + Cardinality(Pending) /\ sent \in Nat /\ purged \in Nat
    BY DEF StatInv, Accounted, IInv, TypeOK
  <2> HIDE DEF N
  <2> QED BY <1>1, <2>2, <2>3, <2>4, <2>5
<1> QED BY <1>6, <1>7, <1>8 DEF StatInv

LEMMA SendBatchStat ==
  ASSUME IInv, StatInv, TypeOK', SendBatch
  PROVE  StatInv'
<1>1. /\ batch' = NextBatch(buffer) /\ buffer' = buffer /\ seq' = seq /\ stored' = stored
      /\ sent' = sent /\ purged' = purged /\ killed' = killed
  BY DEF SendBatch, dbVars, mesVars
<1>2. batch' \subseteq buffer /\ Received' = Received /\ Pending' = Pending
  BY <1>1 DEF NextBatch, Received, Pending
<1>3. Items(batch') \subseteq Pending
  BY <1>2 DEF Items, Pending
<1>4. SentApart'
  BY <1>1, <1>2, <1>3, SentSteady DEF IInv, StatInv
<1>5. BatchApart'
  BY <1>1, <1>2, RowsShareNothing DEF IInv, RowsOK, BatchApart
<1>6. Accounted'
  BY <1>1, <1>2, NothingLeaves DEF IInv, StatInv
<1> QED BY <1>4, <1>5, <1>6 DEF StatInv

\* Messages neither come nor go, and the batch is kept or forgotten.
LEMMA QuietStat ==
  ASSUME IInv, StatInv, TypeOK', Pending' = Pending, seq' = seq,
         (buffer' = buffer /\ batch' = batch) \/ batch' = {},
         Received \subseteq Received', sent' = sent, purged' = purged, killed' = killed
  PROVE  StatInv'
<1>1. BatchApart' /\ Items(batch') \subseteq Items(batch)
  BY DEF StatInv, BatchApart, Items
<1>2. SentApart'
  BY <1>1, SentSteady DEF IInv, StatInv
<1>3. Accounted'
  BY NothingLeaves DEF IInv, StatInv
<1> QED BY <1>1, <1>2, <1>3 DEF StatInv

LEMMA SendFailedStat ==
  ASSUME IInv, StatInv, TypeOK', SendFailed, mesVars' = mesVars, histVars' = histVars
  PROVE  StatInv'
<1>1. Pending' = Pending /\ Received' = Received
  BY MarkRows DEF mesVars, histVars, Received
<1> QED BY <1>1, QuietStat DEF SendFailed, histVars

LEMMA PostAcceptedStat ==
  ASSUME IInv, StatInv, TypeOK', PostAccepted
  PROVE  StatInv'
<1>1. /\ buffer' = AckRows(buffer, batch) /\ batch' = {} /\ sent' = sent + NItems(batch)
      /\ seq' = seq /\ purged' = purged /\ killed' = killed /\ stored' = stored
  BY DEF PostAccepted, mesVars, histVars
<1>2. Received' = Received /\ Items(batch) \subseteq Received
  BY <1>1 DEF PostAccepted, Received, IInv, ReplyOK
<1>3. buffer' \subseteq buffer
  BY <1>1 DEF AckRows
<1>4. BatchApart' /\ Pending' \subseteq Pending
  BY <1>1, <1>3, ShrinkApart DEF StatInv
<1>5. SentApart'
  BY <1>1, <1>2, <1>4, AckedIsGone, BatchCounted DEF IInv, StatInv
<1>6. Accounted'
  <2>1. Items(batch) \in SUBSET Msg /\ NItems(batch) \in Nat
    BY ItemsType DEF IInv, TypeOK
  <2>2. sent' + purged' = sent + purged + Cardinality(Items(batch))
    BY <1>1, <2>1 DEF NItems, IInv, TypeOK
  <2> QED BY <1>1, <2>1, <2>2, AckedIsGone, LeavesCounted DEF IInv, StatInv
<1> QED BY <1>4, <1>5, <1>6 DEF StatInv

\* Rows leave the buffer while nothing is sent.
LEMMA ExpireSentApart ==
  ASSUME IInv, StatInv, TypeOK', buffer' \subseteq buffer, seq' = seq, sent' = sent,
         batch' = batch \/ batch' = {}, stored' = stored
  PROVE  BatchApart' /\ SentApart'
<1>1. Received' = Received
  BY DEF Received
<1>2. BatchApart' /\ Pending' \subseteq Pending /\ Items(batch') \subseteq Items(batch)
  BY ShrinkApart DEF StatInv
<1> QED BY <1>1, <1>2, SentSteady DEF IInv, StatInv

LEMMA PurgeStat ==
  ASSUME IInv, StatInv, TypeOK', NEW cut \in 1..lastRow, Purge(cut)
  PROVE  StatInv'
<1> DEFINE old == {r \in buffer : r.id <= cut}
<1>1. /\ buffer' = buffer \ old /\ purged' = purged + NItems(old) /\ sent' = sent
      /\ batch' = batch /\ seq' = seq /\ killed' = killed /\ stored' = stored
  BY DEF Purge, PurgedCount, senderVars, mesVars
<1>2. BatchApart' /\ SentApart'
  BY <1>1, ExpireSentApart
<1>3. Items(old) \in SUBSET Msg /\ NItems(old) \in Nat
  BY ItemsType DEF IInv, TypeOK
<1>4. Pending \subseteq Pending' \cup Items(old)
  <2> HIDE DEF old
  <2> QED BY <1>1 DEF Pending, Items
<1> HIDE DEF old
<1>5. sent' + purged' = sent + purged + Cardinality(Items(old))
  BY <1>1, <1>3 DEF NItems, IInv, TypeOK
<1>6. Accounted'
  BY <1>1, <1>3, <1>4, <1>5, LeavesCounted DEF IInv, StatInv
<1> QED BY <1>2, <1>6 DEF StatInv

LEMMA KillInAckStat ==
  ASSUME IInv, StatInv, TypeOK', KillInAck
  PROVE  StatInv'
<1>1. /\ batch' = {} /\ seq' = seq /\ killed' /\ stored' = stored
      /\ Items(batch) \subseteq reply.accepted
  BY DEF KillInAck, FreshCollector, mesVars
<1>2. Received' = Received /\ Items(batch) \subseteq Received
  BY <1>1 DEF Received, IInv, ReplyOK
<1>3. PICK done \in SUBSET batch :
         /\ buffer' = AckRows(buffer, done)
         /\ sent' = sent \/ (done = batch /\ sent' = sent + NItems(batch))
  BY DEF KillInAck
<1>4. buffer' \subseteq buffer
  BY <1>3 DEF AckRows
<1>5. BatchApart' /\ Pending' \subseteq Pending
  BY <1>1, <1>4, ShrinkApart DEF StatInv
<1>6. CASE sent' = sent
  BY <1>1, <1>4, <1>6, ExpireSentApart DEF StatInv, Accounted
<1>7. CASE done = batch /\ sent' = sent + NItems(batch)
  <2>1. SentApart'
    BY <1>1, <1>2, <1>3, <1>5, <1>7, AckedIsGone, BatchCounted DEF IInv, StatInv
  <2> QED BY <1>1, <1>5, <2>1 DEF StatInv, Accounted
<1> QED BY <1>3, <1>6, <1>7

LEMMA InitStat == Init => StatInv
<1> SUFFICES ASSUME Init PROVE StatInv
  OBVIOUS
<1>1. Received = {} /\ Pending = {} /\ Items(batch) = {}
  BY DEF Init, Received, Pending, Items
<1>2. Cardinality(Received \ (Pending \cup Items(batch))) = 0 /\ Cardinality(Pending) = 0
  BY <1>1, FS_EmptySet
<1> QED BY <1>2 DEF Init, StatInv, BatchApart, SentApart, Accounted

LEMMA NextStat == IInv /\ StatInv /\ [Next]_vars => StatInv'
<1> SUFFICES ASSUME IInv, StatInv, [Next]_vars PROVE StatInv'
  OBVIOUS
<1>0. TypeOK'
  BY NextTypeOK DEF IInv
<1>1. ASSUME NEW n \in 1..MaxItems, NEW prio \in {PRIORITY_URGENT, PRIORITY_NORMAL}, Enqueue(n, prio)
      PROVE  StatInv'
  BY <1>0, <1>1, EnqueueStat
<1>2. CASE SendBatch
  BY <1>0, <1>2, SendBatchStat
<1>3. CASE SendRefused \/ PostFails \/ PostRejected
  BY <1>0, <1>3, SendFailedStat DEF SendRefused, PostFails, PostRejected
<1>4. CASE PostAccepted
  BY <1>0, <1>4, PostAcceptedStat
<1>5. CASE BackoffEnds
  BY <1>0, <1>5, QuietStat DEF BackoffEnds, dbVars, mesVars, histVars, Pending, Received
<1>6. ASSUME NEW cut \in 1..lastRow, Purge(cut)
      PROVE  StatInv'
  BY <1>0, <1>6, PurgeStat
<1>7. ASSUME NEW cut \in 1..lastRow, KillInPurge(cut)
      PROVE  StatInv'
  <2>1. BatchApart' /\ SentApart'
    BY <1>0, <1>7, ExpireSentApart DEF KillInPurge, FreshCollector, mesVars
  <2> QED BY <1>7, <2>1 DEF KillInPurge, StatInv, Accounted
<1>8. CASE RestartEdge
  BY <1>0, <1>8, QuietStat DEF RestartEdge, FreshCollector, dbVars, mesVars, Pending, Received
<1>9. CASE KillInAck
  BY <1>0, <1>9, KillInAckStat
<1>10. CASE SetLinkFault \/ ClearLinkFault
  BY <1>0, <1>10, QuietStat
     DEF SetLinkFault, ClearLinkFault, dbVars, senderVars, mesVars, histVars, Pending, Received
<1>11. ASSUME NEW q \in net, Ingest(q)
       PROVE  StatInv'
  <2>1. Received \subseteq Received'
    BY <1>11 DEF Ingest, IInv, TypeOK, Received
  <2> QED BY <1>0, <1>11, <2>1, QuietStat DEF Ingest, dbVars, senderVars, histVars, Pending
<1>12. ASSUME NEW q \in net, IngestFails(q)
       PROVE  StatInv'
  BY <1>0, <1>12, QuietStat DEF IngestFails, dbVars, senderVars, mesVars, histVars, Pending, Received
<1>13. ASSUME NEW cut \in Msg, MesPurge(cut)
       PROVE  StatInv'
  BY <1>0, <1>13, QuietStat DEF MesPurge, dbVars, senderVars, histVars, Pending, Received
<1>14. CASE UNCHANGED vars
  BY <1>0, <1>14, QuietStat DEF vars, dbVars, senderVars, mesVars, histVars, Pending, Received
<1> QED
  BY <1>1, <1>2, <1>3, <1>4, <1>5, <1>6, <1>7, <1>8, <1>9, <1>10, <1>11, <1>12, <1>13, <1>14
  DEF Next, Sender

\* The counters of the buffer are right in every behaviour.
THEOREM Statistics == Spec => []StatInv
BY InitStat, NextStat, Invariance, PTL DEF Spec

\* The buffer statistics leave no item out, for any number of purges, retries
\* and restarts.
THEOREM NothingUnaccounted == Spec => []Accounted
<1>1. StatInv => Accounted
  BY DEF StatInv
<1> QED BY <1>1, Statistics, PTL

\* The sent counter never runs ahead of the MES.
THEOREM SentIsReached == Spec => []SentReached
<1>1. IInv /\ StatInv => SentReached
  <2> SUFFICES ASSUME IInv, StatInv PROVE SentReached
    OBVIOUS
  <2> DEFINE C == Received \ (Pending \cup Items(batch))
  <2>1. C \in SUBSET Msg /\ Received \in SUBSET Msg /\ C \subseteq Received
    BY DEF Received
  <2>2. sent <= Cardinality(C) /\ sent \in Nat
    BY DEF StatInv, SentApart, IInv, TypeOK
  <2> HIDE DEF C
  <2>3. Cardinality(C) <= Cardinality(Received) /\ Cardinality(C) \in Nat /\ Cardinality(Received) \in Nat
    BY <2>1, MsgSets
  <2> QED BY <2>2, <2>3 DEF SentReached
<1> QED BY <1>1, Invariance, Statistics, PTL

-----------------------------------------------------------------------------
(* Refinement. *)

\* Rows that leave the buffer take exactly their own messages with them.
LEMMA RemovedItems ==
  ASSUME IInv, buffer' \subseteq buffer
  PROVE  Pending' = Pending \ Items(buffer \ buffer')
<1>1. \A r, s \in buffer : \A m \in r.msgs : m \in s.msgs => r = s
  BY RowsShareNothing
<1>2. \A m : m \in Pending <=> \E r \in buffer : m \in r.msgs
  BY DEF Pending, Items
<1>3. \A m : m \in Pending' <=> \E r \in buffer' : m \in r.msgs
  BY DEF Pending, Items
<1>4. \A m : m \in Items(buffer \ buffer') <=> \E r \in buffer : r \notin buffer' /\ m \in r.msgs
  BY DEF Items
<1>5. \A m : m \in Pending' <=> m \in Pending /\ m \notin Items(buffer \ buffer')
  <2> TAKE m
  <2>1. ASSUME NEW r \in buffer', m \in r.msgs, NEW s \in buffer, s \notin buffer', m \in s.msgs
        PROVE  FALSE
    BY <1>1, <2>1
  <2>2. m \in Pending' => m \in Pending /\ m \notin Items(buffer \ buffer')
    BY <2>1, <1>2, <1>3, <1>4
  <2>3. m \in Pending /\ m \notin Items(buffer \ buffer') => m \in Pending'
    BY <1>2, <1>3, <1>4
  <2> QED BY <2>2, <2>3
<1> QED BY <1>5

\* Letting acknowledged rows go is Release.
LEMMA ReleaseStep ==
  ASSUME IInv, NEW done \in SUBSET batch, Items(batch) \subseteq reply.accepted,
         buffer' = AckRows(buffer, done), seq' = seq, stored' = stored, expired' = expired
  PROVE  \E S \in SUBSET Msg : Abstract!Release(S)
<1> DEFINE gone == Items(buffer \ buffer')
<1>1. buffer' \subseteq buffer
  BY DEF AckRows
<1>2. Pending' = Pending \ gone
  BY <1>1, RemovedItems
<1>3. gone \subseteq Received
  <2> SUFFICES ASSUME NEW r \in buffer, r \notin buffer' PROVE r.msgs \subseteq Received
    BY DEF Items
  <2>1. PICK b \in batch : b.id = r.id
    BY DEF AckRows
  <2>2. r.msgs = b.msgs
    BY <2>1 DEF IInv, BatchOK
  <2>3. b.msgs \subseteq reply.accepted
    BY <2>1 DEF Items
  <2> QED BY <2>2, <2>3 DEF IInv, ReplyOK
<1>4. gone \in SUBSET Msg
  BY <1>3 DEF Received
<1>5. Received' = Received /\ (1..seq)' = 1..seq
  BY DEF Received
<1> HIDE DEF gone
<1> QED BY <1>2, <1>3, <1>4, <1>5 DEF Abstract!Release

\* Deleting rows past their retention is Drop.
LEMMA DropStep ==
  ASSUME IInv, NEW cut \in 1..lastRow,
         buffer' = buffer \ {r \in buffer : r.id <= cut},
         expired' = expired \cup Items({r \in buffer : r.id <= cut}),
         seq' = seq, stored' = stored
  PROVE  \E S \in SUBSET Msg : Abstract!Drop(S)
<1> DEFINE old == {r \in buffer : r.id <= cut}
<1>1. buffer' \subseteq buffer /\ buffer \ buffer' = old
  OBVIOUS
<1>2. Pending' = Pending \ Items(old)
  BY <1>1, RemovedItems
<1>3. Items(old) \subseteq Pending
  BY DEF Items, Pending
<1>4. Items(old) \in SUBSET Msg
  <2>1. old \in SUBSET Row
    BY DEF IInv, TypeOK
  <2> QED BY <2>1, ItemsType
<1>5. Received' = Received /\ (1..seq)' = 1..seq
  BY DEF Received
<1>6. expired' = expired \cup Items(old)
  OBVIOUS
<1> HIDE DEF old
<1> QED BY <1>2, <1>3, <1>4, <1>5, <1>6 DEF Abstract!Drop

\* A step that leaves messages, the MES and expiry alone is a stutter.
LEMMA StutterStep ==
  ASSUME Pending' = Pending, seq' = seq, stored' = stored, expired' = expired
  PROVE  UNCHANGED Abstract!outboxVars
<1>1. Received' = Received /\ (1..seq)' = 1..seq
  BY DEF Received
<1> QED BY <1>1 DEF Abstract!outboxVars

LEMMA InitRefines == Init => Abstract!OutboxInit
<1> SUFFICES ASSUME Init PROVE Abstract!OutboxInit
  OBVIOUS
<1>1. Received = {}
  BY DEF Init, Received
<1>2. Pending = {}
  BY DEF Init, Pending, Items
<1>3. 1..seq = {}
  BY DEF Init
<1> QED BY <1>1, <1>2, <1>3 DEF Init, Abstract!OutboxInit

LEMMA StepRefines == IInv /\ [Next]_vars => [Abstract!OutboxNext]_(Abstract!outboxVars)
<1> SUFFICES ASSUME IInv, [Next]_vars
             PROVE  \/ \E S \in SUBSET Msg : \/ Abstract!Produce(S) \/ Abstract!Deliver(S)
                                             \/ Abstract!Release(S) \/ Abstract!Drop(S)
                    \/ UNCHANGED Abstract!outboxVars
  BY DEF Abstract!OutboxNext
<1>1. ASSUME NEW n \in 1..MaxItems, NEW prio \in {PRIORITY_URGENT, PRIORITY_NORMAL}, Enqueue(n, prio)
      PROVE  \E S \in SUBSET Msg : Abstract!Produce(S)
  <2> DEFINE new == [id |-> lastRow', prio |-> prio, resend |-> linkOk = "DOWN",
                     msgs |-> (seq + 1)..(seq + n)]
             S == (seq + 1)..(seq + n)
  <2>1. seq \in Nat /\ n \in Nat /\ seq' = seq + n /\ seq + n <= MaxSeq
    BY <1>1, ConstantsAssumption DEF Enqueue, IInv, TypeOK
  <2>2. S \in SUBSET Msg /\ S \cap (1..seq) = {} /\ 1..(seq + n) = (1..seq) \cup S
    BY <2>1, ConstantsAssumption DEF Msg
  <2>3. new.msgs = S
    OBVIOUS
  <2>4. buffer' = buffer \cup {new}
    BY <1>1 DEF Enqueue
  <2>5. Received' = Received /\ expired' = expired
    BY <1>1 DEF Enqueue, mesVars, Received
  <2> HIDE DEF new, S
  <2>6. Pending' = Pending \cup S
    BY <2>3, <2>4 DEF Pending, Items
  <2> QED BY <2>1, <2>2, <2>5, <2>6 DEF Abstract!Produce
<1>2. CASE SendBatch
  BY <1>2, StutterStep DEF SendBatch, dbVars, mesVars, Pending
<1>3. CASE SendRefused
  BY <1>3, MarkRows, StutterStep DEF SendRefused, SendFailed, mesVars, histVars
<1>4. CASE PostFails
  BY <1>4, MarkRows, StutterStep DEF PostFails, SendFailed, mesVars, histVars
<1>5. CASE PostRejected
  BY <1>5, MarkRows, StutterStep DEF PostRejected, SendFailed, mesVars, histVars
<1>6. CASE PostAccepted
  BY <1>6, ReleaseStep DEF PostAccepted, mesVars, histVars
<1>7. CASE BackoffEnds
  BY <1>7, StutterStep DEF BackoffEnds, dbVars, mesVars, histVars, Pending
<1>8. ASSUME NEW cut \in 1..lastRow, Purge(cut)
      PROVE  \E S \in SUBSET Msg : Abstract!Drop(S)
  BY <1>8, DropStep DEF Purge, mesVars
<1>9. ASSUME NEW cut \in 1..lastRow, KillInPurge(cut)
      PROVE  \E S \in SUBSET Msg : Abstract!Drop(S)
  BY <1>9, DropStep DEF KillInPurge, mesVars
<1>10. CASE RestartEdge
  BY <1>10, StutterStep DEF RestartEdge, dbVars, mesVars, Pending
<1>11. CASE KillInAck
  BY <1>11, ReleaseStep DEF KillInAck, mesVars
<1>12. CASE SetLinkFault
  BY <1>12, StutterStep DEF SetLinkFault, dbVars, mesVars, histVars, Pending
<1>13. CASE ClearLinkFault
  BY <1>13, StutterStep DEF ClearLinkFault, dbVars, mesVars, histVars, Pending
<1>14. ASSUME NEW q \in net, Ingest(q)
       PROVE  \E S \in SUBSET Msg : Abstract!Deliver(S)
  <2> DEFINE msgs == Items(q.rows)
  <2>1. msgs \subseteq 1..seq /\ msgs \in SUBSET Msg
    BY ItemsType DEF IInv, NetOK, TypeOK, Request
  <2>2. /\ seq' = seq /\ Pending' = Pending /\ expired' = expired
        /\ stored' = [m \in Msg |-> stored[m] + (IF m \in msgs \ ledger THEN 1 ELSE 0)]
    BY <1>14 DEF Ingest, Fresh, dbVars, histVars, Pending
  <2>3. \A m \in Msg : /\ stored[m] \in Nat /\ erased[m] \in Nat
                       /\ stored[m] = erased[m] + (IF m \in ledger THEN 1 ELSE 0)
    BY DEF IInv, TypeOK, LedgerOnce
  <2> HIDE DEF msgs
  <2>4. \A m \in Msg : stored'[m] > 0 <=> stored[m] > 0 \/ m \in msgs
    BY <2>2, <2>3
  <2>5. Received' = Received \cup msgs
    BY <2>1, <2>4 DEF Received
  <2> QED BY <2>1, <2>2, <2>5 DEF Abstract!Deliver
<1>15. ASSUME NEW q \in net, IngestFails(q)
       PROVE  UNCHANGED Abstract!outboxVars
  BY <1>15, StutterStep DEF IngestFails, dbVars, mesVars, histVars, Pending
<1>16. ASSUME NEW cut \in Msg, MesPurge(cut)
       PROVE  UNCHANGED Abstract!outboxVars
  BY <1>16, StutterStep DEF MesPurge, dbVars, histVars, Pending
<1>17. CASE UNCHANGED vars
  BY <1>17, StutterStep DEF vars, dbVars, mesVars, histVars, Pending
<1> QED
  BY <1>1, <1>2, <1>3, <1>4, <1>5, <1>6, <1>7, <1>8, <1>9, <1>10, <1>11, <1>12, <1>13,
     <1>14, <1>15, <1>16, <1>17 DEF Next, Sender

\* The buffer, the sender, the network and the MES together implement the
\* at-least-once outbox.
THEOREM Refinement == Spec => ImplementsOutbox
<1>1. Spec => []IInv
  BY Invariance
<1> QED BY <1>1, InitRefines, StepRefines, PTL DEF Spec, ImplementsOutbox, Abstract!OutboxSpec

=============================================================================
