--------------------------- MODULE LiveFeedProofs ---------------------------
(***************************************************************************)
(* Proofs about LiveFeed for any items, any number of events and sockets:  *)
(* what a dashboard shows once the hub has sent it everything.             *)
(***************************************************************************)
EXTENDS LiveFeed, SequenceTheorems, WellFoundedInduction, TLAPS

-----------------------------------------------------------------------------
(* Recursion over a sequence.  Facts for every length come by the least    *)
(* length they fail for.                                                   *)

LEMMA EveryNat ==
  ASSUME NEW S, 0 \in S, \A n \in Nat : n \in S => n + 1 \in S
  PROVE  Nat \subseteq S
<1> SUFFICES ASSUME Nat \ S # {} PROVE FALSE
  OBVIOUS
<1> DEFINE U == Nat \ S
<1>1. U \subseteq Nat /\ U # {}
  OBVIOUS
<1>2. PICK u \in U : \A v \in U : ~(<<v, u>> \in OpToRel(<, Nat))
  BY <1>1, NatLessThanWellFounded, WFMin, Zenon
<1>3. u \in Nat /\ u # 0 /\ u \notin S
  OBVIOUS
<1>4. u - 1 \in Nat /\ (u - 1) + 1 = u
  BY <1>3
<1>5. u - 1 \in U
  BY <1>3, <1>4
<1>6. <<u - 1, u>> \in OpToRel(<, Nat)
  BY <1>3, <1>4 DEF OpToRel
<1> QED BY <1>2, <1>5, <1>6

\* f starts with s0 and goes on as F says, n times.
Steps(f, n, S, s0, F) ==
  /\ f \in [0..n -> S]
  /\ f[0] = s0
  /\ \A k \in 1..n : f[k] = F[<<k, f[k - 1]>>]

\* A function can be built up step by step.
LEMMA StepByStep ==
  ASSUME NEW S, NEW s0 \in S, NEW n \in Nat, NEW F \in [(1..n) \X S -> S]
  PROVE  \E f : Steps(f, n, S, s0, F)
<1> DEFINE Built(m) == \E f \in [0..m -> S] : f[0] = s0 /\ \A k \in 1..m : f[k] = F[<<k, f[k - 1]>>]
           D == {m \in Nat : m <= n => Built(m)}
<1>1. 0 \in D
  <2>1. [k \in 0..0 |-> s0] \in [0..0 -> S]
    OBVIOUS
  <2>2. [k \in 0..0 |-> s0][0] = s0 /\ 1..0 = {}
    OBVIOUS
  <2> QED BY <2>1, <2>2
<1>2. ASSUME NEW m \in Nat, m \in D PROVE m + 1 \in D
  <2> SUFFICES ASSUME m + 1 <= n PROVE Built(m + 1)
    OBVIOUS
  <2>1. PICK f \in [0..m -> S] : f[0] = s0 /\ \A k \in 1..m : f[k] = F[<<k, f[k - 1]>>]
    BY <1>2
  <2> DEFINE x == F[<<m + 1, f[m]>>]
             g == [k \in 0..(m + 1) |-> IF k = m + 1 THEN x ELSE f[k]]
  <2>2. m + 1 \in 1..n /\ m \in 0..m /\ f[m] \in S
    OBVIOUS
  <2>3. x \in S
    BY <2>2
  <2> HIDE DEF x
  <2>4. g \in [0..(m + 1) -> S]
    BY <2>3
  <2>5. \A k \in 0..m : g[k] = f[k]
    OBVIOUS
  <2>6. g[m + 1] = x
    OBVIOUS
  <2> HIDE DEF g
  <2>7. g[0] = s0
    BY <2>1, <2>5
  <2>8. ASSUME NEW k \in 1..(m + 1) PROVE g[k] = F[<<k, g[k - 1]>>]
    <3>1. k - 1 \in 0..m /\ g[k - 1] = f[k - 1]
      BY <2>5
    <3>2. CASE k = m + 1
      BY <2>6, <3>1, <3>2 DEF x
    <3>3. CASE k # m + 1
      <4>1. k \in 1..m /\ k \in 0..m
        BY <3>3
      <4> QED BY <2>1, <2>5, <3>1, <4>1
    <3> QED BY <3>2, <3>3
  <2> QED BY <2>4, <2>7, <2>8
<1>3. n \in D
  BY <1>1, <1>2, EveryNat
<1> QED BY <1>3 DEF Steps

-----------------------------------------------------------------------------
(* Types.                                                                  *)

Status == {"OK", "DOWN", "NONE"}
Row == [gen : Nat, st : {"RAISED", "ACKED", "CLEARED"}]
View == [alarms : [Aids -> Row], vals : [Items -> Nat], status : Status, topo : Status]

Snapshots == [type : {"snapshot"}, vals : [Items -> Nat], st : Status, alarms : [Aids -> Row]]
AlarmMsgs == [type : {"alarm"}, id : Nat, row : Row]
ValueMsgs == [type : {"value"}, vals : [Items -> Nat]]
StatusMsgs == [type : {"topology", "equip_status"}, st : Status]
Msg == Snapshots \cup AlarmMsgs \cup ValueMsgs \cup StatusMsgs

-----------------------------------------------------------------------------
(* What the messages of a payload do to a dashboard.                       *)

LEMMA MergeType ==
  ASSUME NEW a \in [Items -> Nat], NEW b \in [Items -> Nat]
  PROVE  Merge(a, b) \in [Items -> Nat]
BY DEF Merge

LEMMA ReduceSnapshot ==
  ASSUME NEW v \in View, NEW m \in Snapshots
  PROVE  /\ Reduce(v, m) \in View
         /\ Reduce(v, m) = [alarms |-> m.alarms, vals |-> m.vals, status |-> m.st, topo |-> m.st]
BY DEF Reduce, View, Snapshots

LEMMA ReduceAlarm ==
  ASSUME NEW v \in View, NEW m \in AlarmMsgs
  PROVE  /\ Reduce(v, m) \in View
         /\ Reduce(v, m).vals = v.vals
         /\ Reduce(v, m).status = v.status /\ Reduce(v, m).topo = v.topo
         /\ \A i \in Aids : Reduce(v, m).alarms[i] = IF i = m.id THEN m.row ELSE v.alarms[i]
<1>1. Reduce(v, m) = [v EXCEPT !.alarms = [v.alarms EXCEPT ![m.id] = m.row]]
  BY DEF Reduce, AlarmMsgs
<1>2. m.row \in Row /\ v.alarms \in [Aids -> Row]
  BY DEF AlarmMsgs, View
<1> DEFINE a == [v.alarms EXCEPT ![m.id] = m.row]
<1>3. a \in [Aids -> Row] /\ \A i \in Aids : a[i] = IF i = m.id THEN m.row ELSE v.alarms[i]
  BY <1>2
<1> HIDE DEF a
<1>4. Reduce(v, m) = [v EXCEPT !.alarms = a]
  BY <1>1 DEF a
<1> QED BY <1>3, <1>4 DEF View

LEMMA ReduceValue ==
  ASSUME NEW v \in View, NEW m \in ValueMsgs
  PROVE  /\ Reduce(v, m) \in View
         /\ Reduce(v, m).vals = Merge(v.vals, m.vals)
         /\ Reduce(v, m).status = v.status /\ Reduce(v, m).topo = v.topo
         /\ Reduce(v, m).alarms = v.alarms
<1>1. Reduce(v, m) = [v EXCEPT !.vals = Merge(v.vals, m.vals)]
  BY DEF Reduce, ValueMsgs
<1>2. Merge(v.vals, m.vals) \in [Items -> Nat]
  BY MergeType DEF View, ValueMsgs
<1> QED BY <1>1, <1>2 DEF View

LEMMA ReduceStatus ==
  ASSUME NEW v \in View, NEW m \in StatusMsgs
  PROVE  /\ Reduce(v, m) \in View
         /\ Reduce(v, m).vals = v.vals /\ Reduce(v, m).alarms = v.alarms
         /\ Reduce(v, m).topo = IF m.type = "topology" THEN m.st ELSE v.topo
         /\ Reduce(v, m).status = IF m.type = "topology" THEN v.status ELSE m.st
<1>1. CASE m.type = "topology"
  BY <1>1 DEF Reduce, StatusMsgs, View
<1>2. CASE m.type = "equip_status"
  BY <1>2 DEF Reduce, StatusMsgs, View
<1> QED BY <1>1, <1>2 DEF StatusMsgs

LEMMA ReduceType ==
  ASSUME NEW v \in View, NEW m \in Msg
  PROVE  Reduce(v, m) \in View
BY ReduceSnapshot, ReduceAlarm, ReduceValue, ReduceStatus DEF Msg

-----------------------------------------------------------------------------
(* Received, message by message.                                           *)

Follows(f, v, msgs) ==
  /\ f \in [0..Len(msgs) -> View]
  /\ f[0] = v
  /\ \A k \in 1..Len(msgs) : f[k] = Reduce(f[k - 1], msgs[k])

LEMMA FollowsExists ==
  ASSUME NEW v \in View, NEW msgs \in Seq(Msg)
  PROVE  \E f : Follows(f, v, msgs)
<1> DEFINE n == Len(msgs)
           F == [p \in (1..n) \X View |-> Reduce(p[2], msgs[p[1]])]
<1>1. n \in Nat /\ \A k \in 1..n : msgs[k] \in Msg
  BY ElementOfSeq, LenProperties
<1> HIDE DEF n
<1>2. \A k \in 1..n, w \in View : F[<<k, w>>] = Reduce(w, msgs[k])
  OBVIOUS
<1>3. F \in [(1..n) \X View -> View]
  <2>1. \A p \in (1..n) \X View : Reduce(p[2], msgs[p[1]]) \in View
    BY <1>1, ReduceType
  <2> QED BY <2>1
<1> HIDE DEF F
<1>4. PICK f : Steps(f, n, View, v, F)
  BY <1>1, <1>3, StepByStep, Zenon
<1>5. ASSUME NEW k \in 1..n PROVE f[k] = Reduce(f[k - 1], msgs[k])
  <2>1. k - 1 \in 0..n
    BY <1>1
  <2>2. f[k - 1] \in View
    BY <1>4, <2>1 DEF Steps
  <2> QED BY <1>2, <1>4, <2>2 DEF Steps
<1> QED BY <1>4, <1>5 DEF Follows, Steps, n

\* There is only one way to go on.
LEMMA FollowsUnique ==
  ASSUME NEW v, NEW msgs \in Seq(Msg), NEW f, NEW g, Follows(f, v, msgs), g[0] = v,
         \A k \in 1..Len(msgs) : g[k] = Reduce(g[k - 1], msgs[k])
  PROVE  g[Len(msgs)] = f[Len(msgs)]
<1> DEFINE n == Len(msgs)
           D == {k \in Nat : k <= n => g[k] = f[k]}
<1>1. n \in Nat
  BY LenProperties
<1>2. f[0] = v /\ \A k \in 1..n : f[k] = Reduce(f[k - 1], msgs[k])
  BY DEF Follows
<1> HIDE DEF n
<1>3. 0 \in D
  BY <1>2
<1>4. ASSUME NEW k \in Nat, k \in D PROVE k + 1 \in D
  <2> SUFFICES ASSUME k + 1 <= n PROVE g[k + 1] = f[k + 1]
    OBVIOUS
  <2>1. k + 1 \in 1..n /\ (k + 1) - 1 = k /\ g[k] = f[k]
    BY <1>1, <1>4
  <2>2. g[k + 1] = Reduce(g[k], msgs[k + 1])
    BY <2>1 DEF n
  <2>3. f[k + 1] = Reduce(f[k], msgs[k + 1])
    BY <1>2, <2>1
  <2> QED BY <2>1, <2>2, <2>3
<1>5. n \in D
  BY <1>1, <1>3, <1>4, EveryNat
<1> QED BY <1>5, <1>1 DEF n

\* The recursive function of Received is the one that follows the messages.
LEMMA ReceivedIs ==
  ASSUME NEW v \in View, NEW msgs \in Seq(Msg), NEW f, Follows(f, v, msgs)
  PROVE  Received(v, msgs) = f[Len(msgs)]
<1> DEFINE n == Len(msgs)
           g == CHOOSE h : h = [k \in 0..n |-> IF k = 0 THEN v ELSE Reduce(h[k - 1], msgs[k])]
<1>1. Received(v, msgs) = g[n]
  BY DEF Received
<1>2. n \in Nat
  BY LenProperties
<1>3. f = [k \in 0..n |-> IF k = 0 THEN v ELSE Reduce(f[k - 1], msgs[k])]
  <2>1. f \in [0..n -> View] /\ f[0] = v /\ \A k \in 1..n : f[k] = Reduce(f[k - 1], msgs[k])
    BY DEF Follows
  <2> HIDE DEF n
  <2>2. \A k \in 0..n : k = 0 \/ k \in 1..n
    BY <1>2
  <2> QED BY <2>1, <2>2
<1>4. g = [k \in 0..n |-> IF k = 0 THEN v ELSE Reduce(g[k - 1], msgs[k])]
  BY <1>3
<1> HIDE DEF g
<1>5. g[0] = v /\ \A k \in 1..n : g[k] = Reduce(g[k - 1], msgs[k])
  <2> HIDE DEF n
  <2>1. 0 \in 0..n /\ \A k \in 1..n : k \in 0..n /\ k # 0
    BY <1>2
  <2> QED BY <1>4, <2>1
<1>6. g[n] = f[n]
  BY <1>5, FollowsUnique
<1> QED BY <1>1, <1>6

LEMMA ReceivedType ==
  ASSUME NEW v \in View, NEW msgs \in Seq(Msg)
  PROVE  Received(v, msgs) \in View
<1>1. PICK f : Follows(f, v, msgs)
  BY FollowsExists
<1>2. Len(msgs) \in 0..Len(msgs)
  BY LenProperties
<1> QED BY <1>1, <1>2, ReceivedIs DEF Follows

\* A payload without messages changes nothing.
LEMMA ReceivedEmpty ==
  ASSUME NEW v \in View
  PROVE  Received(v, <<>>) = v
<1>1. <<>> \in Seq(Msg) /\ Len(<<>>) = 0
  BY EmptySeq
<1>2. PICK f : Follows(f, v, <<>>)
  BY <1>1, FollowsExists
<1> QED BY <1>1, <1>2, ReceivedIs DEF Follows

\* One more message is received after the others.
LEMMA ReceivedAppend ==
  ASSUME NEW v \in View, NEW msgs \in Seq(Msg), NEW m \in Msg
  PROVE  Received(v, Append(msgs, m)) = Reduce(Received(v, msgs), m)
<1> DEFINE n == Len(msgs)
           t == Append(msgs, m)
<1>1. n \in Nat /\ t \in Seq(Msg) /\ Len(t) = n + 1 /\ t[n + 1] = m /\ \A k \in 1..n : t[k] = msgs[k]
  BY AppendProperties, LenProperties
<1>2. PICK f : Follows(f, v, msgs)
  BY FollowsExists
<1>3. PICK g : Follows(g, v, t)
  BY <1>1, FollowsExists
<1>4. g[0] = v /\ \A k \in 1..(n + 1) : g[k] = Reduce(g[k - 1], t[k])
  BY <1>1, <1>3 DEF Follows
<1>5. \A k \in 1..n : g[k] = Reduce(g[k - 1], msgs[k])
  BY <1>1, <1>4
<1>6. g[n] = f[n]
  BY <1>2, <1>4, <1>5, FollowsUnique
<1>7. g[n + 1] = Reduce(g[n], m)
  <2>1. n + 1 \in 1..(n + 1) /\ (n + 1) - 1 = n
    BY <1>1
  <2> QED BY <1>1, <1>4, <2>1
<1>8. Received(v, msgs) = f[n] /\ Received(v, t) = g[n + 1]
  BY <1>1, <1>2, <1>3, ReceivedIs
<1> QED BY <1>6, <1>7, <1>8

LEMMA ReceivedOne ==
  ASSUME NEW v \in View, NEW m \in Msg
  PROVE  Received(v, <<m>>) = Reduce(v, m)
<1>1. <<>> \in Seq(Msg) /\ Append(<<>>, m) = <<m>>
  BY EmptySeq
<1> QED BY <1>1, ReceivedAppend, ReceivedEmpty

\* Messages about alarms change nothing else.
LEMMA ReceivedAlarms ==
  ASSUME NEW v \in View, NEW msgs \in Seq(AlarmMsgs)
  PROVE  /\ Received(v, msgs).vals = v.vals
         /\ Received(v, msgs).status = v.status
         /\ Received(v, msgs).topo = v.topo
<1>1. msgs \in Seq(Msg) /\ Len(msgs) \in Nat /\ \A k \in 1..Len(msgs) : msgs[k] \in AlarmMsgs
  BY ElementOfSeq, LenProperties DEF Msg
<1>2. PICK f : Follows(f, v, msgs)
  BY <1>1, FollowsExists
<1> DEFINE n == Len(msgs)
           D == {k \in Nat : k <= n => f[k].vals = v.vals /\ f[k].status = v.status /\ f[k].topo = v.topo}
<1>3. f \in [0..n -> View] /\ f[0] = v /\ \A k \in 1..n : f[k] = Reduce(f[k - 1], msgs[k])
  BY <1>2 DEF Follows
<1>4. n \in Nat /\ \A k \in 1..n : msgs[k] \in AlarmMsgs
  BY <1>1
<1> HIDE DEF n
<1>5. 0 \in D
  BY <1>3
<1>6. ASSUME NEW k \in Nat, k \in D PROVE k + 1 \in D
  <2> SUFFICES ASSUME k + 1 <= n
               PROVE  f[k + 1].vals = v.vals /\ f[k + 1].status = v.status /\ f[k + 1].topo = v.topo
    OBVIOUS
  <2>1. k + 1 \in 1..n /\ (k + 1) - 1 = k /\ k \in 0..n
    BY <1>4
  <2>2. f[k].vals = v.vals /\ f[k].status = v.status /\ f[k].topo = v.topo
    BY <1>4, <1>6, <2>1
  <2>3. f[k] \in View /\ msgs[k + 1] \in AlarmMsgs /\ f[k + 1] = Reduce(f[k], msgs[k + 1])
    BY <1>3, <1>4, <2>1
  <2>4. /\ Reduce(f[k], msgs[k + 1]).vals = f[k].vals
        /\ Reduce(f[k], msgs[k + 1]).status = f[k].status
        /\ Reduce(f[k], msgs[k + 1]).topo = f[k].topo
    BY <2>3, ReduceAlarm, Zenon
  <2> QED BY <2>2, <2>3, <2>4
<1>7. n \in D
  BY <1>4, <1>5, <1>6, EveryNat
<1>8. Received(v, msgs) = f[n]
  BY <1>1, <1>2, ReceivedIs DEF n
<1> QED BY <1>4, <1>7, <1>8

-----------------------------------------------------------------------------
(* Alarms: calls of the engine, and the payload they end up in.            *)

\* Two rows show a dashboard the same: equal, or neither of them open.
Same(r, s) == r = s \/ (r.st \notin Open /\ s.st \notin Open)

LEMMA LargestExists ==
  ASSUME NEW S, S \subseteq Nat, S # {}, NEW n \in Nat, \A x \in S : x <= n
  PROVE  \E m \in S : \A x \in S : m >= x
<1> SUFFICES ASSUME \A m \in S : \E x \in S : ~(m >= x) PROVE FALSE
  OBVIOUS
<1> DEFINE D == {k \in Nat : \E x \in S : x >= k}
<1>1. 0 \in D
  <2>1. PICK x \in S : x \in Nat
    OBVIOUS
  <2>2. x >= 0
    BY <2>1
  <2> QED BY <2>2
<1>2. ASSUME NEW k \in Nat, k \in D PROVE k + 1 \in D
  <2>1. PICK m \in S : m >= k
    BY <1>2
  <2>2. PICK x \in S : ~(m >= x)
    OBVIOUS
  <2>3. x >= k + 1
    BY <2>1, <2>2
  <2> QED BY <2>3
<1>3. n + 1 \in D
  BY <1>1, <1>2, EveryNat
<1> QED BY <1>3

LEMMA NewAidType ==
  ASSUME alarm \in [Aids -> Row]
  PROVE  NewAid \in Nat
<1> DEFINE S == {0} \cup {i \in Aids : alarm[i].gen > 0}
<1>1. S \subseteq Nat /\ S # {} /\ MaxEvents \in Nat /\ \A x \in S : x <= MaxEvents
  BY FeedAssumption DEF Aids
<1> HIDE DEF S
<1>2. \E m \in S : \A x \in S : m >= x
  BY <1>1, LargestExists
<1>3. Max(S) \in S
  BY <1>2 DEF Max
<1> QED BY <1>1, <1>3 DEF NewAid, S

Calls == [id : Nat, row : Row]

LEMMA AlarmCallsType ==
  ASSUME alarm \in [Aids -> Row], events \in Nat
  PROVE  AlarmCalls \subseteq Calls /\ NoCall \in Calls
<1>1. NoCall \in Calls
  BY DEF NoCall, Calls, NoAlarm, Row
<1>2. [id |-> NewAid, row |-> [gen |-> events + 1, st |-> "RAISED"]] \in Calls
  BY NewAidType DEF Calls, Row
<1>3. ASSUME NEW i \in Aids PROVE [id |-> i, row |-> [alarm[i] EXCEPT !.st = "CLEARED"]] \in Calls
  <2>1. i \in Nat /\ alarm[i] \in Row
    BY FeedAssumption DEF Aids
  <2> QED BY <2>1 DEF Calls, Row
<1>4. ASSUME NEW i \in Aids PROVE [id |-> i, row |-> [gen |-> events + 1, st |-> "RAISED"]] \in Calls
  <2>1. i \in Nat
    BY FeedAssumption DEF Aids
  <2> QED BY <2>1 DEF Calls, Row
<1> QED BY <1>1, <1>2, <1>3, <1>4 DEF AlarmCalls

\* A call changes one alarm and queues a message that tells a dashboard so.
LEMMA CallQueued ==
  ASSUME alarm \in [Aids -> Row], NEW q \in Seq(Msg), NEW c \in Calls, NEW w \in View
  PROVE  /\ Applied(c) \in [Aids -> Row]
         /\ q \o Emitted(c) \in Seq(Msg)
         /\ q \in Seq(AlarmMsgs) => q \o Emitted(c) \in Seq(AlarmMsgs)
         /\ Received(w, q \o Emitted(c)) \in View
         /\ Received(w, q \o Emitted(c)).vals = Received(w, q).vals
         /\ Received(w, q \o Emitted(c)).status = Received(w, q).status
         /\ Received(w, q \o Emitted(c)).topo = Received(w, q).topo
         /\ \A i \in Aids :
              IF i = c.id
              THEN Applied(c)[i] = c.row /\ Received(w, q \o Emitted(c)).alarms[i] = c.row
              ELSE /\ Applied(c)[i] = alarm[i]
                   /\ Received(w, q \o Emitted(c)).alarms[i] = Received(w, q).alarms[i]
<1>1. c.id \in Nat /\ c.row \in Row /\ \A i \in Aids : i # 0
  BY FeedAssumption DEF Calls, Aids
<1> DEFINE m == AlarmMsg(c.id, c.row)
           v == Received(w, q)
<1>2. v \in View
  BY ReceivedType
<1>3. CASE c.id = 0
  <2>1. Applied(c) = alarm /\ Emitted(c) = <<>>
    BY <1>3 DEF Applied, Emitted
  <2>2. q \o Emitted(c) = q
    BY <2>1, ConcatEmptySeq
  <2> QED BY <1>1, <1>2, <1>3, <2>1, <2>2
<1>4. CASE c.id # 0
  <2>1. Applied(c) = [alarm EXCEPT ![c.id] = c.row] /\ Emitted(c) = <<m>>
    BY <1>4 DEF Applied, Emitted
  <2>2. m \in AlarmMsgs /\ m \in Msg /\ m.id = c.id /\ m.row = c.row
    BY <1>1 DEF AlarmMsg, AlarmMsgs, Msg
  <2> HIDE DEF m
  <2>3. q \o Emitted(c) = Append(q, m)
    BY <2>1, <2>2, AppendIsConcat
  <2>4. Append(q, m) \in Seq(Msg) /\ (q \in Seq(AlarmMsgs) => Append(q, m) \in Seq(AlarmMsgs))
    BY <2>2, AppendProperties
  <2>5. Received(w, Append(q, m)) = Reduce(v, m)
    BY <2>2, ReceivedAppend
  <2> HIDE DEF v
  <2>6. /\ Reduce(v, m) \in View
        /\ Reduce(v, m).vals = v.vals
        /\ Reduce(v, m).status = v.status /\ Reduce(v, m).topo = v.topo
        /\ \A i \in Aids : Reduce(v, m).alarms[i] = IF i = m.id THEN m.row ELSE v.alarms[i]
    BY <1>2, <2>2, ReduceAlarm
  <2>7. Applied(c) \in [Aids -> Row] /\ \A i \in Aids : Applied(c)[i] = IF i = c.id THEN c.row ELSE alarm[i]
    BY <1>1, <2>1
  <2>8. \A i \in Aids :
          IF i = c.id
          THEN Applied(c)[i] = c.row /\ Reduce(v, m).alarms[i] = c.row
          ELSE Applied(c)[i] = alarm[i] /\ Reduce(v, m).alarms[i] = v.alarms[i]
    BY <2>2, <2>6, <2>7
  <2> QED BY <2>3, <2>4, <2>5, <2>6, <2>7, <2>8 DEF v
<1> QED BY <1>3, <1>4

-----------------------------------------------------------------------------
(* The invariant.                                                          *)

FeedType ==
  /\ alarm \in [Aids -> Row]
  /\ lastVals \in [Items -> Nat] /\ pending \in [Items -> Nat]
  /\ status \in {"OK", "DOWN"} /\ statusPrev \in {"UNSENT", "OK", "DOWN"}
  /\ queue \in Seq(AlarmMsgs)
  /\ sending \in [msgs : Seq(Msg), to : SUBSET Nat, slow : BOOLEAN]
  /\ phase \in {"closed", "accepting", "greeting", "open"}
  /\ phase \in {"accepting", "greeting"} => snap \in Snapshots
  /\ view \in View
  /\ events \in Nat /\ sock \in Nat
  /\ missed \subseteq {"payload", "status", "topology"}

\* Sockets are numbered: the one that is being accepted is unknown to the hub.
SocketsOK ==
  /\ \A s \in clients \cup sending.to : s \in 0..sock
  /\ phase = "accepting" => sock \notin clients \cup sending.to
  /\ phase \in {"accepting", "greeting"} => "topology" \in missed

\* What waits in the hub brings a dashboard that knows the alarms and values of
\* the MES to where they are now: nothing in it is out of date.
QueueNewest ==
  \A w \in View, i \in Aids : Same(w.alarms[i], alarm[i]) => Same(Received(w, queue).alarms[i], alarm[i])
PendingNewest == \A i \in Items : pending[i] > 0 => pending[i] = lastVals[i]

\* The hub will still send to the browser's socket.
Registered == phase = "accepting" \/ (phase \in {"greeting", "open"} /\ sock \in clients)
NothingMissed == Registered /\ "payload" \notin missed

\* What the dashboard will show after its snapshot and the payload on its way.
Base == IF phase = "open" THEN view ELSE Reduce(view, snap)
InFlight == IF sock \in sending.to THEN sending.msgs ELSE <<>>
Shown == Received(Base, InFlight)

AlarmsShown == NothingMissed => \A i \in Aids : Same(Received(Shown, queue).alarms[i], alarm[i])
ValuesShown == NothingMissed => Merge(Shown.vals, pending) = lastVals
StatusShown == NothingMissed /\ "status" \notin missed /\ statusPrev # "UNSENT" => Shown.status = statusPrev

\* A slow payload on its way has the status that was noted.
SlowShown == sending.slow => \A w \in View : Received(w, sending.msgs).topo = statusPrev
TopologyShown ==
  phase = "open" /\ sock \in clients /\ "topology" \notin missed => Shown.topo = statusPrev

FeedInv ==
  /\ FeedType /\ SocketsOK /\ QueueNewest /\ PendingNewest
  /\ AlarmsShown /\ ValuesShown /\ StatusShown /\ SlowShown /\ TopologyShown

LEMMA ShownType ==
  ASSUME FeedType, phase # "closed"
  PROVE  Base \in View /\ InFlight \in Seq(Msg) /\ Shown \in View
<1>1. Base \in View
  BY ReduceSnapshot DEF FeedType, Base
<1>2. InFlight \in Seq(Msg)
  BY EmptySeq DEF FeedType, InFlight
<1> QED BY <1>1, <1>2, ReceivedType DEF Shown

LEMMA QueueIsMsgs ==
  ASSUME FeedType
  PROVE  queue \in Seq(Msg)
BY DEF FeedType, Msg

-----------------------------------------------------------------------------
(* The steps.                                                              *)

LEMMA InitFeedInv == Init => FeedInv
<1> SUFFICES ASSUME Init PROVE FeedInv
  OBVIOUS
<1>1. NoAlarm \in Row /\ Nothing \in [Items -> Nat]
  BY DEF NoAlarm, Row, Nothing
<1>2. /\ alarm = [i \in Aids |-> NoAlarm] /\ lastVals = Nothing /\ pending = Nothing
      /\ queue = <<>> /\ clients = {} /\ sending = Idle /\ phase = "closed" /\ sock = 0
      /\ status = "OK" /\ statusPrev = "UNSENT" /\ events = 0 /\ missed = {}
      /\ view = [alarms |-> alarm, vals |-> Nothing, status |-> "NONE", topo |-> "NONE"]
  BY DEF Init
<1>3. alarm \in [Aids -> Row]
  BY <1>1, <1>2
<1>4. view \in View
  BY <1>1, <1>2, <1>3 DEF View, Status
<1>5. Idle \in [msgs : Seq(Msg), to : SUBSET Nat, slow : BOOLEAN] /\ Idle.to = {} /\ Idle.slow = FALSE
  BY EmptySeq DEF Idle
<1>6. queue \in Seq(AlarmMsgs)
  BY <1>2, EmptySeq
<1>7. FeedType
  BY <1>1, <1>2, <1>3, <1>4, <1>5, <1>6 DEF FeedType
<1>8. SocketsOK
  BY <1>2, <1>5 DEF SocketsOK
<1>9. QueueNewest
  BY <1>2, ReceivedEmpty DEF QueueNewest
<1>10. PendingNewest
  BY <1>2 DEF PendingNewest, Nothing
<1>11. AlarmsShown /\ ValuesShown /\ StatusShown /\ SlowShown /\ TopologyShown
  BY <1>2, <1>5 DEF AlarmsShown, ValuesShown, StatusShown, SlowShown, TopologyShown, NothingMissed, Registered
<1> QED BY <1>7, <1>8, <1>9, <1>10, <1>11 DEF FeedInv

\* What a call of the engine does to the waiting messages.
LEMMA CallInv ==
  ASSUME FeedInv, NEW c \in Calls, alarm' = Applied(c), queue' = queue \o Emitted(c),
         UNCHANGED <<sending, sock, phase, snap, view>>
  PROVE  /\ alarm' \in [Aids -> Row] /\ queue' \in Seq(AlarmMsgs)
         /\ QueueNewest'
         /\ Shown' = Shown
         /\ NothingMissed =>
              \A i \in Aids : Same(Received(Shown', queue').alarms[i], alarm'[i])
<1>1. alarm \in [Aids -> Row] /\ queue \in Seq(AlarmMsgs) /\ queue \in Seq(Msg) /\ FeedType
  BY QueueIsMsgs DEF FeedInv, FeedType
<1>2. alarm' \in [Aids -> Row] /\ queue' \in Seq(AlarmMsgs)
  <2>1. View # {}
    BY <1>1 DEF FeedType
  <2> QED BY <1>1, <2>1, CallQueued
<1>3. \A w \in View, i \in Aids :
        IF i = c.id
        THEN Applied(c)[i] = c.row /\ Received(w, queue \o Emitted(c)).alarms[i] = c.row
        ELSE /\ Applied(c)[i] = alarm[i]
             /\ Received(w, queue \o Emitted(c)).alarms[i] = Received(w, queue).alarms[i]
  BY <1>1, CallQueued
<1>4. QueueNewest'
  BY <1>3 DEF FeedInv, QueueNewest, Same
<1>5. Shown' = Shown
  BY DEF Shown, Base, InFlight
<1>6. ASSUME NothingMissed, NEW i \in Aids
      PROVE  Same(Received(Shown', queue').alarms[i], alarm'[i])
  <2>1. Shown \in View
    BY <1>1, <1>6, ShownType DEF NothingMissed, Registered
  <2>2. Same(Received(Shown, queue).alarms[i], alarm[i])
    BY <1>6 DEF FeedInv, AlarmsShown
  <2> QED BY <1>3, <1>5, <2>1, <2>2 DEF Same
<1> QED BY <1>2, <1>4, <1>5, <1>6

LEMMA RouteInv ==
  ASSUME FeedInv, Route
  PROVE  FeedInv'
<1>1. PICK S \in SUBSET Items, c \in AlarmCalls :
        LET v == [i \in Items |-> IF i \in S THEN events + 1 ELSE 0] IN
        /\ alarm' = Applied(c)
        /\ queue' = queue \o Emitted(c)
        /\ lastVals' = Merge(lastVals, v)
        /\ pending' = Coalesced(v)
  BY DEF Route
<1> DEFINE v == [i \in Items |-> IF i \in S THEN events + 1 ELSE 0]
<1>2. /\ events' = events + 1
      /\ UNCHANGED <<status, statusPrev, clients, sending, sock, phase, snap, view, missed>>
  BY DEF Route, browser
<1>3. /\ lastVals \in [Items -> Nat] /\ pending \in [Items -> Nat] /\ events \in Nat
      /\ alarm \in [Aids -> Row]
  BY DEF FeedInv, FeedType
<1>4. v \in [Items -> Nat]
  BY <1>3
<1>5. lastVals' = Merge(lastVals, v) /\ pending' = Merge(pending, v)
  BY <1>1 DEF Coalesced
<1> HIDE DEF v
<1>6. lastVals' \in [Items -> Nat] /\ pending' \in [Items -> Nat]
  BY <1>3, <1>4, <1>5, MergeType
<1>7. c \in Calls
  BY <1>3, AlarmCallsType
<1>8. /\ alarm' \in [Aids -> Row] /\ queue' \in Seq(AlarmMsgs) /\ QueueNewest'
      /\ Shown' = Shown
      /\ NothingMissed => \A i \in Aids : Same(Received(Shown', queue').alarms[i], alarm'[i])
  BY <1>1, <1>2, <1>7, CallInv
<1>9. NothingMissed' = NothingMissed
  BY <1>2 DEF NothingMissed, Registered
<1>10. FeedType'
  BY <1>2, <1>3, <1>6, <1>8 DEF FeedInv, FeedType
<1>11. SocketsOK' /\ SlowShown'
  BY <1>2 DEF FeedInv, SocketsOK, SlowShown
<1>12. PendingNewest'
  BY <1>3, <1>4, <1>5 DEF FeedInv, PendingNewest, Merge
<1>13. AlarmsShown' /\ StatusShown' /\ TopologyShown'
  BY <1>2, <1>8, <1>9 DEF FeedInv, AlarmsShown, StatusShown, TopologyShown
<1>14. ValuesShown'
  <2> SUFFICES ASSUME NothingMissed PROVE Merge(Shown.vals, pending') = lastVals'
    BY <1>8, <1>9 DEF ValuesShown
  <2>1. Merge(Shown.vals, pending) = lastVals
    BY DEF FeedInv, ValuesShown
  <2> DEFINE x == Shown.vals
  <2> HIDE DEF x
  <2>2. Merge(x, Merge(pending, v)) = Merge(Merge(x, pending), v)
    BY <1>3, <1>4 DEF Merge
  <2> QED BY <1>5, <2>1, <2>2 DEF x
<1> QED BY <1>8, <1>10, <1>11, <1>12, <1>13, <1>14 DEF FeedInv

LEMMA AckInv ==
  ASSUME FeedInv, NEW i \in Aids, Ack(i)
  PROVE  FeedInv'
<1>1. PICK st \in IF alarm[i].st = "RAISED" THEN {"ACKED", "CLEARED"} ELSE {alarm[i].st} :
        /\ alarm' = [alarm EXCEPT ![i].st = st]
        /\ queue' = Append(queue, AlarmMsg(i, alarm'[i]))
  BY DEF Ack
<1>2. /\ events' = events + 1
      /\ UNCHANGED <<lastVals, status, statusPrev, pending, clients, sending, sock, phase, snap, view, missed>>
  BY DEF Ack, browser
<1>3. /\ alarm \in [Aids -> Row] /\ events \in Nat /\ i \in Nat /\ i # 0
      /\ queue \in Seq(AlarmMsgs)
  BY FeedAssumption DEF FeedInv, FeedType, Aids
<1> DEFINE r == [alarm[i] EXCEPT !.st = st]
           c == [id |-> i, row |-> r]
<1>4. alarm' = [alarm EXCEPT ![i] = r] /\ r \in Row
  BY <1>1, <1>3 DEF Row
<1> HIDE DEF r
<1>5. c \in Calls /\ c.id = i /\ c.row = r
  BY <1>3, <1>4 DEF Calls
<1>6. alarm' = Applied(c) /\ alarm'[i] = r
  BY <1>3, <1>4, <1>5 DEF Applied
<1>7. queue' = queue \o Emitted(c)
  <2>1. Emitted(c) = <<AlarmMsg(i, r)>>
    BY <1>3, <1>5 DEF Emitted
  <2>2. AlarmMsg(i, r) \in AlarmMsgs
    BY <1>3, <1>4 DEF AlarmMsg, AlarmMsgs
  <2> QED BY <1>1, <1>3, <1>6, <2>1, <2>2, AppendIsConcat
<1> HIDE DEF c
<1>8. /\ alarm' \in [Aids -> Row] /\ queue' \in Seq(AlarmMsgs) /\ QueueNewest'
      /\ Shown' = Shown
      /\ NothingMissed => \A j \in Aids : Same(Received(Shown', queue').alarms[j], alarm'[j])
  BY <1>2, <1>5, <1>6, <1>7, CallInv
<1>9. NothingMissed' = NothingMissed
  BY <1>2 DEF NothingMissed, Registered
<1>10. FeedType'
  BY <1>2, <1>3, <1>8 DEF FeedInv, FeedType
<1>11. SocketsOK' /\ SlowShown' /\ PendingNewest'
  BY <1>2 DEF FeedInv, SocketsOK, SlowShown, PendingNewest
<1>12. AlarmsShown' /\ ValuesShown' /\ StatusShown' /\ TopologyShown'
  BY <1>2, <1>8, <1>9 DEF FeedInv, AlarmsShown, ValuesShown, StatusShown, TopologyShown
<1> QED BY <1>8, <1>10, <1>11, <1>12 DEF FeedInv

\* A purged alarm was not shown any more.
LEMMA PurgeInv ==
  ASSUME FeedInv, Purge
  PROVE  FeedInv'
<1>1. /\ alarm' = [i \in Aids |-> IF alarm[i].st = "CLEARED" THEN NoAlarm ELSE alarm[i]]
      /\ UNCHANGED <<lastVals, status, statusPrev, queue, pending, clients, sending,
                     sock, phase, snap, view, events, missed>>
  BY DEF Purge, feed, browser
<1>2. alarm \in [Aids -> Row] /\ NoAlarm \in Row /\ NoAlarm.st = "CLEARED" /\ "CLEARED" \notin Open
  BY DEF FeedInv, FeedType, NoAlarm, Row, Open
<1>3. alarm' \in [Aids -> Row] /\ \A i \in Aids : Same(alarm'[i], alarm[i])
  BY <1>1, <1>2 DEF Same
<1>5. QueueNewest'
  BY <1>1, <1>3 DEF FeedInv, QueueNewest, Same
<1>6. Shown' = Shown /\ NothingMissed' = NothingMissed
  BY <1>1 DEF Shown, Base, InFlight, NothingMissed, Registered
<1>7. AlarmsShown'
  BY <1>1, <1>3, <1>6 DEF FeedInv, AlarmsShown, Same
<1>8. FeedType'
  BY <1>1, <1>3 DEF FeedInv, FeedType
<1>9. SocketsOK' /\ SlowShown' /\ PendingNewest' /\ ValuesShown' /\ StatusShown' /\ TopologyShown'
  BY <1>1, <1>6 DEF FeedInv, SocketsOK, SlowShown, PendingNewest, ValuesShown, StatusShown, TopologyShown
<1> QED BY <1>5, <1>7, <1>8, <1>9 DEF FeedInv

-----------------------------------------------------------------------------
(* The hub's turn.                                                         *)

Values == IF pending = Nothing THEN <<>> ELSE <<ValueMsg(pending)>>
Slow(slow) == IF slow THEN SlowMessages ELSE <<>>

LEMMA SlowSent ==
  ASSUME FeedType, NEW q \in Seq(Msg), NEW w \in View, NEW slow \in BOOLEAN
  PROVE  /\ q \o Slow(slow) \in Seq(Msg)
         /\ Received(w, q \o Slow(slow)).alarms = Received(w, q).alarms
         /\ Received(w, q \o Slow(slow)).vals = Received(w, q).vals
         /\ slow => Received(w, q \o Slow(slow)).topo = status
         /\ ~slow => /\ Received(w, q \o Slow(slow)).topo = Received(w, q).topo
                     /\ Received(w, q \o Slow(slow)).status = Received(w, q).status
         /\ slow /\ statusPrev # status => Received(w, q \o Slow(slow)).status = status
         /\ slow /\ statusPrev = status => Received(w, q \o Slow(slow)).status = Received(w, q).status
<1> DEFINE t == [type |-> "topology", st |-> status]
           e == [type |-> "equip_status", st |-> status]
           v == Received(w, q)
<1>1. v \in View
  BY ReceivedType
<1>2. t \in StatusMsgs /\ e \in StatusMsgs /\ t.st = status /\ e.st = status
      /\ t.type = "topology" /\ e.type # "topology"
  BY DEF FeedType, StatusMsgs, Status
<1>3. CASE ~slow
  <2>1. q \o Slow(slow) = q
    BY <1>3, ConcatEmptySeq DEF Slow
  <2> QED BY <1>3, <2>1
<1>4. CASE slow
  <2>1. Slow(slow) = IF statusPrev # status THEN <<t>> \o <<e>> ELSE <<t>> \o <<>>
    BY <1>4 DEF Slow, SlowMessages
  <2> HIDE DEF t, e
  <2>2. t \in Msg /\ e \in Msg /\ <<t>> \in Seq(Msg) /\ <<e>> \in Seq(Msg)
    BY <1>2 DEF Msg
  <2>3. q \o <<t>> = Append(q, t) /\ Append(q, t) \in Seq(Msg)
    BY <2>2, AppendIsConcat, AppendProperties
  <2>4. Received(w, Append(q, t)) = Reduce(v, t)
    BY <2>2, ReceivedAppend
  <2> HIDE DEF v
  <2>5. /\ Reduce(v, t) \in View
        /\ Reduce(v, t).vals = v.vals /\ Reduce(v, t).alarms = v.alarms
        /\ Reduce(v, t).topo = status /\ Reduce(v, t).status = v.status
    BY <1>1, <1>2, ReduceStatus
  <2>6. CASE statusPrev # status
    <3>1. q \o Slow(slow) = Append(Append(q, t), e)
      <4>1. q \o (<<t>> \o <<e>>) = (q \o <<t>>) \o <<e>>
        BY <2>2, ConcatAssociative
      <4>2. (q \o <<t>>) \o <<e>> = Append(Append(q, t), e)
        BY <2>2, <2>3, AppendIsConcat
      <4> QED BY <2>1, <2>6, <4>1, <4>2
    <3>2. Received(w, Append(Append(q, t), e)) = Reduce(Reduce(v, t), e)
      BY <2>2, <2>3, <2>4, ReceivedAppend
    <3> DEFINE u == Reduce(v, t)
    <3> HIDE DEF u
    <3>3. /\ Reduce(u, e).vals = u.vals /\ Reduce(u, e).alarms = u.alarms
          /\ Reduce(u, e).topo = u.topo /\ Reduce(u, e).status = status
      BY <1>2, <2>5, ReduceStatus DEF u
    <3>4. Append(Append(q, t), e) \in Seq(Msg)
      BY <2>2, <2>3, AppendProperties
    <3> QED BY <1>4, <2>5, <2>6, <3>1, <3>2, <3>3, <3>4 DEF u, v
  <2>7. CASE statusPrev = status
    <3>1. <<t>> \o <<>> = <<t>>
      BY <2>2, ConcatEmptySeq
    <3>2. q \o Slow(slow) = Append(q, t)
      BY <2>1, <2>3, <2>7, <3>1
    <3> QED BY <1>4, <2>3, <2>4, <2>5, <2>7, <3>2 DEF v
  <2> QED BY <2>6, <2>7
<1> QED BY <1>3, <1>4

\* What a payload does to a dashboard w when the alarms are to be as in rows.
Effect(w, msgs, rows, slow) ==
  /\ msgs \in Seq(Msg)
  /\ Received(w, msgs).vals = Merge(w.vals, pending)
  /\ slow => Received(w, msgs).topo = status
  /\ ~slow => Received(w, msgs).topo = w.topo /\ Received(w, msgs).status = w.status
  /\ slow /\ statusPrev # status => Received(w, msgs).status = status
  /\ slow /\ statusPrev = status => Received(w, msgs).status = w.status
  /\ \A i \in Aids : Same(Received(w, queue).alarms[i], alarm[i]) =>
                       Same(Received(w, msgs).alarms[i], rows[i])

\* A payload, whoever receives it: it has everything that waited.
LEMMA PayloadShown ==
  ASSUME FeedType, NEW c \in Calls, NEW slow \in BOOLEAN, NEW w \in View,
         NEW msgs, msgs = queue \o Values \o Emitted(c) \o Slow(slow)
  PROVE  Effect(w, msgs, Applied(c), slow)
<1>1. queue \in Seq(AlarmMsgs) /\ queue \in Seq(Msg) /\ pending \in [Items -> Nat]
      /\ alarm \in [Aids -> Row]
  BY QueueIsMsgs DEF FeedType
<1> DEFINE q == queue \o Values
           w1 == Received(w, queue)
           w2 == Received(w, q)
           q3 == q \o Emitted(c)
           w3 == Received(w, q3)
<1>2. /\ w1 \in View /\ w1.vals = w.vals /\ w1.status = w.status /\ w1.topo = w.topo
  BY <1>1, ReceivedType, ReceivedAlarms
<1>3. /\ q \in Seq(Msg) /\ w2.vals = Merge(w.vals, pending)
      /\ w2.status = w.status /\ w2.topo = w.topo /\ w2.alarms = w1.alarms
  <2>1. CASE pending = Nothing
    <3>1. q = queue
      BY <1>1, <2>1, ConcatEmptySeq DEF Values
    <3>2. w.vals \in [Items -> Nat]
      BY DEF View
    <3>3. Merge(w.vals, pending) = w.vals
      BY <2>1, <3>2 DEF Merge, Nothing
    <3> QED BY <1>1, <1>2, <3>1, <3>3
  <2>2. CASE pending # Nothing
    <3> DEFINE m == ValueMsg(pending)
    <3>1. m \in ValueMsgs /\ m \in Msg /\ m.vals = pending
      BY <1>1 DEF ValueMsg, ValueMsgs, Msg
    <3>2. q = queue \o <<m>>
      BY <2>2 DEF Values
    <3> HIDE DEF m, q
    <3>3. q = Append(queue, m) /\ q \in Seq(Msg)
      BY <1>1, <3>1, <3>2, AppendIsConcat, AppendProperties
    <3>4. Received(w, q) = Reduce(w1, m)
      BY <1>1, <3>1, <3>3, ReceivedAppend
    <3> HIDE DEF w1
    <3>5. /\ Reduce(w1, m).vals = Merge(w1.vals, m.vals)
          /\ Reduce(w1, m).status = w1.status /\ Reduce(w1, m).topo = w1.topo
          /\ Reduce(w1, m).alarms = w1.alarms
      BY <1>2, <3>1, ReduceValue
    <3> QED BY <1>2, <3>1, <3>3, <3>4, <3>5
  <2> QED BY <2>1, <2>2
<1> HIDE DEF q
<1>4. /\ q3 \in Seq(Msg) /\ w3.vals = w2.vals /\ w3.status = w2.status /\ w3.topo = w2.topo
      /\ \A i \in Aids :
           IF i = c.id
           THEN Applied(c)[i] = c.row /\ w3.alarms[i] = c.row
           ELSE Applied(c)[i] = alarm[i] /\ w3.alarms[i] = w2.alarms[i]
  BY <1>1, <1>3, CallQueued
<1> HIDE DEF q3
<1>5. msgs = q3 \o Slow(slow)
  BY DEF q3, q
<1>6. /\ msgs \in Seq(Msg)
      /\ Received(w, msgs).alarms = w3.alarms
      /\ Received(w, msgs).vals = w3.vals
      /\ slow => Received(w, msgs).topo = status
      /\ ~slow => Received(w, msgs).topo = w3.topo /\ Received(w, msgs).status = w3.status
      /\ slow /\ statusPrev # status => Received(w, msgs).status = status
      /\ slow /\ statusPrev = status => Received(w, msgs).status = w3.status
  BY <1>4, <1>5, SlowSent
<1> HIDE DEF w1, w2, w3
<1>7. ASSUME NEW i \in Aids, Same(w1.alarms[i], alarm[i])
      PROVE  Same(Received(w, msgs).alarms[i], Applied(c)[i])
  BY <1>3, <1>4, <1>6, <1>7 DEF Same
<1> QED BY <1>2, <1>3, <1>4, <1>6, <1>7 DEF w1, Effect

LEMMA FlushInv ==
  ASSUME FeedInv, NEW slow \in BOOLEAN, Flush(slow)
  PROVE  FeedInv'
<1>1. PICK c \in IF slow /\ events < MaxEvents THEN AlarmCalls ELSE {NoCall} :
        LET msgs == queue \o Values \o Emitted(c) \o Slow(slow) IN
        /\ alarm' = Applied(c)
        /\ events' = IF c.id = 0 THEN events ELSE events + 1
        /\ sending' = IF clients = {} THEN Idle ELSE [msgs |-> msgs, to |-> clients, slow |-> slow]
        /\ missed' = IF phase = "accepting" THEN missed \cup {"payload"} ELSE missed
  BY DEF Flush, Values, Slow
<1> DEFINE msgs == queue \o Values \o Emitted(c) \o Slow(slow)
<1>2. /\ sending = Idle
      /\ queue' = <<>> /\ pending' = Nothing /\ statusPrev' = StatusNoted(slow)
      /\ UNCHANGED <<lastVals, status, clients, sock, phase, snap, view>>
  BY DEF Flush, browser
<1>3. /\ FeedType /\ SocketsOK /\ QueueNewest
      /\ alarm \in [Aids -> Row] /\ events \in Nat /\ lastVals \in [Items -> Nat]
      /\ pending \in [Items -> Nat] /\ status \in {"OK", "DOWN"}
      /\ statusPrev \in {"UNSENT", "OK", "DOWN"} /\ view \in View
      /\ sock \in Nat /\ phase \in {"closed", "accepting", "greeting", "open"}
  BY DEF FeedInv, FeedType
<1>4. c \in Calls
  BY <1>3, AlarmCallsType
<1>5. \A w \in View : Effect(w, msgs, alarm', slow)
  <2>1. alarm' = Applied(c)
    BY <1>1
  <2>2. msgs = queue \o Values \o Emitted(c) \o Slow(slow)
    OBVIOUS
  <2> HIDE DEF msgs
  <2>3. \A w \in View : Effect(w, msgs, Applied(c), slow)
    BY <1>3, <1>4, <2>2, PayloadShown
  <2> QED BY <2>1, <2>3
<1> HIDE DEF msgs
<1>6. msgs \in Seq(Msg)
  BY <1>3, <1>5 DEF Effect
<1>7. alarm' \in [Aids -> Row]
  BY <1>1, <1>3, <1>4, <1>6, CallQueued
<1>8. statusPrev' = (IF slow THEN status ELSE statusPrev)
  BY <1>2 DEF StatusNoted
<1>9. sending' = IF clients = {} THEN Idle ELSE [msgs |-> msgs, to |-> clients, slow |-> slow]
  BY <1>1 DEF msgs
<1>10. /\ Idle \in [msgs : Seq(Msg), to : SUBSET Nat, slow : BOOLEAN]
       /\ Idle.to = {} /\ Idle.slow = FALSE /\ Idle.msgs = <<>>
  BY EmptySeq DEF Idle
<1>11. clients \subseteq Nat
  BY <1>3 DEF SocketsOK
<1>12. sending' \in [msgs : Seq(Msg), to : SUBSET Nat, slow : BOOLEAN]
  BY <1>6, <1>9, <1>10, <1>11
<1>13. FeedType'
  <2>1. queue' \in Seq(AlarmMsgs)
    BY <1>2, EmptySeq
  <2>2. pending' \in [Items -> Nat]
    BY <1>2 DEF Nothing
  <2>3. events' \in Nat
    BY <1>1, <1>3
  <2>4. missed' \subseteq {"payload", "status", "topology"}
    BY <1>1 DEF FeedInv, FeedType
  <2>5. statusPrev' \in {"UNSENT", "OK", "DOWN"}
    BY <1>3, <1>8
  <2> QED BY <1>2, <1>7, <1>12, <2>1, <2>2, <2>3, <2>4, <2>5 DEF FeedInv, FeedType
<1>14. missed \subseteq missed'
  BY <1>1
<1>15. sending'.to = clients
  BY <1>9, <1>10
<1>16. SocketsOK'
  BY <1>2, <1>3, <1>14, <1>15 DEF SocketsOK
<1>17. QueueNewest'
  BY <1>2, ReceivedEmpty DEF QueueNewest
<1>18. PendingNewest'
  BY <1>2 DEF PendingNewest, Nothing
<1>19. SlowShown'
  <2>1. CASE clients = {}
    BY <1>9, <1>10, <2>1 DEF SlowShown
  <2>2. CASE clients # {}
    <3>1. sending'.slow = slow /\ sending'.msgs = msgs
      BY <1>9, <2>2
    <3> QED BY <1>5, <1>8, <3>1 DEF SlowShown, Effect
  <2> QED BY <2>1, <2>2
\* Whoever is registered gets the payload.
<1>20. ASSUME phase \in {"greeting", "open"}, sock \in clients
       PROVE  /\ Base \in View /\ Shown = Base /\ Shown' = Received(Base, msgs) /\ Shown' \in View
              /\ Registered
  <2>1. Base \in View
    BY <1>3, <1>20, ShownType
  <2>2. InFlight = <<>> /\ InFlight' = msgs /\ Base' = Base
    BY <1>2, <1>9, <1>10, <1>15, <1>20 DEF InFlight, Base
  <2>3. Shown = Base /\ Shown' = Received(Base, msgs)
    BY <2>1, <2>2, ReceivedEmpty DEF Shown
  <2> QED BY <1>6, <1>20, <2>1, <2>3, ReceivedType DEF Registered
<1>21. ASSUME NothingMissed'
       PROVE  NothingMissed /\ phase \in {"greeting", "open"} /\ sock \in clients
  BY <1>1, <1>2, <1>14, <1>21 DEF NothingMissed, Registered
<1>22. AlarmsShown'
  <2> SUFFICES ASSUME NothingMissed', NEW i \in Aids
               PROVE  Same(Received(Shown', <<>>).alarms[i], alarm'[i])
    BY <1>2 DEF AlarmsShown
  <2>1. Same(Received(Base, queue).alarms[i], alarm[i])
    BY <1>20, <1>21 DEF FeedInv, AlarmsShown
  <2>2. Same(Received(Base, msgs).alarms[i], alarm'[i])
    BY <1>5, <1>20, <1>21, <2>1 DEF Effect
  <2> QED BY <1>20, <1>21, <2>2, ReceivedEmpty
<1>23. ValuesShown'
  <2> SUFFICES ASSUME NothingMissed' PROVE Merge(Shown'.vals, Nothing) = lastVals
    BY <1>2 DEF ValuesShown
  <2>1. Merge(Base.vals, pending) = lastVals
    BY <1>20, <1>21 DEF FeedInv, ValuesShown
  <2>2. Shown'.vals = lastVals
    BY <1>5, <1>20, <1>21, <2>1 DEF Effect
  <2> QED BY <1>3, <2>2 DEF Merge, Nothing
<1>24. StatusShown'
  <2> SUFFICES ASSUME NothingMissed', "status" \notin missed', statusPrev' # "UNSENT"
               PROVE  Shown'.status = statusPrev'
    BY DEF StatusShown
  <2>1. statusPrev # "UNSENT" => Base.status = statusPrev
    BY <1>14, <1>20, <1>21 DEF FeedInv, StatusShown
  <2>2. Shown' = Received(Base, msgs) /\ Base \in View
    BY <1>20, <1>21
  <2>3. CASE slow /\ statusPrev # status
    BY <1>5, <1>8, <2>2, <2>3 DEF Effect
  <2>4. CASE slow /\ statusPrev = status
    BY <1>3, <1>5, <1>8, <2>1, <2>2, <2>4 DEF Effect
  <2>5. CASE ~slow
    BY <1>5, <1>8, <2>1, <2>2, <2>5 DEF Effect
  <2> QED BY <2>3, <2>4, <2>5
<1>25. TopologyShown'
  <2> SUFFICES ASSUME phase = "open", sock \in clients, "topology" \notin missed
               PROVE  Shown'.topo = statusPrev'
    BY <1>2, <1>14 DEF TopologyShown
  <2>1. Base.topo = statusPrev
    BY <1>20 DEF FeedInv, TopologyShown
  <2>2. Shown' = Received(Base, msgs) /\ Base \in View
    BY <1>20
  <2> QED BY <1>5, <1>8, <2>1, <2>2 DEF Effect
<1> QED BY <1>13, <1>16, <1>17, <1>18, <1>19, <1>22, <1>23, <1>24, <1>25 DEF FeedInv

LEMMA FlushFailsInv ==
  ASSUME FeedInv, FlushFails
  PROVE  FeedInv'
<1>1. PICK c \in AlarmCalls : alarm' = Applied(c) /\ queue' \in {<<>>, Emitted(c)}
  BY DEF FlushFails
<1>2. /\ sending = Idle /\ pending' = Nothing /\ events' = events + 1
      /\ statusPrev' \in {statusPrev, status}
      /\ missed' = missed \cup {"payload"} \cup (IF statusPrev' = statusPrev THEN {} ELSE {"status", "topology"})
      /\ UNCHANGED <<lastVals, status, clients, sending, sock, phase, snap, view>>
  BY DEF FlushFails, browser
<1>3. /\ alarm \in [Aids -> Row] /\ events \in Nat /\ View # {}
  BY DEF FeedInv, FeedType
<1>4. c \in Calls
  BY <1>3, AlarmCallsType
<1>5. <<>> \in Seq(Msg) /\ <<>> \in Seq(AlarmMsgs)
  BY EmptySeq
<1>6. \A w \in View :
        /\ Applied(c) \in [Aids -> Row]
        /\ <<>> \o Emitted(c) \in Seq(AlarmMsgs)
        /\ \A i \in Aids :
             IF i = c.id
             THEN Applied(c)[i] = c.row /\ Received(w, <<>> \o Emitted(c)).alarms[i] = c.row
             ELSE /\ Applied(c)[i] = alarm[i]
                  /\ Received(w, <<>> \o Emitted(c)).alarms[i] = Received(w, <<>>).alarms[i]
  BY <1>3, <1>4, <1>5, CallQueued
<1>7. <<>> \o Emitted(c) = Emitted(c)
  <2>1. c.id = 0 \/ AlarmMsg(c.id, c.row) \in AlarmMsgs
    BY <1>4 DEF Calls, AlarmMsg, AlarmMsgs
  <2>2. Emitted(c) \in Seq(AlarmMsgs)
    BY <1>5, <2>1 DEF Emitted
  <2> QED BY <2>2, ConcatEmptySeq
<1>8. FeedType'
  <2>1. alarm' \in [Aids -> Row] /\ queue' \in Seq(AlarmMsgs)
    BY <1>1, <1>3, <1>5, <1>6, <1>7
  <2>2. pending' \in [Items -> Nat]
    BY <1>2 DEF Nothing
  <2> QED BY <1>2, <1>3, <2>1, <2>2 DEF FeedInv, FeedType
<1>9. missed \subseteq missed' /\ "payload" \in missed' /\ ("topology" \notin missed' => statusPrev' = statusPrev)
  BY <1>2
<1>10. SocketsOK'
  BY <1>2, <1>9 DEF FeedInv, SocketsOK
<1>11. QueueNewest'
  <2> SUFFICES ASSUME NEW w \in View, NEW i \in Aids, Same(w.alarms[i], alarm'[i])
               PROVE  Same(Received(w, queue').alarms[i], alarm'[i])
    BY DEF QueueNewest
  <2>1. Received(w, <<>>) = w
    BY ReceivedEmpty
  <2>2. CASE queue' = <<>>
    BY <2>1, <2>2
  <2>3. CASE queue' = Emitted(c)
    BY <1>1, <1>6, <1>7, <2>1, <2>3 DEF Same
  <2> QED BY <1>1, <2>2, <2>3
<1>12. PendingNewest'
  BY <1>2 DEF PendingNewest, Nothing
<1>13. AlarmsShown' /\ ValuesShown' /\ StatusShown'
  BY <1>9 DEF AlarmsShown, ValuesShown, StatusShown, NothingMissed
<1>14. SlowShown'
  BY <1>2 DEF SlowShown, Idle
<1>15. TopologyShown'
  <2>1. Shown' = Shown
    BY <1>2 DEF Shown, Base, InFlight
  <2> QED BY <1>2, <1>9, <2>1 DEF FeedInv, TopologyShown
<1> QED BY <1>8, <1>10, <1>11, <1>12, <1>13, <1>14, <1>15 DEF FeedInv

-----------------------------------------------------------------------------
(* The sockets.                                                            *)

LEMMA SentToType ==
  ASSUME FeedType, NEW s \in sending.to
  PROVE  /\ SentTo(s) \in [msgs : Seq(Msg), to : SUBSET Nat, slow : BOOLEAN]
         /\ SentTo(s).to = sending.to \ {s}
         /\ SentTo(s).to # {} => SentTo(s).msgs = sending.msgs /\ SentTo(s).slow = sending.slow
         /\ SentTo(s).to = {} => SentTo(s).slow = FALSE
<1>1. sending \in [msgs : Seq(Msg), to : SUBSET Nat, slow : BOOLEAN]
  BY DEF FeedType
<1>2. CASE sending.to = {s}
  BY <1>2, EmptySeq DEF SentTo, Idle
<1>3. CASE sending.to # {s}
  <2>1. SentTo(s) = [sending EXCEPT !.to = sending.to \ {s}]
    BY <1>3 DEF SentTo
  <2>2. sending.to \ {s} # {}
    BY <1>3
  <2> QED BY <1>1, <2>1, <2>2
<1> QED BY <1>2, <1>3

\* What the other sockets get does not concern the browser.
LEMMA SentToOthers ==
  ASSUME FeedInv, NEW s \in sending.to, sending' = SentTo(s), statusPrev' = statusPrev
  PROVE  SlowShown'
<1>1. FeedType
  BY DEF FeedInv
<1>2. CASE SentTo(s).to = {}
  BY <1>1, <1>2, SentToType DEF SlowShown
<1>3. CASE SentTo(s).to # {}
  BY <1>1, <1>3, SentToType DEF FeedInv, SlowShown
<1> QED BY <1>2, <1>3

LEMMA SendInv ==
  ASSUME FeedInv, NEW s, Send(s)
  PROVE  FeedInv'
<1>1. /\ s \in sending.to /\ s = sock /\ phase \in {"greeting", "open"}
      /\ view' = Received(view, sending.msgs)
      /\ sending' = SentTo(s)
      /\ missed' = IF phase = "greeting" THEN missed \cup {"payload"}
                   ELSE IF sending.slow THEN missed \ {"topology"} ELSE missed
      /\ UNCHANGED <<alarm, lastVals, status, statusPrev, queue, pending, clients, sock, phase, snap, events>>
  BY DEF Send, mes
<1>2. FeedType /\ view \in View /\ sending.msgs \in Seq(Msg)
  BY DEF FeedInv, FeedType
<1>3. view' \in View
  BY <1>1, <1>2, ReceivedType
<1>4. /\ sending' \in [msgs : Seq(Msg), to : SUBSET Nat, slow : BOOLEAN]
      /\ sending'.to = sending.to \ {s}
  BY <1>1, <1>2, SentToType
<1>5. FeedType'
  BY <1>1, <1>3, <1>4 DEF FeedInv, FeedType
<1>6. SocketsOK'
  BY <1>1, <1>4 DEF FeedInv, SocketsOK
<1>7. QueueNewest' /\ PendingNewest'
  BY <1>1 DEF FeedInv, QueueNewest, PendingNewest
<1>8. SlowShown'
  BY <1>1, SentToOthers
<1>9. phase = "open" => Shown' = Shown /\ Shown = Received(view, sending.msgs)
  <2> SUFFICES ASSUME phase = "open" PROVE Shown' = Shown /\ Shown = Received(view, sending.msgs)
    OBVIOUS
  <2>1. Base = view /\ InFlight = sending.msgs
    BY <1>1 DEF Base, InFlight
  <2>2. Base' = view' /\ InFlight' = <<>>
    BY <1>1, <1>4 DEF Base, InFlight
  <2> QED BY <1>1, <1>3, <2>1, <2>2, ReceivedEmpty DEF Shown
<1>10. NothingMissed' => phase = "open" /\ NothingMissed
  BY <1>1 DEF NothingMissed, Registered
<1>11. "status" \notin missed' => "status" \notin missed
  BY <1>1
<1>12. AlarmsShown' /\ ValuesShown' /\ StatusShown'
  BY <1>1, <1>9, <1>10, <1>11 DEF FeedInv, AlarmsShown, ValuesShown, StatusShown
<1>13. TopologyShown'
  <2> SUFFICES ASSUME phase = "open", sock \in clients, "topology" \notin missed'
               PROVE  Shown'.topo = statusPrev
    BY <1>1 DEF TopologyShown
  <2>1. CASE "topology" \notin missed
    BY <1>9, <2>1 DEF FeedInv, TopologyShown
  <2>2. CASE "topology" \in missed
    <3>1. sending.slow
      BY <1>1, <2>2
    <3>2. Received(view, sending.msgs).topo = statusPrev
      BY <1>2, <3>1 DEF FeedInv, SlowShown
    <3> QED BY <1>9, <3>2
  <2> QED BY <2>1, <2>2
<1> QED BY <1>5, <1>6, <1>7, <1>8, <1>12, <1>13 DEF FeedInv

LEMMA SendFailsInv ==
  ASSUME FeedInv, NEW s, SendFails(s)
  PROVE  FeedInv'
<1>1. /\ s \in sending.to /\ (s # sock \/ phase = "closed")
      /\ clients' = clients \ {s} /\ sending' = SentTo(s)
      /\ UNCHANGED <<alarm, lastVals, status, statusPrev, queue, pending, sock, phase, snap, view, events, missed>>
  BY DEF SendFails, mes, browser
<1>2. FeedType
  BY DEF FeedInv
<1>3. /\ sending' \in [msgs : Seq(Msg), to : SUBSET Nat, slow : BOOLEAN]
      /\ sending'.to = sending.to \ {s}
      /\ sending'.to # {} => sending'.msgs = sending.msgs
  BY <1>1, <1>2, SentToType
<1>4. FeedType'
  BY <1>1, <1>3 DEF FeedInv, FeedType
<1>5. SocketsOK'
  BY <1>1, <1>3 DEF FeedInv, SocketsOK
<1>6. QueueNewest' /\ PendingNewest'
  BY <1>1 DEF FeedInv, QueueNewest, PendingNewest
<1>7. SlowShown'
  BY <1>1, SentToOthers
<1>8. CASE phase = "closed"
  <2>1. ~NothingMissed' /\ phase' # "open"
    BY <1>1, <1>8 DEF NothingMissed, Registered
  <2> QED BY <1>4, <1>5, <1>6, <1>7, <2>1 DEF FeedInv, AlarmsShown, ValuesShown, StatusShown, TopologyShown
<1>9. CASE s # sock
  <2>1. InFlight' = InFlight
    BY <1>1, <1>3, <1>9 DEF InFlight
  <2>2. Shown' = Shown
    BY <1>1, <2>1 DEF Shown, Base
  <2>3. NothingMissed' = NothingMissed /\ (sock' \in clients' <=> sock \in clients)
    BY <1>1, <1>9 DEF NothingMissed, Registered
  <2>4. AlarmsShown' /\ ValuesShown' /\ StatusShown' /\ TopologyShown'
    BY <1>1, <2>2, <2>3 DEF FeedInv, AlarmsShown, ValuesShown, StatusShown, TopologyShown
  <2> QED BY <1>4, <1>5, <1>6, <1>7, <2>4 DEF FeedInv
<1> QED BY <1>1, <1>8, <1>9

LEMMA SendTimesOutInv ==
  ASSUME FeedInv, NEW s, SendTimesOut(s)
  PROVE  FeedInv'
<1>1. /\ s \in sending.to /\ s = sock /\ phase \in {"greeting", "open"}
      /\ clients' = clients \ {s} /\ sending' = SentTo(s)
      /\ view' \in {view, Received(view, sending.msgs)}
      /\ UNCHANGED <<alarm, lastVals, status, statusPrev, queue, pending, sock, phase, snap, events, missed>>
  BY DEF SendTimesOut, mes
<1>2. FeedType /\ view \in View /\ sending.msgs \in Seq(Msg)
  BY DEF FeedInv, FeedType
<1>3. view' \in View
  BY <1>1, <1>2, ReceivedType
<1>4. /\ sending' \in [msgs : Seq(Msg), to : SUBSET Nat, slow : BOOLEAN]
      /\ sending'.to = sending.to \ {s}
  BY <1>1, <1>2, SentToType
<1>5. FeedType'
  BY <1>1, <1>3, <1>4 DEF FeedInv, FeedType
<1>6. SocketsOK'
  BY <1>1, <1>4 DEF FeedInv, SocketsOK
<1>7. QueueNewest' /\ PendingNewest'
  BY <1>1 DEF FeedInv, QueueNewest, PendingNewest
<1>8. SlowShown'
  BY <1>1, SentToOthers
<1>9. ~NothingMissed' /\ sock' \notin clients'
  BY <1>1 DEF NothingMissed, Registered
<1> QED BY <1>5, <1>6, <1>7, <1>8, <1>9 DEF FeedInv, AlarmsShown, ValuesShown, StatusShown, TopologyShown

\* The snapshot agrees with the tables, and what still waits brings it to them again.
LEMMA ConnectInv ==
  ASSUME FeedInv, Connect
  PROVE  FeedInv'
<1>1. /\ phase = "closed" /\ phase' = "accepting" /\ sock' = sock + 1
      /\ snap' = [type |-> "snapshot", vals |-> lastVals, st |-> status,
                  alarms |-> [i \in Aids |-> IF alarm[i].st \in Open THEN alarm[i] ELSE NoAlarm]]
      /\ missed' = {"topology"} \cup (IF statusPrev \in {"UNSENT", status} THEN {} ELSE {"status"})
      /\ UNCHANGED <<alarm, lastVals, status, statusPrev, queue, pending, clients, sending, view, events>>
  BY DEF Connect, mes, feed
<1> DEFINE as == [i \in Aids |-> IF alarm[i].st \in Open THEN alarm[i] ELSE NoAlarm]
<1>2. /\ FeedType /\ alarm \in [Aids -> Row] /\ lastVals \in [Items -> Nat] /\ pending \in [Items -> Nat]
      /\ status \in {"OK", "DOWN"} /\ view \in View /\ sock \in Nat
      /\ \A s \in clients \cup sending.to : s \in 0..sock
  BY DEF FeedInv, FeedType, SocketsOK
<1>3. NoAlarm \in Row /\ NoAlarm.st \notin Open
  BY DEF NoAlarm, Row, Open
<1>4. as \in [Aids -> Row] /\ \A i \in Aids : Same(as[i], alarm[i])
  BY <1>2, <1>3 DEF Same
<1> HIDE DEF as
<1>5. snap' = [type |-> "snapshot", vals |-> lastVals, st |-> status, alarms |-> as]
  BY <1>1 DEF as
<1>6. snap' \in Snapshots /\ snap'.alarms = as /\ snap'.vals = lastVals /\ snap'.st = status
  BY <1>2, <1>4, <1>5 DEF Snapshots, Status
<1>7. FeedType'
  BY <1>1, <1>2, <1>6 DEF FeedType
<1>8. sock + 1 \notin clients \cup sending.to
  BY <1>2
<1>9. SocketsOK'
  <2>1. \A s \in clients \cup sending.to : s \in 0..(sock + 1)
    BY <1>2
  <2> QED BY <1>1, <1>8, <2>1 DEF SocketsOK
<1>10. QueueNewest' /\ PendingNewest' /\ SlowShown'
  BY <1>1 DEF FeedInv, QueueNewest, PendingNewest, SlowShown
<1> DEFINE v == Reduce(view, snap')
<1>11. v \in View /\ v.alarms = as /\ v.vals = lastVals /\ v.status = status
  <2> DEFINE m == snap'
  <2>1. m \in Snapshots /\ m.alarms = as /\ m.vals = lastVals /\ m.st = status
    BY <1>6
  <2> HIDE DEF m
  <2>2. /\ Reduce(view, m) \in View
        /\ Reduce(view, m) = [alarms |-> m.alarms, vals |-> m.vals, status |-> m.st, topo |-> m.st]
    BY <1>2, <2>1, ReduceSnapshot
  <2> QED BY <2>1, <2>2 DEF m
<1>12. Shown' = v
  <2>1. Base' = v /\ InFlight' = <<>>
    BY <1>1, <1>8 DEF Base, InFlight
  <2> QED BY <1>11, <2>1, ReceivedEmpty DEF Shown
<1> HIDE DEF v
<1>13. AlarmsShown'
  <2>1. \A i \in Aids : Same(Received(v, queue).alarms[i], alarm[i])
    BY <1>4, <1>11 DEF FeedInv, QueueNewest
  <2> QED BY <1>1, <1>12, <2>1 DEF AlarmsShown
<1>14. ValuesShown'
  <2>1. \A i \in Items : IF pending[i] > 0 THEN pending[i] = lastVals[i] ELSE TRUE
    BY DEF FeedInv, PendingNewest
  <2>2. Merge(lastVals, pending) = lastVals
    BY <1>2, <2>1 DEF Merge
  <2> QED BY <1>1, <1>11, <1>12, <2>2 DEF ValuesShown
<1>15. StatusShown'
  BY <1>1, <1>11, <1>12 DEF StatusShown
<1>16. TopologyShown'
  BY <1>1 DEF TopologyShown
<1> QED BY <1>7, <1>9, <1>10, <1>13, <1>14, <1>15, <1>16 DEF FeedInv

LEMMA RegisterInv ==
  ASSUME FeedInv, Register
  PROVE  FeedInv'
<1>1. /\ phase = "accepting" /\ phase' = "greeting" /\ clients' = clients \cup {sock}
      /\ UNCHANGED <<alarm, lastVals, status, statusPrev, queue, pending, sending, sock, snap, view, events, missed>>
  BY DEF Register, mes
<1>2. FeedType' /\ SocketsOK'
  BY <1>1 DEF FeedInv, FeedType, SocketsOK
<1>3. QueueNewest' /\ PendingNewest' /\ SlowShown'
  BY <1>1 DEF FeedInv, QueueNewest, PendingNewest, SlowShown
<1>4. Shown' = Shown /\ NothingMissed' = NothingMissed
  BY <1>1 DEF Shown, Base, InFlight, NothingMissed, Registered
<1>5. AlarmsShown' /\ ValuesShown' /\ StatusShown' /\ TopologyShown'
  BY <1>1, <1>4 DEF FeedInv, AlarmsShown, ValuesShown, StatusShown, TopologyShown
<1> QED BY <1>2, <1>3, <1>5 DEF FeedInv

LEMMA GreetInv ==
  ASSUME FeedInv, Greet
  PROVE  FeedInv'
<1>1. /\ phase = "greeting" /\ phase' = "open" /\ view' = Received(view, <<snap>>)
      /\ UNCHANGED <<alarm, lastVals, status, statusPrev, queue, pending, clients, sending, sock, events, missed>>
  BY DEF Greet, mes, feed
<1>2. FeedType /\ view \in View /\ snap \in Snapshots /\ snap \in Msg
  BY <1>1 DEF FeedInv, FeedType, Msg
<1>3. view' = Reduce(view, snap) /\ view' \in View
  BY <1>1, <1>2, ReceivedOne, ReduceSnapshot
<1>4. FeedType'
  BY <1>1, <1>3 DEF FeedInv, FeedType
<1>5. SocketsOK' /\ "topology" \in missed'
  BY <1>1 DEF FeedInv, SocketsOK
<1>6. QueueNewest' /\ PendingNewest' /\ SlowShown'
  BY <1>1 DEF FeedInv, QueueNewest, PendingNewest, SlowShown
<1>7. Shown' = Shown /\ NothingMissed' = NothingMissed
  BY <1>1, <1>3 DEF Shown, Base, InFlight, NothingMissed, Registered
<1>8. AlarmsShown' /\ ValuesShown' /\ StatusShown' /\ TopologyShown'
  BY <1>1, <1>5, <1>7 DEF FeedInv, AlarmsShown, ValuesShown, StatusShown, TopologyShown
<1> QED BY <1>4, <1>5, <1>6, <1>8 DEF FeedInv

LEMMA DisconnectInv ==
  ASSUME FeedInv, Disconnect
  PROVE  FeedInv'
<1>1. /\ phase' = "closed" /\ clients' = IF phase = "open" THEN clients \ {sock} ELSE clients
      /\ UNCHANGED <<alarm, lastVals, status, statusPrev, queue, pending, sending, sock, view, events, missed>>
  BY DEF Disconnect, mes
<1>2. FeedType' /\ SocketsOK'
  BY <1>1 DEF FeedInv, FeedType, SocketsOK
<1>3. QueueNewest' /\ PendingNewest' /\ SlowShown'
  BY <1>1 DEF FeedInv, QueueNewest, PendingNewest, SlowShown
<1>4. ~NothingMissed' /\ phase' # "open"
  BY <1>1 DEF NothingMissed, Registered
<1> QED BY <1>2, <1>3, <1>4 DEF FeedInv, AlarmsShown, ValuesShown, StatusShown, TopologyShown

LEMMA NextFeedInv == FeedInv /\ [Next]_vars => FeedInv'
<1> SUFFICES ASSUME FeedInv, [Next]_vars PROVE FeedInv'
  OBVIOUS
<1>1. ASSUME UNCHANGED <<alarm, lastVals, statusPrev, queue, pending, clients, sending,
                         sock, phase, snap, view, missed>>,
             status' \in {"OK", "DOWN"}, events' \in Nat
      PROVE  FeedInv'
  <2>1. FeedType'
    BY <1>1 DEF FeedInv, FeedType
  <2>2. SocketsOK' /\ QueueNewest' /\ PendingNewest' /\ SlowShown'
    BY <1>1 DEF FeedInv, SocketsOK, QueueNewest, PendingNewest, SlowShown
  <2>3. Shown' = Shown /\ NothingMissed' = NothingMissed
    BY <1>1 DEF Shown, Base, InFlight, NothingMissed, Registered
  <2>4. AlarmsShown' /\ ValuesShown' /\ StatusShown' /\ TopologyShown'
    BY <1>1, <2>3 DEF FeedInv, AlarmsShown, ValuesShown, StatusShown, TopologyShown
  <2> QED BY <2>1, <2>2, <2>4 DEF FeedInv
<1>2. events \in Nat /\ status \in {"OK", "DOWN"}
  BY DEF FeedInv, FeedType
<1>3. CASE Route
  BY <1>3, RouteInv
<1>4. CASE Purge
  BY <1>4, PurgeInv
<1>5. CASE StatusChanges
  BY <1>1, <1>2, <1>5 DEF StatusChanges, feed, browser
<1>6. ASSUME NEW i \in Aids, Ack(i) PROVE FeedInv'
  BY <1>6, AckInv
<1>7. CASE Hub
  BY <1>7, FlushInv, FlushFailsInv DEF Hub
<1>8. ASSUME NEW s \in 1..MaxSock, Send(s) \/ SendFails(s) \/ SendTimesOut(s) PROVE FeedInv'
  BY <1>8, SendInv, SendFailsInv, SendTimesOutInv
<1>9. CASE Connect \/ Register \/ Greet \/ Disconnect
  BY <1>9, ConnectInv, RegisterInv, GreetInv, DisconnectInv
<1>10. CASE UNCHANGED vars
  BY <1>1, <1>2, <1>10 DEF vars, mes, feed, browser
<1> QED BY <1>3, <1>4, <1>5, <1>6, <1>7, <1>8, <1>9, <1>10 DEF Next

\* The inductive invariant: what the dashboard will show after the messages on
\* their way is what the MES has, unless a payload was missed.
THEOREM FeedInvariance == Spec => []FeedInv
BY InitFeedInv, NextFeedInv, PTL DEF Spec

LEMMA DeliveredShown ==
  ASSUME FeedInv, Delivered
  PROVE  Shown = view /\ view \in View /\ Registered
<1>1. sending = Idle /\ phase = "open" /\ sock \in clients /\ view \in View
  BY DEF Delivered, FeedInv, FeedType
<1>2. Base = view /\ InFlight = <<>>
  BY <1>1 DEF Base, InFlight, Idle
<1> QED BY <1>1, <1>2, ReceivedEmpty DEF Shown, Registered

\* A dashboard that missed no payload shows exactly the open alarms and the newest
\* values of the MES once everything has been delivered, for any number of
\* samples, alarms, purges and connections.
THEOREM DashboardConverges == Spec => []Converged
<1>1. FeedInv => Converged
  <2> SUFFICES ASSUME FeedInv, Delivered, "payload" \notin missed
               PROVE  OpenAlarms(view.alarms) = OpenAlarms(alarm) /\ view.vals = lastVals
    BY DEF Converged
  <2>1. Shown = view /\ view \in View /\ NothingMissed
    BY DeliveredShown DEF NothingMissed
  <2>2. queue = <<>> /\ pending = Nothing
    BY DEF Delivered
  <2>3. \A i \in Aids : Same(view.alarms[i], alarm[i])
    BY <2>1, <2>2, ReceivedEmpty DEF FeedInv, AlarmsShown
  <2>4. OpenAlarms(view.alarms) = OpenAlarms(alarm)
    BY <2>3 DEF OpenAlarms, Same
  <2>5. Merge(view.vals, Nothing) = lastVals
    BY <2>1, <2>2 DEF FeedInv, ValuesShown
  <2>6. view.vals \in [Items -> Nat]
    BY <2>1 DEF View
  <2>7. view.vals = lastVals
    BY <2>5, <2>6 DEF Merge, Nothing
  <2> QED BY <2>4, <2>7
<1> QED BY <1>1, FeedInvariance, PTL

\* Status messages are sent on changes only, and a dashboard whose snapshot agreed
\* with the last one sent follows the device all the same.
THEOREM StatusIsFollowed == Spec => []StatusFollows
<1>1. FeedInv => StatusFollows
  <2> SUFFICES ASSUME FeedInv, Delivered, missed \subseteq {"topology"}, statusPrev = status
               PROVE  view.status = status
    BY DEF StatusFollows
  <2>1. Shown = view /\ NothingMissed
    BY DeliveredShown DEF NothingMissed
  <2>2. statusPrev # "UNSENT"
    BY DEF FeedInv, FeedType
  <2> QED BY <2>1, <2>2 DEF FeedInv, StatusShown
<1> QED BY <1>1, FeedInvariance, PTL

\* From the first slow payload an open socket gets, its topology is that of the
\* hub's last second, whatever it missed before.
THEOREM TopologyIsHealed == Spec => []TopologyHeals
<1>1. FeedInv => TopologyHeals
  <2> SUFFICES ASSUME FeedInv, Delivered, "topology" \notin missed
               PROVE  view.topo = statusPrev
    BY DEF TopologyHeals
  <2>1. Shown = view /\ phase = "open" /\ sock \in clients
    BY DeliveredShown DEF Delivered
  <2> QED BY <2>1 DEF FeedInv, TopologyShown
<1> QED BY <1>1, FeedInvariance, PTL

=============================================================================
