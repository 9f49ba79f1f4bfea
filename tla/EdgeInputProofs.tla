--------------------------- MODULE EdgeInputProofs ---------------------------
(***************************************************************************)
(* Proofs about the two ways a reading enters the Edge: DeviceLink, for    *)
(* any number of devices, read groups, tries and requests, and for any mix *)
(* of link classes; and SampleIntake, for any items, ranges, steps and any *)
(* number of jumps that confirm a change.                                  *)
(***************************************************************************)
EXTENDS DeviceLink, SampleIntake, Integers, SequenceTheorems, TLAPS

Query == [conn : Nat, req : Nat, unit : Units, group : Nat]
Answer == [req : Nat, unit : Units, group : Nat, refuses : BOOLEAN, spoilt : BOOLEAN]

LinkType ==
    /\ kind \in {"rtu", "tcp", "serial", "ascii"}
    /\ conns \in Nat /\ conn \in 0..conns
    /\ server \in Seq(Query) /\ stream \in Seq(Answer)
    /\ pc \in {"idle", "ask", "wait"}
    /\ unit \in Units
    /\ got \in Seq(Answer)
    /\ tries \in Nat /\ req \in Nat /\ first \in Nat
    /\ sample \in [unit : Units, first : Nat, reads : Seq(Answer)]
    /\ mixed \in BOOLEAN /\ abandoned \in BOOLEAN

\* A request whose answer will reach the client: it came over the connection
\* that is open, or over the serial line, which is always the same.
Live(q) == kind = "serial" \/ q.conn = conn

\* It is the one the client waits for.
Asked(q) == pc = "wait" /\ q.req = req /\ q.unit = unit /\ q.group = Group

\* Connections are numbered, and one is open while the client waits.
ConnOK ==
    /\ \A i \in DOMAIN server : server[i].conn \in 1..conns
    /\ pc = "wait" => conn # 0

\* The heart of it: at most one answer is still to come, either in a request the
\* server has or on the stream, and it is to the request just made.
OneToCome ==
    /\ \A i \in DOMAIN server : Live(server[i]) => Asked(server[i]) /\ stream = <<>>
    /\ \A i, j \in DOMAIN server : Live(server[i]) /\ Live(server[j]) => i = j
    /\ stream # <<>> => Len(stream) = 1 /\ Asked(stream[1])

OneAnswer == Reliable => OneToCome

\* Requests of a poll are numbered from `first'.
FirstOK ==
    /\ pc = "ask" => first <= req + 1
    /\ pc = "wait" => first <= req

\* What the poll has read so far is its own.
GotOK ==
    Reliable =>
      \A g \in DOMAIN got : got[g].group = g /\ got[g].unit = unit /\ got[g].req >= first

LinkInv ==
    /\ LinkType /\ ConnOK /\ OneAnswer /\ FirstOK /\ GotOK
    /\ NoLateAnswer /\ SampleOfOnePoll

-----------------------------------------------------------------------------
\* What stays of a sequence when one element is taken out.
LEMMA RemoveAtProperties ==
  ASSUME NEW S, NEW s \in Seq(S), NEW i \in 1..Len(s)
  PROVE  /\ RemoveAt(s, i) \in Seq(S)
         /\ Len(RemoveAt(s, i)) = Len(s) - 1
         /\ \A j \in 1..(Len(s) - 1) : RemoveAt(s, i)[j] = IF j < i THEN s[j] ELSE s[j + 1]
<1> DEFINE a == SubSeq(s, 1, i - 1)
           b == SubSeq(s, i + 1, Len(s))
<1>1. Len(s) \in Nat /\ i \in Int /\ 1 <= i /\ i <= Len(s)
  OBVIOUS
<1>2. \A j \in 1..Len(s) : s[j] \in S
  OBVIOUS
<1>3. /\ a \in Seq(S) /\ Len(a) = i - 1
      /\ \A j \in 1..(i - 1) : a[j] = s[j]
  BY <1>1, <1>2, SubSeqProperties
<1>4. /\ b \in Seq(S) /\ Len(b) = Len(s) - i
      /\ \A j \in 1..(Len(s) - i) : b[j] = s[i + j]
  BY <1>1, <1>2, SubSeqProperties
<1> HIDE DEF a, b
<1>5. /\ a \o b \in Seq(S) /\ Len(a \o b) = Len(a) + Len(b)
      /\ \A j \in 1..(Len(a) + Len(b)) : (a \o b)[j] = IF j <= Len(a) THEN a[j] ELSE b[j - Len(a)]
  BY <1>3, <1>4, ConcatProperties
<1>6. RemoveAt(s, i) = a \o b
  BY DEF RemoveAt, a, b
<1>7. ASSUME NEW j \in 1..(Len(s) - 1)
      PROVE  (a \o b)[j] = IF j < i THEN s[j] ELSE s[j + 1]
  <2>1. CASE j < i
    BY <1>1, <1>3, <1>4, <1>5, <2>1
  <2>2. CASE ~(j < i)
    <3>1. (a \o b)[j] = b[j - (i - 1)] /\ j - (i - 1) \in 1..(Len(s) - i)
      BY <1>1, <1>3, <1>4, <1>5, <2>2
    <3>2. b[j - (i - 1)] = s[i + (j - (i - 1))] /\ i + (j - (i - 1)) = j + 1
      BY <1>1, <1>4, <3>1
    <3> QED BY <2>2, <3>1, <3>2
  <2> QED BY <2>1, <2>2
<1>8. \A j \in 1..(Len(s) - 1) : RemoveAt(s, i)[j] = IF j < i THEN s[j] ELSE s[j + 1]
  BY <1>6, <1>7
<1>9. RemoveAt(s, i) \in Seq(S) /\ Len(RemoveAt(s, i)) = Len(s) - 1
  BY <1>1, <1>3, <1>4, <1>5, <1>6
<1> QED BY <1>8, <1>9

\* Groups are counted from 1, and a poll has at least one.
LEMMA GroupType ==
  ASSUME LinkType
  PROVE  Group \in Nat \ {0} /\ LastGroup \in Nat \ {0}
BY LinkAssumption DEF LinkType, Group, LastGroup

LEMMA InitLinkInv == Init => LinkInv
<1> SUFFICES ASSUME Init PROVE LinkInv
  OBVIOUS
<1>1. LinkType
  <2>1. kind \in {"rtu", "tcp", "serial", "ascii"}
    BY LinkAssumption DEF Init
  <2>2. sample \in [unit : Units, first : Nat, reads : Seq(Answer)]
    BY EmptySeq DEF Init
  <2>3. <<>> \in Seq(Query) /\ <<>> \in Seq(Answer)
    BY EmptySeq
  <2>4. /\ conns \in Nat /\ conn \in 0..conns
        /\ server \in Seq(Query) /\ stream \in Seq(Answer) /\ got \in Seq(Answer)
    BY <2>3 DEF Init
  <2>5. /\ pc \in {"idle", "ask", "wait"} /\ unit \in Units
        /\ tries \in Nat /\ req \in Nat /\ first \in Nat
        /\ mixed \in BOOLEAN /\ abandoned \in BOOLEAN
    BY DEF Init
  <2> QED BY <2>1, <2>2, <2>4, <2>5 DEF LinkType
<1>2. /\ ConnOK /\ OneAnswer /\ FirstOK /\ GotOK /\ NoLateAnswer /\ SampleOfOnePoll
  BY DEF Init, ConnOK, OneAnswer, OneToCome, FirstOK, GotOK, NoLateAnswer, SampleOfOnePoll
<1> QED BY <1>1, <1>2 DEF LinkInv

-----------------------------------------------------------------------------
(* One lemma per action. *)

LEMMA PollStartsInv ==
  ASSUME LinkInv, NEW u \in Units, PollStarts(u)
  PROVE  LinkInv'
<1>1. LinkType'
  BY DEF LinkInv, LinkType, PollStarts, ReadsAtStart
<1>2. ConnOK' /\ FirstOK' /\ NoLateAnswer' /\ GotOK'
  BY DEF LinkInv, LinkType, PollStarts, ReadsAtStart, ConnOK, FirstOK, NoLateAnswer, Reliable, GotOK
<1>3. OneAnswer'
  BY DEF LinkInv, PollStarts, OneAnswer, OneToCome, Reliable, Live, Asked
<1>4. SampleOfOnePoll'
  BY DEF LinkInv, PollStarts, SampleOfOnePoll, Reliable, LastGroup
<1> QED BY <1>1, <1>2, <1>3, <1>4 DEF LinkInv

LEMMA AskInv ==
  ASSUME LinkInv, Ask
  PROVE  LinkInv'
<1> DEFINE q == [conn |-> conn', req |-> req', unit |-> unit, group |-> Group]
<1>1. /\ pc = "ask" /\ pc' = "wait" /\ req' = req + 1 /\ server' = Append(server, q)
      /\ conns' = (IF conn = 0 THEN conns + 1 ELSE conns)
      /\ conn' = (IF conn = 0 THEN conns' ELSE conn)
      /\ UNCHANGED <<kind, stream, unit, got, tries, first, sample, mixed, abandoned>>
  BY DEF Ask
<1>2. /\ LinkType /\ conns \in Nat /\ conn \in 0..conns /\ req \in Nat /\ first \in Nat
      /\ server \in Seq(Query)
  BY DEF LinkInv, LinkType
<1>3. conns' \in Nat /\ conn' \in 1..conns' /\ conns <= conns'
  BY <1>1, <1>2
<1>4. q \in Query /\ q.conn = conn' /\ q.req = req' /\ q.unit = unit /\ q.group = Group
  BY <1>1, <1>2, <1>3, GroupType DEF Query, LinkType
<1> HIDE DEF q
<1>5. /\ server' \in Seq(Query) /\ DOMAIN server' = 1..(Len(server) + 1)
      /\ \A i \in DOMAIN server : server'[i] = server[i]
      /\ server'[Len(server) + 1] = q
      /\ DOMAIN server = 1..Len(server) /\ Len(server) \in Nat
  BY <1>1, <1>2, <1>4, AppendProperties
<1>6. LinkType'
  BY <1>1, <1>2, <1>3, <1>5 DEF LinkType
<1>7. ConnOK' /\ FirstOK'
  <2>1. \A i \in DOMAIN server : server[i].conn \in 1..conns
    BY DEF LinkInv, ConnOK
  <2>2. ASSUME NEW i \in DOMAIN server' PROVE server'[i].conn \in 1..conns'
    BY <1>1, <1>2, <1>3, <1>4, <1>5, <2>1
  <2>3. first <= req + 1
    BY <1>1 DEF LinkInv, FirstOK
  <2> QED BY <1>1, <1>3, <2>2, <2>3 DEF ConnOK, FirstOK
<1>8. OneAnswer'
  <2> SUFFICES ASSUME Reliable' PROVE OneToCome'
    BY DEF OneAnswer
  <2>1. Reliable
    BY <1>1 DEF Reliable
  <2>2. stream = <<>> /\ \A i \in DOMAIN server : ~Live(server[i])
    BY <1>1, <2>1 DEF LinkInv, OneAnswer, OneToCome, Asked
  <2>3. \A i \in DOMAIN server : server[i].conn \in 1..conns
    BY DEF LinkInv, ConnOK
  <2>4. \A i \in DOMAIN server : ~Live(server[i])'
    BY <1>1, <1>2, <1>5, <2>2, <2>3 DEF Live
  <2>5. \A i \in DOMAIN server' : Live(server[i])' => i = Len(server) + 1
    BY <1>5, <2>4
  <2>6. stream' = <<>>
    BY <1>1, <2>2
  <2>7. ASSUME NEW i \in DOMAIN server', Live(server[i])' PROVE Asked(server[i])'
    BY <1>1, <1>4, <1>5, <2>5, <2>7 DEF Asked, Group
  <2> QED BY <2>5, <2>6, <2>7 DEF OneToCome
<1>9. GotOK' /\ NoLateAnswer' /\ SampleOfOnePoll'
  BY <1>1 DEF LinkInv, GotOK, NoLateAnswer, SampleOfOnePoll, Reliable, LastGroup
<1> QED BY <1>6, <1>7, <1>8, <1>9 DEF LinkInv

\* The stream of a reliable link is read up.
LEMMA ReadUp ==
  ASSUME LinkInv, stream # <<>>
  PROVE  /\ Head(stream) \in Answer /\ Head(stream) = stream[1] /\ Tail(stream) \in Seq(Answer)
         /\ Reliable => Tail(stream) = <<>> /\ Asked(Head(stream))
                          /\ \A i \in DOMAIN server : ~Live(server[i])
<1>1. stream \in Seq(Answer)
  BY DEF LinkInv, LinkType
<1>2. Head(stream) \in Answer /\ Head(stream) = stream[1] /\ Tail(stream) \in Seq(Answer)
      /\ Len(Tail(stream)) = Len(stream) - 1
  BY <1>1, HeadTailProperties
<1>3. ASSUME Reliable
      PROVE  /\ Tail(stream) = <<>> /\ Asked(Head(stream))
             /\ \A i \in DOMAIN server : ~Live(server[i])
  <2>1. Len(stream) = 1 /\ Asked(stream[1]) /\ \A i \in DOMAIN server : ~Live(server[i])
    BY <1>3 DEF LinkInv, OneAnswer, OneToCome
  <2>2. Tail(stream) = <<>>
    <3> DEFINE rest == Tail(stream)
    <3>1. rest \in Seq(Answer) /\ Len(rest) = 0
      BY <1>2, <2>1
    <3> HIDE DEF rest
    <3>2. rest = <<>>
      BY <3>1, EmptySeq
    <3> QED BY <3>2 DEF rest
  <2> QED BY <1>2, <2>1, <2>2
<1> QED BY <1>2, <1>3

\* An attempt fails: after a timeout of a reliable link, or a refused answer,
\* nothing is left that could still come.
LEMMA FailsInv ==
  ASSUME LinkInv, NEW error, NEW rest \in Seq(Answer), Fails(error, rest),
         pc = "wait", abandoned' \in BOOLEAN, abandoned => abandoned',
         Reliable' => \/ ClosesOn(error)
                      \/ rest = <<>> /\ \A i \in DOMAIN server : ~Live(server[i])
  PROVE  LinkInv'
<1>1. /\ conn' = (IF ClosesOn(error) THEN 0 ELSE conn)
      /\ stream' = (IF ClosesOn(error) THEN <<>> ELSE rest)
      /\ tries' = tries + 1 /\ pc' \in {"ask", "idle"}
      /\ UNCHANGED <<kind, conns, server, unit, got, req, first, sample, mixed>>
  BY DEF Fails
<1>2. LinkType'
  BY <1>1, EmptySeq DEF LinkInv, LinkType
<1>3. Reliable' => Reliable
  BY <1>1 DEF Reliable
<1>4. ConnOK' /\ FirstOK'
  BY <1>1 DEF LinkInv, LinkType, ConnOK, FirstOK
<1>5. GotOK' /\ NoLateAnswer' /\ SampleOfOnePoll'
  BY <1>1, <1>3 DEF LinkInv, GotOK, NoLateAnswer, SampleOfOnePoll, LastGroup
<1>6. OneAnswer'
  <2> SUFFICES ASSUME Reliable' PROVE stream' = <<>> /\ \A i \in DOMAIN server : ~Live(server[i])'
    BY <1>1 DEF OneAnswer, OneToCome
  <2>1. CASE ClosesOn(error)
    <3>1. kind # "serial"
      BY <2>1 DEF ClosesOn
    <3>2. \A i \in DOMAIN server : server[i].conn \in 1..conns
      BY DEF LinkInv, ConnOK
    <3> QED BY <1>1, <2>1, <3>1, <3>2 DEF Live, LinkInv, LinkType
  <2>2. CASE ~ClosesOn(error)
    BY <1>1, <2>2 DEF Live
  <2> QED BY <2>1, <2>2
<1> QED BY <1>2, <1>4, <1>5, <1>6 DEF LinkInv

LEMMA TimeoutInv ==
  ASSUME LinkInv, Timeout
  PROVE  LinkInv'
<1>1. Fails("timeout", stream) /\ pc = "wait" /\ abandoned' = TRUE /\ kind' = kind
  BY DEF Timeout, Fails
<1>2. Reliable' => ClosesOn("timeout")
  BY <1>1 DEF Reliable, ClosesOn, LinkInv, LinkType
<1>3. stream \in Seq(Answer)
  BY DEF LinkInv, LinkType
<1> QED BY <1>1, <1>2, <1>3, FailsInv

LEMMA RefuseInv ==
  ASSUME LinkInv, Refuse
  PROVE  LinkInv'
<1>1. /\ Fails(Verdict(Head(stream)), Tail(stream)) /\ pc = "wait" /\ stream # <<>>
      /\ abandoned' = abandoned /\ kind' = kind
  BY DEF Refuse, Fails
<1>2. Reliable' => Reliable
  BY <1>1 DEF Reliable
<1>3. abandoned' \in BOOLEAN
  BY <1>1 DEF LinkInv, LinkType
<1> QED BY <1>1, <1>2, <1>3, ReadUp, FailsInv

LEMMA ReceiveInv ==
  ASSUME LinkInv, Receive
  PROVE  LinkInv'
<1> DEFINE a == Head(stream)
<1>1. /\ pc = "wait" /\ stream # <<>> /\ Verdict(a) = "ok"
      /\ got' = Append(got, a) /\ stream' = Tail(stream) /\ tries' = 0
      /\ pc' = (IF Group = LastGroup THEN "idle" ELSE "ask")
      /\ sample' = (IF Group = LastGroup THEN [unit |-> unit, first |-> first, reads |-> got'] ELSE sample)
      /\ mixed' = (mixed \/ a.req # req)
      /\ UNCHANGED <<kind, conn, conns, server, unit, req, first, abandoned>>
  BY DEF Receive
<1>2. /\ a \in Answer /\ Tail(stream) \in Seq(Answer)
      /\ Reliable => Tail(stream) = <<>> /\ Asked(a) /\ \A i \in DOMAIN server : ~Live(server[i])
  BY <1>1, ReadUp
<1> HIDE DEF a
<1>3. /\ got \in Seq(Answer) /\ unit \in Units /\ req \in Nat /\ first \in Nat
      /\ mixed \in BOOLEAN /\ sample \in [unit : Units, first : Nat, reads : Seq(Answer)]
  BY DEF LinkInv, LinkType
<1>4. /\ got' \in Seq(Answer) /\ Len(got') = Group /\ got' # <<>>
      /\ DOMAIN got' = 1..Group /\ DOMAIN got = 1..(Group - 1) /\ Group \in Nat
      /\ \A g \in DOMAIN got : got'[g] = got[g]
      /\ got'[Group] = a
  BY <1>1, <1>2, <1>3, AppendProperties DEF Group
<1>5. LinkType'
  <2>1. sample' \in [unit : Units, first : Nat, reads : Seq(Answer)]
    BY <1>1, <1>3, <1>4
  <2> QED BY <1>1, <1>2, <1>3, <1>4, <2>1 DEF LinkInv, LinkType
<1>6. Reliable' <=> Reliable
  BY <1>1 DEF Reliable
<1>7. first <= req
  BY <1>1 DEF LinkInv, FirstOK
<1>8. ConnOK' /\ FirstOK'
  BY <1>1, <1>3, <1>7 DEF LinkInv, ConnOK, FirstOK
<1>9. OneAnswer'
  BY <1>1, <1>2, <1>6 DEF OneAnswer, OneToCome, Live
<1>10. NoLateAnswer'
  BY <1>1, <1>2, <1>6 DEF LinkInv, NoLateAnswer, Asked
<1>11. ASSUME Reliable
       PROVE  \A g \in DOMAIN got' : got'[g].group = g /\ got'[g].unit = unit /\ got'[g].req >= first
  <2>1. \A g \in DOMAIN got : got[g].group = g /\ got[g].unit = unit /\ got[g].req >= first
    BY <1>11 DEF LinkInv, GotOK
  <2>2. a.group = Group /\ a.unit = unit /\ a.req >= first
    BY <1>2, <1>3, <1>7, <1>11 DEF Asked
  <2>3. \A g \in DOMAIN got' : g \in DOMAIN got \/ g = Group
    BY <1>4
  <2> QED BY <1>4, <2>1, <2>2, <2>3
<1>12. GotOK'
  BY <1>1, <1>6, <1>11 DEF GotOK
<1>13. SampleOfOnePoll'
  <2>1. CASE Group = LastGroup
    <3>1. /\ sample'.reads = got' /\ sample'.unit = unit /\ sample'.first = first
          /\ LastGroup' = LastGroup
      BY <1>1, <2>1 DEF LastGroup
    <3> QED BY <1>4, <1>6, <1>11, <2>1, <3>1 DEF SampleOfOnePoll
  <2>2. CASE Group # LastGroup
    BY <1>1, <1>6, <2>2 DEF LinkInv, SampleOfOnePoll, LastGroup
  <2> QED BY <2>1, <2>2
<1> QED BY <1>5, <1>8, <1>9, <1>10, <1>12, <1>13 DEF LinkInv

LEMMA StopInv ==
  ASSUME LinkInv, Stop
  PROVE  LinkInv'
<1>1. /\ pc' = "idle" /\ conn' = 0 /\ stream' = <<>> /\ abandoned' = (abandoned \/ pc = "wait")
      /\ UNCHANGED <<kind, conns, server, unit, got, tries, req, first, sample, mixed>>
  BY DEF Stop
<1>2. LinkType'
  BY <1>1, EmptySeq DEF LinkInv, LinkType
<1>3. Reliable' => Reliable
  BY <1>1 DEF Reliable
<1>4. ConnOK' /\ FirstOK' /\ GotOK' /\ NoLateAnswer' /\ SampleOfOnePoll'
  BY <1>1, <1>3 DEF LinkInv, ConnOK, FirstOK, GotOK, NoLateAnswer, SampleOfOnePoll, LastGroup
<1>5. OneAnswer'
  <2> SUFFICES ASSUME Reliable', NEW i \in DOMAIN server PROVE ~Live(server[i])'
    BY <1>1 DEF OneAnswer, OneToCome
  <2>1. CASE kind = "serial"
    <3>1. pc # "wait"
      BY <1>1, <2>1 DEF Reliable
    <3> QED BY <1>3, <2>1, <3>1 DEF LinkInv, OneAnswer, OneToCome, Live, Asked
  <2>2. CASE kind # "serial"
    BY <1>1, <2>2 DEF LinkInv, LinkType, ConnOK, Live
  <2> QED BY <2>1, <2>2
<1> QED BY <1>2, <1>4, <1>5 DEF LinkInv

LEMMA ServeInv ==
  ASSUME LinkInv, NEW i \in DOMAIN server, Serve(i)
  PROVE  LinkInv'
<1>1. /\ server' = RemoveAt(server, i)
      /\ UNCHANGED <<kind, conn, conns, pc, unit, got, tries, req, first, sample, mixed, abandoned>>
  BY DEF Serve
<1>2. /\ server \in Seq(Query) /\ stream \in Seq(Answer) /\ i \in 1..Len(server)
      /\ Len(server) \in Nat /\ DOMAIN server = 1..Len(server)
      /\ server[i] \in Query
  BY DEF LinkInv, LinkType
<1>3. /\ server' \in Seq(Query) /\ DOMAIN server' = 1..(Len(server) - 1)
      /\ \A j \in DOMAIN server' : server'[j] = IF j < i THEN server[j] ELSE server[j + 1]
  <2>1. /\ RemoveAt(server, i) \in Seq(Query)
        /\ Len(RemoveAt(server, i)) = Len(server) - 1
        /\ \A j \in 1..(Len(server) - 1) :
             RemoveAt(server, i)[j] = IF j < i THEN server[j] ELSE server[j + 1]
    BY <1>2, RemoveAtProperties, Zenon
  <2>2. DOMAIN RemoveAt(server, i) = 1..(Len(server) - 1)
    BY <2>1, LenProperties
  <2> QED BY <1>1, <2>1, <2>2
<1>4. PICK answers \in Answers(server[i]) :
         stream' = IF conn # 0 /\ (kind = "serial" \/ server[i].conn = conn)
                   THEN stream \o answers
                   ELSE stream
  BY DEF Serve
<1>5. \/ answers = <<>>
      \/ \E a \in Answer : /\ answers = <<a>>
                           /\ a.req = server[i].req /\ a.unit = server[i].unit
                           /\ a.group = server[i].group
  <2>1. \A r \in BOOLEAN, s \in BOOLEAN :
          LET a == [req |-> server[i].req, unit |-> server[i].unit, group |-> server[i].group,
                    refuses |-> r, spoilt |-> s]
          IN  /\ a \in Answer /\ a.req = server[i].req /\ a.unit = server[i].unit
              /\ a.group = server[i].group
    BY <1>2 DEF Query, Answer
  <2> QED BY <1>4, <2>1 DEF Answers
<1>6. answers \in Seq(Answer)
  <2>1. CASE answers = <<>>
    BY <2>1, EmptySeq
  <2>2. ASSUME NEW a \in Answer, answers = <<a>> PROVE answers \in Seq(Answer)
    BY <2>2
  <2> QED BY <1>5, <2>1, <2>2
<1>7. stream' \in Seq(Answer)
  BY <1>2, <1>4, <1>6, ConcatProperties
<1>8. LinkType'
  BY <1>1, <1>3, <1>7 DEF LinkInv, LinkType
<1>9. ConnOK' /\ FirstOK' /\ GotOK' /\ NoLateAnswer' /\ SampleOfOnePoll'
  <2>1. \A j \in DOMAIN server' : \E k \in DOMAIN server : server'[j] = server[k]
    BY <1>2, <1>3
  <2>2. ConnOK'
    BY <1>1, <2>1 DEF LinkInv, ConnOK
  <2> QED BY <1>1, <2>2 DEF LinkInv, FirstOK, GotOK, NoLateAnswer, SampleOfOnePoll, Reliable, LastGroup
<1>10. OneAnswer'
  <2> SUFFICES ASSUME Reliable' PROVE OneToCome'
    BY DEF OneAnswer
  <2>1. Reliable
    BY <1>1 DEF Reliable
  <2>2. /\ \A q : Live(q)' <=> Live(q)
        /\ \A q : Asked(q)' <=> Asked(q)
    BY <1>1 DEF Live, Asked, Group
  <2>3. \A j \in DOMAIN server' : \E k \in DOMAIN server : k # i /\ server'[j] = server[k]
    BY <1>2, <1>3
  <2>4. \A j, k \in DOMAIN server' : Live(server'[j]) /\ Live(server'[k]) => j = k
    <3> SUFFICES ASSUME NEW j \in DOMAIN server', NEW k \in DOMAIN server',
                        Live(server'[j]), Live(server'[k])
                 PROVE  j = k
      OBVIOUS
    <3> DEFINE Old(n) == IF n < i THEN n ELSE n + 1
    <3>1. Old(j) \in DOMAIN server /\ Old(k) \in DOMAIN server
      BY <1>2, <1>3
    <3>2. server'[j] = server[Old(j)] /\ server'[k] = server[Old(k)]
      BY <1>3
    <3>3. Old(j) = Old(k)
      <4> HIDE DEF Old
      <4> QED BY <2>1, <3>1, <3>2 DEF LinkInv, OneAnswer, OneToCome
    <3> QED BY <1>2, <1>3, <3>3
  <2>5. CASE Live(server[i])
    <3>1. Asked(server[i]) /\ stream = <<>>
      BY <2>1, <2>5 DEF LinkInv, OneAnswer, OneToCome
    <3>2. \A j \in DOMAIN server' : ~Live(server'[j])
      BY <2>1, <2>3, <2>5 DEF LinkInv, OneAnswer, OneToCome
    <3>3. stream' = answers
      <4>1. conn # 0
        BY <3>1 DEF LinkInv, ConnOK, Asked
      <4>2. stream' = <<>> \o answers
        BY <1>4, <2>5, <3>1, <4>1 DEF Live
      <4> QED BY <1>6, <4>2, ConcatEmptySeq
    <3>4. stream' # <<>> => Len(stream') = 1 /\ Asked(stream'[1])
      BY <1>5, <3>1, <3>3 DEF Asked
    <3> QED BY <2>2, <2>4, <3>2, <3>4 DEF OneAnswer, OneToCome
  <2>6. CASE ~Live(server[i])
    <3>1. stream' = stream
      BY <1>4, <2>6 DEF Live
    <3>2. \A j \in DOMAIN server' : Live(server'[j]) => Asked(server'[j]) /\ stream = <<>>
      BY <2>1, <2>3 DEF LinkInv, OneAnswer, OneToCome
    <3>3. stream # <<>> => Len(stream) = 1 /\ Asked(stream[1])
      BY <2>1 DEF LinkInv, OneAnswer, OneToCome
    <3> QED BY <2>2, <2>4, <3>1, <3>2, <3>3 DEF OneAnswer, OneToCome
  <2> QED BY <2>5, <2>6
<1> QED BY <1>8, <1>9, <1>10 DEF LinkInv

-----------------------------------------------------------------------------
LEMMA NextLinkInv == LinkInv /\ [Next]_vars => LinkInv'
<1> SUFFICES ASSUME LinkInv, [Next]_vars PROVE LinkInv'
  OBVIOUS
<1>1. ASSUME NEW u \in Units, PollStarts(u) PROVE LinkInv'
  BY <1>1, PollStartsInv
<1>2. CASE Ask
  BY <1>2, AskInv
<1>3. CASE Timeout
  BY <1>3, TimeoutInv
<1>4. CASE Refuse
  BY <1>4, RefuseInv
<1>5. CASE Receive
  BY <1>5, ReceiveInv
<1>6. CASE Stop
  BY <1>6, StopInv
<1>7. ASSUME NEW i \in DOMAIN server, Serve(i) PROVE LinkInv'
  BY <1>7, ServeInv
<1>8. CASE UNCHANGED vars
  BY <1>8 DEF vars, LinkInv, LinkType, ConnOK, OneAnswer, OneToCome, Reliable, Live, Asked, Group, FirstOK,
              GotOK, NoLateAnswer, SampleOfOnePoll, LastGroup
<1> QED BY <1>1, <1>2, <1>3, <1>4, <1>5, <1>6, <1>7, <1>8 DEF Next

\* The inductive invariant of a link: at most one answer can still come, and it
\* is to the request just made.
THEOREM LinkInvariance == Spec => []LinkInv
BY InitLinkInv, NextLinkInv, PTL DEF Spec

\* No late answer is taken for that of a later request, for any number of
\* devices, groups and tries, on every class of links; on a serial port as long
\* as no request was given up.
THEOREM LateAnswersAreDropped == Spec => []NoLateAnswer
<1>1. LinkInv => NoLateAnswer
  BY DEF LinkInv
<1> QED BY <1>1, LinkInvariance, PTL

\* Every sample has all its groups, read from one device by requests of one poll.
THEOREM SamplesAreWhole == Spec => []SampleOfOnePoll
<1>1. LinkInv => SampleOfOnePoll
  BY DEF LinkInv
<1> QED BY <1>1, LinkInvariance, PTL

-----------------------------------------------------------------------------
(* SampleIntake                                                            *)

IntakeType ==
  /\ last \in [Keys -> 0..NoReading]
  /\ pending \in [Keys -> Nat] /\ jumps \in [Keys -> Nat]
  /\ mdNg \in 0..NoNg /\ ngTold \in 0..NoNg
  /\ late \in BOOLEAN /\ restarts \in Nat

\* What the filter counts is what has happened since the value it compares with
\* was accepted, and the detector's count is the one the buffer was told last.
CountsAgree ==
  /\ \A k \in Keys : pending[k] = jumps[k]
  /\ restarts = 0 => mdNg = ngTold

IntakeInv == IntakeType /\ CountsAgree /\ NotSilenced /\ NgUrgent

LEMMA InitIntakeInv == IntakeInit => IntakeInv
<1> SUFFICES ASSUME IntakeInit PROVE IntakeInv
  OBVIOUS
<1>1. NoReading \in 0..NoReading /\ NoNg \in 0..NoNg /\ Confirm \in Nat \ {0}
  BY ConstantsAssumption DEF NoReading, NoNg
<1>2. IntakeType
  BY <1>1 DEF IntakeInit, IntakeType
<1>3. CountsAgree /\ NotSilenced /\ NgUrgent
  BY <1>1 DEF IntakeInit, CountsAgree, NotSilenced, NgUrgent
<1> QED BY <1>2, <1>3 DEF IntakeInv

\* What a reading does to the books of one item: it is ignored, accepted, or one
\* more jump that is held back.
LEMMA Judged ==
  ASSUME IntakeInv, NEW v \in [Keys -> Reading], OnSample(v), NEW k \in Keys
  PROVE  /\ last'[k] \in 0..NoReading
         /\ pending'[k] \in Nat /\ jumps'[k] \in Nat /\ pending'[k] = jumps'[k]
         /\ jumps'[k] < Confirm
<1>1. /\ last[k] \in 0..NoReading /\ pending[k] \in Nat /\ jumps[k] = pending[k]
      /\ pending[k] < Confirm /\ Confirm \in Nat \ {0}
      /\ v[k] \in 0..NoReading
  BY ConstantsAssumption DEF IntakeInv, IntakeType, CountsAgree, NotSilenced, Reading, NoReading
<1>2. /\ last'[k] = IF Accept(k, v[k]) THEN v[k] ELSE last[k]
      /\ pending'[k] = PendingAfter(k, v[k])
      /\ jumps'[k] = IF ~InRange(v[k]) THEN jumps[k] ELSE IF Accept(k, v[k]) THEN 0 ELSE jumps[k] + 1
  BY DEF OnSample
<1>3. CASE ~InRange(v[k])
  BY <1>1, <1>2, <1>3 DEF Accept, PendingAfter
<1>4. CASE Accept(k, v[k])
  <2>1. pending'[k] = 0 /\ jumps'[k] = 0 /\ last'[k] = v[k]
    BY <1>2, <1>4 DEF Accept, PendingAfter
  <2> QED BY <1>1, <2>1
<1>5. CASE InRange(v[k]) /\ ~Accept(k, v[k])
  <2>1. pending[k] + 1 < Confirm
    BY <1>1, <1>5 DEF Accept, Confirmed
  <2>2. pending'[k] = pending[k] + 1 /\ jumps'[k] = jumps[k] + 1
    BY <1>2, <1>5 DEF PendingAfter
  <2> QED BY <1>1, <1>2, <1>5, <2>1, <2>2
<1> QED BY <1>3, <1>4, <1>5

LEMMA OnSampleInv ==
  ASSUME IntakeInv, NEW v \in [Keys -> Reading], OnSample(v)
  PROVE  IntakeInv'
<1>1. /\ last' = [k \in Keys |-> last'[k]] /\ pending' = [k \in Keys |-> pending'[k]]
      /\ jumps' = [k \in Keys |-> jumps'[k]]
      /\ UNCHANGED <<mdNg, ngTold, late, restarts>>
  BY DEF OnSample
<1>2. \A k \in Keys : /\ last'[k] \in 0..NoReading
                      /\ pending'[k] \in Nat /\ jumps'[k] \in Nat /\ pending'[k] = jumps'[k]
                      /\ jumps'[k] < Confirm
  BY Judged
<1>3. /\ last' \in [Keys -> 0..NoReading] /\ pending' \in [Keys -> Nat]
      /\ jumps' \in [Keys -> Nat]
  BY <1>1, <1>2
<1>4. IntakeType'
  BY <1>1, <1>3 DEF IntakeInv, IntakeType, NoReading, NoNg
<1>5. CountsAgree' /\ NotSilenced' /\ NgUrgent'
  BY <1>1, <1>2 DEF IntakeInv, CountsAgree, NotSilenced, NgUrgent
<1> QED BY <1>4, <1>5 DEF IntakeInv

\* As long as the Edge has not been restarted, a risen count is seen.
LEMMA OnMetalInv ==
  ASSUME IntakeInv, NEW n \in 0..MaxNg, OnMetal(n)
  PROVE  IntakeInv'
<1>1. /\ mdNg' = n /\ ngTold' = n /\ late' = (late \/ (n > ngTold /\ ~IsUrgent(n)))
      /\ UNCHANGED <<last, pending, jumps, restarts>>
  BY DEF OnMetal
<1>2. n \in Nat /\ n < NoNg /\ n \in 0..NoNg /\ NoNg \in Nat
  BY ConstantsAssumption DEF NoNg
<1>3. IntakeType'
  BY <1>1, <1>2 DEF IntakeInv, IntakeType, NoReading, NoNg
<1>4. CountsAgree' /\ NotSilenced'
  BY <1>1 DEF IntakeInv, CountsAgree, NotSilenced
<1>5. NgUrgent'
  <2> SUFFICES ASSUME late', restarts = 0 PROVE FALSE
    BY <1>1 DEF NgUrgent, IntakeInv, IntakeType
  <2>1. mdNg = ngTold /\ ngTold \in 0..NoNg
    BY DEF IntakeInv, CountsAgree, IntakeType
  <2>2. ~late
    BY DEF IntakeInv, NgUrgent
  <2>3. n > ngTold /\ ~IsUrgent(n)
    BY <1>1, <2>2
  <2> QED BY <1>2, <2>1, <2>3 DEF IsUrgent
<1> QED BY <1>3, <1>4, <1>5 DEF IntakeInv

LEMMA RestartEdgeInv ==
  ASSUME IntakeInv, RestartEdge
  PROVE  IntakeInv'
<1>1. /\ restarts' = restarts + 1 /\ last' = [k \in Keys |-> NoReading]
      /\ pending' = [k \in Keys |-> 0] /\ mdNg' = NoNg /\ jumps' = [k \in Keys |-> 0]
      /\ UNCHANGED <<ngTold, late>>
  BY DEF RestartEdge
<1>2. NoReading \in 0..NoReading /\ NoNg \in 0..NoNg /\ Confirm \in Nat \ {0} /\ restarts \in Nat
  BY ConstantsAssumption DEF NoReading, NoNg, IntakeInv, IntakeType
<1>3. IntakeType'
  BY <1>1, <1>2 DEF IntakeInv, IntakeType, NoReading, NoNg
<1>4. CountsAgree' /\ NotSilenced' /\ NgUrgent'
  BY <1>1, <1>2 DEF IntakeInv, CountsAgree, NotSilenced, NgUrgent
<1> QED BY <1>3, <1>4 DEF IntakeInv

LEMMA NextIntakeInv == IntakeInv /\ [IntakeNext]_intakeVars => IntakeInv'
<1> SUFFICES ASSUME IntakeInv, [IntakeNext]_intakeVars PROVE IntakeInv'
  OBVIOUS
<1>1. ASSUME NEW v \in [Keys -> Reading], OnSample(v) PROVE IntakeInv'
  BY <1>1, OnSampleInv
<1>2. ASSUME NEW n \in 0..MaxNg, OnMetal(n) PROVE IntakeInv'
  BY <1>2, OnMetalInv
<1>3. CASE RestartEdge
  BY <1>3, RestartEdgeInv
<1>4. CASE UNCHANGED intakeVars
  BY <1>4 DEF intakeVars, IntakeInv, IntakeType, CountsAgree, NotSilenced, NgUrgent
<1> QED BY <1>1, <1>2, <1>3, <1>4 DEF IntakeNext

\* The inductive invariant: the filter's counts mean what it takes them to mean.
THEOREM IntakeInvariance == IntakeSpec => []IntakeInv
BY InitIntakeInv, NextIntakeInv, PTL DEF IntakeSpec

\* A real change is never held back for longer than Confirm - 1 readings in range.
THEOREM ChangesGetThrough == IntakeSpec => []NotSilenced
<1>1. IntakeInv => NotSilenced
  BY DEF IntakeInv
<1> QED BY <1>1, IntakeInvariance, PTL

\* A risen NG count is urgent, the first one included, until the Edge restarts.
THEOREM NgIsUrgent == IntakeSpec => []NgUrgent
<1>1. IntakeInv => NgUrgent
  BY DEF IntakeInv
<1> QED BY <1>1, IntakeInvariance, PTL

=============================================================================
