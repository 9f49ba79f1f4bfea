------------------------- MODULE DistributionProofs -------------------------
(***************************************************************************)
(* Proofs about Distribution for any number of tanks, hours of a batch,    *)
(* samples, requests and faults.                                           *)
(***************************************************************************)
EXTENDS Distribution, Integers, WellFoundedInduction, FiniteSetTheorems, TLAPS

\* Keys of a table do not grow without bound, so that there is a newest row.
Bounded(rows) == \E n \in Nat : \A r \in rows : r.id <= n

OfTank(opr, t) == {o \in opr : o.tank = t}

BatchesOK(opr) ==
  /\ Bounded(opr)
  /\ \A o, p \in opr : o.id = p.id => o = p
  /\ \A o \in opr : o.end \in {Null, o.start + PlanHours}
  /\ \A t \in Tanks : Apart(OfTank(opr, t))

SalinityOK(d) ==
  /\ \A s \in d.sal : \E o \in d.opr : o.id = s.opr
  /\ \A s \in d.sal, o \in d.opr : o.id = s.opr =>
       o.tank = s.tank /\ o.start <= s.ts /\ s.ts < o.start + PlanHours

AlarmsOK(d) == \A a \in d.envAlarm : \E l \in d.env : l.id = a.log /\ l.ts = a.ts

\* No hole but the ones that a failing handler has left.
JoinedOK(d) ==
  /\ "batch" \notin d.missing => \A t \in Tanks : Joined(OfTank(d.opr, t))
  /\ "run" \notin d.missing => Joined(d.run)

\* What holds of the tables by themselves.
TablesOK(d) ==
  /\ BatchesOK(d.opr) /\ SalinityOK(d)
  /\ Bounded(d.run) /\ Apart(d.run) /\ JoinedOK(d)
  /\ Bounded(d.env) /\ AlarmsOK(d)

\* The rows begin and end up to ts; Null is before everything.
Told(rows, ts) == \A r \in rows : r.start <= ts /\ r.end <= ts

\* Samples S are newer than anything the tables were told by their kind.
Ahead(d, S) ==
  \A s \in S :
    /\ s.kind = "tank" => Told(d.opr, s.ts)
    /\ s.kind = "run" => Told(d.run, s.ts) /\ \A r \in d.run : r.start < s.ts

\* Samples have different times, and those of a request come before the others,
\* as far as they are not urgent.
FeedOK ==
  /\ \A r, s \in waiting \cup batch : r.ts = s.ts => r = s
  /\ \A s \in waiting \cup batch : s.ts <= clock
  /\ \A s \in batch, r \in waiting : ~s.urgent /\ ~r.urgent => s.ts < r.ts
  /\ ~overtaken => \A s \in batch, r \in waiting :
       s.kind = "metal" /\ r.kind = "metal" => s.ts < r.ts

\* A transaction in which nothing was distributed has changed nothing.
Fresh == todo = batch => db = saved

AheadOK ==
  /\ Ahead(db, todo \cup waiting) /\ Ahead(saved, batch \cup waiting)
  /\ Told(db.opr \cup saved.opr, clock)
  /\ Told(db.run \cup saved.run, clock)

\* The open interval shows the last report.
Follows(d) ==
  LET open == {r \in d.run : r.end = Null} IN
  "run" \notin d.missing =>
    IF d.lastRun = None THEN open = {} ELSE {r.status : r \in open} = {d.lastRun}

\* What the MES remembers of the packer is what it has booked, until a rollback.
RunMemory ==
  ~torn =>
    /\ Follows(db) /\ Follows(saved)
    /\ runState \in {None, db.lastRun}
    /\ pkgFirst = 0 <=> pkgPrev = 0
    /\ pkgFirst <= pkgPrev /\ pkgPrev <= clock
    /\ "packs" \notin db.missing => db.packed = pkgPrev - pkgFirst
    /\ \A s \in todo \cup waiting : s.kind = "run" => pkgPrev < s.ts

\* c has counted at least what b has.
Reaches(b, c) == b.insp <= c.insp /\ b.ng <= c.ng

\* The counts of the detector grow with time.
MetalGrows ==
  /\ 1 <= md.insp
  /\ \A s \in waiting \cup batch : s.kind = "metal" => 1 <= s.what.insp /\ Reaches(s.what, md)
  /\ \A r, s \in waiting \cup batch :
       r.kind = "metal" /\ s.kind = "metal" /\ r.ts <= s.ts => Reaches(r.what, s.what)

\* What the MES remembers of the detector is the last it has booked, until a
\* rollback or a sample that came before an older one.
MetalMemory ==
  /\ mdSeen = {} <=> mdPrev = NoCounts
  /\ ~torn /\ ~overtaken =>
       /\ Reaches(mdPrev, md)
       /\ \A s \in todo \cup waiting : s.kind = "metal" => Reaches(mdPrev, s.what)
       /\ mdSeen = {} => db.ng = 0
       /\ mdSeen # {} =>
            /\ mdPrev.ng \in mdSeen /\ \A k \in mdSeen : k <= mdPrev.ng
            /\ \E n \in mdSeen :
                 (\A k \in mdSeen : n <= k) /\ ("ng" \notin db.missing => db.ng = mdPrev.ng - n)

DistInv ==
  /\ TypeOK /\ TablesOK(db) /\ TablesOK(saved)
  /\ FeedOK /\ Fresh /\ AheadOK
  /\ RunMemory /\ MetalGrows /\ MetalMemory

-----------------------------------------------------------------------------
(* Keys *)

\* A set of naturals that is bounded and not empty has a largest element.
LEMMA LargestExists ==
  ASSUME NEW S, S \subseteq Nat, S # {}, NEW n \in Nat, \A x \in S : x <= n
  PROVE  \E m \in S : \A x \in S : x <= m
<1> DEFINE U == {u \in Nat : \A x \in S : x <= u}
<1>1. U \subseteq Nat /\ U # {}
  OBVIOUS
<1>2. PICK u \in U : \A v \in U : ~(<<v, u>> \in OpToRel(<, Nat))
  BY <1>1, NatLessThanWellFounded, WFMin, Zenon
<1>3. ASSUME u \notin S PROVE FALSE
  <2>1. PICK x \in S : x <= u
    BY <1>1
  <2>2. u > 0
    BY <1>3, <2>1
  <2>3. u - 1 \in U
    BY <1>3, <2>2
  <2>4. <<u - 1, u>> \in OpToRel(<, Nat)
    BY <2>2 DEF OpToRel
  <2> QED  BY <1>2, <2>3, <2>4
<1> QED  BY <1>3

\* Newest picks the row with the largest key.
LEMMA NewestIs ==
  ASSUME NEW rows, \A r \in rows : r.id \in Nat, Bounded(rows), rows # {}
  PROVE  Newest(rows) \in rows /\ \A r \in rows : r.id <= Newest(rows).id
<1> DEFINE S == {r.id : r \in rows}
<1>1. PICK n \in Nat : \A r \in rows : r.id <= n
  BY DEF Bounded
<1>2. S \subseteq Nat /\ S # {} /\ \A x \in S : x <= n
  BY <1>1
<1>3. \E m \in S : \A x \in S : x <= m
  BY <1>2, LargestExists
<1>4. \E r \in rows : \A s \in rows : s.id <= r.id
  BY <1>3
<1> QED  BY <1>4 DEF Newest

\* A new key is larger than all that are in use.
LEMMA NewKeyIsNew ==
  ASSUME NEW rows, \A r \in rows : r.id \in Nat, Bounded(rows)
  PROVE  NewKey(rows) \in Nat /\ \A r \in rows : r.id < NewKey(rows)
BY NewestIs DEF NewKey

-----------------------------------------------------------------------------
(* Intervals *)

\* Of rows that are apart one at most is open.
LEMMA OneOpen ==
  ASSUME NEW rows, Apart(rows), NEW r \in rows, NEW s \in rows, r.end = Null, s.end = Null
  PROVE  r = s
BY DEF Apart, Before

\* The open row o is completed at e, as c, and more rows follow from there.
LEMMA ApartGrows ==
  ASSUME NEW rows, NEW more, NEW o \in rows, NEW c, NEW e \in Nat,
         Apart(rows), Apart(more), o.end = Null,
         \A r \in rows \cup more : r.start \in Nat /\ r.end \in Nat,
         c.start = o.start, c.end = e, o.start < e,
         \A n \in more : e <= n.start
  PROVE  Apart((rows \ {o}) \cup {c} \cup more)
<1> DEFINE all == (rows \ {o}) \cup {c} \cup more
<1>1. c.end # Null /\ c.start < c.end
  BY DEF Null
<1>2. \A r \in rows \ {o} : r.end # Null /\ r.end <= o.start /\ r.start < r.end
  BY DEF Apart, Before
<1>3. \A r \in all : r.end # Null => r.start < r.end
  BY <1>1, <1>2 DEF Apart
<1>4. \A r \in rows \ {o} : Before(r, c)
  BY <1>2 DEF Before
<1>5. \A m \in more : Before(c, m)
  BY <1>1 DEF Before
<1>6. \A r \in rows \ {o}, m \in more : Before(r, m)
  BY <1>2 DEF Before
<1>7. \A r, s \in all : r = s \/ Before(r, s) \/ Before(s, r)
  BY <1>4, <1>5, <1>6 DEF Apart
<1> QED  BY <1>3, <1>7 DEF Apart

\* When one of the rows that follow begins at e, there is no hole.
LEMMA JoinedGrows ==
  ASSUME NEW rows, NEW more, NEW o \in rows, NEW c, NEW e,
         Joined(rows), Joined(more), c.start = o.start, c.end = e,
         \E n \in more : n.start = e
  PROVE  Joined((rows \ {o}) \cup {c} \cup more)
BY DEF Joined

\* An open row n is added to rows that have ended.
LEMMA ApartOpens ==
  ASSUME NEW rows, NEW n, Apart(rows), n.end = Null,
         \A r \in rows : r.end # Null /\ r.end <= n.start
  PROVE  Apart(rows \cup {n})
BY DEF Apart, Before

\* There is no hole when the oldest rows are removed.
LEMMA JoinedPurged ==
  ASSUME NEW rows, NEW rest, Joined(rows), rest \subseteq rows,
         \A r \in rest, s \in rows : r.end # Null /\ s.start = r.end => s \in rest
  PROVE  Joined(rest)
BY DEF Joined

-----------------------------------------------------------------------------
(* Batches *)

LEMMA Multiples ==
  ASSUME NEW n \in Nat \ {0}, NEW i \in Nat
  PROVE  /\ i * n \in Nat /\ (i + 1) * n = i * n + n /\ 1 * n = n
         /\ \A j \in Nat : i < j => i * n + n <= j * n
<1>1. i * n \in Nat /\ (i + 1) * n = i * n + n /\ 1 * n = n
  OBVIOUS
<1>2. ASSUME NEW j \in Nat, i < j PROVE i * n + n <= j * n
  <2>1. j * n - (i * n + n) = (j - i - 1) * n
    OBVIOUS
  <2>2. j - i - 1 \in Nat
    BY <1>2
  <2>3. (j - i - 1) * n >= 0
    BY <2>2
  <2>4. i * n \in Int /\ j * n \in Int
    OBVIOUS
  <2> QED  BY <2>1, <2>3, <2>4
<1> QED  BY <1>1, <1>2

\* The batches that follow o continue it up to the one with the sample.
LEMMA FollowingBatchesOK ==
  ASSUME NEW o \in Batch, NEW k \in Nat \ {0}, NewKey(db.opr) \in Nat
  PROVE  LET more == FollowingBatches(o, k) IN
         /\ more \subseteq Batch /\ Apart(more) /\ Joined(more) /\ Bounded(more)
         /\ \A p, q \in more : p.id = q.id => p = q
         /\ \A p \in more :
              /\ p.tank = o.tank /\ NewKey(db.opr) <= p.id
              /\ p.end \in {Null, p.start + PlanHours}
              /\ o.start + PlanHours <= p.start /\ p.start <= o.start + k * PlanHours
              /\ p.end = Null => p.start = o.start + k * PlanHours
         /\ \E p \in more : p.start = o.start + PlanHours
         /\ \E p \in more : p.end = Null
<1> DEFINE at(i) == o.start + i * PlanHours
           row(i) == [id |-> NewKey(db.opr) + i - 1, tank |-> o.tank, start |-> at(i),
                      end |-> IF i = k THEN Null ELSE at(i + 1)]
           more == FollowingBatches(o, k)
<1>1. PlanHours \in Nat \ {0} /\ o.start \in Nat /\ o.tank \in Tanks
  BY DistributionAssumption DEF Batch
<1>2. \A i \in Nat : at(i) \in Nat /\ at(i + 1) = at(i) + PlanHours
  BY <1>1, Multiples
<1>3. \A i, j \in Nat : i < j => at(i) + PlanHours <= at(j)
  BY <1>1, Multiples
<1>4. at(1) = o.start + PlanHours /\ at(k) = o.start + k * PlanHours
  BY <1>1, Multiples
<1>5. more = {row(i) : i \in 1..k}
  BY DEF FollowingBatches
<1> HIDE DEF at
<1>6. \A i \in 1..k : row(i) \in Batch
  BY <1>1, <1>2 DEF Batch, Null
<1>7. \A i, j \in 1..k : row(i).id = row(j).id => i = j
  OBVIOUS
<1>8. \A i, j \in 1..k : row(i).start = row(j).start => i = j
  <2>1. ASSUME NEW i \in 1..k, NEW j \in 1..k, at(i) = at(j) PROVE i = j
    <3>1. i \in Nat /\ j \in Nat /\ at(i) \in Nat /\ at(j) \in Nat
      BY <1>2
    <3>2. ~(i < j) /\ ~(j < i)
      BY <2>1, <3>1, <1>1, <1>3
    <3> QED  BY <3>1, <3>2
  <2> QED  BY <2>1
<1>9. \A i \in 1..k : row(i).end = Null <=> i = k
  BY <1>1, <1>2, <1>3 DEF Null
<1>10. \A i \in 1..k : at(1) <= row(i).start /\ row(i).start <= at(k)
  <2>1. ASSUME NEW i \in 1..k PROVE at(1) <= at(i) /\ at(i) <= at(k)
    <3>1. at(1) \in Nat /\ at(i) \in Nat /\ at(k) \in Nat /\ i \in Nat
      BY <1>2
    <3>2. i = 1 \/ at(1) + PlanHours <= at(i)
      BY <1>3, <3>1
    <3>3. i = k \/ at(i) + PlanHours <= at(k)
      BY <1>3, <3>1
    <3> QED  BY <1>1, <3>1, <3>2, <3>3
  <2> QED  BY <2>1
<1>11. \A i \in 1..k : i # k =>
         /\ row(i).end = at(i) + PlanHours
         /\ i + 1 \in 1..k /\ row(i).end = row(i + 1).start
         /\ row(i).end <= row(k).start
  <2>1. ASSUME NEW i \in 1..k, i # k
        PROVE  i + 1 \in 1..k /\ at(i + 1) = at(i) + PlanHours /\ at(i) + PlanHours <= at(k)
    BY <2>1, <1>2, <1>3
  <2> QED  BY <2>1
<1>12. Apart(more) /\ Joined(more)
  <2>1. \A i \in 1..k : row(i).end # Null => row(i).start < row(i).end
    BY <1>1, <1>2, <1>9, <1>11
  <2>2. ASSUME NEW i \in 1..k, NEW j \in 1..k, i < j PROVE Before(row(i), row(j))
    <3>1. i # k /\ row(i).end # Null /\ row(i).end = at(i) + PlanHours
      BY <2>2, <1>9, <1>11
    <3>2. at(i) + PlanHours <= at(j) /\ row(j).start = at(j)
      BY <2>2, <1>3
    <3> QED  BY <3>1, <3>2 DEF Before
  <2>3. ASSUME NEW i \in 1..k, row(i).end # Null PROVE \E q \in more : q.start = row(i).end
    <3>1. row(i + 1) \in more /\ row(i + 1).start = row(i).end
      BY <2>3, <1>5, <1>9, <1>11
    <3> HIDE DEF row
    <3> QED  BY <3>1
  <2>4. \A p \in more : \E i \in 1..k : p = row(i)
    BY <1>5
  <2> HIDE DEF row, more
  <2>5. ASSUME NEW p \in more, NEW q \in more PROVE p = q \/ Before(p, q) \/ Before(q, p)
    <3>1. PICK i \in 1..k : p = row(i)
      BY <2>4
    <3>2. PICK j \in 1..k : q = row(j)
      BY <2>4
    <3>3. i = j \/ i < j \/ j < i
      OBVIOUS
    <3> QED  BY <2>2, <3>1, <3>2, <3>3
  <2> QED  BY <2>1, <2>3, <2>4, <2>5 DEF Apart, Joined
<1>13. Bounded(more)
  <2>1. \A i \in 1..k : row(i).id <= NewKey(db.opr) + k
    OBVIOUS
  <2>2. NewKey(db.opr) + k \in Nat
    OBVIOUS
  <2> HIDE DEF row
  <2> QED  BY <1>5, <2>1, <2>2 DEF Bounded
<1>14. \A i \in 1..k : /\ row(i).tank = o.tank /\ NewKey(db.opr) <= row(i).id
                       /\ row(i).end \in {Null, row(i).start + PlanHours}
                       /\ row(i).end = Null => row(i).start = at(k)
  BY <1>9, <1>11
<1>15. row(1) \in more /\ row(1).start = at(1) /\ row(k) \in more /\ row(k).end = Null
  BY <1>5
<1> HIDE DEF row, more
<1>16. more \subseteq Batch
  BY <1>5, <1>6
<1>17. \A p, q \in more : p.id = q.id => p = q
  BY <1>5, <1>7
<1>18. \A p \in more :
         /\ p.tank = o.tank /\ NewKey(db.opr) <= p.id
         /\ p.end \in {Null, p.start + PlanHours}
         /\ o.start + PlanHours <= p.start /\ p.start <= o.start + k * PlanHours
         /\ p.end = Null => p.start = o.start + k * PlanHours
  BY <1>4, <1>5, <1>10, <1>14
<1> QED  BY <1>4, <1>12, <1>13, <1>15, <1>16, <1>17, <1>18 DEF more

\* Batches are still apart, not later than ts, and keep key, tank and start.
OprKept(opr, ts) ==
  /\ opr \subseteq Batch /\ BatchesOK(opr) /\ Told(opr, ts)
  /\ \A o \in db.opr : \E p \in opr : p.id = o.id
  /\ \A o \in db.opr, p \in opr : p.id = o.id => p.tank = o.tank /\ p.start = o.start

\* There is no new hole.
StillJoined(opr) ==
  (\A t \in Tanks : Joined(OfTank(db.opr, t))) => \A t \in Tanks : Joined(OfTank(opr, t))

LEMMA BatchFields ==
  ASSUME NEW opr, opr \subseteq Batch
  PROVE  \A o \in opr : /\ o.id \in Nat /\ o.start \in Nat /\ o.end \in Nat /\ o.tank \in Tanks
                        /\ o = [id |-> o.id, tank |-> o.tank, start |-> o.start, end |-> o.end]
BY DEF Batch

\* The open batch of a tank that has one.
LEMMA OpenIs ==
  ASSUME NEW t \in Tanks, db.opr \subseteq Batch, BatchesOK(db.opr), OpenBatches(t) # {}
  PROVE  LET o == Newest(OpenBatches(t)) IN o \in db.opr /\ o.tank = t /\ o.end = Null
<1>1. Bounded(OpenBatches(t)) /\ \A r \in OpenBatches(t) : r.id \in Nat
  BY BatchFields DEF BatchesOK, Bounded, OpenBatches
<1>2. Newest(OpenBatches(t)) \in OpenBatches(t)
  BY <1>1, NewestIs
<1> QED  BY <1>2 DEF OpenBatches

LEMMA Division ==
  ASSUME NEW d \in Nat, NEW n \in Nat \ {0}
  PROVE  /\ d \div n \in Nat /\ d % n \in 0..(n - 1)
         /\ d = (d \div n) * n + (d % n)
OBVIOUS

\* After BatchesPassed turns the open batch contains ts.
LEMMA PassedIs ==
  ASSUME NEW o, NEW ts \in Nat, o.start \in Nat, o.start <= ts
  PROVE  LET k == BatchesPassed(o, ts) IN
         /\ k \in Nat /\ o.start + k * PlanHours <= ts
         /\ ts < o.start + k * PlanHours + PlanHours
<1> DEFINE k == BatchesPassed(o, ts)
<1>1. PlanHours \in Nat \ {0}
  BY DistributionAssumption
<1>2. CASE ts < o.start + PlanHours
  BY <1>1, <1>2 DEF BatchesPassed
<1>3. CASE ~(ts < o.start + PlanHours)
  <2> DEFINE d == ts - o.start
  <2>1. d \in Nat /\ k = d \div PlanHours /\ ts = o.start + d
    BY <1>3 DEF BatchesPassed
  <2> HIDE DEF d, k
  <2>2. /\ d \div PlanHours \in Nat /\ d % PlanHours \in 0..(PlanHours - 1)
        /\ d = (d \div PlanHours) * PlanHours + (d % PlanHours)
    BY <2>1, <1>1, Division, Zenon
  <2>3. d = k * PlanHours + (d % PlanHours)
    BY <2>1, <2>2, Zenon
  <2>4. k \in Nat /\ k * PlanHours \in Nat
    BY <1>1, <2>1, <2>2, Multiples
  <2> DEFINE r == d % PlanHours
             x == k * PlanHours
             h == PlanHours
  <2>5. x \in Nat /\ r \in Nat /\ r < h /\ h \in Nat /\ d = x + r
    BY <1>1, <2>1, <2>2, <2>3, <2>4
  <2> HIDE DEF x, r, h
  <2>6. ts = o.start + x + r
    BY <2>1, <2>5
  <2>7. o.start + x <= ts /\ ts < o.start + x + h
    BY <2>5, <2>6
  <2> QED  BY <2>4, <2>7 DEF x, h, k
<1> QED  BY <1>2, <1>3

\* Turns of the loop up to ts keep the batches in order.
LEMMA TurnsOK ==
  ASSUME NEW t \in Tanks, NEW ts \in Nat, db.opr \subseteq Batch, BatchesOK(db.opr), Told(db.opr, ts),
         NEW o \in db.opr, o.tank = t, o.end = Null,
         NEW k \in Nat, o.start + k * PlanHours <= ts
  PROVE  LET opr == AfterTurns(o, k) IN
         /\ OprKept(opr, ts) /\ StillJoined(opr)
         /\ \E p \in opr : /\ {q \in opr : q.tank = t /\ q.end = Null} = {p}
                           /\ p.start = o.start + k * PlanHours
<1> DEFINE opr == AfterTurns(o, k)
           new == NewKey(db.opr)
<1>1. PlanHours \in Nat \ {0}
  BY DistributionAssumption
<1>2. \A p \in db.opr : /\ p.id \in Nat /\ p.start \in Nat /\ p.end \in Nat /\ p.tank \in Tanks
                        /\ p = [id |-> p.id, tank |-> p.tank, start |-> p.start, end |-> p.end]
  BY BatchFields
<1>3. new \in Nat /\ \A p \in db.opr : p.id < new
  BY <1>2, NewKeyIsNew DEF BatchesOK
<1>4. \A p \in db.opr : p.tank = t /\ p.end = Null => p = o
  <2>1. Apart(OfTank(db.opr, t)) /\ o \in OfTank(db.opr, t)
    BY DEF BatchesOK, OfTank
  <2>2. ASSUME NEW p \in db.opr, p.tank = t, p.end = Null PROVE p = o
    <3>1. p \in OfTank(db.opr, t)
      BY <2>2 DEF OfTank
    <3> QED  BY <2>1, <2>2, <3>1, OneOpen
  <2> QED  BY <2>2
<1>5. CASE k = 0
  <2>1. opr = db.opr
    BY <1>5 DEF AfterTurns
  <2>2. o.start + k * PlanHours = o.start
    BY <1>1, <1>2, <1>5
  <2>3. {p \in opr : p.tank = t /\ p.end = Null} = {o}
    BY <1>4, <2>1
  <2>4. \A p, q \in db.opr : q.id = p.id => q.tank = p.tank /\ q.start = p.start
    BY DEF BatchesOK
  <2>5. OprKept(opr, ts)
    BY <2>1, <2>4 DEF OprKept
  <2>6. StillJoined(opr)
    BY <2>1 DEF StillJoined
  <2> QED  BY <2>1, <2>2, <2>3, <2>5, <2>6
<1>6. CASE k # 0
  <2> DEFINE c == [o EXCEPT !.end = o.start + PlanHours]
             more == FollowingBatches(o, k)
             rest == db.opr \ {o}
  <2>1. k \in Nat \ {0} /\ o \in Batch /\ o.start \in Nat /\ o.id \in Nat
    BY <1>2, <1>6
  <2>2. /\ more \subseteq Batch /\ Apart(more) /\ Joined(more) /\ Bounded(more)
        /\ \A p, q \in more : p.id = q.id => p = q
        /\ \A p \in more :
             /\ p.tank = o.tank /\ new <= p.id
             /\ p.end \in {Null, p.start + PlanHours}
             /\ o.start + PlanHours <= p.start /\ p.start <= o.start + k * PlanHours
             /\ p.end = Null => p.start = o.start + k * PlanHours
        /\ \E p \in more : p.start = o.start + PlanHours
        /\ \E p \in more : p.end = Null
    BY <2>1, <1>3, FollowingBatchesOK
  <2>3. /\ c \in Batch /\ c.id = o.id /\ c.tank = t /\ c.start = o.start
        /\ c.end = o.start + PlanHours /\ c.end # Null
    BY <1>1, <2>1 DEF Batch, Null
  <2>4. opr = rest \cup {c} \cup more
    BY <1>6 DEF AfterTurns
  <2> HIDE DEF c, more, new, opr
  <2>5. k * PlanHours \in Nat /\ o.start + PlanHours <= o.start + k * PlanHours
    <3>1. 1 = k \/ 1 < k
      BY <2>1
    <3>2. k * PlanHours \in Nat /\ 1 * PlanHours = PlanHours
      BY <1>1, Multiples
    <3>3. 1 < k => 1 * PlanHours + PlanHours <= k * PlanHours
      BY <1>1, <2>1, Multiples
    <3>4. k = 1 => k * PlanHours = PlanHours
      BY <1>1
    <3> HIDE DEF rest
    <3> QED  BY <1>1, <2>1, <3>1, <3>2, <3>3, <3>4
  <2>6. \A p \in more : /\ p.id \in Nat /\ p.start \in Nat /\ p.end \in Nat /\ p.tank = t
                        /\ p.start <= ts
    BY <2>1, <2>2, <2>5 DEF Batch
  <2>7. opr \subseteq Batch
    BY <2>2, <2>3, <2>4
  <2>8. \A p, q \in opr : p.id = q.id => p = q
    <3>1. \A p \in rest \cup {c}, q \in more : p.id < q.id
      BY <1>2, <1>3, <2>1, <2>2, <2>3, <2>6
    <3>2. \A p, q \in rest \cup {c} : p.id = q.id => p = q
      BY <2>3 DEF BatchesOK
    <3>3. \A p \in rest \cup {c}, q \in more : p.id # q.id
      BY <3>1, <1>2, <2>1, <2>3, <2>6
    <3> QED  BY <3>2, <3>3, <2>2, <2>4
  <2>9. Bounded(opr)
    <3>1. PICK n \in Nat : \A p \in more : p.id <= n
      BY <2>2 DEF Bounded
    <3>2. \A p \in opr : p.id <= new + n
      BY <1>2, <1>3, <2>1, <2>3, <2>4, <2>6, <3>1
    <3>3. new + n \in Nat
      BY <1>3
    <3> QED  BY <3>2, <3>3 DEF Bounded
  <2>10. \A u \in Tanks : u # t => OfTank(opr, u) = OfTank(db.opr, u)
    BY <2>3, <2>4, <2>6 DEF OfTank
  <2>11. OfTank(opr, t) = (OfTank(db.opr, t) \ {o}) \cup {c} \cup more
    BY <2>3, <2>4, <2>6 DEF OfTank
  <2>12. o \in OfTank(db.opr, t) /\ Apart(OfTank(db.opr, t))
    BY DEF OfTank, BatchesOK
  <2>13. o.start + PlanHours \in Nat /\ o.start < o.start + PlanHours
    BY <1>1, <2>1
  <2>14. Apart(OfTank(opr, t))
    <3>1. \A r \in OfTank(db.opr, t) \cup more : r.start \in Nat /\ r.end \in Nat
      BY <1>2, <2>6 DEF OfTank
    <3>2. \A n \in more : o.start + PlanHours <= n.start
      BY <2>2
    <3>3. Apart((OfTank(db.opr, t) \ {o}) \cup {c} \cup more)
      BY <2>2, <2>3, <2>12, <2>13, <3>1, <3>2, ApartGrows
    <3> QED  BY <2>11, <3>3
  <2>15. \A u \in Tanks : Apart(OfTank(opr, u))
    BY <2>10, <2>14 DEF BatchesOK
  <2>16. StillJoined(opr)
    <3>1. ASSUME \A u \in Tanks : Joined(OfTank(db.opr, u)) PROVE Joined(OfTank(opr, t))
      BY <3>1, <2>2, <2>3, <2>11, <2>12, JoinedGrows
    <3> QED  BY <2>10, <3>1 DEF StillJoined
  <2>17. \A p \in opr : p.end \in {Null, p.start + PlanHours}
    BY <2>2, <2>3, <2>4 DEF BatchesOK
  <2>18. BatchesOK(opr)
    BY <2>8, <2>9, <2>15, <2>17 DEF BatchesOK
  <2>19. PICK p \in more : p.end = Null
    BY <2>2
  <2>20. p.start = o.start + k * PlanHours
    BY <2>2, <2>19
  <2>21. Told(opr, ts)
    <3>1. \A q \in rest \cup {c} : q.start <= ts /\ q.end <= ts
      BY <1>1, <2>1, <2>3, <2>5 DEF Told
    <3>2. \A q \in more : q.end <= ts
      <4>1. ASSUME NEW q \in more, q.end # Null PROVE q.end <= p.start
        <5>1. q = p \/ Before(q, p) \/ Before(p, q)
          BY <2>2, <2>19 DEF Apart
        <5> QED  BY <4>1, <5>1, <2>19 DEF Before
      <4>2. p.start <= ts /\ p.start \in Nat /\ 0 <= ts
        BY <2>6, <2>19
      <4>3. \A q \in more : q.end \in Nat
        BY <2>6
      <4> QED  BY <4>1, <4>2, <4>3 DEF Null
    <3> QED  BY <2>4, <2>6, <3>1, <3>2 DEF Told
  <2>22. \A q \in db.opr : \E r \in opr : r.id = q.id
    BY <2>3, <2>4
  <2>23. \A q \in db.opr, r \in opr : r.id = q.id => r.tank = q.tank /\ r.start = q.start
    <3>1. \A q \in db.opr, r \in more : r.id # q.id
      BY <1>2, <1>3, <2>2, <2>6
    <3> QED  BY <3>1, <2>3, <2>4 DEF BatchesOK
  <2>24. OprKept(opr, ts)
    BY <2>7, <2>18, <2>21, <2>22, <2>23 DEF OprKept
  <2>25. {q \in opr : q.tank = t /\ q.end = Null} = {p}
    <3>1. \A q \in more : q.end = Null => q = p
      BY <2>2, <2>19, OneOpen
    <3> QED  BY <1>4, <2>3, <2>4, <2>6, <2>19, <3>1
  <2> QED  BY <2>4, <2>16, <2>19, <2>20, <2>24, <2>25 DEF opr
<1> QED  BY <1>5, <1>6

\* Half a turn more leaves a hole and no overlap.
LEMMA HalfTurnOK ==
  ASSUME NEW t \in Tanks, NEW ts \in Nat, db.opr \subseteq Batch, BatchesOK(db.opr), Told(db.opr, ts),
         NEW o \in db.opr, o.tank = t, o.end = Null,
         NEW k \in Nat, o.start + k * PlanHours + PlanHours <= ts
  PROVE  OprKept(HalfTurn(o, k), ts)
<1> DEFINE opr == AfterTurns(o, k)
           half == HalfTurn(o, k)
<1>1. PlanHours \in Nat \ {0} /\ o.start \in Nat /\ k * PlanHours \in Nat
  BY DistributionAssumption, BatchFields, Multiples
<1>2. o.start + k * PlanHours <= ts
  BY <1>1
<1>3. /\ OprKept(opr, ts)
      /\ \E p \in opr : /\ {q \in opr : q.tank = t /\ q.end = Null} = {p}
                        /\ p.start = o.start + k * PlanHours
  BY <1>2, TurnsOK
<1>4. PICK p \in opr : /\ {q \in opr : q.tank = t /\ q.end = Null} = {p}
                       /\ p.start = o.start + k * PlanHours
  BY <1>3
<1> DEFINE c == [p EXCEPT !.end = p.start + PlanHours]
<1>5. half = (opr \ {p}) \cup {c}
  <2>1. \A q \in opr : (q.tank = o.tank /\ q.end = Null) <=> q = p
    BY <1>4
  <2> HIDE DEF opr
  <2> QED  BY <2>1 DEF HalfTurn, opr
<1> HIDE DEF opr, half
<1>6. \A q \in opr : q.id \in Nat /\ q.start \in Nat /\ q.end \in Nat /\ q.tank \in Tanks
  BY <1>3, BatchFields DEF OprKept
<1>7. /\ c \in Batch /\ c.id = p.id /\ c.tank = t /\ c.start = p.start /\ p.tank = t /\ p.end = Null
      /\ c.end = p.start + PlanHours /\ c.end \in Nat /\ c.end <= ts /\ p.start < c.end
  <2>1. p.tank = t /\ p.end = Null /\ p \in Batch /\ p.start + PlanHours \in Nat
    BY <1>1, <1>3, <1>4, <1>6 DEF OprKept
  <2> QED  BY <1>1, <1>4, <1>6, <2>1 DEF Batch
<1> HIDE DEF c
<1>8. half \subseteq Batch
  BY <1>3, <1>5, <1>7 DEF OprKept
<1>9. Told(half, ts)
  BY <1>3, <1>5, <1>7 DEF OprKept, Told
<1>10. \A q \in db.opr : \E r \in half : r.id = q.id
  BY <1>3, <1>5, <1>7 DEF OprKept
<1>11. \A q \in db.opr, r \in half : r.id = q.id => r.tank = q.tank /\ r.start = q.start
  BY <1>3, <1>5, <1>7 DEF OprKept
<1>12. \A u \in Tanks : Apart(OfTank(half, u))
  <2>1. \A u \in Tanks : u # t => OfTank(half, u) = OfTank(opr, u)
    BY <1>5, <1>7 DEF OfTank
  <2>2. OfTank(half, t) = (OfTank(opr, t) \ {p}) \cup {c} \cup {}
    BY <1>5, <1>7 DEF OfTank
  <2>3. p \in OfTank(opr, t) /\ Apart(OfTank(opr, t)) /\ Apart({})
    BY <1>3, <1>7 DEF OfTank, OprKept, BatchesOK, Apart
  <2>4. \A r \in OfTank(opr, t) \cup {} : r.start \in Nat /\ r.end \in Nat
    BY <1>6 DEF OfTank
  <2>5. Apart((OfTank(opr, t) \ {p}) \cup {c} \cup {})
    BY <1>7, <2>3, <2>4, ApartGrows
  <2> QED  BY <1>3, <2>1, <2>2, <2>5 DEF OprKept, BatchesOK
<1>13. BatchesOK(half)
  <2>1. Bounded(half)
    BY <1>3, <1>5, <1>7 DEF OprKept, BatchesOK, Bounded
  <2>2. \A q, r \in half : q.id = r.id => q = r
    BY <1>3, <1>5, <1>7 DEF OprKept, BatchesOK
  <2>3. \A q \in half : q.end \in {Null, q.start + PlanHours}
    BY <1>3, <1>5, <1>7 DEF OprKept, BatchesOK
  <2> QED  BY <1>12, <2>1, <2>2, <2>3 DEF BatchesOK
<1> QED  BY <1>8, <1>9, <1>10, <1>11, <1>13 DEF OprKept, half

\* The open batch of a tank after TankOpr contains the sample.
LEMMA TankOprOK ==
  ASSUME NEW t \in Tanks, NEW ts \in Nat, db.opr \subseteq Batch, BatchesOK(db.opr), Told(db.opr, ts)
  PROVE  LET opr == TankOpr(t, ts) IN
         /\ OprKept(opr, ts) /\ StillJoined(opr)
         /\ \E o \in opr : /\ {p \in opr : p.tank = t /\ p.end = Null} = {o}
                           /\ o.start <= ts /\ ts < o.start + PlanHours
<1> DEFINE opr == TankOpr(t, ts)
           new == NewKey(db.opr)
<1>1. PlanHours \in Nat \ {0}
  BY DistributionAssumption
<1>2. \A o \in db.opr : /\ o.id \in Nat /\ o.start \in Nat /\ o.end \in Nat /\ o.tank \in Tanks
                        /\ o = [id |-> o.id, tank |-> o.tank, start |-> o.start, end |-> o.end]
  BY BatchFields
<1>3. new \in Nat /\ \A o \in db.opr : o.id < new
  BY <1>2, NewKeyIsNew DEF BatchesOK
<1>4. CASE OpenBatches(t) = {}
  <2> DEFINE n == [id |-> new, tank |-> t, start |-> ts, end |-> Null]
  <2>1. opr = db.opr \cup {n}
    BY <1>4 DEF TankOpr
  <2>2. n \in Batch /\ n.id = new /\ n.tank = t /\ n.start = ts /\ n.end = Null
    BY <1>3 DEF Batch, Null
  <2> HIDE DEF n, new, opr
  <2>3. \A o \in OfTank(db.opr, t) : o.end # Null /\ o.end <= n.start
    BY <1>4, <2>2 DEF OpenBatches, OfTank, Told
  <2>4. OfTank(opr, t) = OfTank(db.opr, t) \cup {n}
    BY <2>1, <2>2 DEF OfTank
  <2>5. \A u \in Tanks : u # t => OfTank(opr, u) = OfTank(db.opr, u)
    BY <2>1, <2>2 DEF OfTank
  <2>6. \A u \in Tanks : Apart(OfTank(opr, u))
    <3>1. Apart(OfTank(db.opr, t) \cup {n})
      BY <2>2, <2>3, ApartOpens DEF BatchesOK
    <3> QED  BY <2>4, <2>5, <3>1 DEF BatchesOK
  <2>7. StillJoined(opr)
    BY <2>2, <2>4, <2>5 DEF StillJoined, Joined
  <2>8. \A o \in db.opr : o.id # n.id
    BY <1>2, <1>3, <2>2
  <2>9. BatchesOK(opr)
    <3>1. \A o, p \in opr : o.id = p.id => o = p
      BY <2>1, <2>8 DEF BatchesOK
    <3>2. \A o \in opr : o.end \in {Null, o.start + PlanHours}
      BY <2>1, <2>2 DEF BatchesOK
    <3>3. Bounded(opr)
      BY <1>3, <2>1, <2>2, <1>2 DEF Bounded
    <3> QED  BY <2>6, <3>1, <3>2, <3>3 DEF BatchesOK
  <2>10. {p \in opr : p.tank = t /\ p.end = Null} = {n}
    BY <1>4, <2>1, <2>2 DEF OpenBatches
  <2>11. ts <= ts /\ ts < ts + PlanHours
    BY <1>1
  <2>12. Told(opr, ts)
    BY <2>1, <2>2, <2>11 DEF Told, Null
  <2>13. OprKept(opr, ts)
    <3>1. opr \subseteq Batch /\ \A o \in db.opr : \E p \in opr : p.id = o.id
      BY <2>1, <2>2
    <3>2. \A o \in db.opr, p \in opr : p.id = o.id => p.tank = o.tank /\ p.start = o.start
      BY <2>1, <2>8 DEF BatchesOK
    <3> QED  BY <2>9, <2>12, <3>1, <3>2 DEF OprKept
  <2> QED  BY <2>1, <2>2, <2>7, <2>10, <2>11, <2>13 DEF opr
<1>5. CASE OpenBatches(t) # {}
  <2> DEFINE o == Newest(OpenBatches(t))
             k == BatchesPassed(o, ts)
  <2>1. o \in db.opr /\ o.tank = t /\ o.end = Null
    BY <1>5, OpenIs
  <2>2. opr = AfterTurns(o, k)
    BY <1>5 DEF TankOpr
  <2> HIDE DEF o
  <2>3. o.start \in Nat /\ o.start <= ts
    BY <1>2, <2>1 DEF Told
  <2>4. /\ k \in Nat /\ o.start + k * PlanHours <= ts
        /\ ts < o.start + k * PlanHours + PlanHours
    BY <2>3, PassedIs
  <2> HIDE DEF k
  <2>5. /\ OprKept(AfterTurns(o, k), ts) /\ StillJoined(AfterTurns(o, k))
        /\ \E p \in AfterTurns(o, k) :
             /\ {q \in AfterTurns(o, k) : q.tank = t /\ q.end = Null} = {p}
             /\ p.start = o.start + k * PlanHours
    BY <2>1, <2>4, TurnsOK
  <2> HIDE DEF opr
  <2> QED  BY <2>2, <2>4, <2>5 DEF opr
<1> QED  BY <1>4, <1>5

-----------------------------------------------------------------------------
(* Run intervals *)

LEMMA RunFields ==
  ASSUME MaxTime \in Nat, NEW run, run \subseteq Interval
  PROVE  \A r \in run : /\ r.id \in Nat /\ r.status \in RunStatus /\ r.status # None
                        /\ r.start \in Time /\ r.start \in Nat /\ r.end \in Nat
BY DEF Interval, Time, RunStatus, None, RUNNING, STOPPED

LEMMA OpenRunIs ==
  ASSUME MaxTime \in Nat, db.run \subseteq Interval, Bounded(db.run), OpenRuns # {}
  PROVE  Newest(OpenRuns) \in db.run /\ Newest(OpenRuns).end = Null
<1>1. Bounded(OpenRuns) /\ \A r \in OpenRuns : r.id \in Nat
  BY RunFields DEF OpenRuns, Bounded
<1>2. Newest(OpenRuns) \in OpenRuns
  BY <1>1, NewestIs
<1> QED  BY <1>2 DEF OpenRuns

\* ClosedRun leaves no interval open, and no hole but at ts.
LEMMA ClosedRunOK ==
  ASSUME NEW ts \in Time, MaxTime \in Nat, db.run \subseteq Interval, Bounded(db.run), Apart(db.run),
         Told(db.run, ts), \A r \in db.run : r.start < ts
  PROVE  LET run == ClosedRun(ts) IN
         /\ run \subseteq Interval /\ Bounded(run) /\ Apart(run) /\ Told(run, ts)
         /\ \A r \in run : r.end # Null
         /\ Joined(db.run) => \A r \in run : r.end = ts \/ \E s \in run : s.start = r.end
<1> DEFINE run == ClosedRun(ts)
<1>1. ts \in Nat /\ ts # Null /\ ts <= ts
  BY DEF Time, Null
<1>2. CASE OpenRuns = {}
  <2>1. run = db.run
    BY <1>2 DEF ClosedRun
  <2>2. \A r \in db.run : r.end # Null
    BY <1>2 DEF OpenRuns
  <2> HIDE DEF run
  <2> QED  BY <2>1, <2>2 DEF Joined, run
<1>3. CASE OpenRuns # {}
  <2> DEFINE o == Newest(OpenRuns)
             c == [o EXCEPT !.end = ts]
  <2>1. o \in db.run /\ o.end = Null
    BY <1>3, OpenRunIs
  <2>2. run = (db.run \ {o}) \cup {c}
    BY <1>3 DEF ClosedRun
  <2> HIDE DEF o
  <2>3. o \in Interval /\ o.start \in Nat /\ o.start < ts
    BY <2>1, RunFields
  <2>4. c \in Interval /\ c.id = o.id /\ c.start = o.start /\ c.end = ts
    BY <1>1, <2>3 DEF Interval
  <2> HIDE DEF c, run
  <2>5. Apart(run)
    <3>1. \A r \in db.run \cup {} : r.start \in Nat /\ r.end \in Nat
      BY RunFields
    <3>2. Apart({})
      BY DEF Apart
    <3>3. Apart((db.run \ {o}) \cup {c} \cup {})
      BY <1>1, <2>1, <2>3, <2>4, <3>1, <3>2, ApartGrows
    <3> QED  BY <2>2, <3>3
  <2>6. Bounded(run)
    BY <2>1, <2>2, <2>4 DEF Bounded
  <2>7. run \subseteq Interval
    BY <2>2, <2>4
  <2>8. Told(run, ts)
    BY <1>1, <2>1, <2>2, <2>4 DEF Told
  <2>9. \A r \in run : r.end # Null
    BY <1>1, <2>1, <2>2, <2>4, OneOpen
  <2>10. Joined(db.run) => \A r \in run : r.end = ts \/ \E s \in run : s.start = r.end
    <3>1. ASSUME Joined(db.run), NEW r \in db.run \ {o} PROVE \E s \in run : s.start = r.end
      <4>1. r.end # Null
        BY <2>1, OneOpen
      <4>2. PICK s \in db.run : s.start = r.end
        BY <3>1, <4>1 DEF Joined
      <4>3. s = o => c \in run /\ c.start = r.end
        BY <2>2, <2>4, <4>2
      <4>4. s # o => s \in run
        BY <2>2
      <4> QED  BY <4>2, <4>3, <4>4
    <3> QED  BY <2>2, <2>4, <3>1
  <2> QED  BY <2>5, <2>6, <2>7, <2>8, <2>9, <2>10 DEF run
<1> QED  BY <1>2, <1>3

\* RunLog closes the open interval where the new one begins.
LEMMA RunLogOK ==
  ASSUME NEW status \in RunStatus, NEW ts \in Time, MaxTime \in Nat, db.run \subseteq Interval,
         Bounded(db.run), Apart(db.run), Told(db.run, ts), \A r \in db.run : r.start < ts
  PROVE  LET run == RunLog(status, ts) IN
         /\ run \subseteq Interval /\ Bounded(run) /\ Apart(run) /\ Told(run, ts)
         /\ Joined(db.run) => Joined(run)
<1> DEFINE new == NewKey(db.run)
           n == [id |-> new, status |-> status, start |-> ts, end |-> Null]
           run == RunLog(status, ts)
           closed == ClosedRun(ts)
<1>1. new \in Nat
  BY RunFields, NewKeyIsNew
<1>2. CASE PrevRun(runState) = status
  BY <1>2 DEF RunLog
<1>3. CASE PrevRun(runState) # status
  <2>1. PrevRun(runState) = None => OpenRuns = {}
    <3>1. OpenRuns # {} => Newest(OpenRuns).status # None
      BY OpenRunIs, RunFields
    <3> QED  BY <3>1 DEF PrevRun
  <2>2. run = closed \cup {n}
    BY <1>3, <2>1 DEF RunLog, ClosedRun
  <2>3. /\ closed \subseteq Interval /\ Bounded(closed) /\ Apart(closed) /\ Told(closed, ts)
        /\ \A r \in closed : r.end # Null
        /\ Joined(db.run) => \A r \in closed : r.end = ts \/ \E s \in closed : s.start = r.end
    BY ClosedRunOK
  <2>4. n \in Interval /\ n.id = new /\ n.start = ts /\ n.end = Null
    BY <1>1 DEF Interval, Null
  <2> HIDE DEF n, new, run, closed
  <2>5. Apart(run)
    BY <2>2, <2>3, <2>4, ApartOpens DEF Told
  <2>6. Bounded(run)
    <3>1. PICK b \in Nat : \A r \in closed : r.id <= b
      BY <2>3 DEF Bounded
    <3>2. \A r \in closed : r.id \in Nat
      BY <2>3, RunFields
    <3>3. b + new \in Nat /\ \A r \in run : r.id <= b + new
      BY <1>1, <2>2, <2>4, <3>1, <3>2
    <3> QED  BY <3>3 DEF Bounded
  <2>7. Told(run, ts)
    <3>1. ts <= ts /\ 0 <= ts
      BY DEF Time
    <3> QED  BY <2>2, <2>3, <2>4, <3>1 DEF Told, Null
  <2>8. Joined(db.run) => Joined(run)
    BY <2>2, <2>3, <2>4 DEF Joined
  <2> QED  BY <2>2, <2>3, <2>4, <2>5, <2>6, <2>7, <2>8 DEF run
<1> QED  BY <1>2, <1>3

\* When memory and table agree, the open interval shows the new status.
LEMMA RunLogFollows ==
  ASSUME NEW status \in RunStatus, NEW ts \in Time, MaxTime \in Nat, db.run \subseteq Interval,
         Bounded(db.run), Apart(db.run), Follows(db), "run" \notin db.missing,
         runState \in {None, db.lastRun}
  PROVE  {r.status : r \in {q \in RunLog(status, ts) : q.end = Null}} = {status}
<1> DEFINE n == [id |-> NewKey(db.run), status |-> status, start |-> ts, end |-> Null]
           run == RunLog(status, ts)
<1>1. status # None /\ ts # Null
  BY DEF RunStatus, None, RUNNING, STOPPED, Time, Null
<1>2. n.end = Null /\ n.status = status
  OBVIOUS
<1>3. CASE db.lastRun = None
  <2>1. OpenRuns = {} /\ runState = None
    BY <1>3 DEF Follows, OpenRuns
  <2>2. run = db.run \cup {n}
    BY <1>1, <2>1 DEF RunLog, PrevRun
  <2> HIDE DEF n
  <2>3. {q \in run : q.end = Null} = {n}
    BY <1>2, <2>1, <2>2 DEF OpenRuns
  <2> QED  BY <1>2, <2>3
<1>4. CASE db.lastRun # None
  <2> DEFINE o == Newest(OpenRuns)
  <2>1. {r.status : r \in OpenRuns} = {db.lastRun}
    BY <1>4 DEF Follows, OpenRuns
  <2>2. o \in OpenRuns
    <3>1. \A r \in OpenRuns : r.id \in Nat
      BY DEF Interval, OpenRuns
    <3>2. Bounded(OpenRuns)
      BY DEF OpenRuns, Bounded
    <3>3. OpenRuns # {}
      BY <2>1
    <3> QED  BY <3>1, <3>2, <3>3, NewestIs
  <2>3. o \in db.run /\ o.end = Null /\ \A r \in db.run : r.end = Null => r = o
    BY <2>2, OneOpen DEF OpenRuns
  <2>4. o.status = db.lastRun
    BY <2>1, <2>2
  <2>5. PrevRun(runState) = db.lastRun
    BY <1>4, <2>2, <2>4 DEF PrevRun
  <2>6. CASE db.lastRun = status
    <3>1. run = db.run
      BY <2>5, <2>6 DEF RunLog
    <3> QED  BY <3>1, <2>1, <2>6 DEF OpenRuns
  <2>7. CASE db.lastRun # status
    <3> DEFINE c == [o EXCEPT !.end = ts]
    <3>1. run = (db.run \ {o}) \cup {c} \cup {n}
      BY <1>4, <2>2, <2>5, <2>7 DEF RunLog, ClosedRun
    <3>2. c.end = ts
      BY <2>3 DEF Interval
    <3> HIDE DEF c, n, o
    <3>3. {q \in run : q.end = Null} = {n}
      BY <1>1, <1>2, <2>3, <3>1, <3>2
    <3> QED  BY <1>2, <3>3
  <2> QED  BY <2>6, <2>7
<1> QED  BY <1>3, <1>4

-----------------------------------------------------------------------------
(* What the operations do to the tables *)

LEMMA SampleFields ==
  ASSUME NEW s \in Sample
  PROVE  /\ s.ts \in Time /\ s.ts \in Nat /\ s.kind \in {"tank", "run", "metal", "env"}
         /\ s.urgent \in BOOLEAN
         /\ s.kind = "tank" => s.what \in Tanks /\ s.urgent = FALSE
         /\ s.kind = "run" => s.what \in RunStatus /\ s.urgent = FALSE
         /\ s.kind = "metal" => s.what \in Counts
<1>1. Time \subseteq Nat
  BY DistributionAssumption DEF Time
<1> QED  BY <1>1 DEF Sample, TankSample, RunSample, MetalSample, EnvSample

LEMMA DatabaseFields ==
  ASSUME NEW d \in Database
  PROVE  /\ d.opr \subseteq Batch
         /\ d.sal \subseteq [opr : Nat, tank : Tanks, ts : Time]
         /\ d.run \subseteq Interval
         /\ d.env \subseteq [id : Nat, ts : Time]
         /\ d.envAlarm \subseteq [log : Nat, ts : Time]
         /\ d.lastRun \in RunStatus \cup {None} /\ d.packed \in Nat /\ d.ng \in Nat
         /\ d.missing \subseteq {"batch", "run", "packs", "ng"}
BY DEF Database

\* Salinity rows still fit when batches are kept.
LEMMA SalinityKept ==
  ASSUME NEW opr, NEW ts, OprKept(opr, ts), SalinityOK(db)
  PROVE  /\ \A r \in db.sal : \E q \in opr : q.id = r.opr
         /\ \A r \in db.sal, q \in opr : q.id = r.opr =>
              q.tank = r.tank /\ q.start <= r.ts /\ r.ts < q.start + PlanHours
<1>1. \A r \in db.sal : \E q \in opr : q.id = r.opr
  BY DEF SalinityOK, OprKept
<1>2. ASSUME NEW r \in db.sal, NEW q \in opr, q.id = r.opr
      PROVE  q.tank = r.tank /\ q.start <= r.ts /\ r.ts < q.start + PlanHours
  <2>1. PICK b \in db.opr : b.id = r.opr
    BY DEF SalinityOK
  <2>2. q.tank = b.tank /\ q.start = b.start
    BY <1>2, <2>1 DEF OprKept
  <2> QED  BY <2>1, <2>2 DEF SalinityOK
<1> QED  BY <1>1, <1>2

\* A salinity value goes to the batch that contains it.
LEMMA RouteTankOK ==
  ASSUME NEW s \in Sample, db \in Database, TablesOK(db), RouteTank(s), Told(db.opr, s.ts)
  PROVE  /\ db' \in Database /\ TablesOK(db') /\ Told(db'.opr, s.ts)
         /\ db' = [db EXCEPT !.opr = db'.opr, !.sal = db'.sal]
<1> DEFINE t == s.what
           opr == TankOpr(t, s.ts)
           o == Newest({p \in opr : p.tank = t /\ p.end = Null})
           row == [opr |-> o.id, tank |-> t, ts |-> s.ts]
<1>1. t \in Tanks /\ s.ts \in Time /\ s.ts \in Nat
  <2>1. s.kind = "tank"
    BY DEF RouteTank
  <2>2. s.what \in Tanks /\ s.ts \in Time
    BY <2>1, SampleFields
  <2> QED  BY <2>2, DistributionAssumption DEF Time
<1>2. /\ OprKept(opr, s.ts) /\ StillJoined(opr)
      /\ \E p \in opr : /\ {q \in opr : q.tank = t /\ q.end = Null} = {p}
                        /\ p.start <= s.ts /\ s.ts < p.start + PlanHours
  BY <1>1, TankOprOK, DatabaseFields DEF TablesOK
<1>3. db' = [db EXCEPT !.opr = opr, !.sal = @ \cup {row}]
  BY DEF RouteTank
<1> HIDE DEF opr, t
<1>4. PICK p \in opr : /\ {q \in opr : q.tank = t /\ q.end = Null} = {p}
                       /\ p.start <= s.ts /\ s.ts < p.start + PlanHours
  BY <1>2
<1>5. o = p /\ p.tank = t
  <2>1. p.tank = t
    BY <1>4
  <2>2. p.id <= p.id
    BY <1>2 DEF OprKept, Batch
  <2>3. \A q \in {p} : (\A r \in {p} : r.id <= q.id) <=> q = p
    BY <2>2
  <2>4. Newest({p}) = p
    BY <2>3 DEF Newest
  <2> QED  BY <1>4, <2>1, <2>4
<1> HIDE DEF o
<1>6. /\ db'.opr = opr /\ db'.sal = db.sal \cup {row}
      /\ db'.run = db.run /\ db'.env = db.env /\ db'.envAlarm = db.envAlarm
      /\ db'.lastRun = db.lastRun /\ db'.packed = db.packed /\ db'.ng = db.ng
      /\ db'.missing = db.missing
  BY <1>3 DEF Database
<1>7. row \in [opr : Nat, tank : Tanks, ts : Time] /\ row.opr = p.id /\ row.tank = t /\ row.ts = s.ts
  BY <1>1, <1>2, <1>5 DEF OprKept, Batch
<1> HIDE DEF row
<1>8. db' \in Database
  BY <1>2, <1>3, <1>7 DEF Database, OprKept
<1>9. SalinityOK(db')
  <2>1. /\ \A r \in db.sal : \E q \in opr : q.id = r.opr
        /\ \A r \in db.sal, q \in opr : q.id = r.opr =>
             q.tank = r.tank /\ q.start <= r.ts /\ r.ts < q.start + PlanHours
    BY <1>2, SalinityKept DEF TablesOK
  <2>2. \A q \in opr : q.id = row.opr => q = p
    BY <1>2, <1>4, <1>7 DEF OprKept, BatchesOK
  <2>3. \A r \in db'.sal : \E q \in db'.opr : q.id = r.opr
    BY <1>4, <1>6, <1>7, <2>1
  <2>4. \A r \in db'.sal, q \in db'.opr : q.id = r.opr =>
          q.tank = r.tank /\ q.start <= r.ts /\ r.ts < q.start + PlanHours
    BY <1>4, <1>5, <1>6, <1>7, <2>1, <2>2
  <2> QED  BY <2>3, <2>4 DEF SalinityOK
<1>10. JoinedOK(db')
  BY <1>2, <1>6 DEF TablesOK, JoinedOK, StillJoined
<1>11. TablesOK(db')
  BY <1>2, <1>6, <1>9, <1>10 DEF TablesOK, OprKept, AlarmsOK
<1>12. Told(db'.opr, s.ts)
  BY <1>2, <1>6 DEF OprKept
<1>13. db' = [db EXCEPT !.opr = db'.opr, !.sal = db'.sal]
  BY <1>3, <1>6
<1> QED  BY <1>8, <1>11, <1>12, <1>13

\* A handler that fails in _tank_opr leaves batches in order, but for a hole.
LEMMA TankCutOK ==
  ASSUME NEW s \in Sample, db \in Database, TablesOK(db), TankCut(s), Told(db.opr, s.ts)
  PROVE  /\ db' \in Database /\ TablesOK(db') /\ Told(db'.opr, s.ts)
         /\ db' = [db EXCEPT !.opr = db'.opr, !.missing = db'.missing]
         /\ db.missing \subseteq db'.missing
<1> DEFINE t == s.what
<1>1. t \in Tanks /\ s.ts \in Nat
  <2>1. s.kind = "tank"
    BY DEF TankCut
  <2> QED  BY <2>1, SampleFields
<1>2. db.opr \subseteq Batch /\ BatchesOK(db.opr) /\ SalinityOK(db) /\ JoinedOK(db)
      /\ db.missing \subseteq {"batch", "run", "packs", "ng"}
  BY DatabaseFields DEF TablesOK
<1>3. ASSUME NEW opr, NEW missing \in {db.missing, db.missing \cup {"batch"}},
             OprKept(opr, s.ts), "batch" \notin missing => StillJoined(opr),
             db' = [db EXCEPT !.opr = opr, !.missing = missing]
      PROVE  /\ db' \in Database /\ TablesOK(db') /\ Told(db'.opr, s.ts)
             /\ db' = [db EXCEPT !.opr = db'.opr, !.missing = db'.missing]
             /\ db.missing \subseteq db'.missing
  <2>1. /\ db'.opr = opr /\ db'.missing = missing /\ db'.sal = db.sal
        /\ db'.run = db.run /\ db'.env = db.env /\ db'.envAlarm = db.envAlarm
    BY <1>3 DEF Database
  <2>2. opr \subseteq Batch /\ BatchesOK(opr) /\ Told(opr, s.ts)
    BY <1>3 DEF OprKept
  <2>3. db' \in Database
    BY <1>2, <1>3, <2>2 DEF Database
  <2>4. SalinityOK(db')
    <3>1. /\ \A r \in db.sal : \E q \in opr : q.id = r.opr
          /\ \A r \in db.sal, q \in opr : q.id = r.opr =>
               q.tank = r.tank /\ q.start <= r.ts /\ r.ts < q.start + PlanHours
      BY <1>2, <1>3, SalinityKept
    <3> QED  BY <2>1, <3>1 DEF SalinityOK
  <2>5. JoinedOK(db')
    BY <1>2, <1>3, <2>1 DEF JoinedOK, StillJoined
  <2>6. TablesOK(db')
    BY <2>1, <2>2, <2>4, <2>5 DEF TablesOK, AlarmsOK
  <2> QED  BY <1>3, <2>1, <2>2, <2>3, <2>6
<1>4. CASE db' = [db EXCEPT !.opr = TankOpr(s.what, s.ts)]
  <2>1. OprKept(TankOpr(t, s.ts), s.ts) /\ StillJoined(TankOpr(t, s.ts))
    BY <1>1, <1>2, TankOprOK
  <2>2. db' = [db EXCEPT !.opr = TankOpr(t, s.ts), !.missing = db.missing]
    BY <1>4 DEF Database
  <2> HIDE DEF t
  <2> QED  BY <1>3, <2>1, <2>2
<1>5. ASSUME OpenBatches(t) # {},
             NEW k \in 0..(BatchesPassed(Newest(OpenBatches(t)), s.ts) - 1)
      PROVE  LET o == Newest(OpenBatches(t)) IN
             /\ OprKept(AfterTurns(o, k), s.ts) /\ StillJoined(AfterTurns(o, k))
             /\ OprKept(HalfTurn(o, k), s.ts)
  <2> DEFINE o == Newest(OpenBatches(t))
             n == BatchesPassed(o, s.ts)
  <2>1. o \in db.opr /\ o.tank = t /\ o.end = Null
    BY <1>1, <1>2, <1>5, OpenIs
  <2> HIDE DEF o, t
  <2>2. o.start \in Nat /\ o.start <= s.ts /\ PlanHours \in Nat \ {0}
    BY <1>2, <2>1, BatchFields, DistributionAssumption DEF Told
  <2>3. n \in Nat /\ o.start + n * PlanHours <= s.ts
    BY <1>1, <2>2, PassedIs
  <2> HIDE DEF n
  <2>4. k \in Nat /\ k < n
    BY <1>5, <2>3 DEF n, o
  <2>5. k * PlanHours \in Nat /\ n * PlanHours \in Nat /\ k * PlanHours + PlanHours <= n * PlanHours
    BY <2>2, <2>3, <2>4, Multiples
  <2> DEFINE x == k * PlanHours
             y == n * PlanHours
  <2>6. o.start + x + PlanHours <= s.ts /\ o.start + x <= s.ts
    <3>1. x \in Nat /\ y \in Nat /\ x + PlanHours <= y /\ o.start + y <= s.ts
      BY <2>3, <2>5
    <3> HIDE DEF x, y
    <3> QED  BY <1>1, <2>2, <3>1
  <2>7. OprKept(AfterTurns(o, k), s.ts) /\ StillJoined(AfterTurns(o, k))
    BY <1>1, <1>2, <2>1, <2>4, <2>6, TurnsOK
  <2>8. OprKept(HalfTurn(o, k), s.ts)
    BY <1>1, <1>2, <2>1, <2>4, <2>6, HalfTurnOK
  <2> QED  BY <2>7, <2>8 DEF o
<1>6. CASE /\ OpenBatches(t) # {}
           /\ LET o == Newest(OpenBatches(t)) IN
              \E k \in 0..(BatchesPassed(o, s.ts) - 1) :
                \/ db' = [db EXCEPT !.opr = AfterTurns(o, k)]
                \/ db' = [db EXCEPT !.opr = HalfTurn(o, k), !.missing = @ \cup {"batch"}]
  <2> DEFINE o == Newest(OpenBatches(t))
  <2>1. PICK k \in 0..(BatchesPassed(o, s.ts) - 1) :
          \/ db' = [db EXCEPT !.opr = AfterTurns(o, k)]
          \/ db' = [db EXCEPT !.opr = HalfTurn(o, k), !.missing = @ \cup {"batch"}]
    BY <1>6
  <2>2. /\ OprKept(AfterTurns(o, k), s.ts) /\ StillJoined(AfterTurns(o, k))
        /\ OprKept(HalfTurn(o, k), s.ts)
    BY <1>5, <1>6
  <2> HIDE DEF o
  <2>3. CASE db' = [db EXCEPT !.opr = AfterTurns(o, k)]
    <3>1. db' = [db EXCEPT !.opr = AfterTurns(o, k), !.missing = db.missing]
      BY <2>3 DEF Database
    <3> QED  BY <1>3, <2>2, <3>1
  <2>4. CASE db' = [db EXCEPT !.opr = HalfTurn(o, k), !.missing = @ \cup {"batch"}]
    <3>1. db' = [db EXCEPT !.opr = HalfTurn(o, k), !.missing = db.missing \cup {"batch"}]
      BY <2>4
    <3> QED  BY <1>3, <2>2, <3>1
  <2> QED  BY <2>1, <2>3, <2>4
<1> QED  BY <1>4, <1>6 DEF TankCut

\* An environment alarm is stored with its parent.
LEMMA RouteEnvOK ==
  ASSUME NEW s \in Sample, db \in Database, TablesOK(db), RouteEnv(s)
  PROVE  /\ db' \in Database /\ TablesOK(db')
         /\ db' = [db EXCEPT !.env = db'.env, !.envAlarm = db'.envAlarm]
<1> DEFINE new == NewKey(db.env)
           row == [id |-> new, ts |-> s.ts]
<1>1. s.ts \in Time
  BY SampleFields
<1>2. \A l \in db.env : l.id \in Nat
  BY DatabaseFields
<1>3. new \in Nat /\ \A l \in db.env : l.id < new
  BY <1>2, NewKeyIsNew DEF TablesOK
<1>4. PICK alarms \in {{}, {[log |-> new, ts |-> s.ts]}} :
        db' = [db EXCEPT !.env = @ \cup {row}, !.envAlarm = @ \cup alarms]
  BY DEF RouteEnv
<1>5. alarms \subseteq [log : Nat, ts : Time] /\ row \in [id : Nat, ts : Time]
  BY <1>1, <1>3
<1>6. \A a \in alarms : a.log = row.id /\ a.ts = row.ts
  OBVIOUS
<1>7. row.id = new
  OBVIOUS
<1> HIDE DEF row, new
<1>8. /\ db'.env = db.env \cup {row} /\ db'.envAlarm = db.envAlarm \cup alarms
      /\ db'.opr = db.opr /\ db'.sal = db.sal /\ db'.run = db.run /\ db'.missing = db.missing
  BY <1>4 DEF Database
<1>9. db' \in Database
  BY <1>4, <1>5 DEF Database
<1>10. AlarmsOK(db')
  BY <1>6, <1>8 DEF TablesOK, AlarmsOK
<1>11. Bounded(db'.env)
  <2>1. \A l \in db'.env : l.id <= new
    BY <1>2, <1>3, <1>7, <1>8
  <2> QED  BY <1>3, <2>1 DEF Bounded
<1>12. TablesOK(db')
  BY <1>8, <1>10, <1>11 DEF TablesOK, SalinityOK, JoinedOK
<1> QED  BY <1>4, <1>8, <1>9, <1>12

\* A purge removes the oldest rows, and no parent of one that stays.
LEMMA PurgeOK ==
  ASSUME NEW c \in Time, MaxTime \in Nat, db \in Database, TablesOK(db), Purge(c)
  PROVE  /\ db' \in Database /\ TablesOK(db')
         /\ db'.opr \subseteq db.opr /\ db'.run \subseteq db.run
         /\ {r \in db'.run : r.end = Null} = {r \in db.run : r.end = Null}
         /\ db'.lastRun = db.lastRun /\ db'.packed = db.packed /\ db'.ng = db.ng
         /\ db'.missing = db.missing
<1> DEFINE sal == {s \in db.sal : s.ts >= c}
           alarms == {a \in db.envAlarm : a.ts >= c}
           env == {l \in db.env : l.ts >= c \/ \E a \in alarms : a.log = l.id}
           opr == db.opr \ OldBatches(c, sal)
           run == {r \in db.run : r.end = Null \/ r.end >= c}
<1>1. db' = [db EXCEPT !.envAlarm = alarms, !.env = env, !.sal = sal, !.opr = opr, !.run = run]
  BY DEF Purge
<1>2. PlanHours \in Nat \ {0} /\ c \in Nat
  BY DistributionAssumption DEF Time
<1>3. /\ opr \subseteq db.opr /\ sal \subseteq db.sal /\ run \subseteq db.run
      /\ env \subseteq db.env /\ alarms \subseteq db.envAlarm
  OBVIOUS
<1>4. \A o \in db.opr : o.start \in Nat /\ o.end \in Nat /\ o.tank \in Tanks
  BY DatabaseFields DEF Batch
<1>5. \A r \in db.run : r.start \in Nat /\ r.end \in Nat
  BY DatabaseFields DEF Interval, Time
<1>6. \A r \in db.sal : r.ts \in Nat
  BY DatabaseFields DEF Time
<1>7. \A o \in db.opr : o \in opr <=> o.end = Null \/ o.end >= c
  <2>1. ASSUME NEW o \in db.opr, NEW r \in sal, r.opr = o.id, o.end # Null
        PROVE  o.end >= c
    <3>1. r \in db.sal /\ r.ts >= c
      OBVIOUS
    <3>2. r.ts < o.start + PlanHours
      BY <2>1, <3>1 DEF TablesOK, SalinityOK
    <3>3. o.end = o.start + PlanHours
      BY <2>1 DEF TablesOK, BatchesOK
    <3> QED  BY <1>2, <1>4, <1>6, <3>1, <3>2, <3>3
  <2> HIDE DEF sal
  <2> QED  BY <1>2, <1>4, <2>1 DEF OldBatches
<1>8. \A r \in sal : \E o \in opr : o.id = r.opr
  <2>1. \A r \in sal : \E o \in db.opr : o.id = r.opr
    BY DEF TablesOK, SalinityOK
  <2> QED  BY <2>1 DEF OldBatches
<1>9. \A a \in alarms : \E l \in env : l.id = a.log /\ l.ts = a.ts
  BY DEF TablesOK, AlarmsOK
<1>10. \A r \in db.run : r \in run <=> r.end = Null \/ r.end >= c
  OBVIOUS
<1> HIDE DEF sal, alarms, env, opr, run
<1>11. /\ db'.opr = opr /\ db'.sal = sal /\ db'.run = run /\ db'.env = env
       /\ db'.envAlarm = alarms /\ db'.lastRun = db.lastRun
       /\ db'.packed = db.packed /\ db'.ng = db.ng /\ db'.missing = db.missing
  BY <1>1 DEF Database
<1>12. db' \in Database
  BY <1>1, <1>3 DEF Database
<1>13. \A t \in Tanks : Apart(OfTank(opr, t)) /\ (Joined(OfTank(db.opr, t)) => Joined(OfTank(opr, t)))
  <2>1. ASSUME NEW t \in Tanks
        PROVE  Apart(OfTank(opr, t)) /\ (Joined(OfTank(db.opr, t)) => Joined(OfTank(opr, t)))
    <3>1. Apart(OfTank(db.opr, t)) /\ OfTank(opr, t) \subseteq OfTank(db.opr, t)
      BY <1>3 DEF TablesOK, BatchesOK, OfTank
    <3>2. ASSUME NEW r \in OfTank(opr, t), NEW q \in OfTank(db.opr, t),
                 r.end # Null, q.start = r.end
          PROVE  q \in OfTank(opr, t)
      <4>1. r \in db.opr /\ r.end >= c /\ q \in db.opr /\ q.tank = t
        BY <1>3, <1>7, <3>2 DEF OfTank
      <4>2. q.end = Null \/ q.start < q.end
        BY <3>1 DEF Apart
      <4>3. q.end = Null \/ q.end >= c
        BY <1>2, <1>4, <3>2, <4>1, <4>2
      <4> QED  BY <1>7, <4>1, <4>3 DEF OfTank
    <3>3. Apart(OfTank(opr, t))
      BY <3>1 DEF Apart
    <3>4. Joined(OfTank(db.opr, t)) => Joined(OfTank(opr, t))
      BY <3>1, <3>2, JoinedPurged
    <3> QED  BY <3>3, <3>4
  <2> QED  BY <2>1
<1>14. BatchesOK(opr)
  BY <1>3, <1>13 DEF TablesOK, BatchesOK, Bounded
<1>15. Apart(run) /\ (Joined(db.run) => Joined(run))
  <2>1. Apart(db.run)
    BY DEF TablesOK
  <2>2. ASSUME NEW r \in run, NEW q \in db.run, r.end # Null, q.start = r.end
        PROVE  q \in run
    <3>1. r \in db.run /\ r.end >= c
      BY <1>3, <1>10, <2>2
    <3>2. q.end = Null \/ q.start < q.end
      BY <2>1 DEF Apart
    <3>3. q.end = Null \/ q.end >= c
      BY <1>2, <1>5, <2>2, <3>1, <3>2
    <3> QED  BY <1>10, <3>3
  <2>3. Apart(run)
    BY <1>3, <2>1 DEF Apart
  <2>4. Joined(db.run) => Joined(run)
    BY <1>3, <2>2, JoinedPurged
  <2> QED  BY <2>3, <2>4
<1>16. SalinityOK(db') /\ AlarmsOK(db')
  <2>1. \A r \in sal, o \in opr : o.id = r.opr =>
          o.tank = r.tank /\ o.start <= r.ts /\ r.ts < o.start + PlanHours
    BY <1>3 DEF TablesOK, SalinityOK
  <2> QED  BY <1>8, <1>9, <1>11, <2>1 DEF SalinityOK, AlarmsOK
<1>17. Bounded(run) /\ Bounded(env)
  BY <1>3 DEF TablesOK, Bounded
<1>18. TablesOK(db')
  <2>1. JoinedOK(db')
    BY <1>11, <1>13, <1>15 DEF TablesOK, JoinedOK
  <2> QED  BY <1>11, <1>14, <1>15, <1>16, <1>17, <2>1 DEF TablesOK
<1>19. {r \in db'.run : r.end = Null} = {r \in db.run : r.end = Null}
  BY <1>3, <1>10, <1>11
<1> QED  BY <1>3, <1>11, <1>12, <1>18, <1>19

-----------------------------------------------------------------------------
(* The invariant *)

\* What a sample leaves of the tables, whatever its kind, and also when its
\* handler fails.
LEMMA RouteTables ==
  ASSUME DistInv, NEW s \in todo, Route(s) \/ RouteFails(s)
  PROVE  /\ db' \in Database /\ TablesOK(db') /\ db.missing \subseteq db'.missing
         /\ \A o \in db'.opr : o \in db.opr \/ (s.kind = "tank" /\ o.start <= s.ts /\ o.end <= s.ts)
         /\ \A r \in db'.run : r \in db.run \/ (s.kind = "run" /\ r.start <= s.ts /\ r.end <= s.ts)
         /\ s.kind # "run" => db'.run = db.run /\ db'.lastRun = db.lastRun /\ db'.packed = db.packed
         /\ s.kind # "metal" => db'.ng = db.ng
<1>1. s \in Sample /\ db \in Database /\ TablesOK(db) /\ MaxTime \in Nat
  BY DistributionAssumption DEF DistInv, TypeOK
<1>2. s.ts \in Time
  BY <1>1, SampleFields
<1>3. CASE RouteTank(s) \/ TankCut(s)
  <2>1. s.kind = "tank"
    BY <1>3 DEF RouteTank, TankCut
  <2>2. Told(db.opr, s.ts)
    BY <2>1 DEF DistInv, AheadOK, Ahead
  <2>3. db' \in Database /\ TablesOK(db') /\ Told(db'.opr, s.ts)
    BY <1>1, <1>3, <2>2, RouteTankOK, TankCutOK
  <2>4. \/ db' = [db EXCEPT !.opr = db'.opr, !.sal = db'.sal]
        \/ /\ db' = [db EXCEPT !.opr = db'.opr, !.missing = db'.missing]
           /\ db.missing \subseteq db'.missing
    BY <1>1, <1>3, <2>2, RouteTankOK, TankCutOK
  <2>5. /\ db'.run = db.run /\ db'.lastRun = db.lastRun /\ db'.packed = db.packed /\ db'.ng = db.ng
        /\ db.missing \subseteq db'.missing
    BY <1>1, <2>4 DEF Database
  <2> QED  BY <2>1, <2>3, <2>5 DEF Told
<1>4. CASE RouteRun(s) \/ RunCut(s) \/ PacksCut(s)
  <2> DEFINE log == RunLog(s.what, s.ts)
             closed == ClosedRun(s.ts)
  <2>1. s.kind = "run" /\ s.what \in RunStatus
    BY <1>1, <1>4, SampleFields DEF RouteRun, RunCut, PacksCut
  <2>2. Told(db.run, s.ts) /\ \A r \in db.run : r.start < s.ts
    BY <2>1 DEF DistInv, AheadOK, Ahead
  <2>3. db.run \subseteq Interval /\ Bounded(db.run) /\ Apart(db.run)
    BY <1>1, DatabaseFields DEF TablesOK
  <2>4. /\ log \subseteq Interval /\ Bounded(log) /\ Apart(log) /\ Told(log, s.ts)
        /\ Joined(db.run) => Joined(log)
    BY <1>1, <1>2, <2>1, <2>2, <2>3, RunLogOK
  <2>5. closed \subseteq Interval /\ Bounded(closed) /\ Apart(closed) /\ Told(closed, s.ts)
    BY <1>1, <1>2, <2>2, <2>3, ClosedRunOK
  <2>6. db.packed + Packed(s.ts) \in Nat
    <3>1. db.packed \in Nat /\ pkgPrev \in Nat
      BY <1>1, DatabaseFields DEF DistInv, TypeOK
    <3> QED  BY <1>2, <3>1 DEF Packed, Time
  <2>7. \/ db' = [db EXCEPT !.run = log, !.lastRun = s.what, !.packed = @ + Packed(s.ts)]
        \/ db' = [db EXCEPT !.run = closed, !.missing = @ \cup {"run"}]
        \/ db' = [db EXCEPT !.run = log, !.lastRun = s.what, !.missing = @ \cup {"packs"}]
    BY <1>4 DEF RouteRun, RunCut, PacksCut
  <2> HIDE DEF log, closed
  <2>8. /\ db'.opr = db.opr /\ db'.sal = db.sal /\ db'.env = db.env
        /\ db'.envAlarm = db.envAlarm /\ db'.ng = db.ng
        /\ db.missing \subseteq db'.missing
        /\ "batch" \in db'.missing <=> "batch" \in db.missing
        /\ db'.run = log \/ (db'.run = closed /\ "run" \in db'.missing)
        /\ db' \in Database
    <3> DEFINE q == db.packed + Packed(s.ts)
               m == db.missing \cup {"run"}
               n == db.missing \cup {"packs"}
    <3>1. q \in Nat /\ m \subseteq {"batch", "run", "packs", "ng"} /\ n \subseteq {"batch", "run", "packs", "ng"}
      BY <1>1, <2>6, DatabaseFields
    <3>2. \/ db' = [db EXCEPT !.run = log, !.lastRun = s.what, !.packed = q]
          \/ db' = [db EXCEPT !.run = closed, !.missing = m]
          \/ db' = [db EXCEPT !.run = log, !.lastRun = s.what, !.missing = n]
      BY <2>7
    <3>3. /\ db.missing \subseteq m /\ db.missing \subseteq n /\ "run" \in m
          /\ "batch" \in m <=> "batch" \in db.missing
          /\ "batch" \in n <=> "batch" \in db.missing
      OBVIOUS
    <3> HIDE DEF q, m, n
    <3>4. CASE db' = [db EXCEPT !.run = log, !.lastRun = s.what, !.packed = q]
      BY <1>1, <2>1, <2>4, <3>1, <3>4 DEF Database
    <3>5. CASE db' = [db EXCEPT !.run = closed, !.missing = m]
      BY <1>1, <2>5, <3>1, <3>3, <3>5 DEF Database
    <3>6. CASE db' = [db EXCEPT !.run = log, !.lastRun = s.what, !.missing = n]
      BY <1>1, <2>1, <2>4, <3>1, <3>3, <3>6 DEF Database
    <3> QED  BY <3>2, <3>4, <3>5, <3>6
  <2>9. Bounded(db'.run) /\ Apart(db'.run) /\ Told(db'.run, s.ts)
    BY <2>4, <2>5, <2>8
  <2>10. JoinedOK(db')
    <3>1. "run" \notin db'.missing => "run" \notin db.missing /\ db'.run = log
      BY <2>8
    <3> QED  BY <1>1, <2>4, <2>8, <3>1 DEF TablesOK, JoinedOK
  <2>11. TablesOK(db')
    BY <1>1, <2>8, <2>9, <2>10 DEF TablesOK, SalinityOK, AlarmsOK
  <2> QED  BY <2>1, <2>8, <2>9, <2>11 DEF Told
<1>5. CASE RouteMetal(s) \/ NgCut(s)
  <2>1. s.kind = "metal" /\ s.what \in Counts
    BY <1>1, <1>5, SampleFields DEF RouteMetal, NgCut
  <2>2. NgQty(s.what) \in Nat
    BY <2>1 DEF NgQty, Counts, DistInv, TypeOK
  <2>3. \/ db' = [db EXCEPT !.ng = @ + NgQty(s.what)]
        \/ db' = [db EXCEPT !.missing = @ \cup {"ng"}]
    BY <1>5 DEF RouteMetal, NgCut
  <2>4. db' \in Database
    BY <1>1, <2>2, <2>3 DEF Database
  <2>5. /\ db'.run = db.run /\ db'.opr = db.opr /\ db'.sal = db.sal /\ db'.env = db.env
        /\ db'.envAlarm = db.envAlarm /\ db'.lastRun = db.lastRun /\ db'.packed = db.packed
        /\ db.missing \subseteq db'.missing
        /\ "batch" \in db'.missing <=> "batch" \in db.missing
        /\ "run" \in db'.missing <=> "run" \in db.missing
    BY <1>1, <2>3 DEF Database
  <2>6. TablesOK(db')
    BY <1>1, <2>5 DEF TablesOK, SalinityOK, AlarmsOK, JoinedOK
  <2> QED  BY <2>1, <2>4, <2>5, <2>6
<1>6. CASE RouteEnv(s)
  <2>1. s.kind = "env"
    BY <1>6 DEF RouteEnv
  <2>2. /\ db' \in Database /\ TablesOK(db')
        /\ db' = [db EXCEPT !.env = db'.env, !.envAlarm = db'.envAlarm]
    BY <1>1, <1>6, RouteEnvOK
  <2>3. /\ db'.run = db.run /\ db'.opr = db.opr /\ db'.lastRun = db.lastRun
        /\ db'.packed = db.packed /\ db'.ng = db.ng /\ db'.missing = db.missing
    BY <1>1, <2>2 DEF Database
  <2> QED  BY <2>1, <2>2, <2>3
<1>7. CASE NothingDone(s)
  BY <1>1, <1>7 DEF NothingDone
<1> QED  BY <1>3, <1>4, <1>5, <1>6, <1>7 DEF Route, Handled, RouteFails

\* The tables are in order after every step.
LEMMA TablesStep ==
  ASSUME DistInv, [Next]_vars
  PROVE  /\ db' \in Database /\ TablesOK(db')
         /\ saved' \in Database /\ TablesOK(saved')
<1>1. db \in Database /\ TablesOK(db) /\ saved \in Database /\ TablesOK(saved) /\ MaxTime \in Nat
  BY DistributionAssumption DEF DistInv, TypeOK
<1>2. CASE Collect
  BY <1>1, <1>2 DEF Collect, Collected
<1>3. CASE \E S \in SUBSET waiting : Begin(S)
  BY <1>1, <1>3 DEF Begin
<1>4. CASE \E s \in todo : Route(s) \/ RouteFails(s)
  <2>1. saved' = saved
    BY <1>4 DEF Route, RouteFails
  <2> QED  BY <1>1, <1>4, <2>1, RouteTables
<1>5. CASE Commit
  BY <1>1, <1>5 DEF Commit
<1>6. CASE TxFails
  BY <1>1, <1>6 DEF TxFails
<1>7. CASE Restart
  <2>1. db' = [saved EXCEPT !.ng = 0, !.packed = 0, !.missing = @ \ {"ng", "packs"}] /\ saved' = db'
    BY <1>7 DEF Restart
  <2>2. db' \in Database
    BY <1>1, <2>1 DEF Database
  <2>3. /\ db'.run = saved.run /\ db'.opr = saved.opr /\ db'.sal = saved.sal
        /\ db'.env = saved.env /\ db'.envAlarm = saved.envAlarm
        /\ \A x \in {"batch", "run"} : x \in db'.missing <=> x \in saved.missing
    BY <1>1, <2>1 DEF Database
  <2>4. TablesOK(db')
    BY <1>1, <2>3 DEF TablesOK, SalinityOK, AlarmsOK, JoinedOK
  <2> QED  BY <2>1, <2>2, <2>4
<1>8. CASE \E c \in Time : Purge(c)
  <2>1. saved' = db'
    BY <1>8 DEF Purge
  <2> QED  BY <1>1, <1>8, <2>1, PurgeOK
<1>9. CASE UNCHANGED vars
  BY <1>1, <1>9 DEF vars
<1> QED  BY <1>2, <1>3, <1>4, <1>5, <1>6, <1>7, <1>8, <1>9 DEF Next

LEMMA TypeStep ==
  ASSUME DistInv, [Next]_vars
  PROVE  TypeOK'
<1>1. TypeOK /\ db' \in Database /\ saved' \in Database
  BY TablesStep DEF DistInv
<1>2. MaxTime \in Nat /\ MaxFaults \in Nat /\ None \in RunStatus \cup {None} /\ NoCounts \in Counts
  BY DistributionAssumption DEF NoCounts, Counts
<1>3. CASE Collect
  <2>1. ASSUME NEW s, Collected(s), s \in Sample, md' \in Counts PROVE TypeOK'
    BY <1>1, <1>2, <2>1 DEF Collected, TypeOK, memVars, flags
  <2>2. clock < MaxTime => clock + 1 \in Time
    BY <1>1, <1>2 DEF TypeOK, Time
  <2>3. CASE \E t \in Tanks : Collected(NewSample("tank", FALSE, t)) /\ UNCHANGED md
    <3>1. PICK t \in Tanks : Collected(NewSample("tank", FALSE, t)) /\ md' = md
      BY <2>3
    <3>2. NewSample("tank", FALSE, t) \in Sample
      BY <2>2, <3>1 DEF Collected, NewSample, Sample, TankSample
    <3> QED  BY <1>1, <2>1, <3>1, <3>2 DEF TypeOK
  <2>4. CASE \E r \in RunStatus : Collected(NewSample("run", FALSE, r)) /\ UNCHANGED md
    <3>1. PICK r \in RunStatus : Collected(NewSample("run", FALSE, r)) /\ md' = md
      BY <2>4
    <3>2. NewSample("run", FALSE, r) \in Sample
      BY <2>2, <3>1 DEF Collected, NewSample, Sample, RunSample
    <3> QED  BY <1>1, <2>1, <3>1, <3>2 DEF TypeOK
  <2>5. CASE Collected(NewSample("env", FALSE, None)) /\ UNCHANGED md
    <3>1. NewSample("env", FALSE, None) \in Sample
      BY <2>2, <2>5 DEF Collected, NewSample, Sample, EnvSample
    <3> QED  BY <1>1, <2>1, <2>5, <3>1 DEF TypeOK
  <2>6. CASE \E passed \in {0, 1}, found \in {0, 1} :
               /\ found <= passed
               /\ md' = [insp |-> md.insp + passed, ng |-> md.ng + found]
               /\ Collected(NewSample("metal", found = 1, md'))
    <3>1. PICK passed \in {0, 1}, found \in {0, 1} :
               /\ md' = [insp |-> md.insp + passed, ng |-> md.ng + found]
               /\ Collected(NewSample("metal", found = 1, md'))
      BY <2>6
    <3>2. md' \in Counts
      BY <1>1, <3>1 DEF TypeOK, Counts
    <3>3. (found = 1) \in BOOLEAN
      OBVIOUS
    <3>4. clock + 1 \in Time
      BY <2>2, <3>1 DEF Collected
    <3> DEFINE u == found = 1
    <3> HIDE DEF u
    <3>5. NewSample("metal", u, md') \in MetalSample
      BY <3>2, <3>3, <3>4 DEF NewSample, MetalSample, u
    <3>6. NewSample("metal", u, md') \in Sample
      BY <3>5 DEF Sample
    <3>7. Collected(NewSample("metal", u, md'))
      BY <3>1 DEF u
    <3> QED  BY <2>1, <3>2, <3>6, <3>7
  <2> QED  BY <1>3, <2>3, <2>4, <2>5, <2>6 DEF Collect
<1>4. CASE \E S \in SUBSET waiting : Begin(S)
  <2>1. PICK S \in SUBSET waiting : Begin(S)
    BY <1>4
  <2>2. /\ UNCHANGED <<clock, md, faults, runState, mdPrev, pkgPrev, mdSeen, pkgFirst, torn>>
        /\ batch' = S /\ todo' = S /\ waiting' = waiting \ S
    BY <2>1 DEF Begin, memVars
  <2>3. overtaken' \in BOOLEAN
    BY <1>1, <2>1, Zenon DEF Begin, TypeOK
  <2> QED  BY <1>1, <2>2, <2>3 DEF TypeOK
<1>5. CASE \E s \in todo : Route(s) \/ RouteFails(s)
  <2>1. PICK s \in todo : Route(s) \/ RouteFails(s)
    BY <1>5
  <2>2. s \in Sample
    BY <1>1 DEF TypeOK
  <2>3. /\ runState' \in RunStatus \cup {None} /\ mdPrev' \in Counts
        /\ pkgPrev' \in Nat /\ pkgFirst' \in Nat /\ mdSeen' \subseteq Nat
    <3>1. s.ts \in Nat
      BY <2>2, SampleFields
    <3>2. CASE RouteTank(s) \/ RouteEnv(s) \/ NothingDone(s) \/ TankCut(s) \/ RunCut(s)
      BY <1>1, <3>2 DEF TypeOK, RouteTank, RouteEnv, NothingDone, TankCut, RunCut, memVars
    <3>3. CASE RouteRun(s) \/ PacksCut(s)
      <4>1. s.what \in RunStatus
        BY <2>2, <3>3, SampleFields DEF RouteRun, PacksCut
      <4>2. /\ runState' = s.what /\ pkgPrev' = s.ts /\ mdPrev' = mdPrev /\ mdSeen' = mdSeen
            /\ pkgFirst' = pkgFirst \/ pkgFirst' = s.ts
        BY <3>3 DEF RouteRun, PacksCut
      <4> QED  BY <1>1, <3>1, <4>1, <4>2 DEF TypeOK
    <3>4. CASE RouteMetal(s) \/ NgCut(s)
      <4>1. s.what \in Counts
        BY <2>2, <3>4, SampleFields DEF RouteMetal, NgCut
      <4>2. /\ mdPrev' = s.what /\ mdSeen' = mdSeen \cup {s.what.ng}
            /\ runState' = runState /\ pkgPrev' = pkgPrev /\ pkgFirst' = pkgFirst
        BY <3>4 DEF RouteMetal, NgCut
      <4> QED  BY <1>1, <4>1, <4>2 DEF TypeOK, Counts
    <3> QED  BY <2>1, <3>2, <3>3, <3>4 DEF Route, Handled, RouteFails
  <2>4. /\ UNCHANGED <<clock, md, waiting, batch, torn, overtaken>>
        /\ todo' = todo \ {s}
        /\ faults' = faults \/ (faults < MaxFaults /\ faults' = faults + 1)
    BY <2>1 DEF Route, RouteFails, envVars, flags
  <2>5. faults' \in 0..MaxFaults
    BY <1>1, <1>2, <2>4 DEF TypeOK
  <2> QED  BY <1>1, <2>3, <2>4, <2>5 DEF TypeOK
<1>6. CASE Commit
  <2>1. /\ UNCHANGED <<clock, md, waiting, faults, todo, runState, mdPrev, pkgPrev, mdSeen, pkgFirst,
                       torn, overtaken>>
        /\ batch' = {} /\ todo = {}
    BY <1>6 DEF Commit, envVars, memVars, flags
  <2> QED  BY <1>1, <2>1 DEF TypeOK
<1>7. CASE TxFails
  <2>1. /\ UNCHANGED <<clock, md, runState, mdPrev, pkgPrev, mdSeen, pkgFirst, overtaken>>
        /\ batch' = {} /\ todo' = {} /\ waiting' = waiting \cup batch
        /\ faults < MaxFaults /\ faults' = faults + 1
    BY <1>7 DEF TxFails, Undo, memVars
  <2>2. torn' \in BOOLEAN
    BY <1>1, <1>7, Zenon DEF TxFails, TypeOK
  <2>3. faults' \in 0..MaxFaults
    BY <1>1, <1>2, <2>1 DEF TypeOK
  <2> QED  BY <1>1, <2>1, <2>2, <2>3 DEF TypeOK
<1>8. CASE Restart
  <2>1. /\ UNCHANGED <<clock, md, torn, overtaken>>
        /\ batch' = {} /\ todo' = {} /\ waiting' = waiting \cup batch
        /\ faults < MaxFaults /\ faults' = faults + 1
        /\ runState' = None /\ mdPrev' = NoCounts /\ pkgPrev' = 0 /\ pkgFirst' = 0 /\ mdSeen' = {}
    BY <1>8 DEF Restart, Undo, flags
  <2>2. faults' \in 0..MaxFaults
    BY <1>1, <1>2, <2>1 DEF TypeOK
  <2> QED  BY <1>1, <1>2, <2>1, <2>2 DEF TypeOK
<1>9. CASE \E c \in Time : Purge(c)
  <2>1. UNCHANGED <<clock, md, waiting, faults, batch, todo, runState, mdPrev, pkgPrev, mdSeen,
                    pkgFirst, torn, overtaken>>
    BY <1>9 DEF Purge, envVars, memVars, flags
  <2> QED  BY <1>1, <2>1 DEF TypeOK
<1>10. CASE UNCHANGED vars
  BY <1>1, <1>10 DEF vars, envVars, memVars, flags, TypeOK
<1> QED  BY <1>3, <1>4, <1>5, <1>6, <1>7, <1>8, <1>9, <1>10 DEF Next

\* The detector counts what passes and what it finds.
MdCounts == \E passed \in {0, 1}, found \in {0, 1} :
              md' = [insp |-> md.insp + passed, ng |-> md.ng + found]

\* A collected sample is the newest; one of the detector holds its counts.
LEMMA CollectOne ==
  ASSUME Collect
  PROVE  /\ batch = {}
         /\ \E s :
              /\ Collected(s) /\ s.ts = clock + 1
              /\ \/ s.kind \in {"tank", "run", "env"} /\ md' = md
                 \/ s.kind = "metal" /\ s.what = md' /\ MdCounts
<1>1. \A kind, urgent, what :
        /\ NewSample(kind, urgent, what).ts = clock + 1
        /\ NewSample(kind, urgent, what).kind = kind
        /\ NewSample(kind, urgent, what).what = what
  BY DEF NewSample
<1> DEFINE Is(s) == /\ Collected(s) /\ s.ts = clock + 1
                    /\ \/ s.kind \in {"tank", "run", "env"} /\ md' = md
                       \/ s.kind = "metal" /\ s.what = md' /\ MdCounts
<1>2. ASSUME NEW kind \in {"tank", "run", "env"}, NEW u, NEW what,
             Collected(NewSample(kind, u, what)), md' = md
      PROVE  Is(NewSample(kind, u, what))
  BY <1>1, <1>2
<1>3. ASSUME NEW passed \in {0, 1}, NEW found \in {0, 1},
             md' = [insp |-> md.insp + passed, ng |-> md.ng + found],
             Collected(NewSample("metal", found = 1, md'))
      PROVE  Is(NewSample("metal", found = 1, md'))
  <2>1. MdCounts
    BY <1>3, Zenon DEF MdCounts
  <2> DEFINE u == found = 1
  <2>2. Collected(NewSample("metal", u, md'))
    BY <1>3
  <2> HIDE DEF u
  <2>3. Is(NewSample("metal", u, md'))
    BY <1>1, <2>1, <2>2
  <2> HIDE DEF Is
  <2> QED  BY <2>3 DEF u
<1> HIDE DEF Is
<1>4. "tank" \in {"tank", "run", "env"} /\ "run" \in {"tank", "run", "env"}
      /\ "env" \in {"tank", "run", "env"}
  OBVIOUS
<1>5. \E s : Is(s)
  BY <1>2, <1>3, <1>4, Zenon DEF Collect
<1> QED  BY <1>5 DEF Is, Collect

\* The requests take the samples that are not urgent in their order.
LEMMA FeedStep ==
  ASSUME DistInv, [Next]_vars
  PROVE  FeedOK' /\ Fresh'
<1>1. FeedOK /\ Fresh /\ batch \subseteq Sample /\ todo \subseteq batch /\ waiting \subseteq Sample /\ clock \in Nat
  BY DistributionAssumption DEF DistInv, TypeOK
<1>2. \A s \in waiting \cup batch : s.ts \in Nat /\ s.kind \in {"tank", "run", "metal", "env"}
  BY <1>1, SampleFields
<1>3. CASE Collect
  <2>1. ASSUME NEW s, Collected(s), s.ts = clock + 1, batch = {} PROVE FeedOK' /\ Fresh'
    <3>1. clock' = clock + 1 /\ waiting' = waiting \cup {s} /\ UNCHANGED <<batch, todo, db, saved, overtaken>>
      BY <2>1 DEF Collected, flags
    <3>2. \A r \in waiting : r.ts < s.ts
      BY <1>1, <1>2, <2>1 DEF FeedOK
    <3>3. \A q, r \in waiting' : q.ts = r.ts => q = r
      <4>1. \A r \in waiting : r.ts # s.ts
        BY <1>1, <1>2, <2>1, <3>2
      <4> QED  BY <1>1, <3>1, <4>1 DEF FeedOK
    <3>4. \A r \in waiting' : r.ts <= clock'
      BY <1>1, <1>2, <2>1, <3>1, <3>2
    <3> QED  BY <1>1, <2>1, <3>1, <3>3, <3>4 DEF FeedOK, Fresh
  <2>2. PICK s : Collected(s) /\ s.ts = clock + 1
    BY <1>3, CollectOne
  <2>3. batch = {}
    BY <1>3, CollectOne
  <2> QED  BY <2>1, <2>2, <2>3
<1>4. CASE \E S \in SUBSET waiting : Begin(S)
  <2>1. PICK S \in SUBSET waiting : Begin(S)
    BY <1>4
  <2>2. /\ clock' = clock /\ batch' = S /\ todo' = S /\ waiting' = waiting \ S /\ saved' = db /\ db' = db
        /\ \A s \in S, r \in waiting : SentBefore(r, s) => r \in S
    BY <2>1 DEF Begin
  <2>3. Fresh'
    BY <2>2 DEF Fresh
  <2>4. ASSUME NEW s \in S, NEW r \in waiting \ S, ~s.urgent, ~r.urgent
        PROVE  s.ts < r.ts
    <3>1. ~SentBefore(r, s)
      BY <2>2
    <3>2. ~(r.ts < s.ts)
      <4>1. s.urgent \in BOOLEAN /\ r.urgent \in BOOLEAN
        BY <1>1, SampleFields
      <4>2. s.urgent = r.urgent
        BY <2>4, <4>1, Zenon
      <4> QED  BY <3>1, <4>2, Zenon DEF SentBefore
    <3>3. s.ts # r.ts
      BY <1>1 DEF FeedOK
    <3> QED  BY <1>2, <3>2, <3>3
  <2>5. ASSUME ~overtaken', NEW s \in S, NEW r \in waiting \ S, s.kind = "metal", r.kind = "metal"
        PROVE  s.ts < r.ts
    <3>1. ~(r.ts < s.ts)
      BY <2>1, <2>5, Zenon DEF Begin
    <3>2. s.ts # r.ts
      BY <1>1 DEF FeedOK
    <3> QED  BY <1>2, <3>1, <3>2
  <2>6. \A r, s \in waiting' \cup batch' : r \in waiting \cup batch /\ s \in waiting \cup batch
    BY <2>2
  <2> QED  BY <1>1, <2>2, <2>3, <2>4, <2>5, <2>6, Zenon DEF FeedOK
<1>5. CASE \E s \in todo : Route(s) \/ RouteFails(s)
  <2>1. PICK s \in todo : Route(s) \/ RouteFails(s)
    BY <1>5
  <2>2. /\ UNCHANGED <<clock, waiting, batch, overtaken>> /\ todo' = todo \ {s}
    BY <2>1 DEF Route, RouteFails, envVars, flags
  <2>3. todo' # batch'
    BY <1>1, <2>1, <2>2
  <2> QED  BY <1>1, <2>2, <2>3, Zenon DEF FeedOK, Fresh
<1>6. CASE Commit
  <2>1. /\ UNCHANGED <<clock, waiting, overtaken>> /\ batch' = {} /\ saved' = db /\ db' = db
    BY <1>6 DEF Commit, envVars, flags
  <2> QED  BY <1>1, <2>1, Zenon DEF FeedOK, Fresh
<1>7. CASE TxFails \/ Restart
  <2>1. /\ clock' = clock /\ batch' = {} /\ waiting' = waiting \cup batch /\ saved' = db'
    BY <1>7 DEF TxFails, Restart, Undo
  <2> QED  BY <1>1, <2>1, Zenon DEF FeedOK, Fresh
<1>8. CASE \E c \in Time : Purge(c)
  <2>1. UNCHANGED <<clock, waiting, batch, overtaken>> /\ saved' = db'
    BY <1>8 DEF Purge, envVars, flags
  <2> QED  BY <1>1, <2>1, Zenon DEF FeedOK, Fresh
<1>9. CASE UNCHANGED vars
  <2>1. UNCHANGED <<clock, waiting, batch, todo, db, saved, overtaken>>
    BY <1>9 DEF vars, envVars, flags
  <2> QED  BY <1>1, <2>1, Zenon DEF FeedOK, Fresh
<1> QED  BY <1>3, <1>4, <1>5, <1>6, <1>7, <1>8, <1>9 DEF Next

\* Of the samples that are never urgent, the next one to be distributed is the
\* oldest of all.
LEMMA InOrder ==
  ASSUME DistInv, NEW s \in todo, NextGroup(s), NEW q \in (todo \ {s}) \cup waiting,
         s.kind \in {"tank", "run"}, q.kind \in {"tank", "run"}
  PROVE  s.ts < q.ts
<1>1. /\ FeedOK /\ q \in waiting \cup batch /\ s \in batch /\ q \in Sample /\ s \in Sample
  BY DEF DistInv, TypeOK
<1>2. s.ts \in Nat /\ q.ts \in Nat
  BY <1>1, SampleFields
<1>3. CASE q \in todo \ {s}
  <2>1. s.ts <= q.ts /\ s # q
    BY <1>3 DEF NextGroup
  <2>2. s.ts # q.ts
    BY <1>1, <2>1 DEF FeedOK
  <2> QED  BY <1>2, <2>1, <2>2
<1>4. CASE q \in waiting
  <2>1. s.urgent = FALSE /\ q.urgent = FALSE
    BY <1>1, SampleFields
  <2> QED  BY <1>1, <1>4, <2>1, Zenon DEF FeedOK
<1> QED  BY <1>3, <1>4

\* What was distributed lies before what is still to come.
LEMMA AheadStep ==
  ASSUME DistInv, [Next]_vars
  PROVE  AheadOK'
<1>1. /\ AheadOK /\ FeedOK /\ batch \subseteq Sample /\ todo \subseteq batch /\ waiting \subseteq Sample
      /\ clock \in Nat /\ db \in Database /\ saved \in Database
  BY DistributionAssumption DEF DistInv, TypeOK
<1>2. \A s \in waiting \cup batch : s.ts \in Nat /\ s.ts <= clock
  BY <1>1, SampleFields DEF FeedOK
<1>3. /\ \A o \in db.opr \cup saved.opr : o.start \in Nat /\ o.end \in Nat
      /\ \A r \in db.run \cup saved.run : r.start \in Nat /\ r.end \in Nat
  <2>1. Time \subseteq Nat
    BY DistributionAssumption DEF Time
  <2> QED  BY <1>1, <2>1, DatabaseFields DEF Batch, Interval
<1>4. CASE Collect
  <2>1. PICK s : Collected(s) /\ s.ts = clock + 1
    BY <1>4, CollectOne
  <2>2. clock' = clock + 1 /\ waiting' = waiting \cup {s} /\ UNCHANGED <<batch, todo, db, saved>>
    BY <2>1 DEF Collected
  <2>3. Ahead(db, {s}) /\ Ahead(saved, {s})
    BY <1>1, <1>3, <2>1 DEF AheadOK, Ahead, Told
  <2>4. Ahead(db, todo' \cup waiting') /\ Ahead(saved, batch' \cup waiting')
    BY <1>1, <2>2, <2>3 DEF AheadOK, Ahead, Told
  <2>5. Told(db.opr \cup saved.opr, clock') /\ Told(db.run \cup saved.run, clock')
    BY <1>1, <1>3, <2>2 DEF AheadOK, Told
  <2> QED  BY <2>2, <2>4, <2>5 DEF AheadOK
<1>5. CASE \E S \in SUBSET waiting : Begin(S)
  <2>1. PICK S \in SUBSET waiting : Begin(S)
    BY <1>5
  <2>2. clock' = clock /\ batch' = S /\ todo' = S /\ waiting' = waiting \ S /\ saved' = db /\ db' = db
    BY <2>1 DEF Begin
  <2>3. S \cup (waiting \ S) \subseteq todo \cup waiting
    OBVIOUS
  <2> QED  BY <1>1, <2>2, <2>3 DEF AheadOK, Ahead, Told
<1>6. CASE \E s \in todo : Route(s) \/ RouteFails(s)
  <2>1. PICK s \in todo : Route(s) \/ RouteFails(s)
    BY <1>6
  <2>2. UNCHANGED <<clock, waiting, batch, saved>> /\ todo' = todo \ {s} /\ NextGroup(s)
    BY <2>1 DEF Route, RouteFails, envVars
  <2>3. /\ \A o \in db'.opr : o \in db.opr \/ (s.kind = "tank" /\ o.start <= s.ts /\ o.end <= s.ts)
        /\ \A r \in db'.run : r \in db.run \/ (s.kind = "run" /\ r.start <= s.ts /\ r.end <= s.ts)
        /\ db' \in Database
    BY <2>1, RouteTables
  <2>4. /\ \A o \in db'.opr : o.start \in Nat /\ o.end \in Nat
        /\ \A r \in db'.run : r.start \in Nat /\ r.end \in Nat
    <3>1. Time \subseteq Nat
      BY DistributionAssumption DEF Time
    <3> QED  BY <2>3, <3>1, DatabaseFields DEF Batch, Interval
  <2>5. \A q \in todo' \cup waiting' :
          s.kind \in {"tank", "run"} /\ q.kind \in {"tank", "run"} => s.ts < q.ts
    BY <2>2, InOrder
  <2>6. ASSUME NEW q \in todo' \cup waiting', q.kind = "tank", NEW o \in db'.opr
        PROVE  o.start <= q.ts /\ o.end <= q.ts
    <3>1. q \in todo \cup waiting /\ q.ts \in Nat /\ s.ts \in Nat
      BY <1>1, <1>2, <2>2
    <3>2. CASE o \in db.opr
      BY <1>1, <2>6, <3>1, <3>2 DEF AheadOK, Ahead, Told
    <3>3. CASE s.kind = "tank" /\ o.start <= s.ts /\ o.end <= s.ts
      BY <2>4, <2>5, <2>6, <3>1, <3>3
    <3> QED  BY <2>3, <3>2, <3>3
  <2>7. ASSUME NEW q \in todo' \cup waiting', q.kind = "run", NEW r \in db'.run
        PROVE  r.start < q.ts /\ r.start <= q.ts /\ r.end <= q.ts
    <3>1. q \in todo \cup waiting /\ q.ts \in Nat /\ s.ts \in Nat
      BY <1>1, <1>2, <2>2
    <3>2. CASE r \in db.run
      BY <1>1, <2>7, <3>1, <3>2 DEF AheadOK, Ahead, Told
    <3>3. CASE s.kind = "run" /\ r.start <= s.ts /\ r.end <= s.ts
      BY <2>4, <2>5, <2>7, <3>1, <3>3
    <3> QED  BY <2>3, <3>2, <3>3
  <2>8. Ahead(db', todo' \cup waiting')
    BY <2>6, <2>7 DEF Ahead, Told
  <2>9. s.ts \in Nat /\ s.ts <= clock
    BY <1>1, <1>2
  <2>10. Told(db'.opr \cup saved.opr, clock) /\ Told(db'.run \cup saved.run, clock)
    BY <1>1, <2>3, <2>4, <2>9 DEF AheadOK, Told
  <2> QED  BY <1>1, <2>2, <2>8, <2>10 DEF AheadOK
<1>7. CASE Commit
  <2>1. /\ UNCHANGED <<clock, waiting>> /\ batch' = {} /\ todo' = {} /\ saved' = db /\ db' = db
    BY <1>7 DEF Commit, envVars
  <2> QED  BY <1>1, <2>1 DEF AheadOK, Ahead, Told
<1>8. CASE TxFails \/ Restart
  <2>1. /\ clock' = clock /\ batch' = {} /\ todo' = {} /\ waiting' = waiting \cup batch /\ saved' = db'
        /\ db'.opr = saved.opr /\ db'.run = saved.run
    BY <1>1, <1>8 DEF TxFails, Restart, Undo, Database
  <2> QED  BY <1>1, <2>1 DEF AheadOK, Ahead, Told
<1>9. CASE \E c \in Time : Purge(c)
  <2>1. UNCHANGED <<clock, waiting, batch, todo>> /\ saved' = db' /\ batch = {}
    BY <1>9 DEF Purge, envVars
  <2>2. db'.opr \subseteq db.opr /\ db'.run \subseteq db.run
    BY <1>1, <1>9, PurgeOK, DistributionAssumption DEF DistInv
  <2> QED  BY <1>1, <2>1, <2>2 DEF AheadOK, Ahead, Told
<1>10. CASE UNCHANGED vars
  <2>1. UNCHANGED <<clock, waiting, batch, todo, db, saved>>
    BY <1>10 DEF vars, envVars
  <2> QED  BY <1>1, <2>1 DEF AheadOK, Ahead, Told
<1> QED  BY <1>4, <1>5, <1>6, <1>7, <1>8, <1>9, <1>10 DEF Next

\* What TxFails keeps when it tears nothing.
LEMMA NotTorn ==
  ASSUME DistInv, TxFails, ~torn'
  PROVE  ~torn /\ db' = db /\ todo = batch
<1>1. ~torn /\ todo = batch
  BY Zenon DEF TxFails
<1>2. db' = saved
  BY DEF TxFails
<1> QED  BY <1>1, <1>2 DEF DistInv, Fresh

\* Memory of the packer and its table stay together.
LEMMA RunStep ==
  ASSUME DistInv, [Next]_vars
  PROVE  RunMemory'
<1>1. /\ RunMemory /\ FeedOK /\ batch \subseteq Sample /\ todo \subseteq batch /\ waiting \subseteq Sample
      /\ clock \in Nat /\ db \in Database /\ saved \in Database /\ TablesOK(db) /\ MaxTime \in Nat
      /\ pkgPrev \in Nat /\ pkgFirst \in Nat
  BY DistributionAssumption DEF DistInv, TypeOK
<1>2. \A s \in waiting \cup batch : s.ts \in Nat /\ s.ts <= clock /\ 0 < s.ts
  <2>1. \A n \in Time : 0 < n
    BY DistributionAssumption DEF Time
  <2> QED  BY <1>1, <2>1, SampleFields DEF FeedOK
<1>3. SUFFICES ASSUME ~torn'
               PROVE  /\ Follows(db') /\ Follows(saved')
                      /\ runState' \in {None, db'.lastRun}
                      /\ pkgFirst' = 0 <=> pkgPrev' = 0
                      /\ pkgFirst' <= pkgPrev' /\ pkgPrev' <= clock'
                      /\ "packs" \notin db'.missing => db'.packed = pkgPrev' - pkgFirst'
                      /\ \A s \in todo' \cup waiting' : s.kind = "run" => pkgPrev' < s.ts
  BY DEF RunMemory, Follows
<1>4. CASE Collect
  <2>1. PICK s : Collected(s) /\ s.ts = clock + 1
    BY <1>4, CollectOne
  <2>2. /\ clock' = clock + 1 /\ waiting' = waiting \cup {s}
        /\ UNCHANGED <<todo, db, saved, runState, pkgPrev, pkgFirst, torn>>
    BY <2>1 DEF Collected, memVars, flags
  <2>3. pkgPrev <= clock' /\ (pkgPrev <= clock => pkgPrev < s.ts)
    BY <1>1, <1>3, <2>1, <2>2 DEF RunMemory
  <2> QED  BY <1>1, <1>3, <2>2, <2>3 DEF RunMemory
<1>5. CASE \E S \in SUBSET waiting : Begin(S)
  <2>1. PICK S \in SUBSET waiting : Begin(S)
    BY <1>5
  <2>2. /\ UNCHANGED <<clock, db, runState, pkgPrev, pkgFirst, torn>>
        /\ saved' = db /\ todo' = S /\ waiting' = waiting \ S
    BY <2>1 DEF Begin, memVars
  <2> QED  BY <1>1, <1>3, <2>2 DEF RunMemory
<1>6. CASE \E s \in todo : Route(s) \/ RouteFails(s)
  <2>1. PICK s \in todo : Route(s) \/ RouteFails(s)
    BY <1>6
  <2>2. UNCHANGED <<clock, waiting, saved, torn>> /\ todo' = todo \ {s} /\ NextGroup(s)
    BY <2>1 DEF Route, RouteFails, envVars, flags
  <2>3. CASE RouteRun(s) \/ PacksCut(s)
    <3> DEFINE run == RunLog(s.what, s.ts)
    <3>1. s \in Sample /\ s.kind = "run" /\ s.what \in RunStatus /\ s.ts \in Time /\ s \in batch
      BY <1>1, <2>3, SampleFields DEF RouteRun, PacksCut
    <3>2. "run" \notin db.missing => {r.status : r \in {q \in run : q.end = Null}} = {s.what}
      <4>1. Follows(db) /\ runState \in {None, db.lastRun}
        BY <1>1, <1>3, <2>2 DEF RunMemory
      <4>2. db.run \subseteq Interval /\ Bounded(db.run) /\ Apart(db.run)
        BY <1>1, DatabaseFields DEF TablesOK
      <4> QED  BY <1>1, <3>1, <4>1, <4>2, RunLogFollows
    <3>3. /\ \/ /\ db' = [db EXCEPT !.run = run, !.lastRun = s.what, !.packed = @ + Packed(s.ts)]
                /\ pkgFirst' = IF pkgFirst = 0 THEN s.ts ELSE pkgFirst
             \/ /\ db' = [db EXCEPT !.run = run, !.lastRun = s.what, !.missing = @ \cup {"packs"}]
                /\ Packed(s.ts) > 0 /\ pkgFirst' = pkgFirst
          /\ runState' = s.what /\ pkgPrev' = s.ts
      BY <2>3 DEF RouteRun, PacksCut
    <3> HIDE DEF run
    <3>4. /\ db'.run = run /\ db'.lastRun = s.what
          /\ "run" \in db'.missing <=> "run" \in db.missing
          /\ "packs" \notin db'.missing =>
               "packs" \notin db.missing /\ db'.packed = db.packed + Packed(s.ts)
      <4>1. CASE db' = [db EXCEPT !.run = run, !.lastRun = s.what, !.packed = @ + Packed(s.ts)]
        BY <1>1, <4>1 DEF Database
      <4>2. CASE db' = [db EXCEPT !.run = run, !.lastRun = s.what, !.missing = @ \cup {"packs"}]
        BY <1>1, <4>2 DEF Database
      <4> QED  BY <3>3, <4>1, <4>2
    <3>5. Follows(db')
      <4>1. s.what # None
        BY <3>1 DEF RunStatus, None, RUNNING, STOPPED
      <4> QED  BY <3>2, <3>4, <4>1 DEF Follows
    <3>6. /\ pkgFirst = 0 <=> pkgPrev = 0
          /\ pkgFirst <= pkgPrev /\ pkgPrev < s.ts
          /\ "packs" \notin db.missing => db.packed = pkgPrev - pkgFirst
      BY <1>1, <1>3, <2>1, <2>2, <3>1 DEF RunMemory
    <3>7. s.ts \in Nat /\ 0 < s.ts /\ s.ts <= clock
      BY <1>2, <3>1
    <3>8. Packed(s.ts) = IF pkgPrev # 0 THEN s.ts - pkgPrev ELSE 0
      BY <1>1, <3>6, <3>7 DEF Packed
    <3>9. pkgFirst' = IF pkgFirst = 0 THEN s.ts ELSE pkgFirst
      BY <3>3, <3>6, <3>8
    <3>10. /\ pkgFirst' = 0 <=> pkgPrev' = 0
           /\ pkgFirst' <= pkgPrev' /\ pkgPrev' <= clock'
      BY <1>1, <2>2, <3>3, <3>6, <3>7, <3>9
    <3>11. ASSUME "packs" \notin db'.missing PROVE db'.packed = pkgPrev' - pkgFirst'
      <4>1. /\ pkgPrev' = s.ts /\ db'.packed = db.packed + Packed(s.ts) /\ pkgPrev \in Nat /\ pkgFirst \in Nat
            /\ db.packed = pkgPrev - pkgFirst /\ s.ts \in Nat
        BY <1>1, <3>3, <3>4, <3>6, <3>7, <3>11
      <4>2. CASE pkgFirst = 0
        <5>1. pkgFirst' = s.ts /\ pkgPrev = 0 /\ Packed(s.ts) = 0
          BY <3>6, <3>8, <3>9, <4>2
        <5> QED  BY <4>1, <4>2, <5>1
      <4>3. CASE pkgFirst # 0
        <5>1. pkgFirst' = pkgFirst /\ Packed(s.ts) = s.ts - pkgPrev
          BY <3>6, <3>8, <3>9, <4>3
        <5> QED  BY <4>1, <5>1
      <4> QED  BY <4>2, <4>3
    <3>12. \A q \in todo' \cup waiting' : q.kind = "run" => pkgPrev' < q.ts
      BY <2>2, <3>1, <3>3, InOrder
    <3>13. Follows(saved') /\ runState' \in {None, db'.lastRun}
      BY <1>1, <1>3, <2>2, <3>3, <3>4 DEF RunMemory
    <3> QED  BY <3>5, <3>10, <3>11, <3>12, <3>13
  <2>4. CASE ~RouteRun(s) /\ ~PacksCut(s)
    <3>1. UNCHANGED <<runState, pkgPrev, pkgFirst>>
      BY <2>1, <2>4 DEF Route, Handled, RouteFails, RouteTank, RouteMetal, RouteEnv,
                        NothingDone, TankCut, RunCut, NgCut, memVars
    <3>2. \/ db'.run = db.run \/ "run" \in db'.missing
      <4>1. s.kind = "run" => NothingDone(s) \/ RunCut(s)
        BY <2>1, <2>4 DEF Route, Handled, RouteFails, RouteTank, RouteMetal, RouteEnv, TankCut, NgCut
      <4>2. NothingDone(s) => db'.run = db.run
        BY DEF NothingDone
      <4>3. RunCut(s) => "run" \in db'.missing
        BY <1>1 DEF RunCut, Database
      <4>4. s.kind # "run" => db'.run = db.run
        BY <2>1, RouteTables
      <4> QED  BY <4>1, <4>2, <4>3, <4>4
    <3>3. db'.lastRun = db.lastRun /\ db'.packed = db.packed /\ db.missing \subseteq db'.missing
      <4>1. s.kind = "run" => NothingDone(s) \/ RunCut(s)
        BY <2>1, <2>4 DEF Route, Handled, RouteFails, RouteTank, RouteMetal, RouteEnv, TankCut, NgCut
      <4>2. NothingDone(s) => db'.lastRun = db.lastRun /\ db'.packed = db.packed
        BY DEF NothingDone
      <4>3. RunCut(s) => db'.lastRun = db.lastRun /\ db'.packed = db.packed
        BY <1>1 DEF RunCut, Database
      <4>4. s.kind # "run" => db'.lastRun = db.lastRun /\ db'.packed = db.packed
        BY <2>1, RouteTables
      <4>5. db.missing \subseteq db'.missing
        BY <2>1, RouteTables
      <4> QED  BY <4>1, <4>2, <4>3, <4>4, <4>5
    <3>4. Follows(db) => Follows(db')
      BY <3>2, <3>3 DEF Follows
    <3> QED  BY <1>1, <1>3, <2>2, <3>1, <3>3, <3>4 DEF RunMemory
  <2> QED  BY <2>3, <2>4
<1>7. CASE Commit
  <2>1. /\ UNCHANGED <<clock, waiting, todo, db, runState, pkgPrev, pkgFirst, torn>> /\ saved' = db
    BY <1>7 DEF Commit, envVars, memVars, flags
  <2> QED  BY <1>1, <1>3, <2>1 DEF RunMemory
<1>8. CASE TxFails
  <2>1. ~torn /\ db' = db /\ todo = batch
    BY <1>3, <1>8, NotTorn
  <2>2. /\ UNCHANGED <<clock, saved, runState, pkgPrev, pkgFirst>>
        /\ todo' = {} /\ waiting' = waiting \cup batch
    BY <1>8 DEF TxFails, Undo, memVars
  <2> QED  BY <1>1, <2>1, <2>2 DEF RunMemory
<1>9. CASE Restart
  <2>1. /\ clock' = clock /\ runState' = None /\ pkgPrev' = 0 /\ pkgFirst' = 0 /\ torn' = torn
        /\ todo' = {} /\ waiting' = waiting \cup batch /\ saved' = db'
        /\ db' = [saved EXCEPT !.ng = 0, !.packed = 0, !.missing = @ \ {"ng", "packs"}]
    BY <1>9 DEF Restart, Undo, flags
  <2>2. db'.run = saved.run /\ db'.lastRun = saved.lastRun /\ db'.packed = 0
        /\ "run" \in db'.missing <=> "run" \in saved.missing
    BY <1>1, <2>1 DEF Database
  <2>3. Follows(db')
    BY <1>1, <1>3, <2>1, <2>2 DEF RunMemory, Follows
  <2> QED  BY <1>1, <1>2, <2>1, <2>2, <2>3
<1>10. CASE \E c \in Time : Purge(c)
  <2>1. UNCHANGED <<clock, waiting, todo, runState, pkgPrev, pkgFirst, torn>> /\ saved' = db'
    BY <1>10 DEF Purge, envVars, memVars, flags
  <2>2. /\ {r \in db'.run : r.end = Null} = {r \in db.run : r.end = Null}
        /\ db'.lastRun = db.lastRun /\ db'.packed = db.packed
        /\ db'.missing = db.missing
    BY <1>1, <1>10, PurgeOK
  <2>3. Follows(db) => Follows(db')
    BY <2>2 DEF Follows
  <2> QED  BY <1>1, <1>3, <2>1, <2>2, <2>3 DEF RunMemory
<1>11. CASE UNCHANGED vars
  <2>1. UNCHANGED <<clock, waiting, todo, db, saved, runState, pkgPrev, pkgFirst, torn>>
    BY <1>11 DEF vars, envVars, memVars, flags
  <2> QED  BY <1>1, <1>3, <2>1 DEF RunMemory
<1> QED  BY <1>4, <1>5, <1>6, <1>7, <1>8, <1>9, <1>10, <1>11 DEF Next

LEMMA MetalGrowsStep ==
  ASSUME DistInv, [Next]_vars
  PROVE  MetalGrows'
<1>1. /\ MetalGrows /\ FeedOK /\ batch \subseteq Sample /\ waiting \subseteq Sample /\ clock \in Nat /\ md \in Counts
  BY DistributionAssumption DEF DistInv, TypeOK
<1>2. \A s \in waiting \cup batch :
        /\ s.ts \in Nat /\ s.ts <= clock
        /\ s.kind = "metal" => s.what \in Counts
  BY <1>1, SampleFields DEF FeedOK
<1>3. CASE Collect
  <2>1. PICK s : /\ Collected(s) /\ s.ts = clock + 1
                 /\ \/ s.kind \in {"tank", "run", "env"} /\ md' = md
                    \/ s.kind = "metal" /\ s.what = md' /\ MdCounts
    BY <1>3, CollectOne
  <2>2. waiting' = waiting \cup {s} /\ batch' = batch
    BY <2>1 DEF Collected
  <2>3. md' \in Counts /\ Reaches(md, md') /\ Reaches(md', md')
    <3>1. CASE md' = md
      BY <1>1, <3>1 DEF Counts, Reaches
    <3>2. CASE MdCounts
      BY <1>1, <3>2 DEF Counts, Reaches, MdCounts
    <3> QED  BY <2>1, <3>1, <3>2
  <2>4. 1 <= md'.insp
    BY <1>1, <2>3 DEF MetalGrows, Counts, Reaches
  <2>5. \A r \in waiting \cup batch : r.kind = "metal" => 1 <= r.what.insp /\ Reaches(r.what, md')
    BY <1>1, <1>2, <2>3 DEF MetalGrows, Counts, Reaches
  <2>6. s.kind = "metal" => 1 <= s.what.insp /\ Reaches(s.what, md')
    BY <2>1, <2>3, <2>4
  <2>7. \A r \in waiting \cup batch : ~(s.ts <= r.ts)
    BY <1>1, <1>2, <2>1
  <2>8. \A r \in waiting \cup batch : r.kind = "metal" /\ s.kind = "metal" => Reaches(r.what, s.what)
    BY <2>1, <2>5
  <2>9. s.kind = "metal" => Reaches(s.what, s.what)
    BY <2>1, <2>3
  <2>10. \A q, r \in waiting' \cup batch' :
           q.kind = "metal" /\ r.kind = "metal" /\ q.ts <= r.ts => Reaches(q.what, r.what)
    BY <1>1, <2>2, <2>7, <2>8, <2>9 DEF MetalGrows
  <2>11. \A r \in waiting' \cup batch' : r.kind = "metal" => 1 <= r.what.insp /\ Reaches(r.what, md')
    BY <2>2, <2>5, <2>6
  <2> QED  BY <2>4, <2>10, <2>11 DEF MetalGrows, Reaches
<1>4. CASE ~Collect
  <2>1. md' = md /\ waiting' \cup batch' \subseteq waiting \cup batch
    <3>1. CASE \E S \in SUBSET waiting : Begin(S)
      BY <3>1 DEF Begin
    <3>2. CASE TxFails \/ Restart
      BY <3>2 DEF TxFails, Restart, Undo
    <3>3. CASE Commit
      BY <3>3 DEF Commit, envVars
    <3>4. CASE (\E s \in todo : Route(s) \/ RouteFails(s)) \/ (\E c \in Time : Purge(c))
      BY <3>4 DEF Route, RouteFails, Purge, envVars
    <3>5. CASE UNCHANGED vars
      BY <3>5 DEF vars, envVars
    <3> QED  BY <1>4, <3>1, <3>2, <3>3, <3>4, <3>5 DEF Next
  <2> QED  BY <1>1, <2>1 DEF MetalGrows, Reaches
<1> QED  BY <1>3, <1>4

\* A sample of the detector reaches what is remembered, and is booked with the
\* difference to it.
LEMMA RouteMetalBooks ==
  ASSUME DistInv, NEW s \in todo, NextGroup(s), RouteMetal(s) \/ NgCut(s), ~torn, ~overtaken
  PROVE  /\ Reaches(mdPrev', md)
         /\ \A q \in (todo \ {s}) \cup waiting : q.kind = "metal" => Reaches(mdPrev', q.what)
         /\ mdPrev'.ng \in mdSeen' /\ \A k \in mdSeen' : k <= mdPrev'.ng
         /\ \E n \in mdSeen' :
              (\A k \in mdSeen' : n <= k) /\ ("ng" \notin db'.missing => db'.ng = mdPrev'.ng - n)
<1>1. /\ MetalGrows /\ MetalMemory /\ FeedOK /\ s \in Sample /\ s \in batch /\ s.kind = "metal"
      /\ batch \subseteq Sample /\ waiting \subseteq Sample /\ todo \subseteq batch
      /\ mdPrev \in Counts /\ mdSeen \subseteq Nat /\ db \in Database
  BY DEF DistInv, TypeOK, RouteMetal, NgCut
<1>2. s.what \in Counts /\ s.what.ng \in Nat /\ s.what.insp \in Nat /\ 1 <= s.what.insp
  <2>1. s.what \in Counts
    BY <1>1, SampleFields
  <2> QED  BY <1>1, <2>1 DEF Counts, MetalGrows
<1>3. /\ mdPrev' = s.what /\ mdSeen' = mdSeen \cup {s.what.ng}
      /\ "ng" \notin db'.missing => "ng" \notin db.missing /\ db'.ng = db.ng + NgQty(s.what)
  <2>1. CASE RouteMetal(s)
    BY <1>1, <2>1 DEF RouteMetal, Database
  <2>2. CASE NgCut(s)
    BY <1>1, <2>2 DEF NgCut, Database
  <2> QED  BY <2>1, <2>2
<1>4. Reaches(s.what, md)
  BY <1>1 DEF MetalGrows
<1>5. ASSUME NEW q \in (todo \ {s}) \cup waiting, q.kind = "metal" PROVE Reaches(s.what, q.what)
  <2>1. q.ts \in Nat /\ s.ts \in Nat /\ q \in waiting \cup batch
    BY <1>1, SampleFields
  <2>2. s.ts <= q.ts
    <3>1. CASE q \in todo
      BY <3>1 DEF NextGroup
    <3>2. CASE q \in waiting
      <4>1. s.ts < q.ts
        BY <1>1, <1>5, <3>2 DEF FeedOK
      <4> QED  BY <2>1, <4>1
    <3> QED  BY <3>1, <3>2
  <2> QED  BY <1>1, <1>5, <2>1, <2>2 DEF MetalGrows
<1>6. mdPrev.ng \in Nat /\ mdPrev.insp \in Nat /\ \A k \in mdSeen : k \in Nat
  BY <1>1 DEF Counts
<1>7. Reaches(mdPrev, s.what)
  BY <1>1 DEF MetalMemory
<1>8. /\ \A k \in mdSeen' : k <= s.what.ng
      /\ \E n \in mdSeen' :
           (\A k \in mdSeen' : n <= k) /\ ("ng" \notin db'.missing => db'.ng = s.what.ng - n)
  <2>1. CASE mdSeen = {}
    <3>1. mdPrev = NoCounts /\ db.ng = 0
      BY <1>1, <2>1 DEF MetalMemory
    <3>2. /\ "ng" \notin db'.missing => db'.ng = s.what.ng - s.what.ng
          /\ s.what.ng <= s.what.ng
      BY <1>2, <1>3, <3>1 DEF NgQty
    <3>3. mdSeen' = {s.what.ng}
      BY <1>3, <2>1
    <3> QED  BY <3>2, <3>3
  <2>2. CASE mdSeen # {}
    <3>1. /\ mdPrev # NoCounts
          /\ mdPrev.ng \in mdSeen /\ \A k \in mdSeen : k <= mdPrev.ng
          /\ \E n \in mdSeen :
               (\A k \in mdSeen : n <= k) /\ ("ng" \notin db.missing => db.ng = mdPrev.ng - n)
      BY <1>1, <2>2, Zenon DEF MetalMemory
    <3>2. PICK n \in mdSeen :
            (\A k \in mdSeen : n <= k) /\ ("ng" \notin db.missing => db.ng = mdPrev.ng - n)
      BY <3>1
    <3>3. mdPrev.insp <= s.what.insp /\ mdPrev.ng <= s.what.ng
      BY <1>7 DEF Reaches
    <3>4. NgQty(s.what) = s.what.ng - mdPrev.ng
      BY <1>2, <1>6, <3>1, <3>3 DEF NgQty
    <3>5. "ng" \notin db'.missing => db'.ng = s.what.ng - n
      BY <1>2, <1>3, <1>6, <3>2, <3>4
    <3>6. \A k \in mdSeen' : k <= s.what.ng
      BY <1>2, <1>3, <1>6, <3>1, <3>3
    <3>7. n \in mdSeen' /\ \A k \in mdSeen' : n <= k
      BY <1>2, <1>3, <1>6, <3>1, <3>2, <3>3
    <3> QED  BY <3>5, <3>6, <3>7
  <2> QED  BY <2>1, <2>2
<1>9. s.what.ng \in mdSeen'
  BY <1>3
<1> QED  BY <1>3, <1>4, <1>5, <1>8, <1>9

\* Memory of the detector and its table stay together.
LEMMA MetalMemoryStep ==
  ASSUME DistInv, [Next]_vars
  PROVE  MetalMemory'
<1> DEFINE Metal(s) == (Route(s) /\ RouteMetal(s)) \/ (RouteFails(s) /\ NgCut(s))
<1>1. /\ MetalMemory /\ MetalGrows /\ batch \subseteq Sample /\ todo \subseteq batch /\ waiting \subseteq Sample
      /\ db \in Database /\ saved \in Database /\ TablesOK(db) /\ MaxTime \in Nat
      /\ md \in Counts /\ mdPrev \in Counts
  BY DistributionAssumption DEF DistInv, TypeOK
<1>2. CASE UNCHANGED <<mdPrev, mdSeen>> /\ ~Restart /\ ~\E s \in todo : Metal(s)
  <2>1. SUFFICES ASSUME ~torn', ~overtaken'
                 PROVE  /\ ~torn /\ ~overtaken /\ Reaches(mdPrev, md')
                        /\ \A s \in todo' \cup waiting' : s.kind = "metal" => Reaches(mdPrev, s.what)
                        /\ db'.ng = db.ng /\ ("ng" \notin db'.missing => "ng" \notin db.missing)
    BY <1>1, <1>2 DEF MetalMemory, Reaches
  <2>2. CASE Collect
    <3>1. PICK s : /\ Collected(s)
                   /\ \/ s.kind \in {"tank", "run", "env"} /\ md' = md
                      \/ s.kind = "metal" /\ s.what = md' /\ MdCounts
      BY <2>2, CollectOne
    <3>2. UNCHANGED <<todo, db, torn, overtaken>> /\ waiting' = waiting \cup {s}
      BY <3>1 DEF Collected, flags
    <3>3. Reaches(mdPrev, md)
      BY <1>1, <2>1, <3>2 DEF MetalMemory
    <3>4. Reaches(mdPrev, md')
      BY <1>1, <3>1, <3>3 DEF Counts, Reaches, MdCounts
    <3> QED  BY <1>1, <2>1, <3>1, <3>2, <3>4 DEF MetalMemory
  <2>3. CASE \E S \in SUBSET waiting : Begin(S)
    <3>1. PICK S \in SUBSET waiting : Begin(S)
      BY <2>3
    <3>2. /\ md' = md /\ db' = db /\ torn' = torn /\ todo' = S /\ waiting' = waiting \ S
      BY <3>1 DEF Begin
    <3>3. ~overtaken
      BY <2>1, <3>1, Zenon DEF Begin
    <3> QED  BY <1>1, <2>1, <3>2, <3>3 DEF MetalMemory
  <2>4. CASE \E s \in todo : (Route(s) \/ RouteFails(s)) /\ ~Metal(s)
    <3>1. PICK s \in todo : (Route(s) \/ RouteFails(s)) /\ ~Metal(s)
      BY <2>4
    <3>2. UNCHANGED <<md, waiting, torn, overtaken>> /\ todo' = todo \ {s}
      BY <3>1 DEF Route, RouteFails, envVars, flags
    <3>3. s.kind # "metal"
      BY <3>1 DEF Route, Handled, RouteTank, RouteRun, RouteEnv,
                  RouteFails, NothingDone, TankCut, RunCut, PacksCut
    <3>4. db'.ng = db.ng /\ db.missing \subseteq db'.missing
      BY <3>1, <3>3, RouteTables
    <3> QED  BY <1>1, <2>1, <3>2, <3>4 DEF MetalMemory
  <2>5. CASE Commit
    BY <1>1, <2>1, <2>5 DEF Commit, envVars, flags, MetalMemory
  <2>6. CASE TxFails
    <3>1. ~torn /\ db' = db /\ todo = batch
      BY <2>1, <2>6, NotTorn
    <3>2. md' = md /\ overtaken' = overtaken /\ todo' = {} /\ waiting' = waiting \cup batch
      BY <2>6 DEF TxFails, Undo
    <3> QED  BY <1>1, <2>1, <3>1, <3>2 DEF MetalMemory
  <2>7. CASE \E c \in Time : Purge(c)
    <3>1. UNCHANGED <<md, waiting, todo, torn, overtaken>>
      BY <2>7 DEF Purge, envVars, flags
    <3>2. db'.ng = db.ng /\ db'.missing = db.missing
      BY <1>1, <2>7, PurgeOK
    <3> QED  BY <1>1, <2>1, <3>1, <3>2 DEF MetalMemory
  <2>8. CASE UNCHANGED vars
    BY <1>1, <2>1, <2>8 DEF vars, envVars, flags, MetalMemory
  <2> QED  BY <1>2, <2>2, <2>3, <2>4, <2>5, <2>6, <2>7, <2>8 DEF Next
<1>3. CASE \E s \in todo : Metal(s)
  <2>1. PICK s \in todo : (Route(s) \/ RouteFails(s)) /\ (RouteMetal(s) \/ NgCut(s))
    BY <1>3
  <2>2. UNCHANGED <<md, waiting, torn, overtaken>> /\ todo' = todo \ {s} /\ NextGroup(s)
    BY <2>1 DEF Route, RouteFails, envVars, flags
  <2>3. mdSeen' # {} /\ mdPrev' = s.what
    BY <2>1 DEF RouteMetal, NgCut
  <2>4. mdPrev' # NoCounts
    <3>1. 1 <= s.what.insp
      BY <1>1, <2>1 DEF MetalGrows, RouteMetal, NgCut
    <3> QED  BY <2>3, <3>1 DEF NoCounts
  <2>5. ASSUME ~torn', ~overtaken'
        PROVE  /\ Reaches(mdPrev', md')
               /\ \A q \in todo' \cup waiting' : q.kind = "metal" => Reaches(mdPrev', q.what)
               /\ mdPrev'.ng \in mdSeen' /\ \A k \in mdSeen' : k <= mdPrev'.ng
               /\ \E n \in mdSeen' :
                    (\A k \in mdSeen' : n <= k) /\ ("ng" \notin db'.missing => db'.ng = mdPrev'.ng - n)
    <3>1. ~torn /\ ~overtaken
      BY <2>2, <2>5
    <3>2. /\ Reaches(mdPrev', md)
          /\ \A q \in (todo \ {s}) \cup waiting : q.kind = "metal" => Reaches(mdPrev', q.what)
          /\ mdPrev'.ng \in mdSeen' /\ \A k \in mdSeen' : k <= mdPrev'.ng
          /\ \E n \in mdSeen' :
               (\A k \in mdSeen' : n <= k) /\ ("ng" \notin db'.missing => db'.ng = mdPrev'.ng - n)
      BY <2>1, <2>2, <3>1, RouteMetalBooks
    <3> QED  BY <2>2, <3>2
  <2> QED  BY <2>3, <2>4, <2>5, Zenon DEF MetalMemory, Reaches
<1>4. CASE Restart
  <2>1. /\ md' = md /\ mdPrev' = NoCounts /\ mdSeen' = {}
        /\ todo' = {} /\ waiting' = waiting \cup batch
        /\ db' = [saved EXCEPT !.ng = 0, !.packed = 0, !.missing = @ \ {"ng", "packs"}]
    BY <1>4 DEF Restart, Undo
  <2>2. db'.ng = 0
    BY <1>1, <2>1 DEF Database
  <2>3. \A c \in Counts : Reaches(NoCounts, c)
    BY DEF NoCounts, Counts, Reaches
  <2>4. \A s \in waiting \cup batch : s.kind = "metal" => s.what \in Counts
    BY <1>1, SampleFields
  <2> QED  BY <1>1, <2>1, <2>2, <2>3, <2>4 DEF MetalMemory, Reaches
<1>5. \/ UNCHANGED <<mdPrev, mdSeen>>
      \/ \E s \in todo : Metal(s)
      \/ Restart
  <2>1. ASSUME NEW s \in todo, Route(s) \/ RouteFails(s) PROVE UNCHANGED <<mdPrev, mdSeen>> \/ Metal(s)
    BY <2>1 DEF Route, Handled, RouteTank, RouteRun, RouteEnv,
                RouteFails, NothingDone, TankCut, RunCut, PacksCut, memVars
  <2> HIDE DEF Metal
  <2> QED  BY <2>1 DEF Next, Collect, Collected, Begin, Commit, TxFails, Purge, vars, memVars
<1> QED  BY <1>2, <1>3, <1>4, <1>5

-----------------------------------------------------------------------------
(* Theorems *)

\* At the start every tank that was seeded has one open batch.
LEMMA InitOK ==
  ASSUME Init
  PROVE  DistInv
<1>1. /\ NTanks \in Nat \ {0} /\ PlanHours \in Nat \ {0} /\ MaxTime \in Nat /\ MaxFaults \in Nat
  BY DistributionAssumption
<1>2. PICK n \in Tanks : db = [opr |-> SeedRows(n), sal |-> {}, run |-> {}, env |-> {}, envAlarm |-> {},
                              lastRun |-> None, packed |-> 0, ng |-> 0, missing |-> {}]
  BY DEF Init
<1>3. /\ db.opr = SeedRows(n) /\ db.sal = {} /\ db.run = {} /\ db.env = {} /\ db.envAlarm = {}
      /\ db.lastRun = None /\ db.packed = 0 /\ db.ng = 0 /\ db.missing = {}
  BY <1>2
<1>4. /\ SeedRows(n) \subseteq Batch
      /\ \A o \in SeedRows(n) : o.id \in 1..n /\ o.tank = o.id /\ o.start = 0 /\ o.end = Null
      /\ \A o, p \in SeedRows(n) : o.id = p.id => o = p
  BY <1>1 DEF SeedRows, Batch, Tanks, Null
<1>5. /\ clock = 0 /\ faults = 0 /\ waiting = {} /\ md = [insp |-> 1, ng |-> 0]
      /\ batch = {} /\ todo = {} /\ saved = db
      /\ runState = None /\ mdPrev = NoCounts /\ pkgPrev = 0 /\ mdSeen = {} /\ pkgFirst = 0
      /\ torn \in BOOLEAN /\ overtaken \in BOOLEAN
  BY Zenon DEF Init
<1>6. db \in Database
  BY <1>2, <1>4 DEF Database
<1>7. TypeOK
  BY <1>1, <1>5, <1>6 DEF TypeOK, Counts, NoCounts
<1>8. BatchesOK(db.opr)
  <2>1. Bounded(SeedRows(n))
    BY <1>4 DEF Bounded, Tanks
  <2>2. \A t \in Tanks : Apart(OfTank(SeedRows(n), t))
    <3>1. ASSUME NEW t \in Tanks PROVE Apart(OfTank(SeedRows(n), t))
      <4>1. \A o, p \in OfTank(SeedRows(n), t) : o = p
        BY <1>4 DEF OfTank
      <4>2. \A o \in OfTank(SeedRows(n), t) : o.end = Null
        BY <1>4 DEF OfTank
      <4> QED  BY <4>1, <4>2 DEF Apart
    <3> QED  BY <3>1
  <2> QED  BY <1>3, <1>4, <2>1, <2>2 DEF BatchesOK
<1>9. TablesOK(db)
  <2>1. Bounded({}) /\ Apart({}) /\ Joined({})
    BY DEF Bounded, Apart, Joined
  <2>2. \A t \in Tanks : Joined(OfTank(db.opr, t))
    BY <1>3, <1>4 DEF OfTank, Joined
  <2> QED  BY <1>3, <1>8, <2>1, <2>2 DEF TablesOK, SalinityOK, AlarmsOK, JoinedOK
<1>10. FeedOK /\ Fresh
  BY <1>5 DEF FeedOK, Fresh
<1>11. AheadOK
  BY <1>3, <1>4, <1>5 DEF AheadOK, Ahead, Told, Null
<1>12. RunMemory
  BY <1>3, <1>5 DEF RunMemory, Follows
<1>13. MetalGrows /\ MetalMemory
  BY <1>3, <1>5 DEF MetalGrows, MetalMemory, Reaches, NoCounts
<1> QED  BY <1>5, <1>7, <1>9, <1>10, <1>11, <1>12, <1>13 DEF DistInv

\* Tables and memory are in order in every state.
THEOREM DistInvariance == Spec => []DistInv
<1>1. ASSUME DistInv, [Next]_vars PROVE DistInv'
  <2>1. TablesOK(db)' /\ TablesOK(saved)'
    BY <1>1, TablesStep DEF TablesOK, BatchesOK, SalinityOK, AlarmsOK, JoinedOK
  <2> QED  BY <1>1, <2>1, TypeStep, FeedStep, AheadStep, RunStep, MetalGrowsStep, MetalMemoryStep DEF DistInv
<1> QED  BY <1>1, InitOK, PTL DEF Spec

\* Every column keeps its type (mes/schema.sql).
THEOREM DistributionTypes == Spec => []TypeOK
<1>1. DistInv => TypeOK
  BY DEF DistInv
<1> QED  BY <1>1, DistInvariance, PTL

\* Batches of a tank never overlap, and follow each other without a gap unless a
\* handler has failed between completing one and opening the next (_tank_opr);
\* neither a purge nor a rollback tears them apart.
THEOREM BatchesFollowEachOther == Spec => []BatchesTile
<1>1. DistInv => BatchesTile
  BY DEF DistInv, TablesOK, BatchesOK, JoinedOK, OfTank, BatchesTile
<1> QED  BY <1>1, DistInvariance, PTL

\* So do the run intervals of the packer (_run_log).
THEOREM RunsFollowEachOther == Spec => []RunsTile
<1>1. DistInv => RunsTile
  BY DEF DistInv, TablesOK, JoinedOK, RunsTile
<1> QED  BY <1>1, DistInvariance, PTL

\* A salinity value is booked on the batch in the brine (_salinity).
THEOREM SalinityFitsItsBatch == Spec => []SalinityInBatch
<1>1. DistInv => SalinityInBatch
  BY DEF DistInv, TablesOK, SalinityOK, SalinityInBatch
<1> QED  BY <1>1, DistInvariance, PTL

\* A purge leaves no child without its parent, and no key is taken again while
\* a child refers to it (purge).
THEOREM ParentsStay == Spec => []ParentsKept
<1>1. DistInv => ParentsKept
  BY DEF DistInv, TablesOK, SalinityOK, AlarmsOK, ParentsKept
<1> QED  BY <1>1, DistInvariance, PTL

\* The open run interval shows the last status whose handler kept it, over
\* restarts and purges, as long as no rollback left memory ahead of the table and
\* no handler failed between closing an interval and opening the next (_run_log).
THEOREM RunIsFollowed == Spec => []RunFollows
<1>1. DistInv => RunFollows
  BY DEF DistInv, RunMemory, RunFollows, Follows, OpenRuns
<1> QED  BY <1>1, DistInvariance, PTL

\* Packs and NG are booked as the differences of the counts, none twice and none
\* left out, but what a handler remembered and then failed to book (_taping,
\* _metal).
THEOREM CountsAreExact == Spec => []CountsExact
<1>1. ASSUME DistInv PROVE CountsExact
  <2>1. RunMemory /\ MetalMemory /\ mdSeen \subseteq Nat
    BY <1>1 DEF DistInv, TypeOK
  <2>2. ASSUME ~torn, "packs" \notin db.missing PROVE db.packed = pkgPrev - pkgFirst
    BY <2>1, <2>2 DEF RunMemory
  <2>3. ASSUME ~torn, ~overtaken, "ng" \notin db.missing, NEW n \in mdSeen, NEW m \in mdSeen,
               \A k \in mdSeen : n <= k /\ k <= m
        PROVE  db.ng = m - n
    <3>1. /\ mdPrev.ng \in mdSeen /\ \A k \in mdSeen : k <= mdPrev.ng
          /\ \E l \in mdSeen : (\A k \in mdSeen : l <= k) /\ db.ng = mdPrev.ng - l
      BY <2>1, <2>3 DEF MetalMemory
    <3>2. PICK l \in mdSeen : (\A k \in mdSeen : l <= k) /\ db.ng = mdPrev.ng - l
      BY <3>1
    <3>3. m \in Nat /\ n \in Nat /\ l \in Nat /\ mdPrev.ng \in Nat
      BY <2>1, <3>1
    <3>4. m = mdPrev.ng /\ n = l
      BY <2>3, <3>1, <3>2, <3>3
    <3> QED  BY <3>2, <3>4
  <2> QED  BY <2>2, <2>3, Zenon DEF CountsExact
<1> QED  BY <1>1, DistInvariance, PTL

=============================================================================
