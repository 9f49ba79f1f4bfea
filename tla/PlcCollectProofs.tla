-------------------------- MODULE PlcCollectProofs --------------------------
(***************************************************************************)
(* Proofs about PlcCollect for any number of devices, read groups and      *)
(* ranges, any width of the update counter and any number of polls.        *)
(***************************************************************************)
EXTENDS PlcCollect, Integers, WellFoundedInduction, TLAPS

\* The value of the update counter after n successes: it runs through
\* 1..CounterMod-1, and 0 stands for no success.
Cycle == CounterMod - 1
CounterOf(n) == IF n = 0 THEN 0 ELSE ((n - 1) % Cycle) + 1

\* The PLC's books agree: failures and successes as they were, one counter.
DiagOK ==
  \A e \in Equip :
    /\ diag[e].fails = missed[e]
    /\ diag[e].everOk <=> polls[e] > 0
    /\ diag[e].counter = CounterOf(polls[e])
    /\ mem[e].counter = diag[e].counter

\* What the reader has read of a block in this poll is of some success.
SnapOK ==
  \A e \in Equip : snap[e].counter = CounterOf(snap[e].n) /\ snap[e].n <= polls[e]

\* The collector knows the counter of success m of e, has made no sample of a
\* later one, and what its poll has read of e in the meantime is not older.
Knows(e, m) ==
  /\ seen[e] = CounterOf(m)
  /\ m > 0 => emits[e][m] = 1
  /\ \A n \in Polls : emits[e][n] <= 1 /\ (n > m => emits[e][n] = 0)
  /\ rpos > RangeOf(e) => snap[e].n >= m

SeenOK == \A e \in Equip : \E m \in 0..polls[e] : Knows(e, m)

PlcInv ==
  /\ TypeOK /\ DiagOK /\ SnapOK /\ SeenOK
  /\ BlockWhole /\ StatusTruthful

-----------------------------------------------------------------------------
(* The update counter. *)

\* Multiples of k are at least k apart.
LEMMA MultiplesApart ==
  ASSUME NEW a \in Int, NEW k \in Nat \ {0}, k * a > -k, k * a < k
  PROVE  a = 0
<1>1. a > 0 => k * a >= k
  OBVIOUS
<1>2. a < 0 => k * a <= -k
  OBVIOUS
<1> QED BY <1>1, <1>2

\* Quotient and remainder are determined.
LEMMA DivisionUnique ==
  ASSUME NEW q \in Int, NEW p \in Int, NEW k \in Nat \ {0},
         NEW r \in 0..(k - 1), NEW s \in 0..(k - 1), k * q + r = k * p + s
  PROVE  q = p /\ r = s
<1>1. k * (q - p) = s - r
  OBVIOUS
<1>2. q - p = 0
  BY <1>1, MultiplesApart
<1> QED BY <1>2

LEMMA Division ==
  ASSUME NEW n \in Nat, NEW k \in Nat \ {0}
  PROVE  n \div k \in Int /\ n % k \in 0..(k - 1) /\ n = k * (n \div k) + (n % k)
OBVIOUS

LEMMA Remainder ==
  ASSUME NEW n \in Nat, NEW k \in Nat \ {0}, NEW q \in Int, NEW r \in 0..(k - 1), n = k * q + r
  PROVE  n % k = r
<1>1. n \div k \in Int /\ n % k \in 0..(k - 1) /\ n = k * (n \div k) + (n % k)
  BY Division
<1> QED BY <1>1, DivisionUnique

LEMMA RemainderSmall ==
  ASSUME NEW k \in Nat \ {0}
  PROVE  k % k = 0 /\ \A n \in 0..(k - 1) : n % k = n
OBVIOUS

\* The counter of a success is none of the others' within one cycle, and never 0.
LEMMA CounterRange ==
  ASSUME NEW n \in Nat
  PROVE  /\ CounterOf(n) \in 0..(CounterMod - 1)
         /\ n = 0 <=> CounterOf(n) = 0
<1>1. Cycle \in Nat \ {0} /\ CounterMod = Cycle + 1
  BY ConstantsAssumption DEF Cycle
<1>2. CASE n = 0
  BY <1>1, <1>2 DEF CounterOf
<1>3. CASE n # 0
  <2>1. n - 1 \in Nat
    BY <1>3
  <2>2. (n - 1) % Cycle \in 0..(Cycle - 1)
    BY <1>1, <2>1, Division
  <2> QED BY <1>1, <1>3, <2>2 DEF CounterOf
<1> QED BY <1>2, <1>3

LEMMA CounterApart ==
  ASSUME NEW u \in Nat \ {0}, NEW n \in Nat, n > u, n < u + Cycle
  PROVE  CounterOf(n) # CounterOf(u)
<1>1. Cycle \in Nat \ {0}
  BY ConstantsAssumption DEF Cycle
<1>2. u - 1 \in Nat /\ n - 1 \in Nat /\ n # 0
  OBVIOUS
<1> DEFINE q == (n - 1) \div Cycle
           p == (u - 1) \div Cycle
           r == (n - 1) % Cycle
           s == (u - 1) % Cycle
<1>3. q \in Int /\ r \in 0..(Cycle - 1) /\ n - 1 = Cycle * q + r
  BY <1>1, <1>2, Division
<1>4. p \in Int /\ s \in 0..(Cycle - 1) /\ u - 1 = Cycle * p + s
  BY <1>1, <1>2, Division
<1>5. CounterOf(n) = r + 1 /\ CounterOf(u) = s + 1
  BY <1>2 DEF CounterOf
<1> HIDE DEF q, p, r, s
<1>6. ASSUME r = s PROVE FALSE
  <2>1. n - u = Cycle * (q - p)
    BY <1>1, <1>3, <1>4, <1>6
  <2>2. q - p = 0
    BY <1>1, <1>3, <1>4, <2>1, MultiplesApart
  <2> QED BY <2>1, <2>2, <1>1
<1> QED BY <1>3, <1>4, <1>5, <1>6

\* Diag.poll takes the counter of one success to that of the next.
LEMMA CounterNext ==
  ASSUME NEW n \in Nat
  PROVE  CounterAfter(CounterOf(n)) = CounterOf(n + 1)
<1>1. Cycle \in Nat \ {0} /\ Cycle > 1 /\ CounterMod = Cycle + 1 /\ CounterMod \in Nat \ {0}
  BY ConstantsAssumption DEF Cycle
<1> DEFINE c == CounterOf(n)
<1>2. c \in 0..Cycle
  BY <1>1, CounterRange
<1>3. CounterAfter(c) = IF c = Cycle THEN 1 ELSE c + 1
  <2>1. CASE c = Cycle
    <3>1. (c + 1) % CounterMod = 0
      BY <1>1, <2>1, RemainderSmall
    <3> QED BY <2>1, <3>1 DEF CounterAfter
  <2>2. CASE c # Cycle
    <3>1. (c + 1) % CounterMod = c + 1
      <4> HIDE DEF c
      <4>1. c + 1 \in 0..(CounterMod - 1)
        BY <1>1, <1>2, <2>2
      <4> QED BY <1>1, <4>1, RemainderSmall
    <3>2. c + 1 # 0
      BY <1>2
    <3> QED BY <2>2, <3>1, <3>2 DEF CounterAfter
  <2> QED BY <2>1, <2>2
<1>4. CounterOf(n + 1) = (n % Cycle) + 1
  BY DEF CounterOf
<1>5. CASE n = 0
  <2>1. n % Cycle = 0
    BY <1>1, <1>5, RemainderSmall
  <2>2. c = 0
    BY <1>5 DEF CounterOf
  <2> QED BY <1>1, <1>3, <1>4, <2>1, <2>2
<1>6. CASE n # 0
  <2>1. n - 1 \in Nat /\ c = ((n - 1) % Cycle) + 1
    BY <1>6 DEF CounterOf
  <2>2. /\ (n - 1) \div Cycle \in Int /\ (n - 1) % Cycle \in 0..(Cycle - 1)
        /\ n - 1 = Cycle * ((n - 1) \div Cycle) + ((n - 1) % Cycle)
    BY <1>1, <2>1, Division
  <2> DEFINE q == (n - 1) \div Cycle
             r == (n - 1) % Cycle
  <2>3. q \in Int /\ r \in 0..(Cycle - 1) /\ n - 1 = Cycle * q + r /\ c = r + 1
    BY <2>1, <2>2
  <2> HIDE DEF q, r, c
  <2>4. CASE r = Cycle - 1
    <3> DEFINE p == q + 1
    <3>1. n = Cycle * p + 0 /\ p \in Int /\ 0 \in 0..(Cycle - 1)
      BY <1>1, <2>3, <2>4
    <3> HIDE DEF p
    <3>2. n % Cycle = 0
      BY <1>1, <3>1, Remainder
    <3>3. c = Cycle
      BY <1>1, <2>3, <2>4
    <3> QED BY <1>1, <1>3, <1>4, <3>2, <3>3 DEF c
  <2>5. CASE r # Cycle - 1
    <3>1. n = Cycle * q + (r + 1) /\ r + 1 \in 0..(Cycle - 1)
      BY <1>1, <2>3, <2>5
    <3>2. n % Cycle = r + 1
      BY <1>1, <2>3, <3>1, Remainder
    <3>3. c # Cycle
      BY <1>1, <2>3, <2>5
    <3> QED BY <1>1, <1>3, <1>4, <2>3, <3>2, <3>3 DEF c
  <2> QED BY <2>3, <2>4, <2>5
<1> QED BY <1>5, <1>6

-----------------------------------------------------------------------------
(* Helpers of the scanner. *)

\* A round that is not over has a device to poll.
LEMMA CurrentIsDue ==
  ASSUME due \subseteq Equip, due # {}
  PROVE  Current \in due
<1>1. due \subseteq Nat
  BY ConstantsAssumption DEF Equip
<1>2. PICK e \in due : \A f \in due : ~(<<f, e>> \in OpToRel(<, Nat))
  BY <1>1, NatLessThanWellFounded, WFMin
<1>3. \A f \in due : e <= f
  <2> SUFFICES ASSUME NEW f \in due, f < e PROVE FALSE
    BY <1>1
  <2>1. <<f, e>> \in Nat \X Nat /\ <<f, e>>[1] < <<f, e>>[2]
    BY <1>1
  <2>2. <<f, e>> \in OpToRel(<, Nat)
    BY <2>1 DEF OpToRel
  <2> QED BY <1>2, <2>2
<1> QED BY <1>2, <1>3 DEF Current

\* What Diag.status can say.
LEMMA StatusMeaning ==
  ASSUME NEW d, NEW s \in Status(d)
  PROVE  /\ s \in StatusCode
         /\ s = STATUS_DOWN <=> ~d.everOk \/ d.fails >= DownAfter
BY DEF Status, StatusCode, STATUS_OK, STATUS_DELAY, STATUS_DOWN, STATUS_ERROR

SnapType == [status : StatusCode, counter : 0..(CounterMod - 1), n : 0..MaxPolls]

LEMMA NoSnapType == NoSnap \in [Equip -> SnapType]
<1>1. [status |-> STATUS_OK, counter |-> 0, n |-> 0] \in SnapType
  BY ConstantsAssumption DEF SnapType, StatusCode
<1> QED BY <1>1 DEF NoSnap

LEMMA InitPlcInv == Init => PlcInv
<1> SUFFICES ASSUME Init PROVE PlcInv
  OBVIOUS
<1> USE ConstantsAssumption
<1>1. TypeOK
  <2>1. NoBlock \in Block
    BY DEF NoBlock, Block, StatusCode, STATUS_OK
  <2>2. reads \in Seq(Values) /\ Len(reads) < NGroups
    BY DEF Init
  <2>3. /\ mem \in [Equip -> Block]
        /\ diag \in [Equip -> [fails : Nat, counter : 0..(CounterMod - 1), everOk : BOOLEAN]]
        /\ running \in BOOLEAN /\ due \subseteq Equip /\ attempt \in 0..Retries
    BY <2>1 DEF Init
  <2>4. /\ rpos \in 0..NRanges
        /\ seen \in [Equip -> 0..(CounterMod - 1)]
        /\ shown \in [Equip -> StatusCode] /\ linkOk \in BOOLEAN
    <3>1. 0 \in 0..(CounterMod - 1) /\ 0 \in 0..NRanges /\ STATUS_DOWN \in StatusCode
      BY DEF StatusCode
    <3> QED BY <3>1 DEF Init
  <2>5. /\ polls \in [Equip -> 0..MaxPolls] /\ missed \in [Equip -> Nat]
        /\ got \in [Equip -> [Groups -> Values \cup {0}]]
        /\ emits \in [Equip -> [Polls -> Nat]] /\ faults \in 0..MaxFaults
    BY DEF Init
  <2>6. snap \in [Equip -> SnapType]
    BY NoSnapType DEF Init
  <2> QED BY <2>2, <2>3, <2>4, <2>5, <2>6 DEF TypeOK, SnapType
<1>2. CounterOf(0) = 0
  BY DEF CounterOf
<1>3. DiagOK /\ SnapOK
  BY <1>2 DEF Init, DiagOK, SnapOK, NoSnap, NoBlock
<1>4. SeenOK
  <2>1. ASSUME NEW e \in Equip PROVE 0 \in 0..polls[e] /\ Knows(e, 0)
    BY <1>2 DEF Init, Knows
  <2> QED BY <2>1 DEF SeenOK
<1>5. BlockWhole /\ StatusTruthful
  BY DEF Init, BlockWhole, StatusTruthful, NoBlock
<1> QED BY <1>1, <1>3, <1>4, <1>5 DEF PlcInv

-----------------------------------------------------------------------------
(* The scanner. *)

\* A step of the scanner that ends no poll, and stop and start.
LEMMA ScanStepInv ==
  ASSUME PlcInv, UNCHANGED <<mem, diag, readerVars, histVars>>,
         running' \in BOOLEAN, due' \subseteq Equip, reads' \in Seq(Values),
         Len(reads') < NGroups, attempt' \in 0..Retries, faults' \in 0..MaxFaults
  PROVE  PlcInv'
<1> USE DEF readerVars, histVars
<1>1. TypeOK'
  BY DEF PlcInv, TypeOK
<1>2. DiagOK' /\ SnapOK' /\ BlockWhole' /\ StatusTruthful'
  BY DEF PlcInv, DiagOK, SnapOK, BlockWhole, StatusTruthful
<1>3. SeenOK'
  BY DEF PlcInv, SeenOK, Knows
<1> QED BY <1>1, <1>2, <1>3 DEF PlcInv

DiagType == [fails : Nat, counter : 0..(CounterMod - 1), everOk : BOOLEAN]

\* The end of the poll of one device, in the words of its books.
LEMMA PollEndsInv ==
  ASSUME PlcInv, NEW e \in Equip, NEW b \in Block, NEW d \in DiagType, NEW n \in 0..MaxPolls, NEW f \in Nat,
         NEW g \in [Groups -> Values \cup {0}],
         mem' = [mem EXCEPT ![e] = b], diag' = [diag EXCEPT ![e] = d],
         polls' = [polls EXCEPT ![e] = n], missed' = [missed EXCEPT ![e] = f],
         got' = [got EXCEPT ![e] = g],
         d.fails = f, d.counter = CounterOf(n), d.everOk <=> n > 0, n >= polls[e], b.counter = CounterOf(n), b.vals = g,
         n > 0 \/ f > 0 => (b.status = STATUS_DOWN <=> n = 0 \/ f >= DownAfter),
         PollEnds(e), UNCHANGED <<running, readerVars, emits, faults>>
  PROVE  PlcInv'
<1>1. /\ mem \in [Equip -> Block]
      /\ diag \in [Equip -> [fails : Nat, counter : 0..(CounterMod - 1), everOk : BOOLEAN]]
      /\ polls \in [Equip -> 0..MaxPolls] /\ missed \in [Equip -> Nat]
      /\ got \in [Equip -> [Groups -> Values \cup {0}]]
      /\ MaxPolls \in Nat
  BY ConstantsAssumption DEF PlcInv, TypeOK
<1>2. d \in [fails : Nat, counter : 0..(CounterMod - 1), everOk : BOOLEAN]
  BY DEF DiagType
<1>3. TypeOK'
  <2>1. /\ mem' \in [Equip -> Block]
        /\ diag' \in [Equip -> [fails : Nat, counter : 0..(CounterMod - 1), everOk : BOOLEAN]]
    BY <1>1, <1>2
  <2>2. /\ polls' \in [Equip -> 0..MaxPolls] /\ missed' \in [Equip -> Nat]
        /\ got' \in [Equip -> [Groups -> Values \cup {0}]]
    BY <1>1
  <2>3. due' \subseteq Equip /\ reads' \in Seq(Values) /\ Len(reads') < NGroups /\ attempt' \in 0..Retries
    BY ConstantsAssumption DEF PollEnds, PlcInv, TypeOK
  <2> QED BY <2>1, <2>2, <2>3 DEF PlcInv, TypeOK, readerVars
<1>4. /\ mem'[e] = b /\ diag'[e] = d /\ polls'[e] = n /\ missed'[e] = f /\ got'[e] = g
      /\ \A i \in Equip : i # e =>
           /\ mem'[i] = mem[i] /\ diag'[i] = diag[i] /\ polls'[i] = polls[i]
           /\ missed'[i] = missed[i] /\ got'[i] = got[i]
  BY <1>1
<1>5. \A i \in Equip : polls[i] \in Nat /\ polls'[i] \in Nat /\ polls[i] <= polls'[i]
  BY <1>1, <1>4
<1>6. DiagOK'
  <2> SUFFICES ASSUME NEW i \in Equip
               PROVE  /\ diag'[i].fails = missed'[i]
                      /\ diag'[i].everOk <=> polls'[i] > 0
                      /\ diag'[i].counter = CounterOf(polls'[i])
                      /\ mem'[i].counter = diag'[i].counter
    BY DEF DiagOK, CounterOf
  <2>1. CASE i = e
    BY <1>4, <2>1
  <2>2. CASE i # e
    BY <1>4, <2>2 DEF PlcInv, DiagOK
  <2> QED BY <2>1, <2>2
<1>7. SnapOK'
  <2> SUFFICES ASSUME NEW i \in Equip
               PROVE  snap[i].counter = CounterOf(snap[i].n) /\ snap[i].n <= polls'[i]
    BY DEF SnapOK, CounterOf, readerVars
  <2>1. snap[i].n \in Nat
    BY ConstantsAssumption DEF PlcInv, TypeOK
  <2> QED BY <1>5, <2>1 DEF PlcInv, SnapOK
<1>8. BlockWhole'
  BY <1>4 DEF PlcInv, BlockWhole
<1>9. StatusTruthful'
  BY <1>4 DEF PlcInv, StatusTruthful
<1>10. SeenOK'
  <2> SUFFICES ASSUME NEW i \in Equip PROVE \E m \in 0..polls'[i] : Knows(i, m)'
    BY DEF SeenOK
  <2>1. PICK m \in 0..polls[i] : Knows(i, m)
    BY DEF PlcInv, SeenOK
  <2>2. m \in 0..polls'[i]
    BY <1>5
  <2>3. Knows(i, m)'
    BY <2>1 DEF Knows, readerVars, CounterOf
  <2> QED BY <2>2, <2>3
<1> QED BY <1>3, <1>6, <1>7, <1>8, <1>9, <1>10 DEF PlcInv

LEMMA PollSucceedsInv ==
  ASSUME PlcInv, NEW v \in Values, PollSucceeds(v)
  PROVE  PlcInv'
<1> DEFINE e == Current
           n == polls[e] + 1
           words == Append(reads, v)
           d == [fails |-> 0, counter |-> CounterOf(n), everOk |-> TRUE]
<1>1. e \in Equip /\ e \in due
  <2>1. due \subseteq Equip /\ due # {}
    BY DEF PollSucceeds, PlcInv, TypeOK
  <2> QED BY <2>1, CurrentIsDue
<1> HIDE DEF e
<1>2. n \in 0..MaxPolls /\ n > polls[e] /\ n > 0 /\ polls[e] \in Nat
  <2>1. polls[e] \in 0..MaxPolls /\ polls[e] < MaxPolls /\ MaxPolls \in Nat
    BY <1>1, ConstantsAssumption DEF PollSucceeds, PlcInv, TypeOK, e
  <2> QED BY <2>1
<1>3. words \in [Groups -> Values \cup {0}]
  <2>1. reads \in Seq(Values) /\ Len(reads) = NGroups - 1 /\ NGroups \in Nat
    BY ConstantsAssumption DEF PollSucceeds, PlcInv, TypeOK
  <2>2. words \in Seq(Values) /\ Len(words) = NGroups
    BY <2>1
  <2> HIDE DEF words
  <2>3. words \in [Groups -> Values]
    BY <2>2 DEF Groups
  <2> QED BY <2>3
<1>4. DiagPoll(diag[e], TRUE) = d
  <2>1. diag[e].counter = CounterOf(polls[e])
    BY <1>1 DEF PlcInv, DiagOK
  <2> QED BY <1>2, <2>1, CounterNext DEF DiagPoll
<1>5. diag' = [diag EXCEPT ![e] = d] /\ diag'[e] = d
  BY <1>1, <1>4 DEF PollSucceeds, e, PlcInv, TypeOK
<1>6. CounterOf(n) \in 0..(CounterMod - 1)
  BY <1>2, CounterRange
<1>7. /\ d \in DiagType /\ d.fails = 0 /\ d.counter = CounterOf(n)
      /\ d.everOk = TRUE
  BY <1>6 DEF DiagType
<1> HIDE DEF d
<1>8. PICK s \in Status(d) :
        mem' = [mem EXCEPT ![e] = [status |-> s, fails |-> d.fails, vals |-> words, counter |-> d.counter]]
  BY <1>5 DEF PollSucceeds, e
<1>9. s \in StatusCode /\ s # STATUS_DOWN
  <2>1. ~(0 >= DownAfter)
    BY ConstantsAssumption
  <2> QED BY <1>7, <2>1, StatusMeaning
<1> DEFINE b == [status |-> s, fails |-> 0, vals |-> words, counter |-> CounterOf(n)]
           f == 0
<1>10. b \in Block /\ b.counter = CounterOf(n) /\ b.vals = words /\ b.status # STATUS_DOWN
  BY <1>3, <1>6, <1>9 DEF Block
<1>11. mem' = [mem EXCEPT ![e] = b]
  BY <1>7, <1>8
<1>12. /\ polls' = [polls EXCEPT ![e] = n] /\ missed' = [missed EXCEPT ![e] = f]
       /\ got' = [got EXCEPT ![e] = words]
       /\ PollEnds(e) /\ UNCHANGED <<running, readerVars, emits, faults>>
  BY DEF PollSucceeds, e
<1>13. /\ f \in Nat /\ ~(f >= DownAfter) /\ n # 0 /\ n >= polls[e]
       /\ d.fails = f /\ (d.everOk <=> n > 0)
  BY <1>2, <1>7, ConstantsAssumption
<1> HIDE DEF n, words, b, f
<1> QED BY <1>1, <1>2, <1>3, <1>5, <1>7, <1>10, <1>11, <1>12, <1>13, PollEndsInv

LEMMA PollFailsInv ==
  ASSUME PlcInv, PollFails
  PROVE  PlcInv'
<1> DEFINE e == Current
           n == polls[e]
           f == missed[e] + 1
           d == [fails |-> f, counter |-> CounterOf(n), everOk |-> n > 0]
<1>1. e \in Equip /\ e \in due
  <2>1. due \subseteq Equip /\ due # {}
    BY DEF PollFails, PlcInv, TypeOK
  <2> QED BY <2>1, CurrentIsDue
<1> HIDE DEF e
<1>2. /\ n \in 0..MaxPolls /\ f \in Nat /\ f > 0 /\ mem \in [Equip -> Block] /\ mem[e] \in Block
      /\ diag \in [Equip -> [fails : Nat, counter : 0..(CounterMod - 1), everOk : BOOLEAN]]
      /\ polls \in [Equip -> 0..MaxPolls] /\ got \in [Equip -> [Groups -> Values \cup {0}]]
  BY <1>1 DEF PlcInv, TypeOK
<1>3. DiagPoll(diag[e], FALSE) = d
  <2>1. /\ diag[e].fails = missed[e] /\ diag[e].counter = CounterOf(n)
        /\ diag[e].everOk <=> n > 0
        /\ diag[e] \in [fails : Nat, counter : 0..(CounterMod - 1), everOk : BOOLEAN]
    BY <1>1, <1>2 DEF PlcInv, DiagOK
  <2>2. DiagPoll(diag[e], FALSE) = [diag[e] EXCEPT !.fails = missed[e] + 1]
    BY <2>1 DEF DiagPoll
  <2>3. diag[e].everOk = (n > 0)
    BY <2>1
  <2> QED BY <2>1, <2>2, <2>3
<1>4. diag' = [diag EXCEPT ![e] = d] /\ diag'[e] = d
  BY <1>1, <1>2, <1>3 DEF PollFails, e
<1>13. /\ d \in DiagType /\ d.fails = f /\ d.counter = CounterOf(n)
       /\ (d.everOk <=> n > 0)
  <2>1. CounterOf(n) \in 0..(CounterMod - 1)
    BY <1>2, ConstantsAssumption, CounterRange
  <2> DEFINE ok == n > 0
  <2>2. ok \in BOOLEAN
    OBVIOUS
  <2>3. d = [fails |-> f, counter |-> CounterOf(n), everOk |-> ok]
    OBVIOUS
  <2> HIDE DEF d, ok, f, n
  <2>4. d \in DiagType /\ d.fails = f /\ d.counter = CounterOf(n) /\ d.everOk = ok
    BY <1>2, <2>1, <2>2, <2>3 DEF DiagType
  <2> QED BY <2>4 DEF ok
<1> HIDE DEF d
<1>5. PICK s \in Status(d) :
        mem' = [mem EXCEPT ![e].status = s, ![e].fails = d.fails, ![e].vals = ValuesKept(@)]
  BY <1>4 DEF PollFails, e
<1>6. s \in StatusCode /\ (s = STATUS_DOWN <=> ~(n > 0) \/ f >= DownAfter)
  <2> HIDE DEF n, f
  <2> QED BY <1>13, StatusMeaning
<1> DEFINE b == [mem[e] EXCEPT !.status = s, !.fails = f]
<1>7. b \in Block /\ b.counter = mem[e].counter /\ b.vals = mem[e].vals /\ b.status = s
  BY <1>2, <1>6 DEF Block
<1>8. mem' = [mem EXCEPT ![e] = b]
  BY <1>2, <1>5, <1>13 DEF ValuesKept, Block
<1>9. /\ missed' = [missed EXCEPT ![e] = f]
      /\ PollEnds(e) /\ UNCHANGED <<running, readerVars, emits, faults>>
  BY DEF PollFails, e
<1>10. polls' = [polls EXCEPT ![e] = n] /\ got' = [got EXCEPT ![e] = got[e]]
  <2>1. polls' = polls /\ got' = got
    BY DEF PollFails
  <2> QED BY <1>2, <2>1
<1>11. b.counter = CounterOf(n) /\ b.vals = got[e] /\ got[e] \in [Groups -> Values \cup {0}]
  BY <1>1, <1>2, <1>7 DEF PlcInv, DiagOK, BlockWhole
<1>12. n >= polls[e] /\ (b.status = STATUS_DOWN <=> n = 0 \/ f >= DownAfter)
  BY <1>2, <1>6, <1>7
<1> DEFINE g == got[e]
<1>14. g \in [Groups -> Values \cup {0}] /\ got' = [got EXCEPT ![e] = g] /\ b.vals = g
  BY <1>10, <1>11
<1> HIDE DEF n, f, b, g
<1>15. polls' = [polls EXCEPT ![e] = n] /\ b.counter = CounterOf(n)
  BY <1>10, <1>11
<1> QED BY <1>1, <1>2, <1>4, <1>7, <1>8, <1>9, <1>12, <1>13, <1>14, <1>15, PollEndsInv

-----------------------------------------------------------------------------
(* The reader. *)

\* What one request of the reader brings.
LEMMA AnsweredProperties ==
  ASSUME PlcInv
  PROVE  /\ Answered(rpos) \in [Equip -> SnapType]
         /\ \A e \in Equip :
              /\ Answered(rpos)[e].n <= polls[e]
              /\ Answered(rpos)[e].counter = CounterOf(Answered(rpos)[e].n)
              /\ RangeOf(e) = rpos => Answered(rpos)[e].n = polls[e]
              /\ RangeOf(e) # rpos => Answered(rpos)[e] = snap[e]
<1> DEFINE new(e) == [status |-> mem[e].status, counter |-> mem[e].counter, n |-> polls[e]]
           s == Answered(rpos)
<1>1. ASSUME NEW e \in Equip PROVE new(e) \in SnapType /\ snap[e] \in SnapType
  BY DEF PlcInv, TypeOK, Block, SnapType
<1>2. /\ DOMAIN s = Equip
      /\ \A e \in Equip : s[e] = IF RangeOf(e) = rpos THEN new(e) ELSE snap[e]
      /\ s = [e \in Equip |-> s[e]]
  BY DEF Answered
<1>3. \A e \in Equip : /\ new(e).n = polls[e]
                       /\ new(e).counter = CounterOf(polls[e])
                       /\ polls[e] \in 0..MaxPolls
  BY DEF PlcInv, DiagOK, TypeOK
<1> HIDE DEF new, s
<1>4. s \in [Equip -> SnapType]
  BY <1>1, <1>2
<1>5. ASSUME NEW e \in Equip
      PROVE  /\ s[e].n <= polls[e] /\ s[e].counter = CounterOf(s[e].n)
             /\ RangeOf(e) = rpos => s[e].n = polls[e]
             /\ RangeOf(e) # rpos => s[e] = snap[e]
  BY <1>2, <1>3, ConstantsAssumption DEF PlcInv, SnapOK
<1> QED BY <1>4, <1>5 DEF s

\* The reader's steps leave the books of the PLC alone.
LEMMA ReaderStepInv ==
  ASSUME PlcInv, UNCHANGED <<mem, diag, polls, missed, got>>
  PROVE  DiagOK' /\ BlockWhole' /\ StatusTruthful'
BY DEF PlcInv, DiagOK, BlockWhole, StatusTruthful, CounterOf

LEMMA ReaderStartsInv ==
  ASSUME PlcInv, ReaderStarts
  PROVE  PlcInv'
<1> USE DEF plcVars, scanVars, histVars
<1>1. DiagOK' /\ BlockWhole' /\ StatusTruthful'
  BY ReaderStepInv DEF ReaderStarts
<1>2. TypeOK' /\ SnapOK'
  BY ConstantsAssumption DEF PlcInv, ReaderStarts, TypeOK, SnapOK
<1>3. \A e \in Equip : ~(rpos' > RangeOf(e))
  BY ConstantsAssumption DEF ReaderStarts
<1>4. SeenOK'
  BY <1>3 DEF PlcInv, ReaderStarts, SeenOK, Knows
<1> QED BY <1>1, <1>2, <1>4 DEF PlcInv

LEMMA RangeReadInv ==
  ASSUME PlcInv, RangeRead
  PROVE  PlcInv'
<1> USE DEF plcVars, scanVars, histVars
<1> DEFINE s == Answered(rpos)
<1>1. DiagOK' /\ BlockWhole' /\ StatusTruthful'
  BY ReaderStepInv DEF RangeRead
<1>2. /\ s \in [Equip -> SnapType]
      /\ \A e \in Equip :
           /\ s[e].n <= polls[e] /\ s[e].counter = CounterOf(s[e].n)
           /\ RangeOf(e) = rpos => s[e].n = polls[e]
           /\ RangeOf(e) # rpos => s[e] = snap[e]
  BY AnsweredProperties
<1>3. /\ snap' = s /\ rpos \in 1..(NRanges - 1) /\ rpos' = rpos + 1
      /\ UNCHANGED <<mem, diag, running, due, reads, attempt, seen, shown, linkOk,
                     polls, missed, got, emits, faults>>
  BY DEF RangeRead
<1> HIDE DEF s
<1>4. TypeOK'
  BY <1>2, <1>3, ConstantsAssumption DEF PlcInv, TypeOK, SnapType
<1>5. SnapOK'
  BY <1>2, <1>3 DEF SnapOK, CounterOf
<1>6. SeenOK'
  <2> SUFFICES ASSUME NEW e \in Equip PROVE \E m \in 0..polls[e] : Knows(e, m)'
    BY <1>3 DEF SeenOK
  <2>1. PICK m \in 0..polls[e] : Knows(e, m)
    BY DEF PlcInv, SeenOK
  <2>2. polls[e] \in Nat /\ RangeOf(e) \in 1..NRanges /\ NRanges \in Nat
    BY ConstantsAssumption DEF PlcInv, TypeOK
  <2>3. rpos' > RangeOf(e) => snap'[e].n >= m
    <3>1. CASE RangeOf(e) = rpos
      BY <1>2, <1>3, <2>2, <3>1
    <3>2. CASE RangeOf(e) # rpos
      BY <1>2, <1>3, <2>1, <2>2, <3>2 DEF Knows
    <3> QED BY <3>1, <3>2
  <2>4. Knows(e, m)'
    BY <1>3, <2>1, <2>3 DEF Knows, CounterOf
  <2> QED BY <2>4
<1> QED BY <1>1, <1>4, <1>5, <1>6 DEF PlcInv

\* What the last request of a poll of the reader does to the books of one
\* device: nothing new, or a sample of a later success.
LEMMA Consumed ==
  ASSUME PlcInv, ReaderEnds, NEW e \in Equip
  PROVE  LET n == Answered(NRanges)[e].n IN
         \E m \in 0..polls[e] :
           /\ Knows(e, m) /\ n \in m..polls[e]
           /\ \/ /\ CounterOf(n) = CounterOf(m) /\ seen'[e] = seen[e] /\ emits'[e] = emits[e]
              \/ /\ n > m /\ CounterOf(n) # CounterOf(m) /\ seen'[e] = CounterOf(n)
                 /\ emits'[e] = [emits[e] EXCEPT ![n] = 1]
<1> DEFINE s == Answered(rpos)
           n == s[e].n
<1>1. rpos = NRanges
  BY DEF ReaderEnds
<1>2. /\ s \in [Equip -> SnapType]
      /\ n <= polls[e] /\ s[e].counter = CounterOf(n)
      /\ RangeOf(e) = rpos => n = polls[e]
      /\ RangeOf(e) # rpos => s[e] = snap[e]
  BY AnsweredProperties
<1>3. PICK m \in 0..polls[e] : Knows(e, m)
  BY DEF PlcInv, SeenOK
<1>4. /\ polls[e] \in 0..MaxPolls /\ MaxPolls \in Nat /\ RangeOf(e) \in 1..NRanges /\ NRanges \in Nat
      /\ emits[e] \in [Polls -> Nat] /\ seen[e] = CounterOf(m)
  BY <1>3, ConstantsAssumption DEF PlcInv, TypeOK, Knows
<1>5. n \in Nat
  <2>1. s[e] \in SnapType
    BY <1>2
  <2> QED BY <2>1, <1>4 DEF SnapType
<1>6. n >= m
  <2>1. CASE RangeOf(e) = rpos
    BY <1>2, <1>4, <2>1
  <2>2. CASE RangeOf(e) # rpos
    BY <1>1, <1>2, <1>3, <1>4, <2>2 DEF Knows
  <2> QED BY <2>1, <2>2
<1>7. /\ seen'[e] = IF e \in Emitted(s) THEN s[e].counter ELSE seen[e]
      /\ emits'[e] = [i \in Polls |-> emits[e][i] + (IF e \in Emitted(s) /\ n = i THEN 1 ELSE 0)]
  BY DEF ReaderEnds, Count
<1>8. e \in Emitted(s) <=> CounterOf(n) # 0 /\ CounterOf(n) # CounterOf(m)
  BY <1>2, <1>4 DEF Emitted, Changed
<1>9. (n = 0 <=> CounterOf(n) = 0) /\ (m = 0 <=> CounterOf(m) = 0)
  BY <1>4, <1>5, CounterRange
<1> HIDE DEF s, n
<1>10. CASE e \in Emitted(s)
  <2>1. n > m /\ n \in Polls /\ CounterOf(n) # CounterOf(m)
    BY <1>2, <1>4, <1>5, <1>6, <1>8, <1>10 DEF Polls
  <2>2. emits[e][n] = 0
    BY <1>3, <2>1 DEF Knows
  <2>3. emits'[e] = [emits[e] EXCEPT ![n] = 1]
    BY <1>4, <1>7, <1>10, <2>1, <2>2
  <2>4. seen'[e] = CounterOf(n)
    BY <1>2, <1>7, <1>10
  <2> QED BY <1>1, <1>2, <1>3, <1>4, <1>5, <1>6, <2>1, <2>3, <2>4 DEF s, n
<1>11. CASE e \notin Emitted(s)
  <2>1. seen'[e] = seen[e]
    BY <1>7, <1>11
  <2>2. emits'[e] = emits[e]
    BY <1>4, <1>7, <1>11
  <2>3. CounterOf(n) = CounterOf(m)
    BY <1>4, <1>5, <1>6, <1>8, <1>9, <1>11
  <2> QED BY <1>1, <1>2, <1>3, <1>4, <1>5, <1>6, <2>1, <2>2, <2>3 DEF s, n
<1> QED BY <1>10, <1>11

LEMMA ReaderEndsInv ==
  ASSUME PlcInv, ReaderEnds
  PROVE  PlcInv'
<1> USE DEF plcVars, scanVars
<1>1. DiagOK' /\ BlockWhole' /\ StatusTruthful'
  BY ReaderStepInv DEF ReaderEnds
<1>2. /\ rpos = NRanges /\ rpos' = 0 /\ snap' = NoSnap /\ linkOk' = TRUE
      /\ UNCHANGED <<mem, diag, running, due, reads, attempt, polls, missed, got, faults>>
  BY DEF ReaderEnds
<1>3. \A e \in Equip : polls[e] \in 0..MaxPolls /\ RangeOf(e) \in Nat
  BY ConstantsAssumption DEF PlcInv, TypeOK
<1>4. TypeOK'
  <2> DEFINE s == Answered(rpos)
  <2>1. s \in [Equip -> SnapType]
    BY AnsweredProperties
  <2>2. shown' \in [Equip -> StatusCode]
    <3>1. shown' = [e \in Equip |-> s[e].status]
      BY DEF ReaderEnds
    <3> HIDE DEF s
    <3> QED BY <2>1, <3>1 DEF SnapType
  <2>3. seen' \in [Equip -> 0..(CounterMod - 1)]
    <3>1. seen' = [e \in Equip |-> IF e \in Emitted(s) THEN s[e].counter ELSE seen[e]]
      BY DEF ReaderEnds
    <3> HIDE DEF s
    <3> QED BY <2>1, <3>1 DEF SnapType, PlcInv, TypeOK
  <2>4. emits' \in [Equip -> [Polls -> Nat]]
    <3>1. emits' = Count(emits, s)
      BY DEF ReaderEnds
    <3>2. \A e \in Equip, n \in Polls : emits[e][n] \in Nat
      BY DEF PlcInv, TypeOK
    <3> HIDE DEF s
    <3> QED BY <3>1, <3>2 DEF Count
  <2>5. rpos' \in 0..NRanges
    BY <1>2, ConstantsAssumption
  <2>6. snap' \in [Equip -> SnapType]
    BY <1>2, NoSnapType
  <2> QED BY <1>2, <2>2, <2>3, <2>4, <2>5, <2>6 DEF PlcInv, TypeOK, SnapType
<1>5. SnapOK'
  BY <1>2, <1>3 DEF SnapOK, NoSnap, CounterOf
<1>6. SeenOK'
  <2> SUFFICES ASSUME NEW e \in Equip PROVE \E m \in 0..polls[e] : Knows(e, m)'
    BY <1>2 DEF SeenOK
  <2> DEFINE n == Answered(NRanges)[e].n
  <2>1. PICK m \in 0..polls[e] :
          /\ Knows(e, m) /\ n \in m..polls[e]
          /\ \/ /\ CounterOf(n) = CounterOf(m) /\ seen'[e] = seen[e] /\ emits'[e] = emits[e]
             \/ /\ n > m /\ CounterOf(n) # CounterOf(m) /\ seen'[e] = CounterOf(n)
                /\ emits'[e] = [emits[e] EXCEPT ![n] = 1]
    BY Consumed
  <2> HIDE DEF n
  <2>2. ~(rpos' > RangeOf(e))
    BY <1>2, <1>3
  <2>3. CASE seen'[e] = seen[e] /\ emits'[e] = emits[e]
    BY <2>1, <2>2, <2>3 DEF Knows
  <2>4. CASE n > m /\ seen'[e] = CounterOf(n) /\ emits'[e] = [emits[e] EXCEPT ![n] = 1]
    <3> DEFINE P == emits[e]
    <3>1. PICK k \in 0..polls[e] : k = n
      BY <1>3, <2>1
    <3>2. k \in Polls /\ k \in Nat /\ m \in Nat /\ k > m
      BY <1>3, <2>1, <2>4, <3>1, ConstantsAssumption DEF Polls
    <3>3. P \in [Polls -> Nat] /\ emits'[e] = [P EXCEPT ![k] = 1]
      BY <2>4, <3>1 DEF PlcInv, TypeOK
    <3>4. ASSUME NEW i \in Polls PROVE emits'[e][i] <= 1 /\ (i > k => emits'[e][i] = 0)
      <4>1. P[i] <= 1 /\ (i > m => P[i] = 0)
        BY <2>1 DEF Knows
      <4>2. i > k => i > m
        BY <3>2 DEF Polls
      <4> HIDE DEF P
      <4> QED BY <3>2, <3>3, <4>1, <4>2
    <3>5. emits'[e][k] = 1
      <4> HIDE DEF P
      <4> QED BY <3>2, <3>3
    <3>6. seen'[e] = CounterOf(k)
      BY <2>4, <3>1
    <3>7. Knows(e, k)'
      BY <2>2, <3>4, <3>5, <3>6 DEF Knows, CounterOf, Cycle
    <3> QED BY <3>7
  <2> QED BY <2>1, <2>3, <2>4
<1> QED BY <1>1, <1>4, <1>5, <1>6 DEF PlcInv

LEMMA ReaderFailsInv ==
  ASSUME PlcInv, ReaderFails
  PROVE  PlcInv'
<1> USE DEF plcVars, scanVars, histVars
<1>1. DiagOK' /\ BlockWhole' /\ StatusTruthful'
  BY ReaderStepInv DEF ReaderFails
<1>2. rpos' = 0 /\ snap' = NoSnap /\ linkOk' = FALSE
  BY DEF ReaderFails
<1>3. snap' \in [Equip -> SnapType] /\ rpos' \in 0..NRanges /\ \A e \in Equip : RangeOf(e) \in Nat
  BY <1>2, NoSnapType, ConstantsAssumption
<1>4. TypeOK'
  BY <1>3 DEF PlcInv, ReaderFails, TypeOK, SnapType
<1>5. SnapOK'
  BY ConstantsAssumption DEF PlcInv, TypeOK, ReaderFails, SnapOK, NoSnap, CounterOf
<1>6. SeenOK'
  BY <1>2, <1>3 DEF PlcInv, ReaderFails, SeenOK, Knows
<1> QED BY <1>1, <1>4, <1>5, <1>6 DEF PlcInv

\* A new collector has seen nothing and has made no sample.
LEMMA RestartEdgeInv ==
  ASSUME PlcInv, RestartEdge
  PROVE  PlcInv'
<1> USE DEF plcVars, scanVars
<1>1. DiagOK' /\ BlockWhole' /\ StatusTruthful'
  BY ReaderStepInv DEF RestartEdge
<1>2. /\ rpos' = 0 /\ snap' = NoSnap /\ linkOk' = FALSE
      /\ seen' = [e \in Equip |-> 0] /\ shown' = [e \in Equip |-> STATUS_DOWN]
      /\ emits' = [e \in Equip |-> [n \in Polls |-> 0]]
      /\ faults' = faults + 1 /\ faults < MaxFaults
      /\ UNCHANGED <<mem, diag, running, due, reads, attempt, polls, missed, got>>
  BY DEF RestartEdge
<1>3. snap' \in [Equip -> SnapType] /\ rpos' \in 0..NRanges
  BY <1>2, NoSnapType, ConstantsAssumption
<1>4. /\ faults' \in 0..MaxFaults /\ 0 \in 0..(CounterMod - 1) /\ STATUS_DOWN \in StatusCode
      /\ \A e \in Equip : polls[e] \in Nat /\ RangeOf(e) \in Nat
  BY <1>2, ConstantsAssumption DEF PlcInv, TypeOK, StatusCode
<1>5. TypeOK'
  <2>1. seen' \in [Equip -> 0..(CounterMod - 1)] /\ shown' \in [Equip -> StatusCode]
        /\ emits' \in [Equip -> [Polls -> Nat]]
    BY <1>2, <1>4
  <2> QED BY <1>2, <1>3, <1>4, <2>1 DEF PlcInv, TypeOK, SnapType
<1>6. SnapOK'
  BY <1>2, <1>4 DEF SnapOK, NoSnap, CounterOf
<1>7. SeenOK'
  <2>1. ASSUME NEW e \in Equip PROVE 0 \in 0..polls'[e] /\ Knows(e, 0)'
    <3>1. CounterOf(0) = 0
      BY DEF CounterOf
    <3> QED BY <1>2, <1>4, <3>1 DEF Knows, CounterOf
  <2> QED BY <2>1 DEF SeenOK
<1> QED BY <1>1, <1>5, <1>6, <1>7 DEF PlcInv

-----------------------------------------------------------------------------
LEMMA NextPlcInv == PlcInv /\ [Next]_vars => PlcInv'
<1> SUFFICES ASSUME PlcInv, [Next]_vars PROVE PlcInv'
  OBVIOUS
<1> USE DEF plcVars, scanVars, histVars
<1>1. /\ running \in BOOLEAN /\ due \subseteq Equip /\ reads \in Seq(Values)
      /\ Len(reads) \in Nat /\ Len(reads) < NGroups /\ attempt \in 0..Retries /\ faults \in 0..MaxFaults
      /\ NGroups \in Nat \ {0} /\ Retries \in Nat /\ MaxFaults \in Nat
      /\ <<>> \in Seq(Values) /\ Len(<<>>) = 0
  BY ConstantsAssumption DEF PlcInv, TypeOK
<1>2. CASE ScanRound
  BY <1>1, <1>2, ScanStepInv DEF ScanRound
<1>3. ASSUME NEW v \in Values, ReadGroup(v) PROVE PlcInv'
  <2>1. reads' \in Seq(Values) /\ Len(reads') < NGroups
    BY <1>1, <1>3 DEF ReadGroup
  <2> QED BY <1>1, <1>3, <2>1, ScanStepInv DEF ReadGroup
<1>4. ASSUME NEW v \in Values, PollSucceeds(v) PROVE PlcInv'
  BY <1>4, PollSucceedsInv
<1>5. CASE AttemptFails
  BY <1>1, <1>5, ScanStepInv DEF AttemptFails
<1>6. CASE PollFails
  BY <1>6, PollFailsInv
<1>7. CASE StopPlc
  <2>1. faults' \in 0..MaxFaults /\ running' \in BOOLEAN
    <3>1. faults < MaxFaults /\ faults' = faults + 1
      BY <1>7, Zenon DEF StopPlc
    <3>2. faults \in 0..MaxFaults /\ MaxFaults \in Nat
      BY <1>1
    <3>3. faults' \in 0..MaxFaults
      BY <3>1, <3>2
    <3>4. running' \in BOOLEAN
      BY <1>7, Zenon DEF StopPlc
    <3> QED BY <3>3, <3>4
  <2>2. due' \subseteq Equip /\ reads' \in Seq(Values) /\ Len(reads') < NGroups /\ attempt' \in 0..Retries
    BY <1>1, <1>7 DEF StopPlc
  <2> QED BY <1>7, <2>1, <2>2, ScanStepInv DEF StopPlc
<1>8. CASE StartPlc
  BY <1>1, <1>8, ScanStepInv DEF StartPlc
<1>9. CASE ReaderStarts
  BY <1>9, ReaderStartsInv
<1>10. CASE RangeRead
  BY <1>10, RangeReadInv
<1>11. CASE ReaderEnds
  BY <1>11, ReaderEndsInv
<1>12. CASE ReaderFails
  BY <1>12, ReaderFailsInv
<1>13. CASE RestartEdge
  BY <1>13, RestartEdgeInv
<1>14. CASE UNCHANGED vars
  BY <1>1, <1>14, ScanStepInv DEF vars
<1> QED BY <1>2, <1>3, <1>4, <1>5, <1>6, <1>7, <1>8, <1>9, <1>10, <1>11, <1>12, <1>13, <1>14 DEF Next

\* The inductive invariant: PLC and collector agree on which success a counter
\* value stands for.
THEOREM PlcInvariance == Spec => []PlcInv
BY InitPlcInv, NextPlcInv, PTL DEF Spec

\* D area, scanner and reader keep their types.
THEOREM PlcTypes == Spec => []TypeOK
<1>1. PlcInv => TypeOK
  BY DEF PlcInv
<1> QED BY <1>1, PlcInvariance, PTL

\* The values of a block are those of the last complete poll of its device.
THEOREM BlocksAreWhole == Spec => []BlockWhole
<1>1. PlcInv => BlockWhole
  BY DEF PlcInv
<1> QED BY <1>1, PlcInvariance, PTL

\* The status of a block says DOWN exactly when the last polls have failed.
THEOREM StatusIsTruthful == Spec => []StatusTruthful
<1>1. PlcInv => StatusTruthful
  BY DEF PlcInv
<1> QED BY <1>1, PlcInvariance, PTL

\* No success becomes two samples of one collector, for any width of the
\* counter: values repeat, but never without a new success in between.
THEOREM SamplesAreNotRepeated == Spec => []SampledOnce
<1>1. PlcInv => SampledOnce
  BY DEF PlcInv, SeenOK, Knows, SampledOnce
<1> QED BY <1>1, PlcInvariance, PTL

\* The end of a reader's poll takes every new success, except after exactly
\* whole cycles of the counter.
LEMMA NoticedStep ==
  ASSUME PlcInv, Next, NEW e \in Equip, rpos = NRanges, rpos' = 0, linkOk',
         Answered(NRanges)[e].n > 0,
         \A u \in Used(e) : Answered(NRanges)[e].n > u /\ Answered(NRanges)[e].n < u + CounterMod - 1
  PROVE  emits'[e][Answered(NRanges)[e].n] = 1
<1> DEFINE n == Answered(NRanges)[e].n
<1>1. ReaderEnds
  <2>1. NRanges # 0 /\ NRanges \notin 1..(NRanges - 1) /\ rpos' # rpos
    BY ConstantsAssumption
  <2>2. ~ScanRound /\ ~AttemptFails /\ ~PollFails /\ ~StopPlc /\ ~StartPlc
    BY <2>1 DEF ScanRound, AttemptFails, PollFails, StopPlc, StartPlc, readerVars
  <2>3. \A v \in Values : ~ReadGroup(v) /\ ~PollSucceeds(v)
    BY <2>1 DEF ReadGroup, PollSucceeds, readerVars
  <2>4. ~ReaderStarts /\ ~RangeRead
    BY <2>1, Zenon DEF ReaderStarts, RangeRead
  <2>5. ~ReaderFails /\ ~RestartEdge
    BY Zenon DEF ReaderFails, RestartEdge
  <2> QED BY <2>2, <2>3, <2>4, <2>5 DEF Next
<1>2. PICK m \in 0..polls[e] :
        /\ Knows(e, m) /\ n \in m..polls[e]
        /\ \/ /\ CounterOf(n) = CounterOf(m) /\ seen'[e] = seen[e] /\ emits'[e] = emits[e]
           \/ /\ n > m /\ CounterOf(n) # CounterOf(m) /\ seen'[e] = CounterOf(n)
              /\ emits'[e] = [emits[e] EXCEPT ![n] = 1]
  BY <1>1, Consumed
<1>3. /\ polls[e] \in 0..MaxPolls /\ MaxPolls \in Nat /\ emits[e] \in [Polls -> Nat]
      /\ CounterMod \in Nat /\ Cycle = CounterMod - 1
  BY ConstantsAssumption DEF PlcInv, TypeOK, Cycle
<1>4. m > 0 => m \in Used(e)
  BY <1>2, <1>3 DEF Knows, Used, Polls
<1>5. m > 0 => n > m /\ n < m + Cycle
  BY <1>3, <1>4
<1> HIDE DEF n
<1>6. n > 0 /\ n \in Nat /\ n \in Polls /\ m \in Nat
  BY <1>2, <1>3 DEF n, Polls
<1>7. CounterOf(n) # CounterOf(m)
  <2>1. CASE m = 0
    <3>1. CounterOf(m) = 0 /\ CounterOf(n) # 0
      BY <1>6, <2>1, CounterRange
    <3> QED BY <3>1
  <2>2. CASE m # 0
    <3>1. m \in Nat \ {0}
      BY <1>6, <2>2
    <3> QED BY <1>5, <1>6, <3>1, CounterApart
  <2> QED BY <2>1, <2>2
<1>8. emits'[e] = [emits[e] EXCEPT ![n] = 1]
  BY <1>2, <1>7
<1> QED BY <1>3, <1>6, <1>8 DEF n

\* A reader's poll never overlooks a success, unless the counter has gone round.
THEOREM SuccessesAreNoticed == Spec => SuccessNoticed
<1>1. PlcInv /\ [Next]_vars =>
        [\A e \in Equip :
           LET n == Answered(NRanges)[e].n IN
           /\ rpos = NRanges /\ rpos' = 0 /\ linkOk'
           /\ n > 0
           /\ \A u \in Used(e) : n > u /\ n < u + CounterMod - 1
           => emits'[e][n] = 1]_vars
  BY NoticedStep
<1> QED BY <1>1, PlcInvariance, PTL DEF Spec, SuccessNoticed

=============================================================================
