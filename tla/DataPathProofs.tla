--------------------------- MODULE DataPathProofs ---------------------------
(***************************************************************************)
(* Proofs about ReadPlan and DataPath, for every memory map, any sizes of  *)
(* blocks and requests and any even number of values of a word.            *)
(***************************************************************************)
EXTENDS DataPath, SequenceTheorems, WellFoundedInduction, TLAPS

\* A block is never read in two requests because ranges are merged from low to
\* high, and what is still to be merged lies behind them.
PlanInv ==
  /\ TypeOK /\ ValidMap(bases, diag) /\ todo \subseteq bases \cup {diag}
  /\ ReadWhole /\ RequestsFit /\ TodoBehind

LEMMA InitPlanInv == Init => PlanInv
<1> SUFFICES ASSUME Init PROVE PlanInv
  OBVIOUS
<1>1. merged = <<>> /\ Len(merged) = 0 /\ merged \in Seq([from : Nat, to : Nat])
  BY EmptySeq DEF Init
<1>2. TypeOK /\ ValidMap(bases, diag) /\ todo = bases \cup {diag}
  BY <1>1 DEF Init, TypeOK
<1>3. ReadWhole /\ RequestsFit /\ TodoBehind
  BY <1>1, <1>2 DEF ReadWhole, RequestsFit, TodoBehind
<1> QED BY <1>2, <1>3 DEF PlanInv

\* The span of the lowest start address that is left: where it ends, and that
\* everything else that is left lies behind it.
LEMMA NextSpan ==
  ASSUME PlanInv, NEW a \in todo, \A c \in todo : a <= c
  PROVE  /\ a \in Nat /\ SpanEnd(a) \in Nat
         /\ a < SpanEnd(a) /\ SpanEnd(a) - a <= MaxRead
         /\ \A c \in todo \ {a} : c \in Nat /\ SpanEnd(a) <= c
<1>1. /\ todo \subseteq bases \cup {diag} /\ bases \cup {diag} \subseteq Nat
      /\ DiagWords \in Nat /\ BlockWords \in Nat /\ MaxRead \in Nat
      /\ 1 <= DiagWords /\ DiagWords <= BlockWords /\ BlockWords <= MaxRead
  BY ConstantsAssumption DEF PlanInv, TypeOK, Addr
<1>2. a \in Nat /\ SpanEnd(a) \in Nat /\ a < SpanEnd(a) /\ SpanEnd(a) <= a + BlockWords
  BY <1>1 DEF SpanEnd
<1>3. ASSUME NEW c \in todo \ {a} PROVE c \in Nat /\ a + BlockWords <= c
  <2>1. c \in Nat /\ a < c
    BY <1>1, <1>2
  <2> QED BY <1>1, <2>1 DEF PlanInv, ValidMap
<1> QED BY <1>1, <1>2, <1>3

LEMMA MergeSpanInv ==
  ASSUME PlanInv, MergeSpan
  PROVE  PlanInv'
<1> DEFINE R == [from : Nat, to : Nat]
           L == Len(merged)
<1>1. PICK a \in todo :
        /\ \A c \in todo : a <= c
        /\ todo' = todo \ {a}
        /\ IF merged # <<>> /\ Joins(Last(merged), a, SpanEnd(a))
           THEN merged' = [merged EXCEPT ![Len(merged)] = Extended(@, SpanEnd(a))]
           ELSE merged' = Append(merged, [from |-> a, to |-> SpanEnd(a)])
        /\ bases' = bases /\ diag' = diag
  BY DEF MergeSpan
<1> DEFINE b == SpanEnd(a)
<1>2. /\ a \in Nat /\ b \in Nat /\ a < b /\ b - a <= MaxRead
      /\ \A c \in todo \ {a} : c \in Nat /\ b <= c
  BY <1>1, NextSpan
<1>3. /\ merged \in Seq(R) /\ L \in Nat /\ MaxRead \in Nat
      /\ bases \cup {diag} \subseteq Nat /\ todo \subseteq bases \cup {diag}
      /\ \A x \in bases \cup {diag} : SpanEnd(x) \in Nat
  <2>1. MaxRead \in Nat /\ BlockWords \in Nat /\ DiagWords \in Nat /\ Addr \subseteq Nat
    BY ConstantsAssumption DEF Addr
  <2>2. bases \cup {diag} \subseteq Nat /\ todo \subseteq bases \cup {diag} /\ merged \in Seq(R)
    BY <2>1 DEF PlanInv, TypeOK
  <2>3. \A x \in Nat : SpanEnd(x) \in Nat
    BY <2>1 DEF SpanEnd
  <2>4. L \in Nat
    BY <2>2, LenProperties
  <2> QED BY <2>1, <2>2, <2>3, <2>4
<1>4. \A i \in 1..L : /\ merged[i] \in R /\ merged[i].from \in Nat /\ merged[i].to \in Nat
                      /\ merged[i].from < merged[i].to
                      /\ merged[i].to - merged[i].from <= MaxRead /\ merged[i].to <= a
  <2> SUFFICES ASSUME NEW i \in 1..L
               PROVE  /\ merged[i] \in R /\ merged[i].from \in Nat /\ merged[i].to \in Nat
                      /\ merged[i].from < merged[i].to
                      /\ merged[i].to - merged[i].from <= MaxRead /\ merged[i].to <= a
    OBVIOUS
  <2>1. merged[i] \in R
    BY <1>3, ElementOfSeq
  <2>2. merged[i].from < merged[i].to /\ merged[i].to - merged[i].from <= MaxRead
    BY DEF PlanInv, RequestsFit
  <2>3. merged[i].to <= a
    BY DEF PlanInv, TodoBehind
  <2> QED BY <2>1, <2>2, <2>3
<1>5. \A i, j \in 1..L : i < j => merged[i].to <= merged[j].from
  BY DEF PlanInv, RequestsFit
<1>6. \A x \in (bases \cup {diag}) \ todo : \E i \in 1..L : merged[i].from <= x /\ SpanEnd(x) <= merged[i].to
  BY DEF PlanInv, ReadWhole
<1> HIDE DEF b
\* What the two cases have in common: of the ranges there were, all but the last
\* stay, and the last one there is now holds the span and what it held before.
<1> DEFINE k == Len(merged')
           last == merged'[k]
<1>7. /\ merged' \in Seq(R) /\ k \in {L, L + 1} /\ k >= 1
      /\ last.to = b /\ last.from \in Nat /\ last.from <= a /\ b - last.from <= MaxRead
      /\ \A i \in 1..(k - 1) : merged'[i] = merged[i] /\ merged[i].to <= last.from
      /\ k = L => last.from = merged[k].from
  <2>1. CASE merged # <<>> /\ Joins(Last(merged), a, b)
    <3>1. L \in 1..L /\ Last(merged) = merged[L]
      BY <1>3, <2>1, EmptySeq DEF Last
    <3> DEFINE old == merged[L]
    <3>2. old \in R /\ old.from \in Nat /\ old.to = a /\ b - old.from <= MaxRead /\ old.from < a
      BY <1>2, <1>4, <2>1, <3>1 DEF Joins
    <3> HIDE DEF old
    <3> DEFINE r == Extended(old, b)
    <3>3. r \in R /\ r.from = old.from /\ r.to = b
      BY <1>2, <3>2 DEF Extended
    <3>4. merged' = [merged EXCEPT ![L] = r]
      BY <1>1, <2>1 DEF b, old
    <3> HIDE DEF r
    <3>5. /\ merged' \in Seq(R) /\ k = L /\ last = r
          /\ \A i \in 1..(L - 1) : merged'[i] = merged[i]
      <4>1. DOMAIN merged = 1..L
        BY <1>3, LenProperties
      <4>2. merged' \in Seq(R) /\ Len(merged') = L
        BY <1>3, <3>1, <3>3, <3>4, ExceptSeq
      <4>3. merged'[L] = r /\ \A i \in 1..(L - 1) : merged'[i] = merged[i]
        BY <1>3, <3>1, <3>4, <4>1
      <4> QED BY <4>2, <4>3
    <3>6. \A i \in 1..(L - 1) : merged[i].to <= old.from
      BY <1>3, <1>5, <3>1 DEF old
    <3> HIDE DEF k, last
    <3> QED BY <1>3, <3>1, <3>2, <3>3, <3>5, <3>6 DEF old
  <2>2. CASE ~(merged # <<>> /\ Joins(Last(merged), a, b))
    <3> DEFINE r == [from |-> a, to |-> b]
    <3>1. merged' = Append(merged, r) /\ r \in R /\ r.from = a /\ r.to = b
      BY <1>1, <1>2, <2>2 DEF b
    <3> HIDE DEF r
    <3>2. /\ merged' \in Seq(R) /\ k = L + 1 /\ last = r
          /\ \A i \in 1..L : merged'[i] = merged[i]
      BY <1>3, <3>1, AppendProperties
    <3> HIDE DEF k, last
    <3> QED BY <1>2, <1>3, <1>4, <3>1, <3>2
  <2> QED BY <2>1, <2>2
<1>8. /\ k \in Nat /\ k \in 1..k /\ L \in Nat
      /\ \A i \in 1..k : i = k \/ (i \in 1..(k - 1) /\ i \in 1..L)
      /\ \A i \in 1..L : i = k \/ i \in 1..(k - 1)
  <2> HIDE DEF k, last, L
  <2> QED BY <1>3, <1>7
<1> HIDE DEF last
<1>9. TypeOK' /\ ValidMap(bases, diag)' /\ (todo \subseteq bases \cup {diag})'
  BY <1>1, <1>7 DEF PlanInv, TypeOK, ValidMap
<1>10. RequestsFit'
  <2>1. ASSUME NEW i \in 1..k
        PROVE  merged'[i].from < merged'[i].to /\ merged'[i].to - merged'[i].from <= MaxRead
    <3>1. CASE i = k
      BY <1>2, <1>7, <3>1 DEF last
    <3>2. CASE i # k
      BY <1>4, <1>7, <1>8, <3>2
    <3> QED BY <3>1, <3>2
  <2>2. ASSUME NEW i \in 1..k, NEW j \in 1..k, i < j PROVE merged'[i].to <= merged'[j].from
    <3>1. i # k /\ i \in 1..(k - 1) /\ i \in 1..L
      BY <1>8, <2>2
    <3>2. CASE j = k
      BY <1>7, <3>1, <3>2 DEF last
    <3>3. CASE j # k
      <4>1. j \in 1..(k - 1) /\ j \in 1..L
        BY <1>8, <3>3
      <4> QED BY <1>5, <1>7, <2>2, <3>1, <4>1
    <3> QED BY <3>2, <3>3
  <2> QED BY <2>1, <2>2 DEF RequestsFit
<1>11. TodoBehind'
  <2>1. ASSUME NEW c \in todo', NEW i \in 1..k PROVE merged'[i].to <= c
    <3>1. c \in Nat /\ b <= c
      BY <1>1, <1>2 DEF b
    <3>2. CASE i = k
      BY <1>7, <3>1, <3>2 DEF last
    <3>3. CASE i # k
      <4>1. i \in 1..(k - 1) /\ i \in 1..L
        BY <1>8, <3>3
      <4>2. merged'[i] = merged[i] /\ merged[i].to \in Nat /\ merged[i].to <= a
        BY <1>4, <1>7, <4>1
      <4>3. a \in Nat /\ b \in Nat /\ a < b
        BY <1>2
      <4> QED BY <3>1, <4>2, <4>3
    <3> QED BY <3>2, <3>3
  <2>2. ASSUME NEW x \in (bases \cup {diag}) \ todo', NEW c \in todo' PROVE x < c
    <3>1. CASE x = a
      BY <1>1, <1>2, <3>1
    <3>2. CASE x # a
      BY <1>1, <2>2, <3>2 DEF PlanInv, TodoBehind
    <3> QED BY <3>1, <3>2
  <2> QED BY <1>1, <2>1, <2>2 DEF TodoBehind
<1>12. ReadWhole'
  <2> SUFFICES ASSUME NEW x \in (bases \cup {diag}) \ todo'
               PROVE  \E i \in 1..k : merged'[i].from <= x /\ SpanEnd(x) <= merged'[i].to
    BY <1>1 DEF ReadWhole, SpanEnd
  <2>1. CASE x = a
    <3>1. last.from <= x /\ SpanEnd(x) <= last.to
      BY <1>2, <1>7, <2>1 DEF b
    <3> QED BY <1>8, <3>1 DEF last
  <2>2. CASE x # a
    <3>1. PICK i \in 1..L : merged[i].from <= x /\ SpanEnd(x) <= merged[i].to
      BY <1>1, <1>6, <2>2
    <3>2. CASE i = k
      <4>1. k = L
        BY <1>7, <1>8, <3>1, <3>2
      <4>2. last.from <= x
        BY <1>7, <3>1, <3>2, <4>1
      <4>3. SpanEnd(x) <= last.to
        <5>1. SpanEnd(x) \in Nat
          BY <1>1, <1>3
        <5>2. merged[i].to \in Nat /\ merged[i].to <= a
          BY <1>4
        <5>3. a \in Nat /\ b \in Nat /\ a < b /\ last.to = b
          BY <1>2, <1>7
        <5> QED BY <3>1, <5>1, <5>2, <5>3
      <4> QED BY <1>8, <4>2, <4>3 DEF last
    <3>3. CASE i # k
      <4>1. i \in 1..(k - 1)
        BY <1>8, <3>3
      <4>2. i \in 1..k
        BY <1>8, <4>1
      <4> QED BY <1>7, <3>1, <4>1, <4>2
    <3> QED BY <3>2, <3>3
  <2> QED BY <2>1, <2>2
<1> QED BY <1>9, <1>10, <1>11, <1>12 DEF PlanInv

LEMMA NextPlanInv == PlanInv /\ [MergeSpan]_vars => PlanInv'
<1> SUFFICES ASSUME PlanInv, [MergeSpan]_vars PROVE PlanInv'
  OBVIOUS
<1>1. CASE MergeSpan
  BY <1>1, MergeSpanInv
<1>2. CASE UNCHANGED vars
  BY <1>2 DEF vars, PlanInv, TypeOK, ValidMap, ReadWhole, RequestsFit, TodoBehind, SpanEnd
<1> QED BY <1>1, <1>2

\* The steps of the whole path plan its requests or leave the plan alone.
LEMMA PathPlans == [PathNext]_pathVars => [MergeSpan]_vars
BY DEF PathNext, pathVars, Deliver

\* The plan of the requests, taken by itself and as part of the path.
THEOREM PlanInvariance == (Spec => []PlanInv) /\ (PathSpec => []PlanInv)
<1>1. Next <=> MergeSpan
  BY DEF Next
<1>2. PlanInv /\ [Next]_vars => PlanInv'
  BY <1>1, NextPlanInv
<1>3. Spec => []PlanInv
  BY <1>2, InitPlanInv, PTL DEF Spec
<1>4. PathInit => PlanInv
  BY InitPlanInv DEF PathInit
<1>5. PlanInv /\ [PathNext]_pathVars => PlanInv'
  BY NextPlanInv, PathPlans
<1>6. PathSpec => []PlanInv
  BY <1>4, <1>5, PTL DEF PathSpec
<1> QED BY <1>3, <1>6

\* Values and counter of a block come in one answer, for every valid map.
THEOREM BlocksReadWhole == PathSpec => []ReadWhole
<1>1. PlanInv => ReadWhole
  BY DEF PlanInv
<1>2. PathSpec => []PlanInv
  BY PlanInvariance
<1> QED BY <1>1, <1>2, PTL

\* No request is larger than the PLC answers, and none overlaps another.
THEOREM RequestsAreAnswered == PathSpec => []RequestsFit
<1>1. PlanInv => RequestsFit
  BY DEF PlanInv
<1>2. PathSpec => []PlanInv
  BY PlanInvariance
<1> QED BY <1>1, <1>2, PTL

-----------------------------------------------------------------------------
(* encode_value and decode_value.                                          *)

LEMMA WordHalves ==
  \E h \in Nat \ {0} : Word = 2 * h /\ Word \div 2 = h
<1>1. PICK h \in 1..32768 : Word = 2 * h
  BY PathAssumption
<1> QED BY <1>1

\* Of an interval, the limit that n has passed is nearest to n, or n itself.
LEMMA NearestInInterval ==
  ASSUME NEW lo \in Int, NEW hi \in Int, lo <= hi, NEW n \in Int
  PROVE  /\ Clamp(lo, hi, n) \in lo..hi
         /\ \A u \in lo..hi : Distance(Clamp(lo, hi, n), n) <= Distance(u, n)
         /\ \A v \in lo..hi : (\A u \in lo..hi : Distance(v, n) <= Distance(u, n)) => v = Clamp(lo, hi, n)
<1> DEFINE c == Clamp(lo, hi, n)
<1>1. c \in lo..hi /\ c = IF n < lo THEN lo ELSE IF n > hi THEN hi ELSE n
  BY DEF Clamp
<1> HIDE DEF c
<1>2. \A u \in lo..hi : Distance(c, n) <= Distance(u, n)
  BY <1>1 DEF Distance
<1>3. ASSUME NEW v \in lo..hi, \A u \in lo..hi : Distance(v, n) <= Distance(u, n)
      PROVE  v = c
  <2>1. Distance(v, n) <= Distance(c, n)
    BY <1>1, <1>3
  <2> QED BY <1>1, <2>1 DEF Distance
<1> QED BY <1>1, <1>2, <1>3 DEF c

\* Lowest and highest value of a type.
Lowest(type) == IF type = "int16" THEN -(Word \div 2) ELSE 0
Highest(type) ==
  CASE type = "int16" -> (Word \div 2) - 1
    [] type = "uint16" -> Word - 1
    [] type = "uint32" -> Word * Word - 1

LEMMA ExpressibleInterval ==
  ASSUME NEW type \in {"int16", "uint16", "uint32"}
  PROVE  /\ Lowest(type) \in Int /\ Highest(type) \in Int /\ Lowest(type) <= Highest(type)
         /\ Expressible(type) = Lowest(type)..Highest(type)
<1>1. PICK h \in Nat \ {0} : Word = 2 * h /\ Word \div 2 = h
  BY WordHalves
<1>2. Word \in Nat /\ Word >= 2
  BY <1>1
<1>3. CASE type = "int16"
  <2>1. Lowest(type) = -h /\ Highest(type) = h - 1
    BY <1>1, <1>3 DEF Lowest, Highest
  <2>2. Expressible(type) = {w - h : w \in 0..(2 * h - 1)}
    BY <1>1, <1>3 DEF Expressible
  <2>3. \A x \in (-h)..(h - 1) : x + h \in 0..(2 * h - 1) /\ x = (x + h) - h
    BY <1>1
  <2>4. {w - h : w \in 0..(2 * h - 1)} = (-h)..(h - 1)
    BY <1>1, <2>3
  <2> QED BY <2>1, <2>2, <2>4
<1>4. CASE type = "uint16"
  <2>1. Lowest(type) = 0 /\ Highest(type) = Word - 1 /\ Expressible(type) = 0..(Word - 1)
    BY <1>4 DEF Lowest, Highest, Expressible
  <2> QED BY <1>2, <2>1
<1>5. CASE type = "uint32"
  <2>1. Lowest(type) = 0 /\ Highest(type) = Word * Word - 1 /\ Expressible(type) = 0..(Word * Word - 1)
    BY <1>5 DEF Lowest, Highest, Expressible
  <2>2. Word * Word \in Nat /\ Word * Word >= 1
    BY <1>2
  <2> QED BY <2>1, <2>2
<1> QED BY <1>3, <1>4, <1>5

\* Nearest is what it says, and there is only one.
LEMMA NearestIsClamp ==
  ASSUME NEW type \in {"int16", "uint16", "uint32"}, NEW n \in Int
  PROVE  Nearest(n, type) = Clamp(Lowest(type), Highest(type), n)
<1> DEFINE lo == Lowest(type)
           hi == Highest(type)
           c == Clamp(lo, hi, n)
           best(v) == \A u \in lo..hi : Distance(v, n) <= Distance(u, n)
<1>1. lo \in Int /\ hi \in Int /\ lo <= hi /\ Expressible(type) = lo..hi
  BY ExpressibleInterval
<1>2. Nearest(n, type) = CHOOSE v \in lo..hi : best(v)
  BY <1>1 DEF Nearest
<1> HIDE DEF lo, hi
<1>3. c \in lo..hi /\ best(c) /\ \A v \in lo..hi : best(v) => v = c
  BY <1>1, NearestInInterval
<1> HIDE DEF c, best
<1>4. (CHOOSE v \in lo..hi : best(v)) = c
  BY <1>3
<1> QED BY <1>2, <1>4 DEF c, lo, hi

\* A reading that is encoded into words and decoded again is the nearest one its
\* type can express, whatever it was: signs are kept, values out of range end at
\* the limit and the two words of a uint32 in their places.
THEOREM CodingIsFaithful ==
  ASSUME NEW type \in {"int16", "uint16", "uint32"}, NEW n \in Int
  PROVE  DecodeValue(EncodeValue(n, type), type) = Nearest(n, type)
<1>1. PICK h \in Nat \ {0} : Word = 2 * h /\ Word \div 2 = h
  BY WordHalves
<1>2. Word \in Nat \ {0}
  BY <1>1
<1> DEFINE c == Clamp(Lowest(type), Highest(type), n)
<1>3. c \in Lowest(type)..Highest(type)
  BY ExpressibleInterval, NearestInInterval
<1>4. CASE type = "int16"
  <2>1. EncodeValue(n, type) = <<c % Word>> /\ c \in (-h)..(h - 1)
    BY <1>1, <1>3, <1>4 DEF EncodeValue, Lowest, Highest
  <2> HIDE DEF c
  <2>2. c % Word = IF c < 0 THEN c + Word ELSE c
    BY <1>1, <2>1
  <2>3. DecodeValue(<<c % Word>>, type) = IF c % Word >= h THEN (c % Word) - Word ELSE c % Word
    BY <1>1, <1>4 DEF DecodeValue
  <2>4. DecodeValue(<<c % Word>>, type) = c
    BY <1>1, <2>1, <2>2, <2>3
  <2> QED BY <2>1, <2>4, NearestIsClamp DEF c
<1>5. CASE type = "uint16"
  <2>1. EncodeValue(n, type) = <<c>>
    BY <1>5 DEF EncodeValue, Lowest, Highest
  <2>2. DecodeValue(<<c>>, type) = c
    BY <1>5 DEF DecodeValue
  <2> QED BY <2>1, <2>2, NearestIsClamp
<1>6. CASE type = "uint32"
  <2>1. EncodeValue(n, type) = <<c \div Word, c % Word>> /\ c \in 0..(Word * Word - 1)
    BY <1>3, <1>6 DEF EncodeValue, Lowest, Highest
  <2> HIDE DEF c
  <2>2. c \in Nat
    BY <2>1
  <2>3. DecodeValue(<<c \div Word, c % Word>>, type) = (c \div Word) * Word + (c % Word)
    BY <1>6 DEF DecodeValue
  <2>4. (c \div Word) * Word + (c % Word) = c
    BY <1>2, <2>2
  <2> QED BY <2>1, <2>3, <2>4, NearestIsClamp DEF c
<1> QED BY <1>4, <1>5, <1>6

-----------------------------------------------------------------------------
(* The words of a device, one item behind the other.                       *)

\* A number the loop reaches by adding one from 0 on is any number.
LEMMA EveryNat ==
  ASSUME NEW S, 0 \in S, \A n \in Nat : n \in S => n + 1 \in S
  PROVE  Nat \subseteq S
<1> SUFFICES ASSUME Nat \ S # {} PROVE FALSE
  OBVIOUS
<1> DEFINE U == Nat \ S
<1>1. U \subseteq Nat /\ U # {}
  OBVIOUS
<1>2. PICK u \in U : \A v \in U : ~(<<v, u>> \in OpToRel(<, Nat))
  BY <1>1, NatLessThanWellFounded, WFMin, Zenon
<1>3. u \in Nat /\ u # 0 /\ u \notin S
  OBVIOUS
<1>4. u - 1 \in Nat /\ (u - 1) + 1 = u
  BY <1>3
<1>5. u - 1 \in U
  BY <1>3, <1>4
<1>6. <<u - 1, u>> \in OpToRel(<, Nat)
  BY <1>3, <1>4 DEF OpToRel
<1> QED BY <1>2, <1>5, <1>6

\* f starts with s0 and goes on as F says, n times.
Steps(f, n, S, s0, F) ==
  /\ f \in [0..n -> S]
  /\ f[0] = s0
  /\ \A k \in 1..n : f[k] = F[<<k, f[k - 1]>>]

\* A function can be built up step by step.
LEMMA StepByStep ==
  ASSUME NEW S, NEW s0 \in S, NEW n \in Nat, NEW F \in [(1..n) \X S -> S]
  PROVE  \E f : Steps(f, n, S, s0, F)
<1> DEFINE Built(m) == \E f \in [0..m -> S] : f[0] = s0 /\ \A k \in 1..m : f[k] = F[<<k, f[k - 1]>>]
           D == {m \in Nat : m <= n => Built(m)}
<1>1. 0 \in D
  <2>1. [k \in 0..0 |-> s0] \in [0..0 -> S]
    OBVIOUS
  <2>2. [k \in 0..0 |-> s0][0] = s0 /\ 1..0 = {}
    OBVIOUS
  <2> QED BY <2>1, <2>2
<1>2. ASSUME NEW m \in Nat, m \in D PROVE m + 1 \in D
  <2> SUFFICES ASSUME m + 1 <= n PROVE Built(m + 1)
    OBVIOUS
  <2>1. PICK f \in [0..m -> S] : f[0] = s0 /\ \A k \in 1..m : f[k] = F[<<k, f[k - 1]>>]
    BY <1>2
  <2> DEFINE x == F[<<m + 1, f[m]>>]
             g == [k \in 0..(m + 1) |-> IF k = m + 1 THEN x ELSE f[k]]
  <2>2. m + 1 \in 1..n /\ m \in 0..m /\ f[m] \in S
    OBVIOUS
  <2>3. x \in S
    BY <2>2
  <2> HIDE DEF x
  <2>4. g \in [0..(m + 1) -> S]
    BY <2>3
  <2>5. \A k \in 0..m : g[k] = f[k]
    OBVIOUS
  <2>6. g[m + 1] = x
    OBVIOUS
  <2> HIDE DEF g
  <2>7. g[0] = s0
    BY <2>1, <2>5
  <2>8. ASSUME NEW k \in 1..(m + 1) PROVE g[k] = F[<<k, g[k - 1]>>]
    <3>1. k - 1 \in 0..m /\ g[k - 1] = f[k - 1]
      BY <2>5
    <3>2. CASE k = m + 1
      BY <2>6, <3>1, <3>2 DEF x
    <3>3. CASE k # m + 1
      <4>1. k \in 1..m /\ k \in 0..m
        BY <3>3
      <4> QED BY <2>1, <2>5, <3>1, <4>1
    <3> QED BY <3>2, <3>3
  <2> QED BY <2>4, <2>7, <2>8
<1>3. n \in D
  BY <1>1, <1>2, EveryNat
<1> QED BY <1>3 DEF Steps

LEMMA ItemFacts ==
  ASSUME NEW its \in Seq(Item), NEW k \in 1..Len(its)
  PROVE  /\ its[k].fc \in {3, 4} /\ its[k].address \in Nat
         /\ Words(its[k]) \in {1, 2} /\ Words(its[k]) \in Nat
<1>1. its[k] \in Item
  BY ElementOfSeq
<1>2. MaxReg \in Nat
  BY PathAssumption
<1> QED BY <1>1, <1>2 DEF Item, Words

\* The words up to an item are those up to the one before it and its own.
LEMMA UpTo ==
  ASSUME NEW its \in Seq(Item)
  PROVE  /\ WordsUpTo(its) \in [0..Len(its) -> Nat]
         /\ WordsUpTo(its)[0] = 0
         /\ \A k \in 1..Len(its) : WordsUpTo(its)[k] = WordsUpTo(its)[k - 1] + Words(its[k])
<1> DEFINE n == Len(its)
           F == [x \in (1..n) \X Nat |-> x[2] + Words(its[x[1]])]
           Body(g) == [k \in 0..n |-> IF k = 0 THEN 0 ELSE g[k - 1] + Words(its[k])]
           w == WordsUpTo(its)
<1>1. n \in Nat
  BY LenProperties
<1>2. F \in [(1..n) \X Nat -> Nat]
  BY ItemFacts
<1>3. \A k \in 1..n, s \in Nat : F[<<k, s>>] = s + Words(its[k])
  OBVIOUS
<1>4. w = CHOOSE g : g = Body(g)
  BY DEF WordsUpTo
<1> HIDE DEF F, w
<1>5. PICK f : Steps(f, n, Nat, 0, F)
  BY <1>1, <1>2, StepByStep, Zenon
<1>6. f = Body(f)
  <2>1. ASSUME NEW k \in 1..n PROVE f[k] = f[k - 1] + Words(its[k])
    <3>1. f[k - 1] \in Nat
      BY <1>1, <1>5 DEF Steps
    <3> QED BY <1>3, <1>5, <3>1 DEF Steps
  <2> QED BY <1>1, <1>5, <2>1 DEF Steps
<1>7. w = Body(w)
  BY <1>4, <1>6
<1>8. w[0] = 0 /\ \A k \in 1..n : w[k] = w[k - 1] + Words(its[k])
  BY <1>1, <1>7
<1> DEFINE D == {m \in Nat : m <= n => w[m] \in Nat}
<1>9. \A m \in Nat : m \in D => m + 1 \in D
  <2> SUFFICES ASSUME NEW m \in Nat, m \in D, m + 1 <= n PROVE w[m + 1] \in Nat
    OBVIOUS
  <2>1. m + 1 \in 1..n /\ w[m] \in Nat /\ (m + 1) - 1 = m
    BY <1>1
  <2>2. Words(its[m + 1]) \in Nat
    BY <2>1, ItemFacts
  <2> QED BY <1>8, <2>1, <2>2
<1>10. 0 \in D
  BY <1>8
<1>11. Nat \subseteq D
  BY <1>9, <1>10, EveryNat
<1>12. w \in [0..n -> Nat]
  BY <1>1, <1>7, <1>11
<1> QED BY <1>8, <1>12 DEF w

LEMMA UpToGrows ==
  ASSUME NEW its \in Seq(Item), NEW k \in 0..Len(its)
  PROVE  WordsUpTo(its)[k] <= WordsOf(its)
<1> DEFINE n == Len(its)
           w == WordsUpTo(its)
           D == {d \in Nat : k + d <= n => w[k] <= w[k + d]}
<1>1. n \in Nat /\ k \in Nat /\ k <= n
  BY LenProperties
<1>2. w \in [0..n -> Nat] /\ \A j \in 1..n : w[j] = w[j - 1] + Words(its[j])
  BY UpTo
<1>3. w[n] = WordsOf(its)
  BY DEF WordsOf
<1> HIDE DEF w, n
<1>4. 0 \in D
  BY <1>1, <1>2
<1>5. \A d \in Nat : d \in D => d + 1 \in D
  <2> SUFFICES ASSUME NEW d \in Nat, d \in D, k + (d + 1) <= n PROVE w[k] <= w[k + (d + 1)]
    OBVIOUS
  <2>1. k + d \in 0..n /\ k + (d + 1) \in 1..n /\ (k + (d + 1)) - 1 = k + d
    BY <1>1
  <2>2. w[k + (d + 1)] = w[k + d] + Words(its[k + (d + 1)])
    BY <1>2, <2>1
  <2>3. Words(its[k + (d + 1)]) \in Nat
    BY <2>1, ItemFacts DEF n
  <2>4. w[k] <= w[k + d] /\ w[k] \in Nat /\ w[k + d] \in Nat
    BY <1>1, <1>2, <2>1
  <2> QED BY <2>2, <2>3, <2>4
<1> HIDE DEF D
<1>6. Nat \subseteq D
  BY <1>4, <1>5, EveryNat
<1>7. n - k \in Nat /\ k + (n - k) = n
  BY <1>1
<1> QED BY <1>3, <1>6, <1>7 DEF D, w, n

LEMMA IsSeq ==
  ASSUME NEW n \in Nat, NEW S, NEW f \in [1..n -> S]
  PROVE  f \in Seq(S) /\ Len(f) = n
OBVIOUS

\* Behind the words of the items before it stand the words of an item.
LEMMA Packed ==
  ASSUME NEW its \in Seq(Item), NEW regs, NEW V,
         \A k \in 1..Len(its) : \A i \in 1..Words(its[k]) :
            regs[<<its[k].fc, its[k].address + i - 1>>] \in V
  PROVE  /\ PackValues(its, regs) \in Seq(V)
         /\ Len(PackValues(its, regs)) = WordsOf(its)
         /\ \A k \in 1..Len(its) : \A i \in 1..Words(its[k]) :
              /\ WordsUpTo(its)[k - 1] + i \in 1..WordsOf(its)
              /\ PackValues(its, regs)[WordsUpTo(its)[k - 1] + i]
                   = regs[<<its[k].fc, its[k].address + i - 1>>]
<1> DEFINE n == Len(its)
           w == WordsUpTo(its)
           Part(k) == [i \in 1..Words(its[k]) |-> regs[<<its[k].fc, its[k].address + i - 1>>]]
           part == [k \in 1..n |-> Part(k)]
           F == [x \in (1..n) \X Seq(V) |-> x[2] \o part[x[1]]]
           Body(g) == [k \in 0..n |-> IF k = 0 THEN <<>> ELSE g[k - 1] \o Part(k)]
           e == <<>>
           Longer(s, k) == s \o part[k]
           Full(g) == [k \in 0..n |-> IF k = 0 THEN e ELSE Longer(g[k - 1], k)]
           packed == CHOOSE g : g = Body(g)
<1>1. n \in Nat
  BY LenProperties
<1>2. w \in [0..n -> Nat] /\ w[0] = 0 /\ \A k \in 1..n : w[k] = w[k - 1] + Words(its[k])
  BY UpTo
<1>3. \A k \in 1..n : Words(its[k]) \in Nat
  BY ItemFacts
<1>4. PackValues(its, regs) = packed[n] /\ w[n] = WordsOf(its)
  BY DEF PackValues, WordsOf
<1>5. \A k \in 1..n : /\ part[k] \in Seq(V) /\ Len(part[k]) = Words(its[k])
                      /\ \A i \in 1..Words(its[k]) :
                           part[k][i] = regs[<<its[k].fc, its[k].address + i - 1>>]
  <2> SUFFICES ASSUME NEW k \in 1..n
               PROVE  /\ part[k] \in Seq(V) /\ Len(part[k]) = Words(its[k])
                      /\ \A i \in 1..Words(its[k]) :
                           part[k][i] = regs[<<its[k].fc, its[k].address + i - 1>>]
    OBVIOUS
  <2>1. part[k] = Part(k) /\ Words(its[k]) \in Nat
    BY <1>3
  <2>2. Part(k) \in [1..Words(its[k]) -> V]
    OBVIOUS
  <2>3. \A i \in 1..Words(its[k]) :
          Part(k)[i] = regs[<<its[k].fc, its[k].address + i - 1>>]
    OBVIOUS
  <2> HIDE DEF Part, part
  <2>4. Part(k) \in Seq(V) /\ Len(Part(k)) = Words(its[k])
    BY <2>1, <2>2, IsSeq
  <2> QED BY <2>1, <2>3, <2>4
<1>6. \A g : Body(g) = Full(g)
  <2>1. \A k \in 1..n : part[k] = Part(k)
    OBVIOUS
  <2> HIDE DEF part, Part
  <2> QED BY <1>1, <2>1
<1>7. packed = CHOOSE g : g = Full(g)
  <2> HIDE DEF Body, Full
  <2> QED BY <1>6
<1> HIDE DEF part, Part, packed, w, n, Body
<1>8. F \in [(1..n) \X Seq(V) -> Seq(V)]
  BY <1>5, ConcatProperties
<1>9. \A k \in 1..n, s \in Seq(V) : F[<<k, s>>] = Longer(s, k)
  OBVIOUS
<1>10. e \in Seq(V) /\ Len(e) = 0
  OBVIOUS
<1> HIDE DEF F, e, Longer
<1>11. PICK f : Steps(f, n, Seq(V), e, F)
  BY <1>1, <1>8, <1>10, StepByStep, Zenon
<1>12. f = Full(f)
  <2>1. ASSUME NEW k \in 1..n PROVE f[k] = Longer(f[k - 1], k)
    <3>1. f[k - 1] \in Seq(V)
      BY <1>1, <1>11 DEF Steps
    <3> QED BY <1>9, <1>11, <3>1 DEF Steps
  <2> QED BY <1>1, <1>11, <2>1 DEF Steps
<1>13. packed = Full(packed)
  BY <1>7, <1>12
<1>14. packed[0] = e /\ \A k \in 1..n : packed[k] = Longer(packed[k - 1], k)
  BY <1>1, <1>13
<1> DEFINE D == {m \in Nat : m <= n =>
                   /\ packed[m] \in Seq(V) /\ Len(packed[m]) = w[m]
                   /\ \A k \in 1..m : \A i \in 1..Words(its[k]) :
                        /\ w[k - 1] + i \in 1..w[m]
                        /\ packed[m][w[k - 1] + i] = part[k][i]}
<1>15. 0 \in D
  <2>1. packed[0] \in Seq(V) /\ Len(packed[0]) = w[0]
    BY <1>2, <1>10, <1>14
  <2>2. 1..0 = {}
    OBVIOUS
  <2> QED BY <2>1, <2>2
<1>16. \A m \in Nat : m \in D => m + 1 \in D
  <2> SUFFICES ASSUME NEW m \in Nat, m \in D, m + 1 <= n
               PROVE  /\ packed[m + 1] \in Seq(V) /\ Len(packed[m + 1]) = w[m + 1]
                      /\ \A k \in 1..(m + 1) : \A i \in 1..Words(its[k]) :
                           /\ w[k - 1] + i \in 1..w[m + 1]
                           /\ packed[m + 1][w[k - 1] + i] = part[k][i]
    OBVIOUS
  <2>1. m + 1 \in 1..n /\ (m + 1) - 1 = m /\ m \in 0..n
    BY <1>1
  <2>2. packed[m] \in Seq(V) /\ Len(packed[m]) = w[m]
    BY <2>1
  <2> DEFINE s == packed[m]
             t == part[m + 1]
             u == packed[m + 1]
  <2>3. u = s \o t
    BY <1>14, <2>1 DEF Longer
  <2>4. t \in Seq(V) /\ Len(t) = Words(its[m + 1]) /\ Words(its[m + 1]) \in Nat
    BY <1>3, <1>5, <2>1
  <2>5. w[m + 1] = w[m] + Words(its[m + 1]) /\ w[m] \in Nat
    BY <1>2, <2>1
  <2>6. /\ u \in Seq(V) /\ Len(u) = Len(s) + Len(t)
        /\ \A i \in 1..Len(s) : u[i] = s[i]
        /\ \A i \in 1..Len(t) : u[Len(s) + i] = t[i]
    <3>1. s \in Seq(V)
      BY <2>2
    <3> HIDE DEF s, t, u
    <3>2. s \o t \in Seq(V) /\ Len(s \o t) = Len(s) + Len(t) /\ Len(s) \in Nat /\ Len(t) \in Nat
      BY <2>4, <3>1, ConcatProperties, LenProperties
    <3>3. \A i \in 1..(Len(s) + Len(t)) :
            (s \o t)[i] = IF i <= Len(s) THEN s[i] ELSE t[i - Len(s)]
      BY <2>4, <3>1, ConcatProperties
    <3>4. \A i \in 1..Len(t) : /\ Len(s) + i \in 1..(Len(s) + Len(t))
                               /\ ~(Len(s) + i <= Len(s)) /\ (Len(s) + i) - Len(s) = i
      BY <3>2
    <3> QED BY <2>3, <3>2, <3>3, <3>4
  <2>7. ASSUME NEW k \in 1..m, NEW i \in 1..Words(its[k])
        PROVE  w[k - 1] + i \in 1..w[m + 1] /\ u[w[k - 1] + i] = part[k][i]
    <3>1. w[k - 1] + i \in 1..w[m] /\ s[w[k - 1] + i] = part[k][i]
      BY <2>1
    <3>2. u[w[k - 1] + i] = s[w[k - 1] + i]
      BY <2>2, <2>6, <3>1
    <3>3. w[m + 1] \in Nat /\ w[m] <= w[m + 1]
      BY <2>4, <2>5
    <3> HIDE DEF s, t, u
    <3> QED BY <2>5, <3>1, <3>2, <3>3
  <2>8. ASSUME NEW i \in 1..Words(its[m + 1])
        PROVE  w[m] + i \in 1..w[m + 1] /\ u[w[m] + i] = part[m + 1][i]
    BY <2>2, <2>4, <2>5, <2>6
  <2>9. ASSUME NEW k \in 1..(m + 1), NEW i \in 1..Words(its[k])
        PROVE  w[k - 1] + i \in 1..w[m + 1] /\ u[w[k - 1] + i] = part[k][i]
    <3>1. CASE k = m + 1
      BY <2>1, <2>8, <3>1
    <3>2. CASE k # m + 1
      <4>1. k \in 1..m
        BY <3>2
      <4> QED BY <2>7, <4>1
    <3> QED BY <3>1, <3>2
  <2> QED BY <2>2, <2>4, <2>5, <2>6, <2>9
<1>17. n \in D
  BY <1>1, <1>15, <1>16, EveryNat
<1> QED BY <1>1, <1>4, <1>5, <1>17 DEF n, w

-----------------------------------------------------------------------------
(* From the registers to the Edge.                                         *)

LEMMA RegisterOfItem ==
  ASSUME NEW its \in Seq(Item), NEW k \in 1..Len(its), NEW i \in 1..Words(its[k])
  PROVE  /\ <<its[k].fc, its[k].address + i - 1>> \in Registers(its[k])
         /\ <<its[k].fc, its[k].address + i - 1>> \in RegistersOf(its)
<1>1. its[k].address \in Nat /\ Words(its[k]) \in Nat /\ DOMAIN its = 1..Len(its)
  BY ItemFacts, LenProperties
<1>2. i - 1 \in 0..(Words(its[k]) - 1) /\ its[k].address + (i - 1) = its[k].address + i - 1
  BY <1>1
<1>3. <<its[k].fc, its[k].address + i - 1>> \in Registers(its[k])
  BY <1>2 DEF Registers
<1> QED BY <1>1, <1>3 DEF RegistersOf

\* The device holds the words of every item that no later one writes over.
LEMMA RegistersHold ==
  ASSUME NEW its \in Seq(Item), NEW vals,
         NEW k \in 1..Len(its), ~Overwritten(its, k), NEW i \in 1..Words(its[k])
  PROVE  BuildMap(its, vals)[<<its[k].fc, its[k].address + i - 1>>]
           = EncodeValue(vals[k], its[k].type)[i]
<1> DEFINE it == its[k]
           r == <<it.fc, it.address + i - 1>>
           here == {j \in DOMAIN its : r \in Registers(its[j])}
<1>1. it.address \in Nat /\ Words(it) \in Nat /\ DOMAIN its = 1..Len(its)
  BY ItemFacts, LenProperties
<1>2. r \in Registers(it) /\ r \in RegistersOf(its)
  BY RegisterOfItem
<1>3. k \in here /\ here \subseteq Int /\ \A j \in here : ~(j > k)
  <2>1. k \in here
    BY <1>1, <1>2
  <2>2. here \subseteq Int
    BY <1>1
  <2>3. ASSUME NEW j \in here PROVE ~(j > k)
    <3>1. j \in DOMAIN its /\ r \in Registers(its[j]) \cap Registers(its[k])
      BY <1>2
    <3> HIDE DEF r
    <3>2. Registers(its[j]) \cap Registers(its[k]) # {}
      BY <3>1
    <3> QED BY <3>1, <3>2 DEF Overwritten
  <2> QED BY <2>1, <2>2, <2>3
<1>4. Max(here) = k
  <2> HIDE DEF here
  <2>1. k \in Int /\ \A j \in here : k >= j
    BY <1>3
  <2>2. \A x \in here : (\A j \in here : x >= j) => x = k
    BY <1>3
  <2> QED BY <1>3, <2>1, <2>2 DEF Max
<1>5. r[2] - it.address + 1 = i
  BY <1>1
<1>6. BuildMap(its, vals)[r]
        = EncodeValue(vals[Max(here)], its[Max(here)].type)[r[2] - its[Max(here)].address + 1]
  BY <1>2 DEF BuildMap
<1> HIDE DEF here, r
<1> QED BY <1>3, <1>4, <1>5, <1>6 DEF r

\* As many words as the item has.
LEMMA EncodedWords ==
  ASSUME NEW it, it.type \in WordTypes, NEW n
  PROVE  EncodeValue(n, it.type) = [i \in 1..Words(it) |-> EncodeValue(n, it.type)[i]]
<1>1. CASE it.type = "uint32"
  <2>1. Words(it) = 2
    BY <1>1 DEF Words
  <2>2. PICK a, b : EncodeValue(n, it.type) = <<a, b>>
    BY <1>1 DEF EncodeValue
  <2>3. <<a, b>> = [i \in 1..2 |-> <<a, b>>[i]]
    OBVIOUS
  <2> QED BY <2>1, <2>2, <2>3
<1>2. CASE it.type # "uint32"
  <2>1. Words(it) = 1
    BY <1>2 DEF Words
  <2>2. PICK a : EncodeValue(n, it.type) = <<a>>
    BY <1>2 DEF EncodeValue, WordTypes
  <2>3. <<a>> = [i \in 1..1 |-> <<a>>[i]]
    OBVIOUS
  <2> QED BY <2>1, <2>2, <2>3
<1> QED BY <1>1, <1>2

\* The room for the values of a block is read by the plan, in full.
LEMMA BlockIsRead ==
  ASSUME PlanInv, todo = {}, BlockHolds, NEW base \in bases, NEW d, NEW a \in (base + 2)..(base + 1 + ValueWords)
  PROVE  Mem(d)[a] = d[a] /\ a \in 0..(MaxAddr + BlockWords)
<1>1. /\ base \in Nat /\ base <= MaxAddr /\ base # diag /\ MaxAddr \in Nat
      /\ merged \in Seq([from : Nat, to : Nat])
  BY ConstantsAssumption DEF PlanInv, TypeOK, Addr
<1>2. BlockWords \in Nat /\ ValueWords \in Nat /\ ValueWords + 3 <= BlockWords
  BY ConstantsAssumption, PathAssumption DEF BlockHolds
<1>3. SpanEnd(base) = base + BlockWords
  BY <1>1 DEF SpanEnd
<1>4. PICK i \in 1..Len(merged) : merged[i].from <= base /\ base + BlockWords <= merged[i].to
  BY <1>3 DEF PlanInv, ReadWhole
<1>5. merged[i].from \in Nat /\ merged[i].to \in Nat /\ merged[i] \in ToSet(merged)
  <2>1. merged[i] \in [from : Nat, to : Nat]
    BY <1>1, ElementOfSeq
  <2>2. DOMAIN merged = 1..Len(merged)
    BY <1>1, LenProperties
  <2> QED BY <2>1, <2>2 DEF ToSet
<1>6. a \in Nat /\ base + 2 <= a /\ a < base + BlockWords
  BY <1>1, <1>2
<1>7. a \in merged[i].from..(merged[i].to - 1)
  BY <1>1, <1>2, <1>4, <1>5, <1>6
<1>8. a \in UNION {r.from..(r.to - 1) : r \in ToSet(merged)}
  BY <1>5, <1>7
<1> QED BY <1>1, <1>2, <1>6, <1>8 DEF Mem

\* What the Edge decodes is what its type can express of what the item reads.
LEMMA BlockArrives ==
  ASSUME PlanInv, todo = {}, BlockHolds, NEW base \in bases,
         NEW its \in Seq(Item), FitsBlock(its), Encodable(its),
         NEW vals \in [1..Len(its) -> Readings],
         NEW got, got = Decoded(its, Mem(Written(base, PackValues(its, BuildMap(its, vals)))), base)
  PROVE  /\ DOMAIN got = DOMAIN its
         /\ \A k \in DOMAIN its : ~Overwritten(its, k) => got[k] = Nearest(vals[k], its[k].type)
<1> DEFINE regs == BuildMap(its, vals)
           V == {regs[r] : r \in RegistersOf(its)}
           p == PackValues(its, regs)
           d == Written(base, p)
           m == Mem(d)
<1>1. DOMAIN its = 1..Len(its) /\ base \in Nat /\ ValueWords \in Nat
  BY LenProperties, PathAssumption DEF PlanInv, TypeOK, Addr
<1>2. \A k \in 1..Len(its) : \A i \in 1..Words(its[k]) :
        regs[<<its[k].fc, its[k].address + i - 1>>] \in V
  BY RegisterOfItem
<1> HIDE DEF regs, V
<1>3. /\ p \in Seq(V) /\ Len(p) = WordsOf(its)
      /\ \A k \in 1..Len(its) : \A i \in 1..Words(its[k]) :
           /\ WordsUpTo(its)[k - 1] + i \in 1..WordsOf(its)
           /\ p[WordsUpTo(its)[k - 1] + i] = regs[<<its[k].fc, its[k].address + i - 1>>]
  BY <1>2, Packed
<1>4. WordsOf(its) <= ValueWords /\ WordsOf(its) \in Nat /\ DOMAIN p = 1..WordsOf(its)
  BY <1>3, LenProperties DEF FitsBlock
<1> HIDE DEF p, d, m
<1>5. ASSUME NEW k \in 1..Len(its), ~Overwritten(its, k), NEW i \in 1..Words(its[k])
      PROVE  m[base + 2 + Offset(its, k) + i - 1] = EncodeValue(vals[k], its[k].type)[i]
  <2> DEFINE o == Offset(its, k)
             a == base + 2 + o + i - 1
  <2>1. o = WordsUpTo(its)[k - 1]
    BY DEF Offset
  <2> HIDE DEF o
  <2>2. o \in Nat /\ i \in Nat
    <3>1. k - 1 \in 0..Len(its)
      BY LenProperties
    <3>2. WordsUpTo(its)[k - 1] \in Nat
      BY <3>1, UpTo
    <3>3. Words(its[k]) \in Nat
      BY ItemFacts
    <3> QED BY <2>1, <3>2, <3>3
  <2>3. o + i \in 1..WordsOf(its) /\ p[o + i] = regs[<<its[k].fc, its[k].address + i - 1>>]
    BY <1>3, <2>1
  <2>4. a - base - 1 = o + i /\ a \in (base + 2)..(base + 1 + ValueWords) /\ a # base + 2 + ValueWords
    BY <1>1, <1>4, <2>2, <2>3
  <2>5. m[a] = d[a] /\ a \in 0..(MaxAddr + BlockWords)
    BY <2>4, BlockIsRead DEF m
  <2>6. d[a] = p[o + i]
    <3> HIDE DEF a
    <3> QED BY <1>4, <2>3, <2>4, <2>5 DEF d, Written
  <2>7. p[o + i] = EncodeValue(vals[k], its[k].type)[i]
    BY <1>5, <2>3, RegistersHold DEF regs
  <2> QED BY <2>5, <2>6, <2>7 DEF o
<1>6. ASSUME NEW k \in 1..Len(its), ~Overwritten(its, k)
      PROVE  DecodeValue([i \in 1..Words(its[k]) |-> m[base + 2 + Offset(its, k) + i - 1]], its[k].type)
               = Nearest(vals[k], its[k].type)
  <2>1. [i \in 1..Words(its[k]) |-> m[base + 2 + Offset(its, k) + i - 1]]
          = [i \in 1..Words(its[k]) |-> EncodeValue(vals[k], its[k].type)[i]]
    BY <1>5, <1>6
  <2>2. its[k].type \in WordTypes /\ vals[k] \in Int
    BY <1>1, PathAssumption DEF Encodable
  <2>3. [i \in 1..Words(its[k]) |-> EncodeValue(vals[k], its[k].type)[i]]
          = EncodeValue(vals[k], its[k].type)
    BY <2>2, EncodedWords
  <2>4. DecodeValue(EncodeValue(vals[k], its[k].type), its[k].type) = Nearest(vals[k], its[k].type)
    BY <2>2, CodingIsFaithful DEF WordTypes
  <2> QED BY <2>1, <2>3, <2>4
<1>7. got = [k \in DOMAIN its |->
             DecodeValue([i \in 1..Words(its[k]) |-> m[base + 2 + Offset(its, k) + i - 1]], its[k].type)]
  BY DEF Decoded, m, d, p, regs
<1> QED BY <1>1, <1>6, <1>7

\* The plan is complete before a reading is delivered.
PathInv == PlanInv /\ (items # None => todo = {}) /\ ValuesArrive

LEMMA DeliverInv ==
  ASSUME PathInv, Deliver
  PROVE  PathInv'
<1>1. PICK n \in 1..MaxItems : \E its \in [1..n -> Item] :
         /\ FitsBlock(its)
         /\ \E base \in bases, vals \in [1..n -> Readings] :
              /\ items' = its /\ reading' = vals
              /\ arrived' =
                   IF Encodable(its) /\ Readable(its) /\ BlockHolds
                   THEN Decoded(its, Mem(Written(base, PackValues(its, BuildMap(its, vals)))), base)
                   ELSE None
  BY DEF Deliver
<1>2. PICK its \in [1..n -> Item] :
         /\ FitsBlock(its)
         /\ \E base \in bases, vals \in [1..n -> Readings] :
              /\ items' = its /\ reading' = vals
              /\ arrived' =
                   IF Encodable(its) /\ Readable(its) /\ BlockHolds
                   THEN Decoded(its, Mem(Written(base, PackValues(its, BuildMap(its, vals)))), base)
                   ELSE None
  BY <1>1
<1>3. PICK base \in bases, vals \in [1..n -> Readings] :
         /\ items' = its /\ reading' = vals
         /\ arrived' =
              IF Encodable(its) /\ Readable(its) /\ BlockHolds
              THEN Decoded(its, Mem(Written(base, PackValues(its, BuildMap(its, vals)))), base)
              ELSE None
  BY <1>2
<1>4. its \in Seq(Item) /\ Len(its) = n
  BY IsSeq
<1>5. PlanInv /\ todo = {} /\ UNCHANGED vars
  BY DEF PathInv, Deliver
<1>6. PlanInv' /\ todo' = {}
  BY <1>5, NextPlanInv DEF vars
<1>7. ASSUME Encodable(its), Readable(its), BlockHolds
      PROVE  /\ DOMAIN arrived' = DOMAIN its
             /\ \A k \in DOMAIN its : ~Overwritten(its, k) => arrived'[k] = Nearest(vals[k], its[k].type)
  <2> DEFINE got == Decoded(its, Mem(Written(base, PackValues(its, BuildMap(its, vals)))), base)
  <2>1. arrived' = got
    BY <1>3, <1>7
  <2>2. vals \in [1..Len(its) -> Readings] /\ FitsBlock(its)
    BY <1>2, <1>4
  <2>3. /\ DOMAIN got = DOMAIN its
        /\ \A k \in DOMAIN its : ~Overwritten(its, k) => got[k] = Nearest(vals[k], its[k].type)
    BY <1>4, <1>5, <1>7, <2>2, BlockArrives
  <2> QED BY <2>1, <2>3
<1>8. ValuesArrive'
  BY <1>3, <1>7 DEF ValuesArrive
<1> QED BY <1>6, <1>8 DEF PathInv

LEMMA NextPathInv == PathInv /\ [PathNext]_pathVars => PathInv'
<1> SUFFICES ASSUME PathInv, [PathNext]_pathVars PROVE PathInv'
  OBVIOUS
<1>1. PlanInv'
  BY PathPlans, NextPlanInv DEF PathInv
<1>2. CASE MergeSpan /\ UNCHANGED <<items, reading, arrived>>
  <2>1. items = None
    BY <1>2 DEF PathInv, MergeSpan
  <2> QED BY <1>1, <1>2, <2>1 DEF PathInv, ValuesArrive
<1>3. CASE Deliver
  BY <1>3, DeliverInv
<1>4. CASE UNCHANGED pathVars
  BY <1>1, <1>4 DEF PathInv, ValuesArrive, pathVars, vars
<1> QED BY <1>2, <1>3, <1>4 DEF PathNext

\* What a device reads is what the Edge gets, for every memory map and layout of
\* items the validation lets through and any reading whatever: of a device whose
\* items have types with words and no gap between their registers, in blocks
\* with room for the values, each item that no later one writes over.
THEOREM ReadingsArrive == PathSpec => []ValuesArrive
<1>1. PathInit => PathInv
  BY InitPlanInv DEF PathInit, PathInv, ValuesArrive
<1>2. PathInv => ValuesArrive
  BY DEF PathInv
<1> QED BY <1>1, <1>2, NextPathInv, PTL DEF PathSpec

=============================================================================
