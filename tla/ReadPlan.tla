------------------------------ MODULE ReadPlan ------------------------------
(***************************************************************************)
(* PlcReader._ranges (edge/collectors.py): how the blocks of a PLC's D     *)
(* area are grouped into Modbus requests, for every memory map that        *)
(* _validate_memory_map (common/config.py) lets through.  The update       *)
(* counter of a block may be compared with its values only because both    *)
(* come in one answer; PlcCollect takes that from here.                    *)
(***************************************************************************)
EXTENDS Naturals, SequencesExt

CONSTANTS BlockWords,   \* plc_map.block_words
          DiagWords,    \* words of the diagnosis area the reader asks for: 6
          MaxRead,      \* words of one Modbus request: 125
          MaxAddr       \* bound: highest start address

\* The third and the fourth line are the plan's own premise, block_words = 10 in
\* the configuration; PlcMap accepts any number.  A block of more than 125 words
\* is a request that the PLC refuses, and the poll then fails as a whole; with
\* fewer than 6 the diagnosis area reaches into the block behind it.  That the
\* addresses lie inside the D area (0..1999) is not validated either.
ASSUME ConstantsAssumption ==
  /\ MaxAddr \in Nat
  /\ MaxRead \in Nat
  /\ BlockWords \in 1..MaxRead
  /\ DiagWords \in 1..BlockWords

VARIABLES bases,    \* start addresses of the device blocks
          diag,     \* plc_map.diag_base
          todo,     \* start addresses whose span is still to be merged
          merged    \* the ranges so far, from low to high

vars == <<bases, diag, todo, merged>>

Addr == 0..MaxAddr

\* _validate_memory_map: the blocks and the diagnosis area do not overlap.
ValidMap(bs, d) ==
  \A a, b \in bs \cup {d} : a < b => a + BlockWords <= b

\* The span that starts at a.
SpanEnd(a) == a + (IF a = diag THEN DiagWords ELSE BlockWords)

\* Seeded fault: the size limit is compared with the span's start.
JoinsByStart(r, a, b) == a <= r.to /\ a - r.from <= MaxRead

\* a <= merged[-1][1] and b - merged[-1][0] <= 125
Joins(r, a, b) == a <= r.to /\ b - r.from <= MaxRead

\* Seeded fault: the range keeps its end.
ExtendedNot(r, b) == r

\* merged[-1][1] = max(merged[-1][1], b)
Extended(r, b) == [r EXCEPT !.to = IF b > @ THEN b ELSE @]

Init ==
  /\ bases \in SUBSET Addr
  /\ diag \in Addr \ bases
  /\ ValidMap(bases, diag)
  /\ todo = bases \cup {diag}
  /\ merged = <<>>

\* One turn of the loop over the sorted spans.
MergeSpan ==
  \E a \in todo :
    LET b == SpanEnd(a) IN
    /\ \A c \in todo : a <= c
    /\ todo' = todo \ {a}
    /\ IF merged # <<>> /\ Joins(Last(merged), a, b)
       THEN merged' = [merged EXCEPT ![Len(merged)] = Extended(@, b)]
       ELSE merged' = Append(merged, [from |-> a, to |-> b])
    /\ UNCHANGED <<bases, diag>>

Next == MergeSpan

Spec == Init /\ [][Next]_vars

-----------------------------------------------------------------------------
TypeOK ==
  /\ bases \subseteq Addr
  /\ diag \in Addr \ bases
  /\ todo \subseteq bases \cup {diag}
  /\ merged \in Seq([from : Nat, to : Nat])

\* Each span that was merged is read whole by one request.
ReadWhole ==
  \A a \in (bases \cup {diag}) \ todo :
    \E i \in 1..Len(merged) : merged[i].from <= a /\ SpanEnd(a) <= merged[i].to

\* No request asks for more words than the PLC server answers (_handle
\* refuses more than 125, and the whole poll would fail), and no word is
\* asked for twice.
RequestsFit ==
  /\ \A i \in 1..Len(merged) : merged[i].from < merged[i].to
                              /\ merged[i].to - merged[i].from <= MaxRead
  /\ \A i, j \in 1..Len(merged) : i < j => merged[i].to <= merged[j].from

\* Everything still to be merged lies behind the last range.
TodoBehind ==
  /\ \A a \in todo, i \in 1..Len(merged) : merged[i].to <= a
  /\ \A a \in (bases \cup {diag}) \ todo, c \in todo : a < c

=============================================================================
