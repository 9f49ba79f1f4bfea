------------------------------ MODULE DataPath ------------------------------
(***************************************************************************)
(* The way of a reading from the registers of a device to the Edge:        *)
(* DeviceModel encodes it (field/models/base.py, common/modbus.py), the    *)
(* scanner reads the registers in groups and packs them into the block of  *)
(* the device (plc/runtime.py), the reader gets the block with the         *)
(* requests of ReadPlan and decodes it again (edge/collectors.py).         *)
(*                                                                         *)
(* Data.  A reading is the integer value / scale; rounding and scaling are *)
(* left out.  A word is one of Word values, 2^16 in the code.              *)
(***************************************************************************)
EXTENDS ReadPlan, Integers, FiniteSetsExt

CONSTANTS
    ValueWords,   \* VALUE_WORDS, the room for values in a block
    Word,         \* how many values a word has
    MaxItems,     \* bound: items of the device
    MaxReg,       \* bound: highest register address
    Readings      \* what the items of the device may read

ASSUME PathAssumption ==
    /\ ValueWords \in Nat
    /\ Word \in {2 * n : n \in 1..32768}
    /\ MaxItems \in Nat \ {0} /\ MaxReg \in Nat
    /\ Readings \subseteq Int

VARIABLES
    items,      \* the items of the device, in the order of the configuration
    reading,    \* what each of them reads
    arrived     \* what the Edge makes of it

pathVars == <<vars, items, reading, arrived>>

None == <<>>
\* What encode_value and decode_value know.  "float" stands for it and for bool:
\* an Item may have them, and nothing keeps them from a device on a bus.
WordTypes == {"int16", "uint16", "uint32"}
Item == [fc : {3, 4}, address : 0..MaxReg, type : WordTypes \cup {"float"}]

\* Item.words, Item.value_words
Words(it) == IF it.type = "uint32" THEN 2 ELSE 1

\* The words of the first k items, for k from 0 on, and of all of them.
WordsUpTo(its) ==
    LET sum[k \in 0..Len(its)] == IF k = 0 THEN 0 ELSE sum[k - 1] + Words(its[k])
    IN  sum
WordsOf(its) == WordsUpTo(its)[Len(its)]

Registers(it) == {<<it.fc, it.address + i>> : i \in 0..(Words(it) - 1)}
RegistersOf(its) == UNION {Registers(its[k]) : k \in DOMAIN its}

\* validate_semantics: the values fit into the block.
FitsBlock(its) == WordsOf(its) <= ValueWords

\* Both of them raise ValueError for another type.
Encodable(its) == \A k \in DOMAIN its : its[k].type \in WordTypes

\* A later item writes over a register of item k; no validation keeps it from it.
Overwritten(its, k) ==
    \E j \in DOMAIN its : j > k /\ Registers(its[j]) \cap Registers(its[k]) # {}

\* A block has room for status, failures, the values and the counter.  No
\* validation asks for it either: block_words may be any number.
BlockHolds == ValueWords + 3 <= BlockWords

-----------------------------------------------------------------------------
(* common/modbus.py: encode_value, decode_value                            *)

Clamp(lo, hi, n) == CASE n < lo -> lo [] n > hi -> hi [] OTHER -> n

EncodeValue(n, type) ==
    CASE type = "int16" -> <<Clamp(-(Word \div 2), (Word \div 2) - 1, n) % Word>>
      [] type = "uint16" -> <<Clamp(0, Word - 1, n)>>
      [] type = "uint32" ->
           LET raw == Clamp(0, Word * Word - 1, n) IN <<raw \div Word, raw % Word>>

DecodeValue(ws, type) ==
    CASE type = "int16" -> IF ws[1] >= Word \div 2 THEN ws[1] - Word ELSE ws[1]
      [] type = "uint16" -> ws[1]
      [] type = "uint32" -> ws[1] * Word + ws[2]

-----------------------------------------------------------------------------
(* field/models/base.py: _build_map, read                                  *)

\* The registers of the device; of items that share one the later wins.
BuildMap(its, vals) ==
    [r \in RegistersOf(its) |->
        LET k == Max({j \in DOMAIN its : r \in Registers(its[j])})
        IN  EncodeValue(vals[k], its[k].type)[r[2] - its[k].address + 1]]

-----------------------------------------------------------------------------
(* plc/runtime.py: _read_groups, BusScanner.poll, _pack_values             *)

\* The addresses read with function code fc: from the lowest to the highest.
Group(its, fc) ==
    LET as == {r[2] : r \in {q \in RegistersOf(its) : q[1] = fc}}
    IN  IF as = {} THEN {} ELSE Min(as)..Max(as)

\* A gap in a group is answered with an exception, and the poll fails.
Readable(its) == \A fc \in {3, 4} : \A a \in Group(its, fc) : <<fc, a>> \in RegistersOf(its)

\* Seeded fault: the words are packed in the order of the registers.
PackValuesByAddress(its, regs) ==
    LET sorted == SortSeq(its, LAMBDA a, b : a.address < b.address)
    IN  FlattenSeq([k \in DOMAIN its |->
            [i \in 1..Words(sorted[k]) |-> regs[<<sorted[k].fc, sorted[k].address + i - 1>>]]])

\* The words of the items in the order of the configuration.
PackValues(its, regs) ==
    LET packed[k \in 0..Len(its)] ==
            IF k = 0 THEN <<>>
            ELSE packed[k - 1] \o
                 [i \in 1..Words(its[k]) |-> regs[<<its[k].fc, its[k].address + i - 1>>]]
    IN  packed[Len(its)]

Other == Word    \* what does not belong to the values of the device

\* The D area after a poll: values from +2, status and failures at +0 and +1,
\* the counter behind the room for values.
Written(base, ws) ==
    [a \in 0..(MaxAddr + BlockWords) |->
        IF a - base - 1 \in DOMAIN ws /\ a # base + 2 + ValueWords
        THEN ws[a - base - 1]
        ELSE Other]

-----------------------------------------------------------------------------
(* edge/collectors.py: PlcReader.poll, _update_device                      *)

\* mem holds the words of all ranges.
Mem(d) ==
    LET read == UNION {r.from..(r.to - 1) : r \in ToSet(merged)}
    IN  [a \in read |-> d[a]]

\* off, when the loop comes to item k.
Offset(its, k) == WordsUpTo(its)[k - 1]

Decoded(its, mem, base) ==
    [k \in DOMAIN its |->
        LET off == base + 2 + Offset(its, k)
        IN  DecodeValue([i \in 1..Words(its[k]) |-> mem[off + i - 1]], its[k].type)]

-----------------------------------------------------------------------------
\* One reading of a device goes all the way to the Edge, over the block at base.
\* A poll of a device with a gap in its registers gets nothing, one with an item
\* that cannot be encoded ends in an exception, and of a block without room the
\* model says nothing: the reader finds no counter, or takes a word of what
\* follows for it.
Deliver ==
    /\ todo = {} /\ items = None
    /\ \E n \in 1..MaxItems : \E its \in [1..n -> Item] :
         /\ FitsBlock(its)
         /\ \E base \in bases, vals \in [1..n -> Readings] :
              /\ items' = its /\ reading' = vals
              /\ arrived' =
                   IF Encodable(its) /\ Readable(its) /\ BlockHolds
                   THEN LET d == Written(base, PackValues(its, BuildMap(its, vals)))
                        IN  Decoded(its, Mem(d), base)
                   ELSE None
    /\ UNCHANGED vars

PathInit == Init /\ items = None /\ reading = None /\ arrived = None

PathNext ==
    \/ MergeSpan /\ UNCHANGED <<items, reading, arrived>>
    \/ Deliver

PathSpec == PathInit /\ [][PathNext]_pathVars

-----------------------------------------------------------------------------
\* What an item of this type can express, and the one of it that is nearest to n.
Expressible(type) ==
    CASE type = "int16" -> {w - (Word \div 2) : w \in 0..(Word - 1)}
      [] type = "uint16" -> 0..(Word - 1)
      [] type = "uint32" -> 0..(Word * Word - 1)

Distance(a, b) == IF a < b THEN b - a ELSE a - b

Nearest(n, type) ==
    CHOOSE v \in Expressible(type) :
        \A u \in Expressible(type) : Distance(v, n) <= Distance(u, n)

\* What a device reads is what the Edge gets, for every layout of items that the
\* validation lets through, except where the code has no answer to give: a type
\* without words, a gap in the registers, a block without room.  Every item that
\* no later one writes over arrives: two words in the right order, signs kept,
\* values out of range at the limit and not wrapped, and neither the counter nor
\* a neighbouring block mixed in.
ValuesArrive ==
    items # None /\ Encodable(items) /\ Readable(items) /\ BlockHolds =>
        /\ DOMAIN arrived = DOMAIN items
        /\ \A k \in DOMAIN items : ~Overwritten(items, k) =>
             arrived[k] = Nearest(reading[k], items[k].type)

=============================================================================
