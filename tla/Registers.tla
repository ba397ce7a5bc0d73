----------------------------- MODULE Registers ------------------------------
(***************************************************************************)
(* The data of a Modbus transaction: how values of the context are laid out *)
(* in 16-bit registers (src/src/io/modbus/types.rs), how plc.yml names the  *)
(* registers (regs.rs), and how the generated workers map one to the other  *)
(* (mod.rs).  Parameterised by the number of values of a byte.  A float is  *)
(* its bit pattern; a scalar is an array of one; a coil is a register that  *)
(* is 0 or 1.                                                               *)
(*                                                                         *)
(* The machine: a PLC with an output and an input worker for one block, the *)
(* device that holds the registers, and restarts of the PLC.                *)
(***************************************************************************)
EXTENDS Integers, Sequences

CONSTANTS
  Base,     \* values of a byte, 256 in the code
  NoValue,  \* an error instead of a value
  Configs,  \* the plc.yml files: a block and its map
  Found,    \* the registers of the device, as the PLC finds them
  Sample(_, _)  \* bound: the arrays of a type and a length that a program writes

WordBase == Base * Base          \* values of a u16
LongBase == WordBase * WordBase  \* values of a u32

Types == {"u16", "i16", "u32", "i32", "f32", "u64", "i64", "f64"}
Signed == {"i16", "i32", "i64"}
Floats == {"f32", "f64"}

(* The registers of a value. *)
Size(t) == CASE t \in {"u16", "i16"} -> 1
             [] t \in {"u32", "i32", "f32"} -> 2
             [] OTHER -> 4

Patterns(t) == CASE Size(t) = 1 -> WordBase
                 [] Size(t) = 2 -> LongBase
                 [] OTHER -> LongBase * LongBase

Values(t) == IF t \in Signed THEN -(Patterns(t) \div 2) .. (Patterns(t) \div 2 - 1)
             ELSE 0 .. Patterns(t) - 1

Arrays(t, n) == [1 .. n -> Values(t)]

(* A block of registers, with what is mapped to it. *)
Word16 == 0 .. WordBase - 1
Entries == [type : Types, len : Nat, absolute : BOOLEAN, parts : Seq(Word16)]
Blocks == [first : Word16, last : Word16, given : Word16 \cup {NoValue}, map : Seq(Entries)]

ASSUME RegistersAssumption ==
  /\ Base \in {2 * n : n \in 1 .. 128}
  /\ NoValue \notin Int \cup Seq(Int) \cup Seq(Seq(Int))

ASSUME DeviceAssumption == Found \in [Word16 -> Word16]

ASSUME ConfigsAssumption ==
  /\ Configs \subseteq Blocks
  /\ \A cfg \in Configs : \A i \in DOMAIN cfg.map :
       Sample(cfg.map[i].type, cfg.map[i].len) \subseteq Arrays(cfg.map[i].type, cfg.map[i].len)

(* Mutant: a signed value is taken as it is. *)
BitsSigned(t, v) == v

(* `as u32' and its like, and back. *)
Bits(t, v) == v % Patterns(t)
FromBits(t, u) == IF t \in Signed /\ u >= Patterns(t) \div 2 THEN u - Patterns(t) ELSE u

(* to_be_bytes() and from_be_bytes(): the bytes of the high half first. *)
u16_to_be_bytes(v) == <<v \div Base, v % Base>>

u32_to_be_bytes(v) ==
  LET h == u16_to_be_bytes(v \div WordBase)
      l == u16_to_be_bytes(v % WordBase)
  IN  <<h[1], h[2], l[1], l[2]>>

u64_to_be_bytes(v) ==
  LET h == u32_to_be_bytes(v \div LongBase)
      l == u32_to_be_bytes(v % LongBase)
  IN  <<h[1], h[2], h[3], h[4], l[1], l[2], l[3], l[4]>>

u32_from_be_bytes(b) == (b[1] * Base + b[2]) * WordBase + (b[3] * Base + b[4])

u64_from_be_bytes(b) ==
  u32_from_be_bytes(<<b[1], b[2], b[3], b[4]>>) * LongBase
    + u32_from_be_bytes(<<b[5], b[6], b[7], b[8]>>)

(* u16::from(hi).overflowing_shl(8).0 + u16::from(lo) *)
Word(hi, lo) == ((hi * Base) % WordBase) + lo

-----------------------------------------------------------------------------
(* From values to registers. *)

u32_to_modbus_array(val) ==
  LET v == u32_to_be_bytes(val) IN <<Word(v[1], v[2]), Word(v[3], v[4])>>

u64_to_modbus_array(val) ==
  LET v == u64_to_be_bytes(val)
  IN  <<Word(v[1], v[2]), Word(v[3], v[4]), Word(v[5], v[6]), Word(v[7], v[8])>>

(* The low register of a float goes first. *)
f32_to_modbus_array(val) ==
  LET v == u32_to_be_bytes(val) IN <<Word(v[3], v[4]), Word(v[1], v[2])>>

(* Mutant: only the halves of a double are swapped. *)
f64_to_modbus_halves(val) ==
  LET v == u64_to_be_bytes(val)
  IN  <<Word(v[5], v[6]), Word(v[7], v[8]), Word(v[1], v[2]), Word(v[3], v[4])>>

f64_to_modbus_array(val) ==
  LET v == u64_to_be_bytes(val)
  IN  <<Word(v[7], v[8]), Word(v[5], v[6]), Word(v[3], v[4]), Word(v[1], v[2])>>

Encode(t, v) ==
  CASE t \in {"u16", "i16"} -> <<Bits(t, v)>>
    [] t \in {"u32", "i32"} -> u32_to_modbus_array(Bits(t, v))
    [] t \in {"u64", "i64"} -> u64_to_modbus_array(Bits(t, v))
    [] t = "f32" -> f32_to_modbus_array(v)
    [] t = "f64" -> f64_to_modbus_array(v)

(* result.extend(...) for each value *)
EncodeArray(t, vs) ==
  [k \in 1 .. Len(vs) * Size(t) |->
     Encode(t, vs[1 + ((k - 1) \div Size(t))])[1 + ((k - 1) % Size(t))]]

(* to_swapped_modbus_endianness(), for values a server holds. *)
Swapped(t, v) ==
  IF t = "f32"
  THEN LET b == u32_to_be_bytes(v) IN u32_from_be_bytes(<<b[3], b[4], b[1], b[2]>>)
  ELSE LET b == u64_to_be_bytes(v)
       IN  u64_from_be_bytes(<<b[7], b[8], b[5], b[6], b[3], b[4], b[1], b[2]>>)

-----------------------------------------------------------------------------
(* From registers to values. *)

SliceAt(regs, idx) ==
  IF idx < Len(regs) THEN SubSeq(regs, idx + 1, Len(regs)) ELSE NoValue

(* The value that begins after the first idx registers of a slice. *)
Decode(t, s, idx) ==
  IF Len(s) < idx + Size(t) THEN NoValue
  ELSE LET val(i) == u16_to_be_bytes(s[idx + i])
           u32(i, j) == <<val(i)[1], val(i)[2], val(j)[1], val(j)[2]>>
           u64(i, j, k, l) == u32(i, j) \o u32(k, l)
       IN  FromBits(t, CASE t \in {"u16", "i16"} -> s[idx + 1]
                         [] t \in {"u32", "i32"} -> u32_from_be_bytes(u32(1, 2))
                         [] t \in {"u64", "i64"} -> u64_from_be_bytes(u64(1, 2, 3, 4))
                         [] t = "f32" -> u32_from_be_bytes(u32(2, 1))
                         [] t = "f64" -> u64_from_be_bytes(u64(4, 3, 2, 1)))

DecodeArray(t, n, s) ==
  LET vs == [i \in 1 .. n |-> Decode(t, s, (i - 1) * Size(t))]
  IN  IF \E i \in 1 .. n : vs[i] = NoValue THEN NoValue ELSE vs

-----------------------------------------------------------------------------
(* The workers.  An entry of a map names a field, its type and the offset of *)
(* its first register in the block.                                         *)

(* *data.get_mut(i + offset).ok_or(OOB)? = p, for the whole payload *)
Put(data, offset, payload) ==
  IF data = NoValue \/ (payload # <<>> /\ offset + Len(payload) > Len(data)) THEN NoValue
  ELSE [r \in 1 .. Len(data) |->
          IF r - offset \in 1 .. Len(payload) THEN payload[r - offset] ELSE data[r]]

(* The registers after each entry of the map: the first out of bounds returns. *)
DataAfter(map, number, ctx) ==
  LET data[k \in 0 .. Len(map)] ==
        IF k = 0 THEN [r \in 1 .. number |-> 0]
        ELSE Put(data[k - 1], map[k].offset, EncodeArray(map[k].type, ctx[map[k].field]))
  IN  data

(* What an output sends, if it sends. *)
OutputData(map, number, ctx) == DataAfter(map, number, ctx)[Len(map)]

(* What an input reads for an entry of the map. *)
Read(m, regs, n) ==
  LET s == SliceAt(regs, m.offset)
  IN  IF s = NoValue THEN NoValue ELSE DecodeArray(m.type, n, s)

(* Match arms: Ok(v) => ctx.target = v, Err(e) => error!(...). *)
Store(m, regs, ctx) ==
  LET v == Read(m, regs, Len(ctx[m.field]))
  IN  IF v = NoValue THEN ctx ELSE [ctx EXCEPT ![m.field] = v]

(* Mutant: an input gives up at the first entry it cannot set. *)
InputStoreUntilError(map, regs, ctx) ==
  LET c[k \in 0 .. Len(map)] ==
        IF k = 0 THEN ctx
        ELSE IF \E j \in 1 .. k : Read(map[j], regs, map[j].len) = NoValue THEN c[k - 1]
        ELSE Store(map[k], regs, c[k - 1])
  IN  c[Len(map)]

(* The context after each entry of the map: what cannot be set is logged. *)
StoredAfter(map, regs, ctx) ==
  LET c[k \in 0 .. Len(map)] == IF k = 0 THEN ctx ELSE Store(map[k], regs, c[k - 1])
  IN  c

(* The context after an input has read regs. *)
InputStore(map, regs, ctx) == StoredAfter(map, regs, ctx)[Len(map)]

-----------------------------------------------------------------------------
(* The names of registers, as sets of outcomes: where u16 overflows, a build *)
(* with overflow checks panics and one without wraps.                        *)

Overflowing(n) == IF n < WordBase THEN {n} ELSE {NoValue, n % WordBase}

(* Mutant: the last register of a range is not counted. *)
RangeNumberExclusive(first, last) ==
  IF last < first THEN {NoValue} ELSE Overflowing(last - first)

(* "h10-17": how many registers the range has. *)
RangeNumber(first, last) ==
  IF last < first THEN {NoValue} ELSE Overflowing(last - first + 1)

(* Mutant: the parts of an offset are not summed up. *)
calc_offset_last(parts) == Overflowing(parts[Len(parts)])

SumAfter(parts) ==
  LET o[k \in 0 .. Len(parts)] == IF k = 0 THEN 0 ELSE o[k - 1] + parts[k]
  IN  o

Sum(parts) == SumAfter(parts)[Len(parts)]

(* "1+2" *)
calc_offset(parts) == Overflowing(Sum(parts))

(* "=10+1" is absolute, "10+1" relative to the block. *)
calc_offset_base(absolute, parts, base) ==
  IF ~absolute THEN calc_offset(parts)
  ELSE {IF o = NoValue \/ o < base THEN NoValue ELSE o - base : o \in calc_offset(parts)}

(* The number of registers of a block, which may be given; its range is parsed *)
(* all the same, and may be an error.                                          *)
Number(cfg) ==
  {IF n = NoValue \/ cfg.given = NoValue THEN n ELSE cfg.given :
     n \in RangeNumber(cfg.first, cfg.last)}

(* The offsets of the entries, unless one of them is no u16. *)
Offsets(cfg) ==
  LET of(i) == calc_offset_base(cfg.map[i].absolute, cfg.map[i].parts, cfg.first) \ {NoValue}
  IN  {o \in [DOMAIN cfg.map -> UNION {of(i) : i \in DOMAIN cfg.map}] :
         \A i \in DOMAIN cfg.map : o[i] \in of(i)}

(* The map with its offsets calculated. *)
Normalized(cfg) ==
  {[i \in DOMAIN cfg.map |->
      [field |-> i, type |-> cfg.map[i].type, len |-> cfg.map[i].len, offset |-> o[i]]] :
     o \in Offsets(cfg)}

-----------------------------------------------------------------------------
VARIABLES
  config,  \* plc.yml, for a block of the device
  number,  \* the registers of the block
  map,     \* the map, as the workers have it
  ctx,     \* the fields of the context that are mapped
  device,  \* the registers of the device
  sent     \* history: the context as it was last sent

vars == <<config, number, map, ctx, device, sent>>

Zero(m) == [i \in 1 .. m.len |-> 0]

Init ==
  /\ config \in Configs
  /\ number \in Number(config) \ {NoValue}
  /\ map \in Normalized(config)
  /\ ctx \in [DOMAIN map -> UNION {Sample(map[i].type, map[i].len) : i \in DOMAIN map}]
  /\ \A i \in DOMAIN map : ctx[i] \in Sample(map[i].type, map[i].len)
  /\ device = Found
  /\ sent = NoValue

(* A round of the output. *)
OutputRound ==
  LET data == OutputData(map, number, ctx)
  IN  /\ data # NoValue
      /\ device' = [r \in DOMAIN device |-> IF r - config.first + 1 \in DOMAIN data
                                             THEN data[r - config.first + 1]
                                             ELSE device[r]]
      /\ sent' = ctx
      /\ UNCHANGED <<config, number, map, ctx>>

(* A round of the input: the device answers some of the registers of the block. *)
Answers ==
  {[r \in 1 .. n |-> device[config.first + r - 1]] :
     n \in {k \in 0 .. number : config.first + k <= WordBase}}

InputRound ==
  /\ \E regs \in Answers : ctx' = InputStore(map, regs, ctx)
  /\ UNCHANGED <<config, number, map, device, sent>>

(* The PLC is started again, with a context of defaults. *)
Restart ==
  /\ ctx' = [i \in DOMAIN map |-> Zero(map[i])]
  /\ UNCHANGED <<config, number, map, device, sent>>

Next == OutputRound \/ InputRound \/ Restart

Spec == Init /\ [][Next]_vars

-----------------------------------------------------------------------------
TypeOK ==
  /\ config \in Configs
  /\ number \in 0 .. WordBase - 1
  /\ \A i \in DOMAIN map : map[i].offset \in 0 .. WordBase - 1
  /\ \A i \in DOMAIN map : Len(ctx[i]) = map[i].len
                          /\ \A k \in DOMAIN ctx[i] : ctx[i][k] \in Values(map[i].type)
  /\ device \in [Word16 -> Word16]
  /\ sent = NoValue \/ DOMAIN sent = DOMAIN map

(* What is laid out in registers is read back, wherever it stands among others *)
(* and whatever follows, and is an error when its last register is missing     *)
(* (From and TryFrom of types.rs).                                             *)
EncodingIsInvertible ==
  \A i \in {j \in DOMAIN map : map[j].len # 0} :
    LET m == map[i]
        s == EncodeArray(m.type, ctx[i])
    IN  /\ Len(s) = m.len * Size(m.type)
        /\ \A before, after \in {<<>>, <<WordBase - 1>>} :
             DecodeArray(m.type, m.len, SliceAt(before \o s \o after, Len(before))) = ctx[i]
        /\ DecodeArray(m.type, m.len, SubSeq(s, 1, Len(s) - 1)) = NoValue

(* A float laid out as an integer of its width, which is what a Modbus server   *)
(* does, is what a worker reads and writes once it has been swapped, and two    *)
(* swaps are none (SwapModbusEndianess).                                        *)
FloatsAreSwapped ==
  \A i \in {j \in DOMAIN map : map[j].type \in Floats} : \A k \in DOMAIN ctx[i] :
    LET t == map[i].type
        v == ctx[i][k]
    IN  /\ Encode(IF t = "f32" THEN "u32" ELSE "u64", Swapped(t, v)) = Encode(t, v)
        /\ Swapped(t, Swapped(t, v)) = v

(* Both, for every value the context takes. *)
LayoutsAgree == EncodingIsInvertible /\ FloatsAreSwapped

(* Where plc.yml says a field is, when its sum of offsets is a u16. *)
Address(i) ==
  LET e == config.map[i]
  IN  (IF e.absolute THEN 0 ELSE config.first) + Sum(e.parts)

Words(i) == map[i].len * Size(map[i].type)
Covers(i, r) == r \in Address(i) .. Address(i) + Words(i) - 1
InU16 == \A i \in DOMAIN map : Sum(config.map[i].parts) < WordBase

(* The last register of the block, as plc.yml says. *)
LastRegister == IF config.given # NoValue THEN config.first + config.given - 1 ELSE config.last

InBlock(r) == number # 0 /\ r \in config.first .. LastRegister

(* After an output the device holds each field where plc.yml says it is and     *)
(* zeros in what is left of the block, and keeps the registers outside of it as *)
(* they were; where two fields meet, the later one wins (push_output_worker,    *)
(* calc_offset_base).                                                           *)
FieldsAreWhereNamed ==
  sent # NoValue /\ InU16 =>
    \A r \in DOMAIN device :
      LET there == {i \in DOMAIN map : Covers(i, r)}
          last == CHOOSE i \in there : \A j \in there : j <= i
      IN  device[r] =
            IF there # {} THEN EncodeArray(map[last].type, sent[last])[r - Address(last) + 1]
            ELSE IF InBlock(r) THEN 0
            ELSE Found[r]

(* An output sends if its whole map fits into its block, and only then, unless  *)
(* the block is all registers there are, whose number is no u16                 *)
(* (push_output_worker, RegBase::from_str).                                     *)
SendsIfMapFits ==
  InU16 =>
    (OutputData(map, number, ctx) # NoValue) =
      (\A i \in DOMAIN map :
         Words(i) # 0 => number # 0 /\ Address(i) + Words(i) - 1 <= LastRegister)

(* An input sets a field as a whole, to what the device answers, or leaves it;   *)
(* none keeps another from being set (push_input_worker).                        *)
InputSetsWhatFits ==
  \A regs \in Answers : \A i \in DOMAIN map :
    LET new == InputStore(map, regs, ctx)
        end == map[i].offset + Words(i)
    IN  IF end <= Len(regs)
        THEN EncodeArray(map[i].type, new[i]) = SubSeq(regs, map[i].offset + 1, end)
        ELSE new[i] = ctx[i]
=============================================================================
