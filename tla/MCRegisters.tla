----------------------------- MODULE MCRegisters -----------------------------
(* An instance of Registers for TLC, with bytes of four values: blocks with   *)
(* one entry of any type, anywhere, and blocks with two entries that may      *)
(* meet.                                                                      *)
EXTENDS Registers

(* One byte of a value is not zero, or all bits are set. *)
Scalars(t) ==
  {FromBits(t, d * Base ^ k) : d \in {1, Base - 1}, k \in 0 .. 2 * Size(t) - 1}
    \cup {FromBits(t, Patterns(t) - 1)}

SmallArrays(t, n) ==
  IF n = 1 THEN {<<v>> : v \in Scalars(t)}
  ELSE {[i \in 1 .. n |-> i], [i \in 1 .. n |-> Base]}

(* No register is zero before an output has set it. *)
FoundRegisters == [r \in Word16 |-> WordBase - 1 - (r % 3)]

Block(first, last, given, ms) == [first |-> first, last |-> last, given |-> given, map |-> ms]

Entry(t, n, absolute, parts) == [type |-> t, len |-> n, absolute |-> absolute, parts |-> parts]

Bounds == {<<0, 3, NoValue>>, <<9, 12, NoValue>>, <<10, 10, 5>>, <<12, 15, NoValue>>,
           <<0, 15, NoValue>>, <<0, 15, 3>>, <<9, 8, NoValue>>, <<9, 8, 4>>}

Singles == {<<Entry(t, 1, abs, parts)>> :
              t \in Types, abs \in BOOLEAN,
              parts \in {<<0>>, <<1>>, <<1, 1>>, <<9, 1>>, <<12>>, <<12, 4>>}}

Pairs == {<<Entry(t, n, TRUE, <<9, o>>), Entry(u, n, FALSE, <<p>>)>> :
            t \in {"u16", "f32"}, u \in {"i16", "i32"}, n \in {1, 2}, o \in 0 .. 3, p \in 0 .. 3}

(* A field of no values, inside the block, at its end and beyond. *)
Nothing == {<<Entry("u32", 0, FALSE, <<p>>), Entry("u16", 1, FALSE, <<3>>)>> : p \in {1, 4, 9}}

SmallConfigs ==
  {Block(b[1], b[2], b[3], ms) : b \in Bounds, ms \in Singles}
    \cup {Block(9, 12, NoValue, ms) : ms \in Pairs \cup Nothing}
=============================================================================
