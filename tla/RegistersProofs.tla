-------------------------- MODULE RegistersProofs ---------------------------
(***************************************************************************)
(* Proofs about Registers, for any number of values of a byte, any plc.yml,  *)
(* any values and any answers of the device.                                *)
(***************************************************************************)
EXTENDS Registers, FiniteSetTheorems, TLAPS

-----------------------------------------------------------------------------
(* Arithmetic of bytes and words.                                           *)

(* The numbers of values of a byte, a u16, a u32 and a u64 are positive. *)
LEMMA BaseFacts ==
  /\ Base \in Nat \ {0}
  /\ WordBase \in Nat \ {0}
  /\ LongBase \in Nat \ {0}
  /\ LongBase * LongBase \in Nat \ {0}
<1>1. PICK n \in 1 .. 128 : Base = 2 * n
      BY RegistersAssumption
<1>2. Base \in Nat \ {0} /\ n * Base \in Nat \ {0} /\ WordBase = 2 * (n * Base)
      BY <1>1 DEF WordBase
<1>3. WordBase \in Nat \ {0}
      BY <1>2
<1>4. (n * Base) * WordBase \in Nat \ {0} /\ LongBase = 2 * ((n * Base) * WordBase)
      BY <1>2, <1>3 DEF LongBase
<1>5. LongBase \in Nat \ {0}
      BY <1>4
<1> QED
      BY <1>2, <1>3, <1>5

(* Division with remainder. *)
LEMMA Division ==
  ASSUME NEW b \in Nat \ {0}, NEW c \in Nat, NEW a \in 0 .. c * b - 1
  PROVE  /\ a \div b \in 0 .. c - 1
         /\ a % b \in 0 .. b - 1
         /\ a = (a \div b) * b + (a % b)
OBVIOUS

(* A quotient and a remainder are unique. *)
LEMMA Composition ==
  ASSUME NEW b \in Nat \ {0}, NEW c \in Nat, NEW q \in 0 .. c - 1, NEW r \in 0 .. b - 1
  PROVE  /\ q * b + r \in 0 .. c * b - 1
         /\ (q * b + r) \div b = q
         /\ (q * b + r) % b = r
OBVIOUS

(* A conversion keeps what fits. *)
LEMMA SmallModulus ==
  ASSUME NEW b \in Nat \ {0}, NEW r \in 0 .. b - 1
  PROVE  r % b = r
OBVIOUS

(* The two bytes of a u16 make it up again, in a register as in an integer. *)
LEMMA BytesOfWord ==
  ASSUME NEW v \in Word16
  PROVE  /\ Word(u16_to_be_bytes(v)[1], u16_to_be_bytes(v)[2]) = v
         /\ u16_to_be_bytes(v)[1] * Base + u16_to_be_bytes(v)[2] = v
<1> DEFINE h == v \div Base
           l == v % Base
<1>1. u16_to_be_bytes(v)[1] = h /\ u16_to_be_bytes(v)[2] = l
      BY DEF u16_to_be_bytes
<1>2. h \in 0 .. Base - 1 /\ l \in 0 .. Base - 1 /\ v = h * Base + l
      BY BaseFacts, Division DEF Word16, WordBase
<1> HIDE DEF h, l
<1>3. h * Base + 0 \in 0 .. Base * Base - 1
      BY <1>2, BaseFacts, Composition
<1>4. h * Base \in 0 .. WordBase - 1
      BY <1>2, <1>3, BaseFacts DEF WordBase
<1>5. (h * Base) % WordBase = h * Base
      BY <1>4, BaseFacts, SmallModulus
<1> QED
      BY <1>1, <1>2, <1>5 DEF Word

(* The u32 and the u64 that words make up, the highest first. *)
Long(x, y) == x * WordBase + y
LongLong(a, b, c, d) == Long(a, b) * LongBase + Long(c, d)

(* The words of a u32 and of a u64. *)
LEMMA WordsOfLong ==
  ASSUME NEW v \in 0 .. LongBase - 1
  PROVE  /\ v \div WordBase \in Word16
         /\ v % WordBase \in Word16
         /\ v = Long(v \div WordBase, v % WordBase)
         /\ u32_to_modbus_array(v) = <<v \div WordBase, v % WordBase>>
         /\ f32_to_modbus_array(v) = <<v % WordBase, v \div WordBase>>
<1> DEFINE h == v \div WordBase
           l == v % WordBase
<1>1. h \in Word16 /\ l \in Word16 /\ v = Long(h, l)
      BY BaseFacts, Division DEF Word16, LongBase, Long
<1>2. u32_to_be_bytes(v) = <<u16_to_be_bytes(h)[1], u16_to_be_bytes(h)[2],
                             u16_to_be_bytes(l)[1], u16_to_be_bytes(l)[2]>>
      BY DEF u32_to_be_bytes
<1> HIDE DEF h, l
<1>3. /\ Word(u32_to_be_bytes(v)[1], u32_to_be_bytes(v)[2]) = h
      /\ Word(u32_to_be_bytes(v)[3], u32_to_be_bytes(v)[4]) = l
      BY <1>1, <1>2, BytesOfWord
<1> QED
      BY <1>1, <1>3 DEF h, l, u32_to_modbus_array, f32_to_modbus_array

(* A u64 is laid out as its four words, and an f64 in the opposite order. *)
LEMMA WordsOfLongLong ==
  ASSUME NEW v \in 0 .. LongBase * LongBase - 1
  PROVE  \E a, b, c, d \in Word16 :
           /\ v = LongLong(a, b, c, d)
           /\ u64_to_modbus_array(v) = <<a, b, c, d>>
           /\ f64_to_modbus_array(v) = <<d, c, b, a>>
<1> DEFINE h == v \div LongBase
           l == v % LongBase
           a == h \div WordBase
           b == h % WordBase
           c == l \div WordBase
           d == l % WordBase
<1>1. h \in 0 .. LongBase - 1 /\ l \in 0 .. LongBase - 1 /\ v = h * LongBase + l
      BY BaseFacts, Division
<1>2. u64_to_be_bytes(v) = <<u16_to_be_bytes(a)[1], u16_to_be_bytes(a)[2],
                             u16_to_be_bytes(b)[1], u16_to_be_bytes(b)[2],
                             u16_to_be_bytes(c)[1], u16_to_be_bytes(c)[2],
                             u16_to_be_bytes(d)[1], u16_to_be_bytes(d)[2]>>
      BY DEF u64_to_be_bytes, u32_to_be_bytes
<1>3. /\ a \in Word16 /\ b \in Word16 /\ h = Long(a, b)
      /\ c \in Word16 /\ d \in Word16 /\ l = Long(c, d)
  <2> HIDE DEF h, l
  <2> QED BY <1>1, WordsOfLong
<1> HIDE DEF a, b, c, d, h, l
<1>4. /\ Word(u64_to_be_bytes(v)[1], u64_to_be_bytes(v)[2]) = a
      /\ Word(u64_to_be_bytes(v)[3], u64_to_be_bytes(v)[4]) = b
      /\ Word(u64_to_be_bytes(v)[5], u64_to_be_bytes(v)[6]) = c
      /\ Word(u64_to_be_bytes(v)[7], u64_to_be_bytes(v)[8]) = d
      BY <1>2, <1>3, BytesOfWord
<1>5. /\ u64_to_modbus_array(v) = <<a, b, c, d>>
      /\ f64_to_modbus_array(v) = <<d, c, b, a>>
      BY <1>4 DEF u64_to_modbus_array, f64_to_modbus_array
<1> QED
      BY <1>1, <1>3, <1>5 DEF LongLong

(* What the bytes of words make up. *)
LEMMA LongOfBytes ==
  ASSUME NEW x \in Word16, NEW y \in Word16
  PROVE  u32_from_be_bytes(<<u16_to_be_bytes(x)[1], u16_to_be_bytes(x)[2],
                             u16_to_be_bytes(y)[1], u16_to_be_bytes(y)[2]>>) = Long(x, y)
<1> DEFINE b == <<u16_to_be_bytes(x)[1], u16_to_be_bytes(x)[2],
                  u16_to_be_bytes(y)[1], u16_to_be_bytes(y)[2]>>
<1>1. b[1] * Base + b[2] = x /\ b[3] * Base + b[4] = y
      BY BytesOfWord
<1> HIDE DEF b
<1>2. u32_from_be_bytes(b) = Long(x, y)
      BY <1>1 DEF u32_from_be_bytes, Long
<1> QED
      BY <1>2 DEF b

-----------------------------------------------------------------------------
(* Values and their registers.                                              *)

(* The bit pattern that the words of a value make up. *)
Pattern(t, w) ==
  CASE t \in {"u16", "i16"} -> w[1]
    [] t \in {"u32", "i32"} -> Long(w[1], w[2])
    [] t = "f32" -> Long(w[2], w[1])
    [] t \in {"u64", "i64"} -> LongLong(w[1], w[2], w[3], w[4])
    [] t = "f64" -> LongLong(w[4], w[3], w[2], w[1])

Registers(t) == [1 .. Size(t) -> Word16]

(* A value is a pattern, and back. *)
LEMMA SignedPatterns ==
  ASSUME NEW t \in Types
  PROVE  /\ Patterns(t) \in Nat \ {0}
         /\ \A v \in Values(t) : Bits(t, v) \in 0 .. Patterns(t) - 1 /\ FromBits(t, Bits(t, v)) = v
         /\ \A u \in 0 .. Patterns(t) - 1 : FromBits(t, u) \in Values(t) /\ Bits(t, FromBits(t, u)) = u
         /\ 0 \in Values(t) /\ Values(t) \subseteq Int
<1> DEFINE p == Patterns(t)
           h == Patterns(t) \div 2
<1>1. p \in Nat \ {0} /\ p = 2 * h /\ h \in Nat
  <2>1. PICK n \in 1 .. 128 : Base = 2 * n
        BY RegistersAssumption
  <2>2. WordBase = 2 * (n * Base) /\ n * Base \in Nat
        BY <2>1, BaseFacts DEF WordBase
  <2>3. LongBase = 2 * ((n * Base) * WordBase) /\ (n * Base) * WordBase \in Nat
        BY <2>2, BaseFacts DEF LongBase
  <2>4. /\ LongBase * LongBase = 2 * (((n * Base) * WordBase) * LongBase)
        /\ ((n * Base) * WordBase) * LongBase \in Nat
        BY <2>3, BaseFacts
  <2>5. p \in {WordBase, LongBase, LongBase * LongBase}
        BY DEF Patterns
  <2> QED
        BY <2>2, <2>3, <2>4, <2>5, BaseFacts
<1> HIDE DEF p, h
<1>2. Values(t) = IF t \in Signed THEN -h .. h - 1 ELSE 0 .. p - 1
      BY DEF Values, p, h
<1>3. \A v \in Values(t) : Bits(t, v) = IF v < 0 THEN v + p ELSE v
  <2> SUFFICES ASSUME NEW v \in Values(t) PROVE v % p = IF v < 0 THEN v + p ELSE v
        BY DEF Bits, p
  <2>1. v \in -p .. p - 1
        BY <1>1, <1>2
  <2> QED
        BY <1>1, <2>1
<1>4. \A u : FromBits(t, u) = IF t \in Signed /\ u >= h THEN u - p ELSE u
      BY DEF FromBits, p, h
<1>5. \A v \in Values(t) : Bits(t, v) \in 0 .. p - 1 /\ FromBits(t, Bits(t, v)) = v
      BY <1>1, <1>2, <1>3, <1>4
<1>6. \A u \in 0 .. p - 1 : FromBits(t, u) \in Values(t) /\ Bits(t, FromBits(t, u)) = u
      BY <1>1, <1>2, <1>3, <1>4
<1>7. 0 \in Values(t) /\ Values(t) \subseteq Int
      BY <1>1, <1>2
<1> QED
      BY <1>1, <1>5, <1>6, <1>7 DEF p

(* The words of a u32 and of a u64 are the ones it is made of. *)
LEMMA LongOfWords ==
  ASSUME NEW x \in Word16, NEW y \in Word16
  PROVE  /\ Long(x, y) \in 0 .. LongBase - 1
         /\ Long(x, y) \div WordBase = x
         /\ Long(x, y) % WordBase = y
         /\ u32_to_modbus_array(Long(x, y)) = <<x, y>>
         /\ f32_to_modbus_array(Long(x, y)) = <<y, x>>
<1> DEFINE v == Long(x, y)
<1>1. v \in 0 .. WordBase * WordBase - 1 /\ v \div WordBase = x /\ v % WordBase = y
      BY BaseFacts, Composition DEF Word16, Long
<1>2. v \in 0 .. LongBase - 1
      BY <1>1 DEF LongBase
<1> HIDE DEF v
<1>3. u32_to_modbus_array(v) = <<x, y>> /\ f32_to_modbus_array(v) = <<y, x>>
      BY <1>1, <1>2, WordsOfLong
<1> QED
      BY <1>1, <1>2, <1>3 DEF v

(* Any four words are the layout of the u64 they make up. *)
LEMMA LongLongOfWords ==
  ASSUME NEW a \in Word16, NEW b \in Word16, NEW c \in Word16, NEW d \in Word16
  PROVE  /\ LongLong(a, b, c, d) \in 0 .. LongBase * LongBase - 1
         /\ u64_to_modbus_array(LongLong(a, b, c, d)) = <<a, b, c, d>>
         /\ f64_to_modbus_array(LongLong(a, b, c, d)) = <<d, c, b, a>>
<1> DEFINE v == LongLong(a, b, c, d)
<1>1. ASSUME NEW x \in 0 .. LongBase - 1, NEW y \in 0 .. LongBase - 1
      PROVE  /\ x * LongBase + y \in 0 .. LongBase * LongBase - 1
             /\ (x * LongBase + y) \div LongBase = x
             /\ (x * LongBase + y) % LongBase = y
      BY BaseFacts, Composition
<1>2. /\ v \in 0 .. LongBase * LongBase - 1
      /\ v \div LongBase = Long(a, b)
      /\ v % LongBase = Long(c, d)
  <2>1. Long(a, b) \in 0 .. LongBase - 1 /\ Long(c, d) \in 0 .. LongBase - 1
        BY LongOfWords
  <2> QED
        BY <1>1, <2>1 DEF LongLong
<1> HIDE DEF v
<1>3. PICK a1, b1, c1, d1 \in Word16 : /\ v = LongLong(a1, b1, c1, d1)
                                       /\ u64_to_modbus_array(v) = <<a1, b1, c1, d1>>
                                       /\ f64_to_modbus_array(v) = <<d1, c1, b1, a1>>
      BY <1>2, WordsOfLongLong
<1>4. v \div LongBase = Long(a1, b1) /\ v % LongBase = Long(c1, d1)
  <2>1. Long(a1, b1) \in 0 .. LongBase - 1 /\ Long(c1, d1) \in 0 .. LongBase - 1
        BY LongOfWords
  <2> QED
        BY <1>1, <1>3, <2>1 DEF LongLong
<1>5. Long(a, b) = Long(a1, b1) /\ Long(c, d) = Long(c1, d1)
      BY <1>2, <1>4
<1>6. a = a1 /\ b = b1 /\ c = c1 /\ d = d1
  <2>1. /\ Long(a, b) \div WordBase = a /\ Long(a, b) % WordBase = b
        /\ Long(c, d) \div WordBase = c /\ Long(c, d) % WordBase = d
        BY LongOfWords
  <2>2. /\ Long(a1, b1) \div WordBase = a1 /\ Long(a1, b1) % WordBase = b1
        /\ Long(c1, d1) \div WordBase = c1 /\ Long(c1, d1) % WordBase = d1
        BY LongOfWords
  <2> QED
        BY <1>5, <2>1, <2>2
<1> QED
      BY <1>2, <1>3, <1>6 DEF v

(* What Encode lays out, the pattern of its registers makes up again. *)
LEMMA EncodePattern ==
  ASSUME NEW t \in Types, NEW v \in Values(t)
  PROVE  /\ Encode(t, v) \in Registers(t)
         /\ FromBits(t, Pattern(t, Encode(t, v))) = v
<1> DEFINE u == IF t \in Floats THEN v ELSE Bits(t, v)
<1>1. u \in 0 .. Patterns(t) - 1 /\ FromBits(t, u) = v
  <2>1. CASE t \in Floats
        BY <2>1 DEF Floats, Signed, Values, FromBits
  <2>2. CASE t \notin Floats
        BY <2>2, SignedPatterns
  <2> QED BY <2>1, <2>2
<1>2. Encode(t, v) \in Registers(t) /\ Pattern(t, Encode(t, v)) = u
  <2>1. CASE t \in {"u16", "i16"}
    <3>1. Encode(t, v) = <<u>>
          BY <2>1 DEF Encode, Floats
    <3>2. u \in Word16 /\ Size(t) = 1
          BY <1>1, <2>1 DEF Patterns, Size, Word16
    <3> HIDE DEF u
    <3> QED BY <2>1, <3>1, <3>2 DEF Pattern, Registers
  <2>2. CASE t \in {"u32", "i32", "f32"}
    <3>1. u \in 0 .. LongBase - 1 /\ Size(t) = 2
          BY <1>1, <2>2 DEF Patterns, Size
    <3>2. Encode(t, v) = IF t = "f32" THEN f32_to_modbus_array(u) ELSE u32_to_modbus_array(u)
          BY <2>2 DEF Encode, Floats
    <3> HIDE DEF u
    <3>3. PICK x, y \in Word16 : /\ u = Long(x, y)
                                 /\ u32_to_modbus_array(u) = <<x, y>>
                                 /\ f32_to_modbus_array(u) = <<y, x>>
          BY <3>1, WordsOfLong
    <3>4. CASE t = "f32"
      <4>1. Encode(t, v) = <<y, x>>
            BY <3>2, <3>3, <3>4
      <4> QED BY <3>1, <3>3, <3>4, <4>1 DEF Pattern, Registers
    <3>5. CASE t # "f32"
      <4>1. Encode(t, v) = <<x, y>>
            BY <3>2, <3>3, <3>5
      <4> QED BY <2>2, <3>1, <3>3, <3>5, <4>1 DEF Pattern, Registers
    <3> QED BY <3>4, <3>5
  <2>3. CASE t \in {"u64", "i64", "f64"}
    <3>1. u \in 0 .. LongBase * LongBase - 1 /\ Size(t) = 4
          BY <1>1, <2>3 DEF Patterns, Size
    <3>2. Encode(t, v) = IF t = "f64" THEN f64_to_modbus_array(u) ELSE u64_to_modbus_array(u)
          BY <2>3 DEF Encode, Floats
    <3> HIDE DEF u
    <3>3. PICK a, b, c, d \in Word16 : /\ u = LongLong(a, b, c, d)
                                       /\ u64_to_modbus_array(u) = <<a, b, c, d>>
                                       /\ f64_to_modbus_array(u) = <<d, c, b, a>>
          BY <3>1, WordsOfLongLong
    <3>4. CASE t = "f64"
      <4>1. Encode(t, v) = <<d, c, b, a>>
            BY <3>2, <3>3, <3>4
      <4> QED BY <3>1, <3>3, <3>4, <4>1 DEF Pattern, Registers
    <3>5. CASE t # "f64"
      <4>1. Encode(t, v) = <<a, b, c, d>>
            BY <3>2, <3>3, <3>5
      <4> QED BY <2>3, <3>1, <3>3, <3>5, <4>1 DEF Pattern, Registers
    <3> QED BY <3>4, <3>5
  <2> QED BY <2>1, <2>2, <2>3 DEF Types
<1> QED
      BY <1>1, <1>2

(* Any registers are the layout of the value they decode to. *)
LEMMA PatternEncode ==
  ASSUME NEW t \in Types, NEW w \in Registers(t)
  PROVE  /\ FromBits(t, Pattern(t, w)) \in Values(t)
         /\ Encode(t, FromBits(t, Pattern(t, w))) = w
<1> DEFINE u == Pattern(t, w)
           v == FromBits(t, u)
<1>1. CASE t \in {"u16", "i16"}
  <2>1. Size(t) = 1 /\ Patterns(t) = WordBase
        BY <1>1 DEF Size, Patterns
  <2>2. u \in 0 .. Patterns(t) - 1 /\ w = <<u>>
        BY <1>1, <2>1 DEF Pattern, Registers, Word16
  <2>3. v \in Values(t) /\ Bits(t, v) = u
    <3> HIDE DEF u
    <3> QED BY <2>2, SignedPatterns
  <2> HIDE DEF u, v
  <2> QED BY <1>1, <2>2, <2>3 DEF Encode, u, v
<1>2. CASE t \in {"u32", "i32", "f32"}
  <2>1. Size(t) = 2 /\ Patterns(t) = LongBase
        BY <1>2 DEF Size, Patterns
  <2>2. w[1] \in Word16 /\ w[2] \in Word16 /\ w = <<w[1], w[2]>>
        BY <2>1 DEF Registers
  <2>3. u = IF t = "f32" THEN Long(w[2], w[1]) ELSE Long(w[1], w[2])
        BY <1>2 DEF Pattern
  <2> HIDE DEF u
  <2>4. u \in 0 .. Patterns(t) - 1
        BY <2>1, <2>2, <2>3, LongOfWords
  <2>5. v \in Values(t) /\ Bits(t, v) = u
        BY <2>4, SignedPatterns
  <2>6. t = "f32" => v = u
        BY DEF FromBits, Signed
  <2> HIDE DEF v
  <2>7. Encode(t, v) = IF t = "f32" THEN f32_to_modbus_array(u) ELSE u32_to_modbus_array(u)
        BY <1>2, <2>5, <2>6 DEF Encode
  <2>8. Encode(t, v) = <<w[1], w[2]>>
        BY <2>2, <2>3, <2>7, LongOfWords
  <2> QED BY <2>2, <2>5, <2>8 DEF u, v
<1>3. CASE t \in {"u64", "i64", "f64"}
  <2>1. Size(t) = 4 /\ Patterns(t) = LongBase * LongBase
        BY <1>3 DEF Size, Patterns
  <2>2. /\ w[1] \in Word16 /\ w[2] \in Word16 /\ w[3] \in Word16 /\ w[4] \in Word16
        /\ w = <<w[1], w[2], w[3], w[4]>>
        BY <2>1 DEF Registers
  <2>3. u = IF t = "f64" THEN LongLong(w[4], w[3], w[2], w[1]) ELSE LongLong(w[1], w[2], w[3], w[4])
        BY <1>3 DEF Pattern
  <2> HIDE DEF u
  <2>4. u \in 0 .. Patterns(t) - 1
        BY <2>1, <2>2, <2>3, LongLongOfWords
  <2>5. v \in Values(t) /\ Bits(t, v) = u
        BY <2>4, SignedPatterns
  <2>6. t = "f64" => v = u
        BY DEF FromBits, Signed
  <2> HIDE DEF v
  <2>7. Encode(t, v) = IF t = "f64" THEN f64_to_modbus_array(u) ELSE u64_to_modbus_array(u)
        BY <1>3, <2>5, <2>6 DEF Encode
  <2>8. Encode(t, v) = <<w[1], w[2], w[3], w[4]>>
    <3> DEFINE a == w[1]  b == w[2]  c == w[3]  d == w[4]
    <3>0. a \in Word16 /\ b \in Word16 /\ c \in Word16 /\ d \in Word16
          BY <2>2
    <3>1. CASE t = "f64"
      <4>1. f64_to_modbus_array(LongLong(w[4], w[3], w[2], w[1])) = <<w[1], w[2], w[3], w[4]>>
        <5>1. f64_to_modbus_array(LongLong(d, c, b, a)) = <<a, b, c, d>>
          <6> HIDE DEF a, b, c, d
          <6> QED BY <3>0, LongLongOfWords
        <5> QED BY <5>1
      <4> QED BY <2>3, <2>7, <3>1, <4>1, Zenon
    <3>2. CASE t # "f64"
      <4>1. u64_to_modbus_array(LongLong(w[1], w[2], w[3], w[4])) = <<w[1], w[2], w[3], w[4]>>
        <5>1. u64_to_modbus_array(LongLong(a, b, c, d)) = <<a, b, c, d>>
          <6> HIDE DEF a, b, c, d
          <6> QED BY <3>0, LongLongOfWords
        <5> QED BY <5>1
      <4> QED BY <2>3, <2>7, <3>2, <4>1, Zenon
    <3> QED BY <3>1, <3>2
  <2> QED BY <2>2, <2>5, <2>8 DEF u, v
<1> QED
      BY <1>1, <1>2, <1>3 DEF Types

(* Decode takes the words from idx on, and is an error if there are too few. *)
LEMMA DecodeWords ==
  ASSUME NEW t \in Types, NEW s \in Seq(Word16), NEW idx \in Nat
  PROVE  /\ idx + Size(t) > Len(s) => Decode(t, s, idx) = NoValue
         /\ idx + Size(t) <= Len(s) =>
              LET w == [i \in 1 .. Size(t) |-> s[idx + i]]
              IN  w \in Registers(t) /\ Decode(t, s, idx) = FromBits(t, Pattern(t, w))
<1>1. ASSUME idx + Size(t) > Len(s) PROVE Decode(t, s, idx) = NoValue
      BY <1>1 DEF Decode, Size
<1>2. ASSUME idx + Size(t) <= Len(s)
      PROVE  LET w == [i \in 1 .. Size(t) |-> s[idx + i]]
             IN  w \in Registers(t) /\ Decode(t, s, idx) = FromBits(t, Pattern(t, w))
  <2> DEFINE w == [i \in 1 .. Size(t) |-> s[idx + i]]
             b(i) == u16_to_be_bytes(s[idx + i])
  <2>1. w \in Registers(t) /\ \A i \in 1 .. Size(t) : s[idx + i] = w[i] /\ w[i] \in Word16
        BY <1>2 DEF Registers, Size
  <2>2. CASE t \in {"u16", "i16"}
    <3>1. Decode(t, s, idx) = FromBits(t, s[idx + 1])
          BY <1>2, <2>2 DEF Decode, Size
    <3>2. Pattern(t, w) = s[idx + 1]
          BY <2>1, <2>2 DEF Pattern, Size
    <3> QED BY <2>1, <3>1, <3>2
  <2>3. CASE t \in {"u32", "i32", "f32"}
    <3>1. w[1] \in Word16 /\ w[2] \in Word16 /\ s[idx + 1] = w[1] /\ s[idx + 2] = w[2]
      <4>1. Size(t) = 2
            BY <2>3 DEF Size
      <4> HIDE DEF w
      <4> QED BY <2>1, <4>1
    <3>2. Decode(t, s, idx) = FromBits(t, u32_from_be_bytes(
            IF t = "f32" THEN <<b(2)[1], b(2)[2], b(1)[1], b(1)[2]>>
            ELSE <<b(1)[1], b(1)[2], b(2)[1], b(2)[2]>>))
          BY <1>2, <2>3 DEF Decode, Size
    <3>3. Decode(t, s, idx) =
            FromBits(t, IF t = "f32" THEN Long(w[2], w[1]) ELSE Long(w[1], w[2]))
      <4> HIDE DEF w
      <4> QED BY <3>1, <3>2, LongOfBytes
    <3> HIDE DEF w
    <3>4. Pattern(t, w) = IF t = "f32" THEN Long(w[2], w[1]) ELSE Long(w[1], w[2])
          BY <2>3 DEF Pattern
    <3>5. Decode(t, s, idx) = FromBits(t, Pattern(t, w))
          BY <3>3, <3>4
    <3> QED BY <2>1, <3>5 DEF w
  <2>4. CASE t \in {"u64", "i64", "f64"}
    <3>1. /\ w[1] \in Word16 /\ w[2] \in Word16 /\ s[idx + 1] = w[1] /\ s[idx + 2] = w[2]
          /\ w[3] \in Word16 /\ w[4] \in Word16 /\ s[idx + 3] = w[3] /\ s[idx + 4] = w[4]
      <4>1. Size(t) = 4
            BY <2>4 DEF Size
      <4> HIDE DEF w
      <4> QED BY <2>1, <4>1
    <3> DEFINE u32(i, j) == <<b(i)[1], b(i)[2], b(j)[1], b(j)[2]>>
               u64(i, j, k, l) == u32(i, j) \o u32(k, l)
    <3>2. Decode(t, s, idx) =
            FromBits(t, u64_from_be_bytes(IF t = "f64" THEN u64(4, 3, 2, 1) ELSE u64(1, 2, 3, 4)))
          BY <1>2, <2>4 DEF Decode, Size
    <3>3. \A i, j, k, l \in 1 .. 4 : u64_from_be_bytes(u64(i, j, k, l)) =
            LongLong(w[i], w[j], w[k], w[l])
      <4> SUFFICES ASSUME NEW i \in 1 .. 4, NEW j \in 1 .. 4, NEW k \in 1 .. 4, NEW l \in 1 .. 4
                   PROVE  u64_from_be_bytes(u64(i, j, k, l)) =
                            LongLong(w[i], w[j], w[k], w[l])
            OBVIOUS
      <4> DEFINE B == u64(i, j, k, l)
      <4>1. <<B[1], B[2], B[3], B[4]>> = u32(i, j) /\ <<B[5], B[6], B[7], B[8]>> = u32(k, l)
            OBVIOUS
      <4>2. /\ s[idx + i] = w[i] /\ w[i] \in Word16 /\ s[idx + j] = w[j] /\ w[j] \in Word16
            /\ s[idx + k] = w[k] /\ w[k] \in Word16 /\ s[idx + l] = w[l] /\ w[l] \in Word16
        <5> HIDE DEF w
        <5>1. \A n \in 1 .. 4 : s[idx + n] = w[n] /\ w[n] \in Word16
              BY <3>1
        <5> QED BY <5>1
      <4>3. /\ u32_from_be_bytes(u32(i, j)) = Long(w[i], w[j])
            /\ u32_from_be_bytes(u32(k, l)) = Long(w[k], w[l])
        <5> HIDE DEF w
        <5> QED BY <4>2, LongOfBytes
      <4> HIDE DEF B, u32, w
      <4> QED BY <4>1, <4>3 DEF u64_from_be_bytes, B, LongLong
    <3> HIDE DEF w, u64
    <3>4. Pattern(t, w) =
            IF t = "f64" THEN LongLong(w[4], w[3], w[2], w[1]) ELSE LongLong(w[1], w[2], w[3], w[4])
          BY <2>4 DEF Pattern
    <3>5. Decode(t, s, idx) = FromBits(t, Pattern(t, w))
          BY <3>2, <3>3, <3>4
    <3> QED BY <2>1, <3>5 DEF w
  <2> QED BY <2>2, <2>3, <2>4 DEF Types
<1> QED
      BY <1>1, <1>2

-----------------------------------------------------------------------------
(* Arrays and their registers.                                              *)

(* A value takes one, two or four registers. *)
LEMMA SizeType ==
  ASSUME NEW t \in Types
  PROVE  Size(t) \in {1, 2, 4}
BY DEF Size

(* Values, arrays of them and registers are no errors. *)
LEMMA WordsAreValues ==
  /\ NoValue \notin Int
  /\ Word16 \subseteq Int /\ 0 \in Word16
  /\ \A t \in Types, n \in Nat : \A vs \in Arrays(t, n) : vs \in Seq(Int) /\ vs # NoValue
  /\ \A n \in Nat : \A s \in [1 .. n -> Word16] : s \in Seq(Word16) /\ s # NoValue
<1>1. NoValue \notin Int /\ NoValue \notin Seq(Int)
      BY RegistersAssumption
<1>2. Word16 \subseteq Int /\ 0 \in Word16
      BY BaseFacts DEF Word16
<1>3. ASSUME NEW t \in Types, NEW n \in Nat, NEW vs \in Arrays(t, n)
      PROVE  vs \in Seq(Int) /\ vs # NoValue
  <2>1. vs \in [1 .. n -> Int]
        BY SignedPatterns DEF Arrays
  <2> QED BY <1>1, <2>1
<1>4. ASSUME NEW n \in Nat, NEW s \in [1 .. n -> Word16]
      PROVE  s \in Seq(Word16) /\ s # NoValue
  <2>1. s \in [1 .. n -> Int]
        BY <1>2
  <2>2. s \in Seq(Int)
        BY <2>1
  <2> QED BY <1>1, <2>2
<1> QED
      BY <1>1, <1>2, <1>3, <1>4

(* Register k of an array is one of the value it falls into. *)
LEMMA Position ==
  ASSUME NEW t \in Types, NEW n \in Nat
  PROVE  /\ n * Size(t) \in Nat
         /\ \A k \in 1 .. n * Size(t) :
              /\ (k - 1) \div Size(t) \in Nat
              /\ 1 + ((k - 1) \div Size(t)) \in 1 .. n
              /\ 1 + ((k - 1) % Size(t)) \in 1 .. Size(t)
              /\ k = ((k - 1) \div Size(t)) * Size(t) + (1 + ((k - 1) % Size(t)))
         /\ \A i \in 1 .. n, j \in 1 .. Size(t) :
              /\ (i - 1) * Size(t) + j \in 1 .. n * Size(t)
              /\ ((i - 1) * Size(t) + j - 1) \div Size(t) = i - 1
              /\ ((i - 1) * Size(t) + j - 1) % Size(t) = j - 1
<1>1. CASE Size(t) = 1
      BY <1>1
<1>2. CASE Size(t) = 2
      BY <1>2
<1>3. CASE Size(t) = 4
      BY <1>3
<1> QED
      BY <1>1, <1>2, <1>3, SizeType

(* The layout of an array: its values one after the other. *)
LEMMA EncodeArrayType ==
  ASSUME NEW t \in Types, NEW n \in Nat, NEW vs \in Arrays(t, n)
  PROVE  /\ EncodeArray(t, vs) \in [1 .. n * Size(t) -> Word16]
         /\ Len(EncodeArray(t, vs)) = n * Size(t)
         /\ \A i \in 1 .. n, j \in 1 .. Size(t) :
              EncodeArray(t, vs)[(i - 1) * Size(t) + j] = Encode(t, vs[i])[j]
<1>1. Len(vs) = n /\ n * Size(t) \in Nat /\ \A i \in 1 .. n : vs[i] \in Values(t)
      BY Position DEF Arrays
<1>2. EncodeArray(t, vs) = [k \in 1 .. n * Size(t) |->
        Encode(t, vs[1 + ((k - 1) \div Size(t))])[1 + ((k - 1) % Size(t))]]
      BY <1>1 DEF EncodeArray
<1>3. \A i \in 1 .. n, j \in 1 .. Size(t) : Encode(t, vs[i])[j] \in Word16
      BY <1>1, EncodePattern DEF Registers
<1>4. EncodeArray(t, vs) \in [1 .. n * Size(t) -> Word16]
  <2>1. ASSUME NEW k \in 1 .. n * Size(t)
        PROVE  Encode(t, vs[1 + ((k - 1) \div Size(t))])[1 + ((k - 1) % Size(t))] \in Word16
    <3>1. 1 + ((k - 1) \div Size(t)) \in 1 .. n /\ 1 + ((k - 1) % Size(t)) \in 1 .. Size(t)
          BY Position
    <3> QED BY <1>3, <3>1
  <2> QED BY <1>2, <2>1
<1>5. ASSUME NEW i \in 1 .. n, NEW j \in 1 .. Size(t)
      PROVE  EncodeArray(t, vs)[(i - 1) * Size(t) + j] = Encode(t, vs[i])[j]
  <2> DEFINE k == (i - 1) * Size(t) + j
  <2>1. k \in 1 .. n * Size(t) /\ (k - 1) \div Size(t) = i - 1 /\ (k - 1) % Size(t) = j - 1
        BY Position
  <2>2. 1 + (i - 1) = i /\ 1 + (j - 1) = j
        BY SizeType
  <2> HIDE DEF k
  <2>3. EncodeArray(t, vs)[k] = Encode(t, vs[1 + (i - 1)])[1 + (j - 1)]
        BY <1>2, <2>1
  <2> QED BY <2>2, <2>3 DEF k
<1> QED
      BY <1>1, <1>4, <1>5

(* An array decodes if all its registers are there, and only then. *)
LEMMA DecodeArrayType ==
  ASSUME NEW t \in Types, NEW n \in Nat \ {0}, NEW s \in Seq(Word16)
  PROVE  /\ n * Size(t) > Len(s) => DecodeArray(t, n, s) = NoValue
         /\ n * Size(t) <= Len(s) =>
              /\ DecodeArray(t, n, s) \in Arrays(t, n)
              /\ \A i \in 1 .. n :
                   LET w == [j \in 1 .. Size(t) |-> s[(i - 1) * Size(t) + j]]
                   IN  w \in Registers(t) /\ DecodeArray(t, n, s)[i] = FromBits(t, Pattern(t, w))
<1> DEFINE vs == [i \in 1 .. n |-> Decode(t, s, (i - 1) * Size(t))]
           w(i) == [j \in 1 .. Size(t) |-> s[(i - 1) * Size(t) + j]]
<1>1. DecodeArray(t, n, s) = IF \E i \in 1 .. n : vs[i] = NoValue THEN NoValue ELSE vs
      BY DEF DecodeArray
<1>2. \A i \in 1 .. n : (i - 1) * Size(t) \in Nat /\ (i - 1) * Size(t) + Size(t) <= n * Size(t)
      BY SizeType
<1>3. ASSUME n * Size(t) > Len(s) PROVE DecodeArray(t, n, s) = NoValue
  <2>1. (n - 1) * Size(t) \in Nat /\ (n - 1) * Size(t) + Size(t) = n * Size(t)
        BY SizeType
  <2>2. Decode(t, s, (n - 1) * Size(t)) = NoValue
        BY <1>3, <2>1, DecodeWords
  <2>3. n \in 1 .. n /\ vs[n] = NoValue
        BY <2>2
  <2> HIDE DEF vs
  <2> QED BY <1>1, <2>3
<1>4. ASSUME n * Size(t) <= Len(s)
      PROVE  /\ DecodeArray(t, n, s) \in Arrays(t, n)
             /\ \A i \in 1 .. n : w(i) \in Registers(t)
                                  /\ DecodeArray(t, n, s)[i] = FromBits(t, Pattern(t, w(i)))
  <2>1. ASSUME NEW i \in 1 .. n
        PROVE  /\ w(i) \in Registers(t)
               /\ vs[i] = FromBits(t, Pattern(t, w(i)))
    <3> DEFINE idx == (i - 1) * Size(t)
    <3>1. idx \in Nat /\ idx + Size(t) <= Len(s)
          BY <1>2, <1>4, SizeType
    <3> HIDE DEF idx
    <3>2. LET x == [j \in 1 .. Size(t) |-> s[idx + j]]
          IN  x \in Registers(t) /\ Decode(t, s, idx) = FromBits(t, Pattern(t, x))
          BY <3>1, DecodeWords
    <3>3. w(i) \in Registers(t) /\ Decode(t, s, idx) = FromBits(t, Pattern(t, w(i)))
          BY <3>2 DEF idx
    <3> HIDE DEF w
    <3> QED BY <3>3 DEF idx
  <2>2. \A i \in 1 .. n : vs[i] \in Values(t) /\ vs[i] # NoValue
    <3> SUFFICES ASSUME NEW i \in 1 .. n PROVE vs[i] \in Values(t) /\ vs[i] # NoValue
          OBVIOUS
    <3> HIDE DEF vs, w
    <3>1. vs[i] \in Values(t)
          BY <2>1, PatternEncode
    <3> QED BY <3>1, SignedPatterns, WordsAreValues
  <2>3. DecodeArray(t, n, s) = vs
    <3> HIDE DEF vs
    <3> QED BY <1>1, <2>2
  <2>4. vs \in Arrays(t, n)
        BY <2>2 DEF Arrays
  <2> HIDE DEF vs, w
  <2> QED BY <2>1, <2>3, <2>4
<1> HIDE DEF vs
<1> QED
      BY <1>3, <1>4

(* What an array is laid out as is read back (whatever follows), and an array    *)
(* that is read is laid out as what was read.                                     *)
LEMMA DecodeEncode ==
  ASSUME NEW t \in Types, NEW n \in Nat \ {0}, NEW s \in Seq(Word16), NEW vs \in Arrays(t, n),
         n * Size(t) <= Len(s),
         \A k \in 1 .. n * Size(t) : s[k] = EncodeArray(t, vs)[k]
  PROVE  DecodeArray(t, n, s) = vs
<1> DEFINE w(i) == [j \in 1 .. Size(t) |-> s[(i - 1) * Size(t) + j]]
<1>1. ASSUME NEW i \in 1 .. n PROVE DecodeArray(t, n, s)[i] = vs[i]
  <2>1. vs[i] \in Values(t)
        BY DEF Arrays
  <2>2. DecodeArray(t, n, s)[i] = FromBits(t, Pattern(t, w(i)))
        BY DecodeArrayType
  <2>3. Encode(t, vs[i]) \in Registers(t) /\ FromBits(t, Pattern(t, Encode(t, vs[i]))) = vs[i]
        BY <2>1, EncodePattern
  <2>4. \A j \in 1 .. Size(t) : s[(i - 1) * Size(t) + j] = Encode(t, vs[i])[j]
    <3> SUFFICES ASSUME NEW j \in 1 .. Size(t)
                 PROVE  s[(i - 1) * Size(t) + j] = Encode(t, vs[i])[j]
          OBVIOUS
    <3>1. (i - 1) * Size(t) + j \in 1 .. n * Size(t)
          BY Position
    <3>2. EncodeArray(t, vs)[(i - 1) * Size(t) + j] = Encode(t, vs[i])[j]
          BY EncodeArrayType
    <3> QED BY <3>1, <3>2
  <2>5. w(i) = Encode(t, vs[i])
        BY <2>3, <2>4 DEF Registers
  <2> HIDE DEF w
  <2> QED BY <2>2, <2>3, <2>5
<1>2. DecodeArray(t, n, s) \in Arrays(t, n)
      BY DecodeArrayType
<1> QED
      BY <1>1, <1>2 DEF Arrays

(* Registers are the layout of the array that is read from them. *)
LEMMA EncodeDecode ==
  ASSUME NEW t \in Types, NEW n \in Nat \ {0}, NEW s \in Seq(Word16), n * Size(t) <= Len(s)
  PROVE  EncodeArray(t, DecodeArray(t, n, s)) = [k \in 1 .. n * Size(t) |-> s[k]]
<1> DEFINE vs == DecodeArray(t, n, s)
           w(i) == [j \in 1 .. Size(t) |-> s[(i - 1) * Size(t) + j]]
<1>1. vs \in Arrays(t, n)
      BY DecodeArrayType
<1>2. ASSUME NEW i \in 1 .. n PROVE Encode(t, vs[i]) = w(i)
  <2>1. w(i) \in Registers(t) /\ vs[i] = FromBits(t, Pattern(t, w(i)))
        BY DecodeArrayType
  <2> HIDE DEF w, vs
  <2> QED BY <2>1, PatternEncode
<1> HIDE DEF vs
<1>3. ASSUME NEW k \in 1 .. n * Size(t) PROVE EncodeArray(t, vs)[k] = s[k]
  <2> DEFINE i == 1 + ((k - 1) \div Size(t))
             j == 1 + ((k - 1) % Size(t))
  <2>1. i \in 1 .. n /\ j \in 1 .. Size(t) /\ k = (i - 1) * Size(t) + j
    <3> DEFINE q == (k - 1) \div Size(t)
    <3>1. q \in Nat /\ 1 + q \in 1 .. n /\ k = q * Size(t) + j /\ j \in 1 .. Size(t)
          BY Position
    <3>2. i = 1 + q
          OBVIOUS
    <3> HIDE DEF q, i, j
    <3> QED BY <3>1, <3>2
  <2> HIDE DEF i, j
  <2>2. EncodeArray(t, vs)[k] = Encode(t, vs[i])[j]
        BY <1>1, <2>1, EncodeArrayType
  <2>3. w(i)[j] = s[k]
        BY <2>1
  <2> QED BY <1>2, <2>1, <2>2, <2>3
<1>4. EncodeArray(t, vs) \in [1 .. n * Size(t) -> Word16]
      BY <1>1, EncodeArrayType
<1> QED
      BY <1>3, <1>4 DEF vs

-----------------------------------------------------------------------------
(* Induction: the naturals in a set that has 0 and the successor of each of its   *)
(* elements are all there are.  For m the least that is not, the successor maps   *)
(* the elements below m one to one to those that are not 0, which are fewer.      *)

(* Induction, for a set instead of a predicate: were m the number that is not in S,
   to add one would map the numbers up to m that are in S into themselves but for
   0, which the pigeonhole principle forbids. *)
LEMMA SetInduction ==
  ASSUME NEW S, 0 \in S, \A n \in Nat : n \in S => n + 1 \in S
  PROVE  Nat \subseteq S
<1> SUFFICES ASSUME NEW m \in Nat, m \notin S PROVE FALSE
    OBVIOUS
<1> DEFINE A == {n \in 0 .. m : n \in S}
           f == [n \in A |-> n + 1]
<1>1. IsFiniteSet(0 .. m) /\ A \in SUBSET (0 .. m)
      BY FS_Interval
<1>2. IsFiniteSet(A) /\ Cardinality(A) \in Nat
      BY <1>1, FS_Subset, FS_CardinalityType
<1>3. IsFiniteSet(A \ {0}) /\ Cardinality(A \ {0}) = Cardinality(A) - 1
  <2>1. 0 \in A
        OBVIOUS
  <2> HIDE DEF A
  <2> QED BY <1>2, <2>1, FS_RemoveElement
<1>4. f \in [A -> A \ {0}]
      OBVIOUS
<1>5. \E x, y \in A : x # y /\ f[x] = f[y]
  <2> HIDE DEF f, A
  <2> QED BY <1>2, <1>3, <1>4, FS_PigeonHole
<1> QED
      BY <1>5

(* Of some entries of a map one is the last. *)
LEMMA Greatest ==
  ASSUME NEW n \in Nat, NEW T \in SUBSET (1 .. n), T # {}
  PROVE  \E i \in T : \A j \in T : j <= i
<1> DEFINE S == {k \in Nat : (\E i \in T : i <= k) =>
                               \E i \in T : i <= k /\ \A j \in T : j <= k => j <= i}
<1>1. 0 \in S
      OBVIOUS
<1>2. ASSUME NEW k \in Nat, k \in S PROVE k + 1 \in S
  <2>1. CASE k + 1 \in T
        BY <2>1
  <2>2. CASE k + 1 \notin T
    <3>1. \A i \in T : i <= k + 1 => i <= k
          BY <2>2
    <3> QED BY <1>2, <3>1
  <2> QED BY <2>1, <2>2
<1>3. n \in S
  <2> HIDE DEF S
  <2> QED BY <1>1, <1>2, SetInduction
<1>4. \A j \in T : j \in Nat /\ j <= n
      OBVIOUS
<1> QED
      BY <1>3, <1>4

-----------------------------------------------------------------------------
(* The offsets of plc.yml.                                                  *)

(* The recursive functions of the model are defined: each has a solution for every
   length of the map, by induction. *)
LEMMA SumAfterUnfolds ==
  ASSUME NEW parts \in Seq(Word16)
  PROVE  SumAfter(parts) = [k \in 0 .. Len(parts) |->
                              IF k = 0 THEN 0 ELSE SumAfter(parts)[k - 1] + parts[k]]
<1> DEFINE F(g, n) == [k \in 0 .. n |-> IF k = 0 THEN 0 ELSE g[k - 1] + parts[k]]
           S == {n \in Nat : \E g : g = F(g, n)}
<1>1. 0 \in S
  <2> DEFINE g == [k \in 0 .. 0 |-> 0]
  <2>1. g = F(g, 0)
        OBVIOUS
  <2> QED BY <2>1
<1>2. ASSUME NEW n \in Nat, n \in S PROVE n + 1 \in S
  <2>1. PICK g : g = F(g, n)
        BY <1>2
  <2> DEFINE h == F(g, n + 1)
  <2>2. \A k \in 0 .. n : h[k] = g[k]
        BY <2>1
  <2>3. \A k \in 0 .. n + 1 : k # 0 => h[k - 1] = g[k - 1]
    <3> HIDE DEF h
    <3> QED BY <2>2
  <2>4. F(h, n + 1) = F(g, n + 1)
    <3> HIDE DEF h
    <3> QED BY <2>3
  <2> HIDE DEF F
  <2> QED BY <2>4
<1>3. Len(parts) \in S
  <2> HIDE DEF S
  <2> QED BY <1>1, <1>2, SetInduction
<1>4. \E g : g = F(g, Len(parts))
      BY <1>3
<1>5. SumAfter(parts) = CHOOSE g : g = F(g, Len(parts))
      BY DEF SumAfter
<1>6. SumAfter(parts) = F(SumAfter(parts), Len(parts))
  <2> HIDE DEF F
  <2> QED BY <1>4, <1>5
<1> QED
      BY <1>6

(* The parts of an offset sum up to a number, maybe not of a u16. *)
LEMMA SumType ==
  ASSUME NEW parts \in Seq(Word16)
  PROVE  Sum(parts) \in Nat
<1> DEFINE S == {k \in Nat : k <= Len(parts) => SumAfter(parts)[k] \in Nat}
<1>1. \A k \in 0 .. Len(parts) :
        SumAfter(parts)[k] = IF k = 0 THEN 0 ELSE SumAfter(parts)[k - 1] + parts[k]
      BY SumAfterUnfolds
<1>2. \A k \in 1 .. Len(parts) : parts[k] \in Nat
      BY BaseFacts DEF Word16
<1>3. 0 \in S
      BY <1>1
<1>4. ASSUME NEW k \in Nat, k \in S PROVE k + 1 \in S
      BY <1>1, <1>2, <1>4
<1>5. Len(parts) \in S
  <2> HIDE DEF S
  <2> QED BY <1>3, <1>4, SetInduction
<1> QED
      BY <1>5 DEF Sum

(* What a register map is, and a context for it. *)
MapEntry == [field : Nat, type : Types, len : Nat, offset : Word16]

IsMap(m) == m \in Seq(MapEntry) /\ \A i \in 1 .. Len(m) : m[i].field = i

Contexts(m) == {c \in [DOMAIN m -> Seq(Int)] :
                  \A i \in DOMAIN m : c[i] \in Arrays(m[i].type, m[i].len)}

(* How an entry of the map comes from plc.yml. *)
LEMMA NormalizedEntries ==
  ASSUME NEW cfg \in Configs, NEW m \in Normalized(cfg)
  PROVE  /\ IsMap(m)
         /\ DOMAIN m = DOMAIN cfg.map
         /\ Len(m) = Len(cfg.map)
         /\ \A i \in DOMAIN m :
              LET e == cfg.map[i]
              IN  /\ m[i].type = e.type
                  /\ m[i].len = e.len
                  /\ m[i].offset \in calc_offset_base(e.absolute, e.parts, cfg.first) \ {NoValue}
                  /\ Sum(e.parts) \in Nat
                  /\ Sum(e.parts) < WordBase =>
                       /\ m[i].offset = IF e.absolute THEN Sum(e.parts) - cfg.first ELSE Sum(e.parts)
                       /\ m[i].offset >= 0
<1>1. cfg \in Blocks /\ cfg.map \in Seq(Entries) /\ cfg.first \in Word16
      BY ConfigsAssumption DEF Blocks
<1> DEFINE n == Len(cfg.map)
           of(i) == calc_offset_base(cfg.map[i].absolute, cfg.map[i].parts, cfg.first) \ {NoValue}
<1>2. n \in Nat /\ DOMAIN cfg.map = 1 .. n /\ \A i \in 1 .. n : cfg.map[i] \in Entries
      BY <1>1
<1>3. PICK o \in Offsets(cfg) :
        m = [i \in 1 .. n |-> [field |-> i, type |-> cfg.map[i].type,
                               len |-> cfg.map[i].len, offset |-> o[i]]]
      BY <1>2 DEF Normalized
<1>4. \A i \in 1 .. n : o[i] \in of(i)
      BY <1>2 DEF Offsets
<1>5. ASSUME NEW i \in 1 .. n
      PROVE  /\ cfg.map[i].type \in Types /\ cfg.map[i].len \in Nat
             /\ cfg.map[i].absolute \in BOOLEAN /\ Sum(cfg.map[i].parts) \in Nat
  <2>1. cfg.map[i] \in Entries
        BY <1>2
  <2>2. cfg.map[i].parts \in Seq(Word16)
        BY <2>1 DEF Entries
  <2> QED BY <2>1, <2>2, SumType DEF Entries
<1>6. ASSUME NEW k \in Nat
      PROVE  /\ Overflowing(k) \ {NoValue} \subseteq Word16
             /\ k < WordBase => Overflowing(k) = {k}
  <2>1. k % WordBase \in Word16
        BY BaseFacts DEF Word16
  <2>2. CASE k < WordBase
    <3>1. k \in Word16
          BY <2>2, BaseFacts DEF Word16
    <3> QED BY <2>2, <3>1 DEF Overflowing
  <2>3. CASE ~(k < WordBase)
        BY <2>1, <2>3 DEF Overflowing
  <2> QED BY <2>2, <2>3
<1>7. ASSUME NEW i \in 1 .. n
      PROVE  /\ o[i] \in Word16
             /\ Sum(cfg.map[i].parts) < WordBase =>
                  o[i] = IF cfg.map[i].absolute THEN Sum(cfg.map[i].parts) - cfg.first
                         ELSE Sum(cfg.map[i].parts)
  <2> DEFINE sum == Sum(cfg.map[i].parts)
             outcomes == Overflowing(sum)
  <2>1. sum \in Nat /\ outcomes \ {NoValue} \subseteq Word16 /\ (sum < WordBase => outcomes = {sum})
        BY <1>5, <1>6
  <2>2. o[i] # NoValue /\ o[i] \in IF ~cfg.map[i].absolute THEN outcomes
                    ELSE {IF x = NoValue \/ x < cfg.first THEN NoValue ELSE x - cfg.first : x \in outcomes}
        BY <1>4 DEF calc_offset_base, calc_offset
  <2> HIDE DEF sum, outcomes
  <2>3. CASE ~cfg.map[i].absolute
        BY <2>1, <2>2, <2>3 DEF sum
  <2>4. CASE cfg.map[i].absolute
    <3>1. PICK x \in outcomes : o[i] = IF x = NoValue \/ x < cfg.first THEN NoValue ELSE x - cfg.first
          BY <2>2, <2>4
    <3>2. x # NoValue /\ ~(x < cfg.first) /\ o[i] = x - cfg.first
          BY <2>2, <3>1
    <3>3. x \in Word16 /\ o[i] \in Word16
          BY <1>1, <2>1, <3>1, <3>2, BaseFacts DEF Word16
    <3>4. sum < WordBase => x = sum
          BY <2>1, <3>1
    <3> QED BY <2>4, <3>2, <3>3, <3>4 DEF sum
  <2> QED BY <2>3, <2>4
<1>8. \A i \in 1 .. n : o[i] >= 0
      BY <1>7, BaseFacts DEF Word16
<1> HIDE DEF n, of
<1>9. /\ DOMAIN m = 1 .. n /\ Len(m) = n /\ IsMap(m)
  <2>1. m \in [1 .. n -> MapEntry]
        BY <1>2, <1>3, <1>5, <1>7 DEF MapEntry
  <2> QED BY <1>2, <1>3, <2>1 DEF IsMap
<1> QED
      BY <1>2, <1>3, <1>4, <1>5, <1>7, <1>8, <1>9 DEF n, of

-----------------------------------------------------------------------------
(* What an output sends.                                                    *)

Width(e) == e.len * Size(e.type)
Fits(m, num, k) == \A i \in 1 .. k : Width(m[i]) = 0 \/ m[i].offset + Width(m[i]) <= num
Within(e, r) == r - e.offset \in 1 .. Width(e)

(* The types of the entries of a map. *)
LEMMA MapEntries ==
  ASSUME NEW m, IsMap(m)
  PROVE  /\ Len(m) \in Nat /\ DOMAIN m = 1 .. Len(m)
         /\ \A i \in DOMAIN m :
              /\ m[i].type \in Types /\ m[i].len \in Nat /\ m[i].offset \in Nat
              /\ Width(m[i]) \in Nat /\ (m[i].len # 0 => Width(m[i]) # 0)
<1>1. Len(m) \in Nat /\ DOMAIN m = 1 .. Len(m) /\ \A i \in 1 .. Len(m) : m[i] \in MapEntry
      BY DEF IsMap
<1>2. ASSUME NEW e \in MapEntry
      PROVE  /\ e.type \in Types /\ e.len \in Nat /\ e.offset \in Nat
             /\ Width(e) \in Nat /\ (e.len # 0 => Width(e) # 0)
      BY BaseFacts, SizeType DEF MapEntry, Word16, Width
<1> QED
      BY <1>1, <1>2

(* The registers after each entry, from those after the one before it. *)
LEMMA DataAfterUnfolds ==
  ASSUME NEW m, Len(m) \in Nat, NEW num, NEW c
  PROVE  DataAfter(m, num, c) =
           [k \in 0 .. Len(m) |->
              IF k = 0 THEN [r \in 1 .. num |-> 0]
              ELSE Put(DataAfter(m, num, c)[k - 1], m[k].offset,
                       EncodeArray(m[k].type, c[m[k].field]))]
<1> DEFINE P(d, k) == Put(d, m[k].offset, EncodeArray(m[k].type, c[m[k].field]))
           Z == [r \in 1 .. num |-> 0]
           F(g, n) == [k \in 0 .. n |-> IF k = 0 THEN Z ELSE P(g[k - 1], k)]
           S == {n \in Nat : \E g : g = F(g, n)}
<1>1. DataAfter(m, num, c) = CHOOSE g : g = F(g, Len(m))
      BY DEF DataAfter
<1>2. F(DataAfter(m, num, c), Len(m)) =
           [k \in 0 .. Len(m) |->
              IF k = 0 THEN [r \in 1 .. num |-> 0]
              ELSE Put(DataAfter(m, num, c)[k - 1], m[k].offset,
                       EncodeArray(m[k].type, c[m[k].field]))]
      OBVIOUS
<1> HIDE DEF P, Z
<1>3. 0 \in S
  <2> DEFINE g == [k \in 0 .. 0 |-> Z]
  <2>1. g = F(g, 0)
        OBVIOUS
  <2> QED BY <2>1
<1>4. ASSUME NEW n \in Nat, n \in S PROVE n + 1 \in S
  <2>1. PICK g : g = F(g, n)
        BY <1>4
  <2> DEFINE h == F(g, n + 1)
  <2>2. \A k \in 0 .. n : h[k] = g[k]
        BY <2>1
  <2>3. \A k \in 0 .. n + 1 : k # 0 => h[k - 1] = g[k - 1]
    <3> HIDE DEF h
    <3> QED BY <2>2
  <2>4. F(h, n + 1) = F(g, n + 1)
    <3> HIDE DEF h
    <3> QED BY <2>3
  <2> HIDE DEF F
  <2> QED BY <2>4
<1>5. Len(m) \in S
  <2> HIDE DEF S
  <2> QED BY <1>3, <1>4, SetInduction
<1>6. \E g : g = F(g, Len(m))
      BY <1>5
<1>7. DataAfter(m, num, c) = F(DataAfter(m, num, c), Len(m))
  <2> HIDE DEF F
  <2> QED BY <1>1, <1>6
<1> QED
      BY <1>2, <1>7

(* A payload is written as a whole, or is out of bounds. *)
LEMMA PutPayload ==
  ASSUME NEW num \in Nat, NEW data \in [1 .. num -> Word16], NEW w \in Nat,
         NEW payload \in [1 .. w -> Word16], NEW offset \in Nat, w > 0 => offset + w <= num
  PROVE  /\ Put(data, offset, payload) \in [1 .. num -> Word16]
         /\ \A r \in 1 .. num : Put(data, offset, payload)[r] =
              IF r - offset \in 1 .. w THEN payload[r - offset] ELSE data[r]
<1>1. data # NoValue /\ Len(data) = num /\ Len(payload) = w
      BY WordsAreValues
<1>2. payload # <<>> => w > 0
      BY <1>1
<1>3. Put(data, offset, payload) =
        [r \in 1 .. num |-> IF r - offset \in 1 .. w THEN payload[r - offset] ELSE data[r]]
      BY <1>1, <1>2 DEF Put
<1> QED
      BY <1>3

LEMMA PutOutOfBounds ==
  ASSUME NEW num \in Nat, NEW data \in [1 .. num -> Word16], NEW w \in Nat \ {0},
         NEW payload \in [1 .. w -> Word16], NEW offset \in Nat, offset + w > num
  PROVE  Put(data, offset, payload) = NoValue
<1>1. Len(data) = num /\ Len(payload) = w
      OBVIOUS
<1>2. payload # <<>>
      BY <1>1
<1> QED
      BY <1>1, <1>2 DEF Put

(* After k entries there is no error if they all fit; then each register is what *)
(* the last of the entries that cover it says, and 0 if there is none.           *)
LEMMA DataAfterEntries ==
  ASSUME NEW m, IsMap(m), NEW c \in Contexts(m), NEW num \in Nat, NEW k \in 0 .. Len(m)
  PROVE  LET data == DataAfter(m, num, c)[k]
         IN  /\ ~Fits(m, num, k) => data = NoValue
             /\ Fits(m, num, k) =>
                  /\ data \in [1 .. num -> Word16] /\ data # NoValue
                  /\ \A r \in 1 .. num :
                       /\ (\A i \in 1 .. k : ~Within(m[i], r)) => data[r] = 0
                       /\ \A i \in 1 .. k :
                            Within(m[i], r) /\ (\A j \in 1 .. k : Within(m[j], r) => j <= i) =>
                              data[r] = EncodeArray(m[i].type, c[i])[r - m[i].offset]
<1> DEFINE D == DataAfter(m, num, c)
           Last(i, n, r) == Within(m[i], r) /\ \A j \in 1 .. n : Within(m[j], r) => j <= i
           Right(n) == /\ D[n] \in [1 .. num -> Word16]
                       /\ \A r \in 1 .. num :
                            /\ (\A i \in 1 .. n : ~Within(m[i], r)) => D[n][r] = 0
                            /\ \A i \in 1 .. n : Last(i, n, r) =>
                                 D[n][r] = EncodeArray(m[i].type, c[i])[r - m[i].offset]
           S == {n \in Nat : n <= Len(m) => IF Fits(m, num, n) THEN Right(n) ELSE D[n] = NoValue}
<1>1. Len(m) \in Nat /\ DOMAIN m = 1 .. Len(m)
      BY DEF IsMap
<1>2. /\ D[0] = [r \in 1 .. num |-> 0]
      /\ \A n \in 1 .. Len(m) :
           D[n] = Put(D[n - 1], m[n].offset, EncodeArray(m[n].type, c[m[n].field]))
  <2>1. D = [n \in 0 .. Len(m) |->
               IF n = 0 THEN [r \in 1 .. num |-> 0]
               ELSE Put(D[n - 1], m[n].offset, EncodeArray(m[n].type, c[m[n].field]))]
        BY <1>1, DataAfterUnfolds
  <2> HIDE DEF D
  <2>2. 0 \in 0 .. Len(m) /\ \A n \in 1 .. Len(m) : n \in 0 .. Len(m) /\ n # 0
        BY <1>1
  <2>3. \A n \in 0 .. Len(m) :
           D[n] = IF n = 0 THEN [r \in 1 .. num |-> 0]
                  ELSE Put(D[n - 1], m[n].offset, EncodeArray(m[n].type, c[m[n].field]))
        BY <2>1, Zenon
  <2>4. D[0] = [r \in 1 .. num |-> 0]
        BY <2>2, <2>3, Zenon
  <2>5. ASSUME NEW n \in 1 .. Len(m)
        PROVE  D[n] = Put(D[n - 1], m[n].offset, EncodeArray(m[n].type, c[m[n].field]))
        BY <2>2, <2>3, Zenon
  <2> QED BY <2>4, <2>5
<1> HIDE DEF D
<1>3. 0 \in S
  <2>1. D[0] \in [1 .. num -> Word16]
        BY <1>2, WordsAreValues
  <2>2. \A r \in 1 .. num : D[0][r] = 0
        BY <1>2
  <2>3. Right(0)
        BY <2>1, <2>2
  <2> HIDE DEF Right
  <2> QED BY <2>3 DEF Fits
<1>4. ASSUME NEW n \in Nat, n \in S PROVE n + 1 \in S
  <2> HIDE DEF Right
  <2> SUFFICES ASSUME n + 1 <= Len(m)
               PROVE  IF Fits(m, num, n + 1) THEN Right(n + 1) ELSE D[n + 1] = NoValue
      OBVIOUS
  <2> USE DEF Right
  <2> DEFINE e == m[n + 1]
             payload == EncodeArray(e.type, c[n + 1])
  <2>1. /\ e \in MapEntry
        /\ e.field = n + 1
        /\ c[n + 1] \in Arrays(e.type, e.len)
    <3>1. n + 1 \in 1 .. Len(m)
          BY <1>1
    <3>2. \A i \in 1 .. Len(m) : m[i] \in MapEntry /\ m[i].field = i
          BY DEF IsMap
    <3>3. \A i \in 1 .. Len(m) : c[i] \in Arrays(m[i].type, m[i].len)
          BY <1>1 DEF Contexts
    <3> QED BY <3>1, <3>2, <3>3
  <2>2. /\ e.type \in Types /\ e.len \in Nat /\ e.offset \in Nat
        BY <2>1, BaseFacts DEF Word16, MapEntry
  <2> HIDE DEF e
  <2>3. Width(e) \in Nat
        BY <2>2, SizeType DEF Width
  <2>4. payload \in [1 .. Width(e) -> Word16]
        BY <2>1, <2>2, EncodeArrayType DEF Width
  <2> HIDE DEF payload
  <2>5. D[n + 1] = Put(D[n], e.offset, payload)
        BY <1>2, <2>1 DEF e, payload
  <2>6. Fits(m, num, n + 1) <=> Fits(m, num, n) /\ (Width(e) = 0 \/ e.offset + Width(e) <= num)
        BY DEF Fits, e
  <2>7. CASE ~Fits(m, num, n)
    <3>1. D[n] = NoValue
          BY <1>4, <2>7
    <3> QED BY <2>5, <2>6, <2>7, <3>1 DEF Put
  <2>8. CASE Fits(m, num, n) /\ ~(Width(e) = 0 \/ e.offset + Width(e) <= num)
    <3>1. D[n] \in [1 .. num -> Word16]
          BY <1>4, <2>8
    <3>2. D[n + 1] = NoValue
      <4> DEFINE d == D[n]
                 off == e.offset
                 w == Width(e)
      <4>1. d \in [1 .. num -> Word16] /\ off \in Nat /\ w \in Nat
            /\ payload \in [1 .. w -> Word16] /\ w # 0 /\ off + w > num
            BY <2>2, <2>3, <2>4, <2>8, <3>1
      <4> HIDE DEF d, off, w
      <4>2. Put(d, off, payload) = NoValue
            BY <4>1, PutOutOfBounds
      <4> QED BY <2>5, <4>2 DEF d, off
    <3> QED BY <2>6, <2>8, <3>2
  <2>9. CASE Fits(m, num, n) /\ (Width(e) = 0 \/ e.offset + Width(e) <= num)
    <3>1. Right(n)
          BY <1>4, <2>9
    <3>2. /\ D[n + 1] \in [1 .. num -> Word16]
          /\ \A r \in 1 .. num : D[n + 1][r] =
               IF Within(e, r) THEN payload[r - e.offset] ELSE D[n][r]
      <4> DEFINE d == D[n]
                 off == e.offset
                 w == Width(e)
      <4>1. d \in [1 .. num -> Word16] /\ off \in Nat /\ w \in Nat
            /\ payload \in [1 .. w -> Word16] /\ (w > 0 => off + w <= num)
            BY <2>2, <2>3, <2>4, <2>9, <3>1
      <4> HIDE DEF d, off, w
      <4>2. /\ Put(d, off, payload) \in [1 .. num -> Word16]
            /\ \A r \in 1 .. num : Put(d, off, payload)[r] =
                 IF r - off \in 1 .. w THEN payload[r - off] ELSE d[r]
            BY <4>1, PutPayload
      <4> QED BY <2>5, <4>2 DEF d, off, w, Within
    <3>3. ASSUME NEW r \in 1 .. num, \A i \in 1 .. n + 1 : ~Within(m[i], r)
          PROVE  D[n + 1][r] = 0
      <4>1. ~Within(e, r) /\ \A i \in 1 .. n : ~Within(m[i], r)
        <5>1. n + 1 \in 1 .. n + 1 /\ 1 .. n \subseteq 1 .. n + 1
              OBVIOUS
        <5> QED BY <3>3, <5>1 DEF e
      <4> QED BY <3>1, <3>2, <4>1
    <3>4. ASSUME NEW r \in 1 .. num, NEW i \in 1 .. n + 1, Last(i, n + 1, r)
          PROVE  D[n + 1][r] = EncodeArray(m[i].type, c[i])[r - m[i].offset]
      <4>1. CASE Within(e, r)
        <5>1. i = n + 1
              BY <3>4, <4>1 DEF e
        <5> QED BY <3>2, <4>1, <5>1 DEF e, payload
      <4>2. CASE ~Within(e, r)
        <5>1. i \in 1 .. n /\ Last(i, n, r)
              BY <3>4, <4>2 DEF e
        <5>2. D[n + 1][r] = D[n][r]
              BY <3>2, <4>2
        <5> QED BY <3>1, <5>1, <5>2
      <4> QED BY <4>1, <4>2
    <3>5. Right(n + 1)
          BY <3>2, <3>3, <3>4
    <3> QED BY <2>6, <2>9, <3>5
  <2> QED BY <2>7, <2>8, <2>9
<1>5. k \in S
  <2> HIDE DEF S
  <2> QED BY <1>1, <1>3, <1>4, SetInduction
<1>6. Right(k) => D[k] # NoValue
      BY WordsAreValues
<1> QED
      BY <1>1, <1>5, <1>6 DEF D

-----------------------------------------------------------------------------
(* What an input sets.                                                      *)

(* The context after each entry, from the one after the entry before it. *)
LEMMA StoredAfterUnfolds ==
  ASSUME NEW m, Len(m) \in Nat, NEW regs, NEW c
  PROVE  StoredAfter(m, regs, c) =
           [k \in 0 .. Len(m) |->
              IF k = 0 THEN c ELSE Store(m[k], regs, StoredAfter(m, regs, c)[k - 1])]
<1> DEFINE P(x, k) == Store(m[k], regs, x)
           F(g, n) == [k \in 0 .. n |-> IF k = 0 THEN c ELSE P(g[k - 1], k)]
           S == {n \in Nat : \E g : g = F(g, n)}
<1>1. StoredAfter(m, regs, c) = CHOOSE g : g = F(g, Len(m))
      BY DEF StoredAfter
<1>2. F(StoredAfter(m, regs, c), Len(m)) =
           [k \in 0 .. Len(m) |->
              IF k = 0 THEN c ELSE Store(m[k], regs, StoredAfter(m, regs, c)[k - 1])]
      OBVIOUS
<1> HIDE DEF P
<1>3. 0 \in S
  <2> DEFINE g == [k \in 0 .. 0 |-> c]
  <2>1. g = F(g, 0)
        OBVIOUS
  <2> QED BY <2>1
<1>4. ASSUME NEW n \in Nat, n \in S PROVE n + 1 \in S
  <2>1. PICK g : g = F(g, n)
        BY <1>4
  <2> DEFINE h == F(g, n + 1)
  <2>2. \A k \in 0 .. n : h[k] = g[k]
        BY <2>1
  <2>3. \A k \in 0 .. n + 1 : k # 0 => h[k - 1] = g[k - 1]
    <3> HIDE DEF h
    <3> QED BY <2>2
  <2>4. F(h, n + 1) = F(g, n + 1)
    <3> HIDE DEF h
    <3> QED BY <2>3
  <2> HIDE DEF F
  <2> QED BY <2>4
<1>5. Len(m) \in S
  <2> HIDE DEF S
  <2> QED BY <1>3, <1>4, SetInduction
<1>6. \E g : g = F(g, Len(m))
      BY <1>5
<1>7. StoredAfter(m, regs, c) = F(StoredAfter(m, regs, c), Len(m))
  <2> HIDE DEF F
  <2> QED BY <1>1, <1>6
<1> QED
      BY <1>2, <1>7

(* A part of some registers. *)
LEMMA Slice ==
  ASSUME NEW s \in Seq(Word16), NEW off \in Nat, NEW w \in Nat, off + w <= Len(s)
  PROVE  /\ \A k \in 1 .. w : SubSeq(s, off + 1, off + w)[k] = s[off + k]
         /\ SubSeq(s, off + 1, off + w) \in [1 .. w -> Word16]
         /\ SubSeq(s, off + 1, off + w) \in Seq(Word16)
         /\ Len(SubSeq(s, off + 1, off + w)) = w
<1> DEFINE f == [k \in 1 .. w |-> s[off + k]]
<1>1. SubSeq(s, off + 1, off + w) = f
      OBVIOUS
<1>2. f \in [1 .. w -> Word16] /\ \A k \in 1 .. w : f[k] = s[off + k]
      OBVIOUS
<1> HIDE DEF f
<1>3. f \in Seq(Word16) /\ Len(f) = w
      BY <1>2
<1> QED
      BY <1>1, <1>2, <1>3

(* An entry is read as a whole if its registers are answered, and only then. *)
LEMMA ReadEntry ==
  ASSUME NEW e \in MapEntry, e.len # 0, NEW regs \in Seq(Word16)
  PROVE  /\ e.offset + Width(e) > Len(regs) => Read(e, regs, e.len) = NoValue
         /\ e.offset + Width(e) <= Len(regs) =>
              /\ Read(e, regs, e.len) \in Arrays(e.type, e.len)
              /\ EncodeArray(e.type, Read(e, regs, e.len)) =
                   SubSeq(regs, e.offset + 1, e.offset + Width(e))
<1> DEFINE off == e.offset
           w == Width(e)
           s == SubSeq(regs, off + 1, Len(regs))
<1>1. e.type \in Types /\ e.len \in Nat \ {0} /\ off \in Nat
      BY BaseFacts DEF MapEntry, Word16
<1>2. w = e.len * Size(e.type) /\ w \in Nat \ {0}
      BY <1>1, SizeType DEF Width
<1>3. Len(regs) \in Nat /\ \A i \in 1 .. Len(regs) : regs[i] \in Word16
      OBVIOUS
<1> HIDE DEF off, w
<1>4. off < Len(regs) =>
        /\ s \in Seq(Word16) /\ s \in [1 .. Len(regs) - off -> Word16] /\ Len(s) = Len(regs) - off
        /\ \A i \in 1 .. Len(regs) - off : s[i] = regs[off + i]
  <2> SUFFICES ASSUME off < Len(regs)
               PROVE  /\ s \in Seq(Word16) /\ s \in [1 .. Len(regs) - off -> Word16]
                      /\ Len(s) = Len(regs) - off
                      /\ \A i \in 1 .. Len(regs) - off : s[i] = regs[off + i]
      OBVIOUS
  <2> DEFINE b == Len(regs) - off
  <2>1. b \in Nat /\ off + b = Len(regs)
        BY <1>1, <1>3
  <2>0. off \in Nat
        BY <1>1
  <2> HIDE DEF b
  <2>9. off + b <= Len(regs)
        BY <2>1, <1>3
  <2>2. s = SubSeq(regs, off + 1, off + b)
        BY <2>1
  <2> HIDE DEF s
  <2>3. /\ \A k \in 1 .. b : SubSeq(regs, off + 1, off + b)[k] = regs[off + k]
        /\ SubSeq(regs, off + 1, off + b) \in [1 .. b -> Word16]
        /\ SubSeq(regs, off + 1, off + b) \in Seq(Word16)
        /\ Len(SubSeq(regs, off + 1, off + b)) = b
        BY <2>0, <2>1, <2>9, Slice
  <2>4. \A i \in 1 .. b : s[i] = regs[off + i]
        BY <2>2, <2>3
  <2> QED BY <2>2, <2>3, <2>4 DEF b
<1>5. Read(e, regs, e.len) = IF off < Len(regs)
                             THEN IF s = NoValue THEN NoValue ELSE DecodeArray(e.type, e.len, s)
                             ELSE NoValue
      BY DEF Read, SliceAt, off
<1> HIDE DEF s
<1>6. off < Len(regs) => Read(e, regs, e.len) = DecodeArray(e.type, e.len, s)
  <2>1. off < Len(regs) => s # NoValue
        BY <1>1, <1>3, <1>4, WordsAreValues
  <2> QED BY <1>5, <2>1
<1>7. ASSUME off + w > Len(regs) PROVE Read(e, regs, e.len) = NoValue
  <2>1. CASE off < Len(regs)
    <3>1. w > Len(s)
          BY <1>1, <1>2, <1>3, <1>4, <1>7, <2>1
    <3>2. DecodeArray(e.type, e.len, s) = NoValue
          BY <1>1, <1>2, <1>4, <2>1, <3>1, DecodeArrayType
    <3> QED BY <1>6, <2>1, <3>2
  <2>2. CASE ~(off < Len(regs))
        BY <1>5, <2>2
  <2> QED BY <2>1, <2>2
<1>8. ASSUME off + w <= Len(regs)
      PROVE  /\ Read(e, regs, e.len) \in Arrays(e.type, e.len)
             /\ EncodeArray(e.type, Read(e, regs, e.len)) = SubSeq(regs, off + 1, off + w)
  <2>1. off < Len(regs) /\ w <= Len(s) /\ \A i \in 1 .. w : s[i] = regs[off + i]
        BY <1>1, <1>2, <1>3, <1>4, <1>8
  <2>2. /\ Read(e, regs, e.len) \in Arrays(e.type, e.len)
        /\ EncodeArray(e.type, Read(e, regs, e.len)) = [k \in 1 .. w |-> s[k]]
    <3> DEFINE t == e.type
               n == e.len
    <3>1. t \in Types /\ n \in Nat \ {0} /\ s \in Seq(Word16) /\ n * Size(t) <= Len(s)
          BY <1>1, <1>2, <1>4, <2>1
    <3> HIDE DEF t, n
    <3>2. /\ DecodeArray(t, n, s) \in Arrays(t, n)
          /\ EncodeArray(t, DecodeArray(t, n, s)) = [k \in 1 .. n * Size(t) |-> s[k]]
          BY <3>1, DecodeArrayType, EncodeDecode
    <3>3. Read(e, regs, e.len) = DecodeArray(t, n, s) /\ w = n * Size(t)
          BY <1>2, <1>6, <2>1 DEF t, n
    <3> QED BY <3>2, <3>3 DEF t, n
  <2>3. [k \in 1 .. w |-> s[k]] = [k \in 1 .. w |-> regs[off + k]]
        BY <2>1
  <2>4. SubSeq(regs, off + 1, off + w) = [k \in 1 .. w |-> regs[off + k]]
        BY <1>1, <1>2, <1>8, Slice
  <2> QED BY <2>2, <2>3, <2>4
<1> QED
      BY <1>7, <1>8 DEF off, w

(* Of no values nothing is read. *)
LEMMA ReadNothing ==
  ASSUME NEW e \in MapEntry, e.len = 0, NEW regs \in Seq(Word16)
  PROVE  /\ Arrays(e.type, 0) = {<<>>}
         /\ Read(e, regs, 0) \in {NoValue, <<>>}
         /\ Width(e) = 0
         /\ EncodeArray(e.type, <<>>) = SubSeq(regs, e.offset + 1, e.offset + Width(e))
<1>1. e.type \in Types /\ e.offset \in Nat
      BY BaseFacts DEF MapEntry, Word16
<1>2. Size(e.type) \in Nat
      BY <1>1, SizeType
<1>3. Width(e) = 0
      BY <1>2 DEF Width
<1>4. Arrays(e.type, 0) = {<<>>}
  <2> DEFINE V == Values(e.type)
  <2> HIDE DEF V
  <2>1. ASSUME NEW f \in [1 .. 0 -> V] PROVE f = <<>>
    <3>1. f \in Seq(V) /\ Len(f) = 0
          OBVIOUS
    <3> QED BY <3>1
  <2>2. <<>> \in [1 .. 0 -> V]
        OBVIOUS
  <2>3. Arrays(e.type, 0) = [1 .. 0 -> V]
        BY DEF Arrays, V
  <2> QED BY <2>1, <2>2, <2>3
<1>5. \A s : DecodeArray(e.type, 0, s) = <<>>
      BY DEF DecodeArray
<1>6. Read(e, regs, 0) \in {NoValue, <<>>}
      BY <1>5 DEF Read
<1>7. EncodeArray(e.type, <<>>) = <<>>
      BY <1>2 DEF EncodeArray
<1>8. SubSeq(regs, e.offset + 1, e.offset + Width(e)) = <<>>
  <2>1. e.offset + Width(e) = e.offset
        BY <1>1, <1>3
  <2> QED BY <1>1, <2>1
<1> QED
      BY <1>3, <1>4, <1>6, <1>7, <1>8

(* After k entries those of them whose registers are answered hold the answer, *)
(* and the other fields what they held.                                        *)
LEMMA StoredAfterEntries ==
  ASSUME NEW m, IsMap(m), NEW c \in Contexts(m), NEW regs \in Seq(Word16), NEW k \in 0 .. Len(m)
  PROVE  LET new == StoredAfter(m, regs, c)[k]
         IN  /\ new \in Contexts(m)
             /\ \A i \in 1 .. Len(m) :
                  IF i <= k /\ m[i].offset + Width(m[i]) <= Len(regs)
                  THEN EncodeArray(m[i].type, new[i]) =
                         SubSeq(regs, m[i].offset + 1, m[i].offset + Width(m[i]))
                  ELSE new[i] = c[i]
<1> DEFINE C == StoredAfter(m, regs, c)
           Answered(i) == m[i].offset + Width(m[i]) <= Len(regs)
           Holds(x, i) == EncodeArray(m[i].type, x[i]) =
                            SubSeq(regs, m[i].offset + 1, m[i].offset + Width(m[i]))
           Right(n) == /\ C[n] \in Contexts(m)
                       /\ \A i \in 1 .. Len(m) :
                            IF i <= n /\ Answered(i) THEN Holds(C[n], i) ELSE C[n][i] = c[i]
           S == {n \in Nat : n <= Len(m) => Right(n)}
<1>1. Len(m) \in Nat /\ DOMAIN m = 1 .. Len(m)
      BY DEF IsMap
<1>2. C[0] = c /\ \A n \in 1 .. Len(m) : C[n] = Store(m[n], regs, C[n - 1])
  <2>1. C = [n \in 0 .. Len(m) |-> IF n = 0 THEN c ELSE Store(m[n], regs, C[n - 1])]
        BY <1>1, StoredAfterUnfolds
  <2> HIDE DEF C
  <2> QED BY <1>1, <2>1
<1> HIDE DEF C
<1>3. 0 \in S
  <2>1. \A i \in 1 .. Len(m) : ~(i <= 0)
        OBVIOUS
  <2> HIDE DEF Answered, Holds
  <2> QED BY <1>2, <2>1
<1>4. ASSUME NEW n \in Nat, n \in S PROVE n + 1 \in S
  <2> SUFFICES ASSUME n + 1 <= Len(m) PROVE Right(n + 1)
      OBVIOUS
  <2> DEFINE e == m[n + 1]
             x == C[n]
             v == Read(e, regs, e.len)
  <2>1. n + 1 \in 1 .. Len(m) /\ e \in MapEntry /\ e.field = n + 1
        BY <1>1 DEF IsMap
  <2>2. x \in Contexts(m)
        BY <1>4
  <2>3. \A i \in 1 .. Len(m) :
          IF i <= n /\ Answered(i) THEN Holds(x, i) ELSE x[i] = c[i]
        BY <1>4
  <2>4. C[n + 1] = Store(e, regs, x)
        BY <1>2, <2>1
  <2>5. x \in [1 .. Len(m) -> Seq(Int)] /\ x[n + 1] \in Arrays(e.type, e.len)
        BY <1>1, <2>1, <2>2 DEF Contexts
  <2>6. e.type \in Types /\ e.len \in Nat
        BY <2>1 DEF MapEntry
  <2>7. Len(x[n + 1]) = e.len
        BY <2>5, <2>6 DEF Arrays
  <2>8. C[n + 1] = IF v = NoValue THEN x ELSE [x EXCEPT ![n + 1] = v]
        BY <2>1, <2>4, <2>7 DEF Store
  <2>9. e.len # 0 =>
        /\ ~Answered(n + 1) => v = NoValue
        /\ Answered(n + 1) => v \in Arrays(e.type, e.len)
        /\ Answered(n + 1) => EncodeArray(e.type, v) =
             SubSeq(regs, m[n + 1].offset + 1, m[n + 1].offset + Width(m[n + 1]))
    <3> SUFFICES ASSUME e.len # 0
                 PROVE  /\ ~Answered(n + 1) => v = NoValue
                        /\ Answered(n + 1) => v \in Arrays(e.type, e.len)
                        /\ Answered(n + 1) => EncodeArray(e.type, v) =
                             SubSeq(regs, m[n + 1].offset + 1, m[n + 1].offset + Width(m[n + 1]))
        OBVIOUS
    <3>1. Width(e) \in Nat /\ e.offset \in Nat
          BY <2>1, BaseFacts, SizeType DEF MapEntry, Width, Word16
    <3>2. /\ e.offset + Width(e) > Len(regs) => v = NoValue
          /\ e.offset + Width(e) <= Len(regs) =>
               /\ v \in Arrays(e.type, e.len)
               /\ EncodeArray(e.type, v) = SubSeq(regs, e.offset + 1, e.offset + Width(e))
          BY <2>1, ReadEntry
    <3> HIDE DEF v
    <3> QED BY <3>1, <3>2
  <2> HIDE DEF v, x
  <2>10. CASE e.len # 0 /\ ~Answered(n + 1)
    <3>1. C[n + 1] = x
          BY <2>8, <2>9, <2>10
    <3>2. \A i \in 1 .. Len(m) : i <= n + 1 /\ Answered(i) <=> i <= n /\ Answered(i)
          BY <2>10
    <3> HIDE DEF Answered, Holds
    <3> QED BY <2>2, <2>3, <3>1, <3>2
  <2>11. CASE e.len # 0 /\ Answered(n + 1)
    <3>1. v # NoValue /\ v \in Seq(Int)
          BY <2>6, <2>9, <2>11, WordsAreValues DEF Arrays
    <3>2. C[n + 1] = [x EXCEPT ![n + 1] = v]
          BY <2>8, <3>1
    <3>3. /\ C[n + 1] \in [1 .. Len(m) -> Seq(Int)]
          /\ C[n + 1][n + 1] = v
          /\ \A i \in 1 .. Len(m) : i # n + 1 => C[n + 1][i] = x[i]
          BY <2>1, <2>5, <3>1, <3>2
    <3>4. C[n + 1] \in Contexts(m)
      <4>1. \A i \in 1 .. Len(m) : x[i] \in Arrays(m[i].type, m[i].len)
            BY <1>1, <2>2 DEF Contexts
      <4>2. \A i \in 1 .. Len(m) : C[n + 1][i] \in Arrays(m[i].type, m[i].len)
            BY <2>9, <2>11, <3>3, <4>1
      <4> QED BY <1>1, <3>3, <4>2 DEF Contexts
    <3>5. Holds(C[n + 1], n + 1)
          BY <2>9, <2>11, <3>3
    <3>6. \A i \in 1 .. Len(m) : i # n + 1 => (Holds(C[n + 1], i) <=> Holds(x, i))
          BY <3>3
    <3>7. \A i \in 1 .. Len(m) : i # n + 1 => (i <= n + 1 <=> i <= n)
          OBVIOUS
    <3>8. ASSUME NEW i \in 1 .. Len(m)
          PROVE  IF i <= n + 1 /\ Answered(i) THEN Holds(C[n + 1], i) ELSE C[n + 1][i] = c[i]
      <4>1. CASE i = n + 1
        <5> HIDE DEF Answered, Holds
        <5> QED BY <2>11, <3>5, <4>1
      <4>2. CASE i # n + 1
        <5> HIDE DEF Answered, Holds
        <5> QED BY <2>3, <3>3, <3>6, <3>7, <4>2
      <4> QED BY <4>1, <4>2
    <3> HIDE DEF Answered, Holds
    <3> QED BY <3>4, <3>8
  <2>12. CASE e.len = 0
    <3>1. v \in {NoValue, <<>>} /\ x[n + 1] = <<>> /\ Holds(x, n + 1)
      <4>1. Read(e, regs, e.len) \in {NoValue, <<>>} /\ Arrays(e.type, e.len) = {<<>>}
            BY <2>1, <2>12, ReadNothing
      <4>2. EncodeArray(e.type, <<>>) = SubSeq(regs, e.offset + 1, e.offset + Width(e))
            BY <2>1, <2>12, ReadNothing
      <4> QED BY <2>5, <4>1, <4>2 DEF v
    <3>2. C[n + 1] = x
      <4>1. [x EXCEPT ![n + 1] = <<>>] = x
            BY <2>5, <3>1
      <4> QED BY <2>8, <3>1, <4>1
    <3>3. \A i \in 1 .. Len(m) : i <= n + 1 /\ i # n + 1 <=> i <= n
          BY <1>1
    <3> HIDE DEF Answered, Holds
    <3>4. ASSUME NEW i \in 1 .. Len(m)
          PROVE  IF i <= n + 1 /\ Answered(i) THEN Holds(x, i) ELSE x[i] = c[i]
      <4>1. CASE i = n + 1
        <5>1. ~(n + 1 <= n)
              OBVIOUS
        <5> QED BY <2>1, <2>3, <3>1, <4>1, <5>1
      <4>2. CASE i # n + 1
            BY <2>3, <3>3, <4>2
      <4> QED BY <4>1, <4>2
    <3> QED BY <2>2, <3>2, <3>4
  <2> QED BY <2>10, <2>11, <2>12
<1>5. k \in S
  <2> HIDE DEF S
  <2> QED BY <1>1, <1>3, <1>4, SetInduction
<1> QED
      BY <1>1, <1>5 DEF C

-----------------------------------------------------------------------------
(* Floats of a server.                                                      *)

(* To swap a float is to take its words in the opposite order. *)
LEMMA LongSwapped ==
  ASSUME NEW x \in Word16, NEW y \in Word16
  PROVE  Swapped("f32", Long(x, y)) = Long(y, x)
<1> DEFINE v == Long(x, y)
           b == u32_to_be_bytes(v)
<1>1. v \div WordBase = x /\ v % WordBase = y
      BY LongOfWords
<1> HIDE DEF v
<1>2. b = <<u16_to_be_bytes(x)[1], u16_to_be_bytes(x)[2],
            u16_to_be_bytes(y)[1], u16_to_be_bytes(y)[2]>>
      BY <1>1 DEF u32_to_be_bytes
<1>3. Swapped("f32", v) = u32_from_be_bytes(<<b[3], b[4], b[1], b[2]>>)
      BY DEF Swapped
<1> HIDE DEF b
<1>4. <<b[3], b[4], b[1], b[2]>> = <<u16_to_be_bytes(y)[1], u16_to_be_bytes(y)[2],
                                     u16_to_be_bytes(x)[1], u16_to_be_bytes(x)[2]>>
      BY <1>2
<1> QED
      BY <1>3, <1>4, LongOfBytes DEF v

(* The same of the four words of a double. *)
LEMMA LongLongSwapped ==
  ASSUME NEW a \in Word16, NEW b \in Word16, NEW c \in Word16, NEW d \in Word16
  PROVE  Swapped("f64", LongLong(a, b, c, d)) = LongLong(d, c, b, a)
<1> DEFINE v == LongLong(a, b, c, d)
           h == Long(a, b)
           l == Long(c, d)
           y == u64_to_be_bytes(v)
           z == <<y[7], y[8], y[5], y[6], y[3], y[4], y[1], y[2]>>
<1>1. /\ h \in 0 .. LongBase - 1 /\ h \div WordBase = a /\ h % WordBase = b
      /\ l \in 0 .. LongBase - 1 /\ l \div WordBase = c /\ l % WordBase = d
      BY LongOfWords
<1>2. v \div LongBase = h /\ v % LongBase = l
  <2>1. v = h * LongBase + l
        BY DEF LongLong
  <2> HIDE DEF v, h, l
  <2> QED BY <1>1, <2>1, BaseFacts, Composition
<1> HIDE DEF v, h, l
<1>3. y = <<u16_to_be_bytes(a)[1], u16_to_be_bytes(a)[2],
            u16_to_be_bytes(b)[1], u16_to_be_bytes(b)[2],
            u16_to_be_bytes(c)[1], u16_to_be_bytes(c)[2],
            u16_to_be_bytes(d)[1], u16_to_be_bytes(d)[2]>>
      BY <1>1, <1>2 DEF u64_to_be_bytes, u32_to_be_bytes
<1>4. Swapped("f64", v) = u64_from_be_bytes(z)
      BY DEF Swapped
<1> HIDE DEF y
<1>5. /\ <<z[1], z[2], z[3], z[4]>> = <<u16_to_be_bytes(d)[1], u16_to_be_bytes(d)[2],
                                        u16_to_be_bytes(c)[1], u16_to_be_bytes(c)[2]>>
      /\ <<z[5], z[6], z[7], z[8]>> = <<u16_to_be_bytes(b)[1], u16_to_be_bytes(b)[2],
                                        u16_to_be_bytes(a)[1], u16_to_be_bytes(a)[2]>>
      BY <1>3
<1> HIDE DEF z
<1>6. /\ u32_from_be_bytes(<<z[1], z[2], z[3], z[4]>>) = Long(d, c)
      /\ u32_from_be_bytes(<<z[5], z[6], z[7], z[8]>>) = Long(b, a)
      BY <1>5, LongOfBytes
<1>7. u64_from_be_bytes(z) = LongLong(d, c, b, a)
      BY <1>6 DEF u64_from_be_bytes, LongLong
<1> QED
      BY <1>4, <1>7 DEF v

(* A swapped float, laid out as an integer, is the float laid out, and two swaps are none. *)
LEMMA FloatSwapped ==
  ASSUME NEW t \in Floats, NEW v \in Values(t)
  PROVE  /\ Encode(IF t = "f32" THEN "u32" ELSE "u64", Swapped(t, v)) = Encode(t, v)
         /\ Swapped(t, Swapped(t, v)) = v
<1>1. CASE t = "f32"
  <2>1. v \in 0 .. LongBase - 1
        BY <1>1 DEF Values, Signed, Patterns, Size
  <2>2. PICK x, y \in Word16 : v = Long(x, y) /\ f32_to_modbus_array(v) = <<y, x>>
        BY <2>1, WordsOfLong
  <2> DEFINE w == Long(y, x)
  <2>3. Swapped(t, v) = w /\ Swapped(t, w) = v
        BY <1>1, <2>2, LongSwapped
  <2>4. w \in 0 .. LongBase - 1 /\ u32_to_modbus_array(w) = <<y, x>>
        BY LongOfWords
  <2> HIDE DEF w
  <2>5. Bits("u32", w) = w
        BY <2>4, BaseFacts, SmallModulus DEF Bits, Patterns, Size
  <2>6. Encode("u32", w) = <<y, x>> /\ Encode(t, v) = <<y, x>>
        BY <1>1, <2>2, <2>4, <2>5 DEF Encode
  <2> QED BY <1>1, <2>3, <2>6
<1>2. CASE t = "f64"
  <2>1. v \in 0 .. LongBase * LongBase - 1
        BY <1>2 DEF Values, Signed, Patterns, Size
  <2>2. PICK a, b, c, d \in Word16 :
          v = LongLong(a, b, c, d) /\ f64_to_modbus_array(v) = <<d, c, b, a>>
        BY <2>1, WordsOfLongLong
  <2> DEFINE w == LongLong(d, c, b, a)
  <2>3. Swapped(t, v) = w /\ Swapped(t, w) = v
        BY <1>2, <2>2, LongLongSwapped
  <2>4. w \in 0 .. LongBase * LongBase - 1 /\ u64_to_modbus_array(w) = <<d, c, b, a>>
        BY LongLongOfWords
  <2> HIDE DEF w
  <2>5. Bits("u64", w) = w
    <3> DEFINE m == LongBase * LongBase
    <3>1. m \in Nat \ {0} /\ w \in 0 .. m - 1
          BY <2>4, BaseFacts
    <3> HIDE DEF m
    <3>2. w % m = w
          BY <3>1, SmallModulus
    <3>3. Patterns("u64") = m
          BY DEF Patterns, Size, m
    <3> QED BY <3>2, <3>3 DEF Bits
  <2>6. Encode("u64", w) = <<d, c, b, a>> /\ Encode(t, v) = <<d, c, b, a>>
        BY <1>2, <2>2, <2>4, <2>5 DEF Encode
  <2> QED BY <1>2, <2>3, <2>6
<1> QED
      BY <1>1, <1>2 DEF Floats

-----------------------------------------------------------------------------
(* The inductive invariant.                                                 *)

(* The number of a block is a u16, and right unless the block is all of them. *)
LEMMA NumberOfBlock ==
  ASSUME NEW cfg \in Configs, NEW num \in Number(cfg) \ {NoValue}
  PROVE  /\ num \in Word16
         /\ num = 0 \/ num = IF cfg.given # NoValue THEN cfg.given ELSE cfg.last - cfg.first + 1
         /\ cfg.given = NoValue => cfg.first <= cfg.last
<1>1. cfg.first \in Nat /\ cfg.last \in 0 .. WordBase - 1 /\ cfg.given \in Word16 \cup {NoValue}
      BY ConfigsAssumption, BaseFacts DEF Blocks, Word16
<1>2. CASE cfg.given # NoValue
  <2>1. num = cfg.given
        BY <1>2 DEF Number
  <2> QED BY <1>1, <1>2, <2>1
<1>3. CASE cfg.given = NoValue
  <2> DEFINE first == cfg.first
             last == cfg.last
             n == last - first + 1
  <2>1. first \in Nat /\ last \in 0 .. WordBase - 1
        BY <1>1
  <2>2. num \in RangeNumber(first, last) /\ num # NoValue
        BY <1>3 DEF Number
  <2> HIDE DEF first, last
  <2>3. ~(last < first) /\ num \in Overflowing(n)
        BY <2>2 DEF RangeNumber
  <2>4. first <= last /\ n \in Nat /\ n <= WordBase
        BY <2>1, <2>3, BaseFacts
  <2> HIDE DEF n
  <2>5. num \in Word16 /\ (num = 0 \/ num = n)
    <3>1. CASE n < WordBase
          BY <2>3, <2>4, <3>1, BaseFacts DEF Overflowing, Word16
    <3>2. CASE n = WordBase
      <4>1. n % WordBase = 0
            BY <3>2, BaseFacts
      <4> QED BY <2>2, <2>3, <3>2, <4>1, BaseFacts, WordsAreValues DEF Overflowing
    <3> QED BY <2>4, <3>1, <3>2, BaseFacts
  <2> QED BY <1>3, <2>4, <2>5 DEF first, last, n
<1> QED
      BY <1>2, <1>3

(* What the device holds: what was last sent where the block is, else what the *)
(* PLC has found.                                                              *)
DeviceHolds ==
  IF sent = NoValue THEN \A r \in Word16 : device[r] = Found[r]
  ELSE LET data == OutputData(map, number, sent)
       IN  /\ data # NoValue
           /\ \A r \in Word16 :
                device[r] = IF r - config.first + 1 \in 1 .. number
                            THEN data[r - config.first + 1] ELSE Found[r]

IInv ==
  /\ config \in Configs
  /\ number \in Number(config) \ {NoValue}
  /\ map \in Normalized(config)
  /\ ctx \in Contexts(map)
  /\ sent = NoValue \/ sent \in Contexts(map)
  /\ device \in [Word16 -> Word16]
  /\ DeviceHolds

(* A context that was sent is not taken for none. *)
LEMMA ContextsAreValues ==
  ASSUME NEW m, IsMap(m), NEW c \in Contexts(m)
  PROVE  c # NoValue
<1>1. c \in [1 .. Len(m) -> Seq(Int)] /\ Len(m) \in Nat
      BY DEF Contexts, IsMap
<1>2. c \in Seq(Seq(Int))
      BY <1>1
<1> QED
      BY <1>2, RegistersAssumption

(* What an output sends: registers of the block. *)
LEMMA OutputDataType ==
  ASSUME NEW m, IsMap(m), NEW num \in Nat, NEW c \in Contexts(m), OutputData(m, num, c) # NoValue
  PROVE  OutputData(m, num, c) \in [1 .. num -> Word16] /\ Fits(m, num, Len(m))
<1>1. Len(m) \in Nat /\ Len(m) \in 0 .. Len(m)
      BY DEF IsMap
<1>2. DataAfter(m, num, c)[Len(m)] # NoValue
      BY DEF OutputData
<1>3. Fits(m, num, Len(m)) /\ DataAfter(m, num, c)[Len(m)] \in [1 .. num -> Word16]
  <2> DEFINE k == Len(m)
  <2>1. k \in 0 .. Len(m) /\ DataAfter(m, num, c)[k] # NoValue
        BY <1>1, <1>2
  <2> HIDE DEF k
  <2>2. Fits(m, num, k) /\ DataAfter(m, num, c)[k] \in [1 .. num -> Word16]
        BY <2>1, DataAfterEntries
  <2> QED BY <2>2 DEF k
<1> QED
      BY <1>3 DEF OutputData

(* What an input makes of the context: what is answered is set as a whole. *)
LEMMA InputStoreEntries ==
  ASSUME NEW m, IsMap(m), NEW c \in Contexts(m), NEW regs \in Seq(Word16)
  PROVE  /\ InputStore(m, regs, c) \in Contexts(m)
         /\ \A i \in 1 .. Len(m) :
              IF m[i].offset + Width(m[i]) <= Len(regs)
              THEN EncodeArray(m[i].type, InputStore(m, regs, c)[i]) =
                     SubSeq(regs, m[i].offset + 1, m[i].offset + Width(m[i]))
              ELSE InputStore(m, regs, c)[i] = c[i]
<1> DEFINE k == Len(m)
<1>1. k \in 0 .. Len(m)
      BY DEF IsMap
<1> HIDE DEF k
<1>2. /\ StoredAfter(m, regs, c)[k] \in Contexts(m)
      /\ \A i \in 1 .. Len(m) :
           IF i <= k /\ m[i].offset + Width(m[i]) <= Len(regs)
           THEN EncodeArray(m[i].type, StoredAfter(m, regs, c)[k][i]) =
                  SubSeq(regs, m[i].offset + 1, m[i].offset + Width(m[i]))
           ELSE StoredAfter(m, regs, c)[k][i] = c[i]
      BY <1>1, StoredAfterEntries
<1> QED
      BY <1>2 DEF InputStore, k

(* What a device answers are registers, and no more than were asked for. *)
LEMMA AnswersType ==
  ASSUME IInv, NEW regs \in Answers
  PROVE  regs \in Seq(Word16) /\ Len(regs) <= number
<1>1. config.first \in Word16 /\ number \in Word16
      BY NumberOfBlock, ConfigsAssumption DEF IInv, Blocks
<1>2. PICK n \in 0 .. number :
        config.first + n <= WordBase /\ regs = [r \in 1 .. n |-> device[config.first + r - 1]]
      BY DEF Answers
<1>3. n \in Nat /\ \A r \in 1 .. n : config.first + r - 1 \in Word16
      BY <1>1, <1>2, BaseFacts DEF Word16
<1>4. regs \in [1 .. n -> Word16]
      BY <1>2, <1>3 DEF IInv
<1> QED
      BY <1>1, <1>2, <1>3, <1>4 DEF Word16

(* The invariant holds at first, and every action keeps it. *)
LEMMA InitInvariant == Init => IInv
<1> SUFFICES ASSUME Init PROVE IInv
    OBVIOUS
<1>1. config \in Configs /\ number \in Number(config) \ {NoValue} /\ map \in Normalized(config)
      BY DEF Init
<1>2. /\ IsMap(map) /\ DOMAIN map = DOMAIN config.map
      /\ \A i \in DOMAIN map : map[i].type = config.map[i].type /\ map[i].len = config.map[i].len
      BY <1>1, NormalizedEntries
<1>3. \A i \in DOMAIN map : ctx[i] \in Arrays(map[i].type, map[i].len)
  <2>1. \A i \in DOMAIN map : ctx[i] \in Sample(map[i].type, map[i].len)
        BY DEF Init
  <2>2. \A i \in DOMAIN map : Sample(map[i].type, map[i].len) \subseteq Arrays(map[i].type, map[i].len)
        BY <1>1, <1>2, ConfigsAssumption
  <2> QED BY <2>1, <2>2
<1>4. ctx \in Contexts(map)
  <2>1. \A i \in DOMAIN map : map[i].type \in Types /\ map[i].len \in Nat
        BY <1>2, MapEntries
  <2>2. \A i \in DOMAIN map : ctx[i] \in Seq(Int)
        BY <1>3, <2>1, WordsAreValues
  <2>3. ctx \in [DOMAIN map -> Seq(Int)]
        BY <2>2 DEF Init
  <2> QED BY <1>3, <2>3 DEF Contexts
<1>5. device \in [Word16 -> Word16] /\ DeviceHolds
      BY DeviceAssumption DEF Init, DeviceHolds
<1> QED
      BY <1>1, <1>4, <1>5 DEF Init, IInv

LEMMA StepInvariant == IInv /\ [Next]_vars => IInv'
<1> SUFFICES ASSUME IInv, [Next]_vars PROVE IInv'
    OBVIOUS
<1>1. IsMap(map) /\ number \in Word16 /\ number \in Nat /\ config.first \in Word16
  <2>1. IsMap(map) /\ number \in Word16
        BY NormalizedEntries, NumberOfBlock DEF IInv
  <2>2. config.first \in Word16
        BY ConfigsAssumption DEF IInv, Blocks
  <2> QED BY <2>1, <2>2, BaseFacts DEF Word16
<1>2. ASSUME OutputRound PROVE IInv'
  <2> DEFINE data == OutputData(map, number, ctx)
  <2>1. data # NoValue /\ data \in [1 .. number -> Word16]
        BY <1>1, <1>2, OutputDataType DEF OutputRound, IInv
  <2>2. /\ device' = [r \in DOMAIN device |-> IF r - config.first + 1 \in DOMAIN data
                                               THEN data[r - config.first + 1]
                                               ELSE device[r]]
        /\ sent' = ctx
        /\ UNCHANGED <<config, number, map, ctx>>
        BY <1>2 DEF OutputRound
  <2> HIDE DEF data
  <2>3. DOMAIN device = Word16 /\ DOMAIN data = 1 .. number
        BY <2>1 DEF IInv
  <2>4. device' \in [Word16 -> Word16]
        BY <2>1, <2>2, <2>3 DEF IInv
  <2>5. \A r \in Word16 : r - config.first + 1 \notin 1 .. number => device[r] = Found[r]
        BY DEF IInv, DeviceHolds
  <2>6. \A r \in Word16 :
          device'[r] = IF r - config.first + 1 \in 1 .. number
                       THEN data[r - config.first + 1] ELSE Found[r]
        BY <2>2, <2>3, <2>5
  <2>7. sent' # NoValue
        BY <1>1, <2>2, ContextsAreValues DEF IInv
  <2>8. OutputData(map', number', sent') = data
        BY <2>2 DEF data
  <2>9. DeviceHolds'
        BY <2>1, <2>2, <2>6, <2>7, <2>8 DEF DeviceHolds
  <2> QED BY <2>2, <2>4, <2>9 DEF IInv
<1>3. ASSUME InputRound PROVE IInv'
  <2>1. PICK regs \in Answers : ctx' = InputStore(map, regs, ctx)
        BY <1>3 DEF InputRound
  <2>2. regs \in Seq(Word16)
        BY AnswersType
  <2>3. ctx' \in Contexts(map)
        BY <1>1, <2>1, <2>2, InputStoreEntries DEF IInv
  <2>4. UNCHANGED <<config, number, map, device, sent>>
        BY <1>3 DEF InputRound
  <2> QED BY <2>3, <2>4 DEF IInv, DeviceHolds
<1>4. ASSUME Restart PROVE IInv'
  <2>1. ctx' = [i \in DOMAIN map |-> Zero(map[i])] /\ UNCHANGED <<config, number, map, device, sent>>
        BY <1>4 DEF Restart
  <2>2. \A i \in DOMAIN map : map[i].type \in Types /\ map[i].len \in Nat
        BY <1>1, MapEntries
  <2>3. \A i \in DOMAIN map : Zero(map[i]) \in Arrays(map[i].type, map[i].len)
        BY <2>2, SignedPatterns DEF Zero, Arrays
  <2>4. \A i \in DOMAIN map : Zero(map[i]) \in Seq(Int)
        BY <2>2, <2>3, WordsAreValues
  <2>5. ctx' \in Contexts(map)
        BY <2>1, <2>3, <2>4 DEF Contexts
  <2> QED BY <2>1, <2>5 DEF IInv, DeviceHolds
<1>5. ASSUME UNCHANGED vars PROVE IInv'
      BY <1>5 DEF vars, IInv, DeviceHolds
<1> QED
      BY <1>2, <1>3, <1>4, <1>5 DEF Next

(* At any time the context is one for the map, and the device holds what the map
   makes of the context that was last sent (the generated workers, mod.rs). *)
THEOREM Invariant == Spec => []IInv
<1> QED
      BY InitInvariant, StepInvariant, PTL DEF Spec

(* The facts that the theorems take from it. *)
LEMMA InvariantFacts ==
  ASSUME IInv
  PROVE  /\ IsMap(map) /\ DOMAIN map = DOMAIN config.map
         /\ number \in Word16 /\ number \in Nat
         /\ config.first \in Word16 /\ config.first \in Nat
         /\ \A i \in DOMAIN map :
              /\ map[i].type \in Types /\ map[i].len \in Nat /\ map[i].offset \in Word16
              /\ Words(i) = Width(map[i]) /\ Words(i) \in Nat
              /\ ctx[i] \in Arrays(map[i].type, map[i].len)
<1>1. IsMap(map) /\ DOMAIN map = DOMAIN config.map /\ number \in Word16
      BY NormalizedEntries, NumberOfBlock DEF IInv
<1>2. config.first \in Word16
      BY ConfigsAssumption DEF IInv, Blocks
<1>3. \A i \in DOMAIN map : ctx[i] \in Arrays(map[i].type, map[i].len)
      BY DEF IInv, Contexts
<1>4. \A i \in DOMAIN map : map[i].offset \in Word16
  <2>1. \A i \in DOMAIN map : map[i] \in MapEntry
        BY <1>1 DEF IsMap
  <2> QED BY <2>1 DEF MapEntry
<1>5. \A i \in DOMAIN map : Words(i) = Width(map[i])
      BY DEF Words, Width
<1> QED
      BY <1>1, <1>2, <1>3, <1>4, <1>5, MapEntries, BaseFacts DEF Word16

(* The types of all that the workers and the device hold: a field has always *)
(* the length of its mapping and values of its type, however an input found  *)
(* the registers (generated workers, types.rs).                              *)
THEOREM TypesCorrect == Spec => []TypeOK
<1>1. IInv => TypeOK
  <2> SUFFICES ASSUME IInv PROVE TypeOK
      OBVIOUS
  <2>1. number \in 0 .. WordBase - 1 /\ \A i \in DOMAIN map : map[i].offset \in 0 .. WordBase - 1
        BY InvariantFacts DEF Word16
  <2>2. ASSUME NEW i \in DOMAIN map
        PROVE  Len(ctx[i]) = map[i].len /\ \A k \in DOMAIN ctx[i] : ctx[i][k] \in Values(map[i].type)
        BY InvariantFacts DEF Arrays
  <2>3. sent = NoValue \/ DOMAIN sent = DOMAIN map
        BY DEF IInv, Contexts
  <2> QED BY <2>1, <2>2, <2>3 DEF TypeOK, IInv, Word16
<1> QED
      BY <1>1, Invariant, PTL

(* A layout is read back wherever it stands among other registers. *)
LEMMA LayoutIsRead ==
  ASSUME NEW t \in Types, NEW n \in Nat \ {0}, NEW vs \in Arrays(t, n),
         NEW before \in Seq(Word16), NEW after \in Seq(Word16)
  PROVE  DecodeArray(t, n, SliceAt(before \o EncodeArray(t, vs) \o after, Len(before))) = vs
<1> DEFINE s == EncodeArray(t, vs)
           w == n * Size(t)
           regs == before \o s \o after
           b == Len(before)
           z == w + Len(after)
<1>1. w \in Nat \ {0} /\ s \in [1 .. w -> Word16] /\ Len(s) = w
      BY SizeType, EncodeArrayType
<1>2. s \in Seq(Word16) /\ b \in Nat /\ Len(after) \in Nat
      BY <1>1
<1> HIDE DEF s, w
<1>3. regs \in Seq(Word16) /\ Len(regs) = b + z /\ \A k \in 1 .. w : regs[b + k] = s[k]
      BY <1>1, <1>2
<1>4. z \in Nat /\ w <= z /\ b + z <= Len(regs) /\ b < Len(regs)
      BY <1>1, <1>2, <1>3
<1> HIDE DEF regs, b, z
<1>5. SliceAt(regs, b) = SubSeq(regs, b + 1, b + z)
      BY <1>3, <1>4 DEF SliceAt
<1> DEFINE x == SubSeq(regs, b + 1, b + z)
<1>6. x \in Seq(Word16) /\ Len(x) = z /\ \A k \in 1 .. z : x[k] = regs[b + k]
      BY <1>2, <1>3, <1>4, Slice
<1> HIDE DEF x
<1>7. w <= Len(x) /\ \A k \in 1 .. w : x[k] = s[k]
  <2>1. w <= Len(x)
        BY <1>4, <1>6
  <2>2. \A k \in 1 .. w : k \in 1 .. z
        BY <1>1, <1>4
  <2> QED BY <1>3, <1>6, <2>1, <2>2, Zenon
<1>8. DecodeArray(t, n, x) = vs
      BY <1>6, <1>7, DecodeEncode DEF s, w
<1> QED
      BY <1>5, <1>8 DEF x, regs, s, b

(* What is laid out in registers is read back, is an error when cut short, and *)
(* a float that a server holds as an integer is swapped to it and back, for    *)
(* every width of byte and every value of the types (From and TryFrom of       *)
(* types.rs, SwapModbusEndianess).                                             *)
THEOREM LayoutsRight == Spec => []LayoutsAgree
<1>1. IInv => LayoutsAgree
  <2> SUFFICES ASSUME IInv PROVE LayoutsAgree
      OBVIOUS
  <2>1. EncodingIsInvertible
    <3> SUFFICES ASSUME NEW i \in DOMAIN map, map[i].len # 0
                 PROVE  LET m == map[i]
                            s == EncodeArray(m.type, ctx[i])
                        IN  /\ Len(s) = m.len * Size(m.type)
                            /\ \A before, after \in {<<>>, <<WordBase - 1>>} :
                                 DecodeArray(m.type, m.len, SliceAt(before \o s \o after, Len(before)))
                                   = ctx[i]
                            /\ DecodeArray(m.type, m.len, SubSeq(s, 1, Len(s) - 1)) = NoValue
        BY DEF EncodingIsInvertible
    <3> DEFINE t == map[i].type
               n == map[i].len
               vs == ctx[i]
               s == EncodeArray(t, vs)
               w == n * Size(t)
    <3>1. t \in Types /\ n \in Nat \ {0} /\ vs \in Arrays(t, n)
          BY InvariantFacts
    <3> HIDE DEF t, n, vs
    <3>2. w \in Nat \ {0} /\ s \in [1 .. w -> Word16] /\ Len(s) = w
          BY <3>1, SizeType, EncodeArrayType
    <3>3. ASSUME NEW before \in {<<>>, <<WordBase - 1>>}, NEW after \in {<<>>, <<WordBase - 1>>}
          PROVE  DecodeArray(t, n, SliceAt(before \o s \o after, Len(before))) = vs
      <4>1. before \in Seq(Word16) /\ after \in Seq(Word16)
        <5> DEFINE x == WordBase - 1
        <5>1. x \in Word16
              BY BaseFacts DEF Word16
        <5> HIDE DEF x
        <5>2. <<>> \in Seq(Word16) /\ <<x>> \in Seq(Word16)
              BY <5>1
        <5> QED BY <3>3, <5>2 DEF x
      <4> QED BY <3>1, <4>1, LayoutIsRead
    <3>4. DecodeArray(t, n, SubSeq(s, 1, Len(s) - 1)) = NoValue
      <4>1. s \in Seq(Word16)
            BY <3>2
      <4> HIDE DEF s
      <4> DEFINE x == SubSeq(s, 1, Len(s) - 1)
      <4>2. x \in Seq(Word16) /\ Len(x) = w - 1
            BY <3>2, <4>1
      <4> HIDE DEF x
      <4>3. w > Len(x)
            BY <3>2, <4>2
      <4>4. DecodeArray(t, n, x) = NoValue
            BY <3>1, <4>2, <4>3, DecodeArrayType
      <4> QED BY <4>4 DEF x
    <3> QED BY <3>2, <3>3, <3>4 DEF t, n, vs
  <2>2. FloatsAreSwapped
    <3>1. ASSUME NEW i \in {j \in DOMAIN map : map[j].type \in Floats}, NEW k \in DOMAIN ctx[i]
          PROVE  map[i].type \in Floats /\ ctx[i][k] \in Values(map[i].type)
          BY <3>1, InvariantFacts DEF Arrays
    <3> QED BY <3>1, FloatSwapped DEF FloatsAreSwapped
  <2> QED BY <2>1, <2>2 DEF LayoutsAgree
<1> QED
      BY <1>1, Invariant, PTL

(* An input sets a field as a whole or leaves it, and none keeps another from  *)
(* being set, for every map and every answer (push_input_worker).              *)
THEOREM InputsSetWhatFits == Spec => []InputSetsWhatFits
<1>1. IInv => InputSetsWhatFits
  <2> SUFFICES ASSUME IInv, NEW regs \in Answers, NEW i \in DOMAIN map
               PROVE  LET new == InputStore(map, regs, ctx)
                          end == map[i].offset + Words(i)
                      IN  IF end <= Len(regs)
                          THEN EncodeArray(map[i].type, new[i]) = SubSeq(regs, map[i].offset + 1, end)
                          ELSE new[i] = ctx[i]
      BY DEF InputSetsWhatFits
  <2>1. IsMap(map) /\ Words(i) = Width(map[i]) /\ regs \in Seq(Word16)
        BY InvariantFacts, AnswersType
  <2>2. i \in 1 .. Len(map)
        BY <2>1, MapEntries
  <2>3. IF map[i].offset + Width(map[i]) <= Len(regs)
        THEN EncodeArray(map[i].type, InputStore(map, regs, ctx)[i]) =
               SubSeq(regs, map[i].offset + 1, map[i].offset + Width(map[i]))
        ELSE InputStore(map, regs, ctx)[i] = ctx[i]
        BY <2>1, <2>2, InputStoreEntries DEF IInv
  <2> QED BY <2>1, <2>2, <2>3
<1> QED
      BY <1>1, Invariant, PTL

(* Where plc.yml says a field is, unless its sum of offsets is no u16. *)
LEMMA AddressOfEntry ==
  ASSUME IInv, InU16, NEW i \in DOMAIN map
  PROVE  Address(i) = config.first + map[i].offset
<1> DEFINE e == config.map[i]
<1>1. Sum(e.parts) < WordBase
      BY DEF InU16
<1>2. /\ Sum(e.parts) \in Nat
      /\ map[i].offset = IF e.absolute THEN Sum(e.parts) - config.first ELSE Sum(e.parts)
      BY <1>1, NormalizedEntries DEF IInv
<1>3. Address(i) = (IF e.absolute THEN 0 ELSE config.first) + Sum(e.parts)
      BY DEF Address
<1>4. config.first \in Nat
      BY InvariantFacts
<1> HIDE DEF e
<1> QED
      BY <1>2, <1>3, <1>4

(* The block ends where plc.yml says, unless it is all registers there are. *)
LEMMA NumberOfInvariant ==
  ASSUME IInv
  PROVE  /\ number = 0 \/ number = LastRegister - config.first + 1
         /\ LastRegister \in Int
<1>1. config.first \in Int /\ config.last \in Int /\ (config.given # NoValue => config.given \in Int)
      BY ConfigsAssumption, WordsAreValues DEF IInv, Blocks
<1>2. number = 0 \/ number = IF config.given # NoValue THEN config.given
                             ELSE config.last - config.first + 1
      BY NumberOfBlock DEF IInv
<1> QED
      BY <1>1, <1>2 DEF LastRegister

(* An output sends if its whole map fits into its block, and only then, unless *)
(* the block is all registers there are (push_output_worker, RegBase).         *)
THEOREM OutputsSendWhatFits == Spec => []SendsIfMapFits
<1>1. IInv => SendsIfMapFits
  <2> SUFFICES ASSUME IInv, InU16
               PROVE  (OutputData(map, number, ctx) # NoValue) =
                        (\A i \in DOMAIN map :
                           Words(i) # 0 => number # 0 /\ Address(i) + Words(i) - 1 <= LastRegister)
      BY DEF SendsIfMapFits
  <2>1. (OutputData(map, number, ctx) # NoValue) <=> Fits(map, number, Len(map))
    <3>1. IsMap(map) /\ number \in Nat /\ Len(map) \in 0 .. Len(map)
          BY InvariantFacts, MapEntries
    <3> QED BY <3>1, DataAfterEntries DEF OutputData, IInv
  <2>2. /\ number = 0 \/ number = LastRegister - config.first + 1
        /\ LastRegister \in Int
        BY NumberOfInvariant
  <2>3. ASSUME NEW i \in DOMAIN map
        PROVE  Width(map[i]) = 0 \/ map[i].offset + Width(map[i]) <= number
                 <=> (Words(i) # 0 => number # 0 /\ Address(i) + Words(i) - 1 <= LastRegister)
    <3> DEFINE off == map[i].offset
               w == Words(i)
               first == config.first
    <3>1. off \in Nat /\ w \in Nat /\ w = Width(map[i]) /\ first \in Nat /\ number \in Nat
          BY InvariantFacts, MapEntries
    <3>2. Address(i) = first + off
          BY AddressOfEntry
    <3>3. number = 0 \/ number = LastRegister - first + 1
          BY <2>2
    <3> HIDE DEF off, w, first
    <3>4. w = 0 \/ off + w <= number <=>
            (w # 0 => number # 0 /\ first + off + w - 1 <= LastRegister)
          BY <2>2, <3>1, <3>3
    <3> QED BY <3>1, <3>2, <3>4 DEF off, w
  <2>4. DOMAIN map = 1 .. Len(map)
        BY InvariantFacts, MapEntries
  <2>5. Fits(map, number, Len(map)) <=>
          \A i \in DOMAIN map :
            Words(i) # 0 => number # 0 /\ Address(i) + Words(i) - 1 <= LastRegister
        BY <2>3, <2>4 DEF Fits
  <2> QED BY <2>1, <2>5
<1> QED
      BY <1>1, Invariant, PTL

(* After an output the device holds each field where plc.yml says it is; where *)
(* two fields meet the later one wins, and what is outside the block is kept   *)
(* (push_output_worker, calc_offset_base).                                     *)
THEOREM FieldsWhereNamed == Spec => []FieldsAreWhereNamed
<1>1. IInv => FieldsAreWhereNamed
  <2> SUFFICES ASSUME IInv, sent # NoValue, InU16, NEW r \in DOMAIN device
               PROVE  LET there == {i \in DOMAIN map : Covers(i, r)}
                          last == CHOOSE i \in there : \A j \in there : j <= i
                      IN  device[r] =
                            IF there # {}
                            THEN EncodeArray(map[last].type, sent[last])[r - Address(last) + 1]
                            ELSE IF InBlock(r) THEN 0
                            ELSE Found[r]
      BY DEF FieldsAreWhereNamed
  <2> DEFINE data == OutputData(map, number, sent)
             q == r - config.first + 1
             there == {i \in DOMAIN map : Covers(i, r)}
             last == CHOOSE i \in there : \A j \in there : j <= i
  <2>1. r \in Word16 /\ r \in Nat /\ config.first \in Nat /\ number \in Nat
        BY InvariantFacts, BaseFacts DEF IInv, Word16
  <2>2. /\ IsMap(map) /\ Len(map) \in Nat /\ DOMAIN map = 1 .. Len(map)
        /\ sent \in Contexts(map)
        BY InvariantFacts, MapEntries DEF IInv
  <2>3. /\ data # NoValue
        /\ device[r] = IF q \in 1 .. number THEN data[q] ELSE Found[r]
        BY <2>1 DEF IInv, DeviceHolds
  <2>4. /\ Fits(map, number, Len(map))
        /\ \A p \in 1 .. number :
             /\ (\A i \in 1 .. Len(map) : ~Within(map[i], p)) => data[p] = 0
             /\ \A i \in 1 .. Len(map) :
                  Within(map[i], p) /\ (\A j \in 1 .. Len(map) : Within(map[j], p) => j <= i) =>
                    data[p] = EncodeArray(map[i].type, sent[i])[p - map[i].offset]
    <3>1. Len(map) \in 0 .. Len(map)
          BY <2>2
    <3> QED BY <2>1, <2>2, <2>3, <3>1, DataAfterEntries DEF OutputData
  <2> HIDE DEF data
  <2>5. ASSUME NEW i \in DOMAIN map
        PROVE  /\ Covers(i, r) <=> Within(map[i], q)
               /\ Within(map[i], q) => q \in 1 .. number
               /\ q - map[i].offset = r - Address(i) + 1
    <3> DEFINE off == map[i].offset
               w == Words(i)
               first == config.first
    <3>1. off \in Nat /\ w \in Nat /\ w = Width(map[i]) /\ first \in Nat
          BY InvariantFacts, MapEntries
    <3>2. Address(i) = first + off
          BY AddressOfEntry
    <3>3. w = 0 \/ off + w <= number
          BY <2>2, <2>4, <3>1 DEF Fits
    <3>4. Covers(i, r) <=> r \in first + off .. first + off + w - 1
          BY <3>2 DEF Covers
    <3>5. Within(map[i], q) <=> q - off \in 1 .. w
      <4>1. Within(map[i], q) <=> q - off \in 1 .. Width(map[i])
            BY DEF Within
      <4> HIDE DEF w
      <4> QED BY <3>1, <4>1
    <3>6. q = r - first + 1
          OBVIOUS
    <3> HIDE DEF off, w, first, q
    <3>7. /\ r \in first + off .. first + off + w - 1 <=> q - off \in 1 .. w
          /\ q - off \in 1 .. w => q \in 1 .. number
          /\ q - off = r - (first + off) + 1
          BY <2>1, <3>1, <3>3, <3>6
    <3>8. q - map[i].offset = r - Address(i) + 1
          BY <3>2, <3>7 DEF off
    <3> QED BY <3>4, <3>5, <3>7, <3>8
  <2> HIDE DEF q
  <2>6. CASE there = {}
    <3>1. \A i \in 1 .. Len(map) : ~Within(map[i], q)
          BY <2>2, <2>5, <2>6
    <3>2. device[r] = IF q \in 1 .. number THEN 0 ELSE Found[r]
          BY <2>3, <2>4, <3>1
    <3>3. q \in 1 .. number <=> InBlock(r)
      <4>1. /\ number = 0 \/ number = LastRegister - config.first + 1
            /\ LastRegister \in Int
            BY NumberOfInvariant
      <4> QED BY <2>1, <4>1 DEF InBlock, q
    <3> QED BY <2>6, <3>2, <3>3
  <2>7. CASE there # {}
    <3>1. \E i \in there : \A j \in there : j <= i
          BY <2>2, <2>7, Greatest
    <3>2. last \in there /\ \A j \in there : j <= last
      <4> HIDE DEF there
      <4> QED BY <3>1
    <3> HIDE DEF last
    <3>3. last \in DOMAIN map /\ Within(map[last], q) /\ q \in 1 .. number
          BY <2>5, <3>2
    <3>4. \A j \in 1 .. Len(map) : Within(map[j], q) => j <= last
          BY <2>2, <2>5, <3>2
    <3>5. data[q] = EncodeArray(map[last].type, sent[last])[q - map[last].offset]
          BY <2>2, <2>4, <3>3, <3>4
    <3>6. device[r] = EncodeArray(map[last].type, sent[last])[r - Address(last) + 1]
          BY <2>3, <2>5, <3>3, <3>5
    <3> QED BY <2>7, <3>6 DEF last
  <2> QED BY <2>6, <2>7
<1> QED
      BY <1>1, Invariant, PTL

-----------------------------------------------------------------------------
(* An output and an input of the same map.                                  *)

(* A field that is set from registers that hold an array is that array. *)
LEMMA ArrayReadBack ==
  ASSUME NEW m \in MapEntry, NEW vs \in Arrays(m.type, m.len), NEW us \in Arrays(m.type, m.len),
         NEW regs \in Seq(Word16), m.offset + Width(m) <= Len(regs),
         EncodeArray(m.type, vs) = SubSeq(regs, m.offset + 1, m.offset + Width(m)),
         \A k \in 1 .. Width(m) : regs[m.offset + k] = EncodeArray(m.type, us)[k]
  PROVE  vs = us
<1> DEFINE t == m.type
           n == m.len
           off == m.offset
           w == Width(m)
<1>0. /\ t \in Types /\ n \in Nat /\ off \in Nat /\ w \in Nat /\ w = n * Size(t)
      /\ vs \in Arrays(t, n) /\ us \in Arrays(t, n) /\ off + w <= Len(regs)
      /\ EncodeArray(t, vs) = SubSeq(regs, off + 1, off + w)
      /\ \A k \in 1 .. w : regs[off + k] = EncodeArray(t, us)[k]
  <2>1. t \in Types /\ n \in Nat /\ off \in Nat
        BY BaseFacts DEF MapEntry, Word16
  <2>2. w = n * Size(t)
        BY DEF Width
  <2>3. w \in Nat
        BY <2>1, <2>2, SizeType
  <2> QED BY <2>1, <2>2, <2>3
<1> HIDE DEF t, n, off, w
<1>1. CASE n = 0
      BY <1>0, <1>1 DEF Arrays
<1>2. CASE n # 0
  <2> DEFINE s == SubSeq(regs, off + 1, off + w)
  <2>1. s \in Seq(Word16) /\ Len(s) = w /\ \A k \in 1 .. w : s[k] = regs[off + k]
    <3>1. off \in Nat /\ w \in Nat /\ off + w <= Len(regs)
          BY <1>0
    <3> QED BY <3>1, Slice, Zenon
  <2>2. EncodeArray(t, vs) = s
        BY <1>0
  <2> HIDE DEF s
  <2>3. \A k \in 1 .. w : s[k] = EncodeArray(t, vs)[k] /\ s[k] = EncodeArray(t, us)[k]
        BY <1>0, <2>1, <2>2
  <2>4. n * Size(t) <= Len(s)
        BY <1>0, <2>1
  <2>5. DecodeArray(t, n, s) = vs
        BY <1>0, <1>2, <2>1, <2>3, <2>4, DecodeEncode
  <2>6. DecodeArray(t, n, s) = us
        BY <1>0, <1>2, <2>1, <2>3, <2>4, DecodeEncode
  <2> QED BY <2>5, <2>6
<1> QED
      BY <1>1, <1>2

(* No two fields share a register. *)
Apart == \A i, j \in DOMAIN map : \A r \in 1 .. number :
           Within(map[i], r) /\ Within(map[j], r) => i = j

(* What was last sent is what an input with the same map reads, when no two    *)
(* fields share a register and the device answers the block, for every plc.yml *)
(* and whatever the program has made of its context since (the two workers).   *)
SentIsReadBack ==
  sent # NoValue /\ Apart =>
    \A regs \in Answers : Len(regs) = number => InputStore(map, regs, ctx) = sent

(* SentIsReadBack holds at any time: the workers undo each other, also when the *)
(* PLC is restarted between them (push_output_worker, push_input_worker).       *)
THEOREM SentComesBack == Spec => []SentIsReadBack
<1>1. IInv => SentIsReadBack
  <2> SUFFICES ASSUME IInv, sent # NoValue, Apart, NEW regs \in Answers, Len(regs) = number
               PROVE  InputStore(map, regs, ctx) = sent
      BY DEF SentIsReadBack
  <2> DEFINE data == OutputData(map, number, sent)
             new == InputStore(map, regs, ctx)
  <2>1. /\ IsMap(map) /\ Len(map) \in Nat /\ DOMAIN map = 1 .. Len(map)
        /\ Len(map) \in 0 .. Len(map)
        /\ number \in Nat /\ regs \in Seq(Word16) /\ sent \in Contexts(map)
        BY InvariantFacts, MapEntries, AnswersType DEF IInv
  <2>2. data # NoValue
        BY DEF IInv, DeviceHolds
  <2>3. /\ Fits(map, number, Len(map))
        /\ \A p \in 1 .. number : \A i \in 1 .. Len(map) :
             Within(map[i], p) /\ (\A j \in 1 .. Len(map) : Within(map[j], p) => j <= i) =>
               data[p] = EncodeArray(map[i].type, sent[i])[p - map[i].offset]
        BY <2>1, <2>2, DataAfterEntries DEF OutputData
  <2>4. /\ new \in Contexts(map)
        /\ \A i \in 1 .. Len(map) :
             IF map[i].offset + Width(map[i]) <= Len(regs)
             THEN EncodeArray(map[i].type, new[i]) =
                    SubSeq(regs, map[i].offset + 1, map[i].offset + Width(map[i]))
             ELSE new[i] = ctx[i]
    <3>1. ctx \in Contexts(map)
          BY DEF IInv
    <3>2. IsMap(map) /\ regs \in Seq(Word16)
          BY <2>1
    <3> HIDE DEF new
    <3> QED BY <3>1, <3>2, InputStoreEntries DEF new
  <2> HIDE DEF new
  <2>5. \A p \in 1 .. number : regs[p] = data[p]
    <3>1. PICK n \in 0 .. number :
            /\ config.first + n <= WordBase
            /\ regs = [r \in 1 .. n |-> device[config.first + r - 1]]
          BY DEF Answers
    <3>2. config.first \in Nat
          BY InvariantFacts
    <3>3. n = number
          BY <2>1, <3>1
    <3>4. ASSUME NEW p \in 1 .. number PROVE regs[p] = data[p]
      <4> DEFINE r == config.first + p - 1
      <4>1. r \in Word16 /\ r - config.first + 1 = p
        <5> DEFINE first == config.first
        <5>1. first \in Nat /\ first + number <= WordBase
              BY <3>1, <3>2, <3>3
        <5>2. r = first + p - 1
              OBVIOUS
        <5> HIDE DEF first, r
        <5>3. r \in 0 .. WordBase - 1 /\ r - first + 1 = p
              BY <2>1, <5>1, <5>2, BaseFacts
        <5> QED BY <5>3 DEF first, Word16
      <4>2. regs[p] = device[r]
            BY <3>1, <3>3
      <4> HIDE DEF r, data
      <4>3. device[r] = data[p]
        <5>1. \A q \in Word16 : device[q] = IF q - config.first + 1 \in 1 .. number
                                            THEN data[q - config.first + 1] ELSE Found[q]
              BY DEF IInv, DeviceHolds, data
        <5> QED BY <4>1, <5>1
      <4> QED BY <4>2, <4>3
    <3> QED BY <3>4
  <2> HIDE DEF data
  <2>6. ASSUME NEW i \in 1 .. Len(map) PROVE new[i] = sent[i]
    <3> DEFINE t == map[i].type
               n == map[i].len
               off == map[i].offset
               w == Width(map[i])
    <3>1. /\ t \in Types /\ n \in Nat /\ off \in Nat /\ w \in Nat /\ (n # 0 => w # 0)
          /\ w = n * Size(t)
          BY <2>1, MapEntries DEF Width
    <3>2. new[i] \in Arrays(t, n) /\ sent[i] \in Arrays(t, n)
          BY <2>1, <2>4 DEF Contexts
    <3>3. w = 0 \/ off + w <= number
          BY <2>3 DEF Fits
    <3>4. off + w <= number => EncodeArray(t, new[i]) = SubSeq(regs, off + 1, off + w)
          BY <2>1, <2>4
    <3>5. ASSUME NEW k \in 1 .. w, off + w <= number
          PROVE  regs[off + k] = EncodeArray(t, sent[i])[k]
      <4> DEFINE p == off + k
      <4>1. p \in 1 .. number /\ p - off = k
            BY <2>1, <3>1, <3>5
      <4> HIDE DEF p
      <4>2. Within(map[i], p)
            BY <4>1 DEF Within
      <4>3. \A j \in 1 .. Len(map) : Within(map[j], p) => j <= i
            BY <2>1, <4>1, <4>2 DEF Apart
      <4>4. data[p] = EncodeArray(t, sent[i])[p - off]
            BY <2>3, <4>1, <4>2, <4>3
      <4>5. regs[p] = EncodeArray(t, sent[i])[k]
            BY <2>5, <4>1, <4>4
      <4> QED BY <4>5 DEF p
    <3> HIDE DEF t, n, off, w
    <3>6. CASE n = 0
          BY <3>2, <3>6 DEF Arrays
    <3>7. CASE n # 0
      <4>1. off + w <= number
            BY <3>1, <3>3, <3>7
      <4>2. off + w <= Len(regs)
            BY <4>1
      <4>3. EncodeArray(t, new[i]) = SubSeq(regs, off + 1, off + w)
            BY <3>4, <4>1
      <4>4. \A k \in 1 .. w : regs[off + k] = EncodeArray(t, sent[i])[k]
            BY <3>5, <4>1
      <4> DEFINE m == map[i]
                 vs == new[i]
                 us == sent[i]
      <4>5. m \in MapEntry /\ vs \in Arrays(m.type, m.len) /\ us \in Arrays(m.type, m.len)
            BY <2>1, <3>2 DEF IsMap, t, n
      <4>6. /\ m.offset + Width(m) <= Len(regs)
            /\ EncodeArray(m.type, vs) = SubSeq(regs, m.offset + 1, m.offset + Width(m))
            /\ \A k \in 1 .. Width(m) : regs[m.offset + k] = EncodeArray(m.type, us)[k]
            BY <4>2, <4>3, <4>4 DEF t, off, w
      <4> HIDE DEF m, vs, us
      <4>7. vs = us
            BY <2>1, <4>5, <4>6, ArrayReadBack
      <4> QED BY <4>7 DEF vs, us
    <3> QED BY <3>6, <3>7
  <2>7. new \in [1 .. Len(map) -> Seq(Int)] /\ sent \in [1 .. Len(map) -> Seq(Int)]
        BY <2>1, <2>4 DEF Contexts
  <2>8. new = sent
        BY <2>6, <2>7
  <2> QED BY <2>8 DEF new
<1> QED
      BY <1>1, Invariant, PTL

=============================================================================
