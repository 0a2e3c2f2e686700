------------------------------- MODULE Fields -------------------------------
(***************************************************************************)
(* The fields of a component and what they make of register words:          *)
(* model/fields.py, decode.py and encode.py.  A register has WordBits bits  *)
(* where the code's has 16, and _decimals() sees Digits decimals, not 10.   *)
(*                                                                          *)
(* Floats are exact here: a number is an integer count of grains, Unit of   *)
(* them to 1, so float noise is left out; so are the IEEE-754 fields.       *)
(* Booleans are 0 and 1, enum members their codes, as in Python; an IP or   *)
(* MAC address is the number that the code formats.  Text is a sequence of  *)
(* characters of which Ascii are plain; 0 is the padding.                   *)
(***************************************************************************)
EXTENDS Integers, Sequences, SequencesExt, FiniteSetsExt

CONSTANTS
  WordBits,  \* bits in a register; a character takes half of them
  Digits,    \* decimals that the formatting of a scale can show
  None,      \* no value, no validator, no scale register
  Invalid    \* the ValueError, OverflowError or AttributeError of a bad write

ASSUME FieldsAssumption == WordBits \in Nat /\ WordBits % 2 = 0 /\ WordBits > 0 /\ Digits \in Nat

Places == Digits + 2
Unit == 10 ^ Places

-----------------------------------------------------------------------------
\* Words and integers.
InOrder(words, order) == IF order = "big" THEN words ELSE Reverse(words)

CombineWords(words, order) ==
  FoldLeft(LAMBDA raw, word : raw * 2 ^ WordBits + word, 0, InOrder(words, order))

Signed(raw, bits) == IF raw >= 2 ^ (bits - 1) THEN raw - 2 ^ bits ELSE raw

SplitWords(raw, count, order) ==
  InOrder([i \in 1 .. count |-> (raw \div 2 ^ (WordBits * (count - i))) % 2 ^ WordBits], order)

\* A value may be given signed or unsigned, whichever the field is.
EncodeInt(raw, count, order) ==
  LET bits == WordBits * count
  IN IF raw \notin -2 ^ (bits - 1) .. 2 ^ bits - 1 THEN Invalid
     ELSE SplitWords(raw % 2 ^ bits, count, order)

\* Text: what is not ASCII is dropped, what does not fit is cut off.
Char == 2 ^ (WordBits \div 2)
Ascii == 0 .. Char \div 2 - 1
Plain(text) == SelectSeq(text, LAMBDA ch : ch \in Ascii)
Stripped(text) ==
  LET used == {i \in DOMAIN text : text[i] # 0}
  IN IF used = {} THEN <<>> ELSE SubSeq(text, 1, Max(used))

DecodeString(words) ==
  Stripped(Plain([i \in 1 .. 2 * Len(words) |->
    LET word == words[(i + 1) \div 2] IN IF i % 2 = 1 THEN word \div Char ELSE word % Char]))

\* Mutant: the two characters of a word change places.
EncodeSwapped(text, length) ==
  LET kept == Plain(text)
      At(i) == IF i <= Len(kept) THEN kept[i] ELSE 0
  IN [i \in 1 .. length |-> At(2 * i) * Char + At(2 * i - 1)]

EncodeString(text, length) ==
  LET kept == Plain(text)
      At(i) == IF i <= Len(kept) THEN kept[i] ELSE 0
  IN [i \in 1 .. length |-> At(2 * i - 1) * Char + At(2 * i)]

-----------------------------------------------------------------------------
\* Scaling.  Division rounds to the nearest and ties to even, as round() does;
\* int() drops the fraction.
Divided(a, b) ==
  LET q == a \div b  r == a % b
  IN IF 2 * r < b \/ (2 * r = b /\ q % 2 = 0) THEN q ELSE q + 1
Rounded(x, decimals) == LET g == 10 ^ (Places - decimals) IN Divided(x, g) * g
Whole(x) == IF x >= 0 THEN x \div Unit ELSE -(-x \div Unit)

DecimalsOf(x) ==
  Min({d \in 0 .. Digits : Rounded(x, Digits) % 10 ^ (Places - d) = 0})
Precision(f, factor) == Max({DecimalsOf(factor), DecimalsOf(f.offset)})

\* The exponents whose power of ten is neither infinite nor zero.
Usable == -(Digits + 1) .. Digits + 1

\* The scale, times the power of ten that the scale register asks for.
Factor(f, exponent) ==
  IF exponent = None THEN IF f.scaleAt = None THEN f.scale ELSE Invalid
  ELSE IF exponent \notin f.exponents \cap Usable THEN Invalid
  ELSE IF exponent >= 0 THEN f.scale * 10 ^ exponent
  ELSE f.scale \div 10 ^ (-exponent)

Unscaled(f, factor) == factor = Unit /\ f.offset = 0

Scaled(f, raw, exponent) ==
  LET factor == Factor(f, exponent)
      x == raw * factor + f.offset
      decimals == Precision(f, factor)
  IN IF factor = Invalid THEN None
     ELSE IF Unscaled(f, factor) THEN raw * Unit
     ELSE IF decimals = 0 THEN Whole(x) * Unit ELSE Rounded(x, decimals)

\* Mutant: the quotient is cut off, not rounded.
UnscaleCut(f, value, factor) ==
  IF Unscaled(f, factor) THEN Whole(value) ELSE (value - f.offset) \div factor

\* The raw number nearest to a value, which is first snapped to the precision; an
\* unscaled field drops the fraction instead.
Unscale(f, value, factor) ==
  IF Unscaled(f, factor) THEN Whole(value)
  ELSE Divided(Rounded(value, Precision(f, factor)) - f.offset, factor)

-----------------------------------------------------------------------------
\* Decoding and encoding by kind of field.
RawNumber(f, words) ==
  LET raw == CombineWords(words, f.order)
  IN IF f.signed THEN Signed(raw, WordBits * Len(words)) ELSE raw

\* A code without a meaning reads as None.
Converted(f, raw) == IF raw \in f.codes THEN raw * Unit ELSE None

\* A sentinel is compared before the sign is looked at, and a converted value is
\* never scaled.
DecodeNumber(f, words, exponent) ==
  LET raw == RawNumber(f, words)
  IN IF CombineWords(words, f.order) \in f.nan THEN None
     ELSE IF f.codes = None THEN Scaled(f, raw, exponent) ELSE Converted(f, raw)

Run(f, word) == (word \div 2 ^ f.start) % 2 ^ f.width

Decode(f, words, exponent) ==
  CASE f.kind = "number" -> DecodeNumber(f, words, exponent)
    [] f.kind = "raw" -> CombineWords(words, f.order) * Unit
    [] f.kind = "string" -> DecodeString(words)
    [] f.kind \in {"bits", "bit"} -> Run(f, words[1]) * Unit
    [] f.kind \in {"coil", "discrete"} -> words[1] * Unit

EncodeNumber(f, value, exponent) ==
  LET factor == Factor(f, exponent)
  IN IF factor = Invalid THEN Invalid
     ELSE EncodeInt(Unscale(f, value, factor), f.count, f.order)

EncodeBit(value) == <<IF value = 0 THEN 0 ELSE 1>>

Encode(f, value, exponent) ==
  CASE f.kind = "number" -> EncodeNumber(f, value, exponent)
    [] f.kind = "raw" -> EncodeInt(Whole(value), f.count, f.order)
    [] f.kind = "string" -> EncodeString(value, f.count)
    [] f.kind = "coil" -> EncodeBit(value)

\* Mutant: the bits of the register's other fields are written as 0.
MergeAlone(f, word, value) ==
  IF Whole(value) \notin 0 .. 2 ^ f.width - 1 THEN Invalid ELSE Whole(value) * 2 ^ f.start

\* A word with the field's bits replaced; a value too wide for them is refused.
Merge(f, word, value) ==
  LET raw == IF f.kind = "bit" THEN IF value = 0 THEN 0 ELSE 1 ELSE Whole(value)
  IN IF raw \notin 0 .. 2 ^ f.width - 1 THEN Invalid
     ELSE word + (raw - Run(f, word)) * 2 ^ f.start

-----------------------------------------------------------------------------
\* The helpers that make fields.  An option a caller gives is an EXCEPT on these.
Field == [kind |-> "number", space |-> "holding", at |-> 0, count |-> 1,
          writable |-> FALSE, validator |-> None, signed |-> TRUE, nan |-> {},
          codes |-> None, order |-> "big", scale |-> Unit, offset |-> 0,
          scaleAt |-> None, exponents |-> Usable, start |-> 0, width |-> WordBits]

Integer(at) == [Field EXCEPT !.at = at]
Gauge(at, scale) == [Integer(at) EXCEPT !.scale = scale]
Unsigned(at, count) == [Integer(at) EXCEPT !.count = count, !.signed = FALSE]
RawRegister(at) == [Integer(at) EXCEPT !.kind = "raw"]
Uint32(at) == Unsigned(at, 2)
Int32(at) == [Uint32(at) EXCEPT !.signed = TRUE]
Uint64(at) == Unsigned(at, 4)
Int64(at) == [Uint64(at) EXCEPT !.signed = TRUE]
Text(at, length) == [Integer(at) EXCEPT !.kind = "string", !.count = length]
Enum(at, codes) == [Unsigned(at, 1) EXCEPT !.codes = codes]
Flags(at) == [Unsigned(at, 1) EXCEPT !.codes = 0 .. 2 ^ WordBits - 1]
Boolean(at) == Enum(at, {0, 1})
Bits(at, start, width) == [Integer(at) EXCEPT !.kind = "bits", !.start = start, !.width = width]
Bit(at, index) == [Bits(at, index, 1) EXCEPT !.kind = "bit"]
Coil(at) == [Integer(at) EXCEPT !.kind = "coil", !.space = "coil"]
DiscreteInput(at) == [Integer(at) EXCEPT !.kind = "discrete", !.space = "discrete"]
IPv4(at) == Unsigned(at, 2)
Eui48(at) == Unsigned(at, 3)
IPv6(at) == Unsigned(at, 8)

-----------------------------------------------------------------------------
\* SunSpec's points: each type's "unimplemented" pattern, and exponents within what
\* the standard allows.
TopBit(count) == 2 ^ (WordBits * count - 1)
AllOnes(count) == 2 ^ (WordBits * count) - 1
Sunssf == -Digits .. Digits

Point(at, count, signed) ==
  [Unsigned(at, count) EXCEPT
     !.signed = signed, !.exponents = Sunssf,
     !.nan = {IF signed THEN TopBit(count) ELSE AllOnes(count)}]

SunInt16(at) == Point(at, 1, TRUE)
SunUint16(at) == Point(at, 1, FALSE)
SunInt32(at) == Point(at, 2, TRUE)
SunUint32(at) == Point(at, 2, FALSE)
SunInt64(at) == Point(at, 4, TRUE)
SunUint64(at) == Point(at, 4, FALSE)
Acc(at, count) == [Point(at, count, FALSE) EXCEPT !.nan = {0}]
ScaleFactor(at) == [Integer(at) EXCEPT !.nan = {TopBit(1)}]
SunBoolean(at) == [Boolean(at) EXCEPT !.nan = {AllOnes(1)}]
SunEnum(at, count, codes) ==
  [Unsigned(at, count) EXCEPT !.codes = codes, !.nan = {AllOnes(count)}]
SunBitfield(at, count) == SunEnum(at, count, None)
=============================================================================
