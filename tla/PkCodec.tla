-------------------------------- MODULE PkCodec --------------------------------
(***************************************************************************)
(* The encoding of values in primary keys and payloads (src/src/pk.c), and *)
(* the order of values that decides conflicts (dbutils_value_compare).     *)
(*                                                                         *)
(* The code's byte has 256 values and its integers 8 bytes; the shape of   *)
(* the encoding does not depend on how many values a digit has, so that    *)
(* with Radix = 2 every number of 8 digits can be tried.  The leading byte *)
(* of a value packs a type in 3 bits and a digit count in 5 in any case.   *)
(***************************************************************************)
EXTENDS Integers, Sequences, SequencesExt

CONSTANTS
  Radix,  \* values of a byte of data: 256 in the code
  Wide    \* bytes of an integer: 8 in the code

ASSUME WidthAssumption == Radix \in Nat \ {0, 1} /\ Radix % 2 = 0 /\ Wide \in 1..31

\* SQLite's types, and those that pk.c adds for negative numbers.
INTEGER == 1  FLOAT == 2  TEXT == 3  BLOB == 4  NULL == 5
NegInt  == 0  MinInt == 6  NegFloat == 7

\* Radix to the n, for as many digits as an integer has.
Power[n \in 0..Wide] == IF n = 0 THEN 1 ELSE Radix * Power[n - 1]

Word == Power[Wide]
Half == Word \div 2

\* A value is <<type, datum>>: an integer, the bit pattern of a double, or the
\* bytes of a text or blob.
Nothing == <<NULL, <<>>>>

\* The values SQLite has: integers and doubles of one width, byte strings, NULL.
Value ==
  ({INTEGER} \X (-Half .. Half - 1)) \cup ({FLOAT} \X (0 .. Word - 1))
    \cup ({TEXT, BLOB} \X Seq(0 .. Radix - 1)) \cup {Nothing}

\* Two's complement.
Wrap(i) == ((i + Half) % Word) - Half

\* A double's pattern is its magnitude, plus Half for the sign.
Zero(f)     == f \in {0, Half}
Negative(f) == f > Half
Negated(f)  == (f + Half) % Word
AsNumber(f) == IF f < Half THEN f ELSE Half - f

(***************************************************************************)
(* Encoding.                                                               *)
(***************************************************************************)
\* pk_encode_nbytes_needed: the top bit of the first byte stays clear.
NBytes(i) ==
  LET fits(n) == 2 * i < Power[n]
  IN  IF \E n \in 1..(Wide - 1) : fits(n)
      THEN CHOOSE n \in 1..(Wide - 1) : fits(n) /\ \A k \in 1..(n - 1) : ~fits(k)
      ELSE Wide

\* pk_encode_int64: the lowest n bytes, the most significant first.
Digits(i, n) == [k \in 1..n |-> (i \div Power[n - k]) % Radix]

TypeByte(type, n) == 8 * n + type

BrokenEncodeInt(i) ==
  LET a == Wrap(IF i < 0 THEN -i ELSE i)
      n == NBytes(a)
  IN  <<TypeByte(IF i < 0 THEN NegInt ELSE INTEGER, n)>> \o Digits(a, n)
EncodeInt(i) ==
  LET a == IF i < 0 THEN -i ELSE i
      n == NBytes(a)
  IN  IF i = -Half THEN <<TypeByte(MinInt, 0)>>
      ELSE <<TypeByte(IF i < 0 THEN NegInt ELSE INTEGER, n)>> \o Digits(a, n)

EncodeFloat(f) ==
  IF Negative(f) THEN <<TypeByte(NegFloat, 0)>> \o Digits(Negated(f), Wide)
  ELSE <<TypeByte(FLOAT, 0)>> \o Digits(f, Wide)

EncodeData(type, data) ==
  LET n == NBytes(Len(data))
  IN  <<TypeByte(type, n)>> \o Digits(Len(data), n) \o data

EncodeValue(v) ==
  CASE v[1] = INTEGER        -> EncodeInt(v[2])
    [] v[1] = FLOAT          -> EncodeFloat(v[2])
    [] v[1] \in {TEXT, BLOB} -> EncodeData(v[1], v[2])
    [] OTHER                 -> <<TypeByte(NULL, 0)>>

\* pk_encode: a payload's row is its values, a primary key counts them too, in a byte.
Encode(row)   == FlattenSeq([k \in DOMAIN row |-> EncodeValue(row[k])])
PkEncode(key) == <<Len(key) % 256>> \o Encode(key)

SizeOf(v) ==
  CASE v[1] = INTEGER /\ v[2] # -Half -> 1 + NBytes(IF v[2] < 0 THEN -v[2] ELSE v[2])
    [] v[1] = FLOAT                   -> 1 + Wide
    [] v[1] \in {TEXT, BLOB}          -> 1 + Len(v[2]) + NBytes(Len(v[2]))
    [] OTHER                          -> 1

\* pk_encode_size: what is allocated before anything is encoded.
EncodeSize(row, reserved) ==
  reserved + FoldSeq(LAMBDA v, n : n + SizeOf(v), 0, row)

(***************************************************************************)
(* Decoding.                                                               *)
(***************************************************************************)
\* pk_decode_int64: n bytes from offset seek, an int64 in the end.
Number(b, seek, n) ==
  LET upto[k \in 0..n] == IF k = 0 THEN 0 ELSE upto[k - 1] * Radix + b[seek + k]
  IN  Wrap(upto[n])

\* The value at offset seek, and the offset behind it.
DecodeValue(b, seek) ==
  LET type == b[seek + 1] % 8
      n    == b[seek + 1] \div 8
      i    == Number(b, seek + 1, n)
      f    == Number(b, seek + 1, Wide) % Word
      data == seek + 1 + n
  IN  CASE type = MinInt   -> [v |-> <<INTEGER, -Half>>, seek |-> seek + 1]
        [] type = INTEGER  -> [v |-> <<INTEGER, i>>, seek |-> data]
        [] type = NegInt   -> [v |-> <<INTEGER, Wrap(-i)>>, seek |-> data]
        [] type = FLOAT    -> [v |-> <<FLOAT, f>>, seek |-> seek + 1 + Wide]
        [] type = NegFloat -> [v |-> <<FLOAT, Negated(f)>>, seek |-> seek + 1 + Wide]
        [] type = NULL     -> [v |-> Nothing, seek |-> seek + 1]
        [] OTHER           -> [v |-> <<type, SubSeq(b, data + 1, data + i)>>, seek |-> data + i]

\* pk_decode: count values from offset seek.
Decode(b, count, seek) ==
  LET upto[k \in 0..count] ==
        IF k = 0 THEN [row |-> <<>>, seek |-> seek]
        ELSE LET d == DecodeValue(b, upto[k - 1].seek)
             IN  [row |-> Append(upto[k - 1].row, d.v), seek |-> d.seek]
  IN  upto[count]

\* pk_decode_prikey
PkDecode(b) == Decode(b, b[1], 1).row

(***************************************************************************)
(* The order of values: as a number of which only the sign counts.         *)
(***************************************************************************)
CompareNumbers(i, j) == IF i < j THEN -1 ELSE IF i > j THEN 1 ELSE 0

\* memcmp of as many bytes as both have, then the lengths.
CompareBlobs(a, b) ==
  LET differ == {k \in DOMAIN a \cap DOMAIN b : a[k] # b[k]}
      first  == CHOOSE k \in differ : \A l \in differ : k <= l
  IN  IF differ = {} THEN Len(a) - Len(b) ELSE a[first] - b[first]

\* A C string ends at its first zero.
CString(s) ==
  LET zeros == {k \in DOMAIN s : s[k] = 0}
  IN  IF zeros = {} THEN s ELSE SubSeq(s, 1, (CHOOSE k \in zeros : \A l \in zeros : k <= l) - 1)

BrokenCompare(v, w) ==
  IF v[1] # w[1] THEN w[1] - v[1]
  ELSE CASE v[1] = INTEGER -> CompareNumbers(v[2], w[2])
         [] v[1] = FLOAT   -> CompareNumbers(AsNumber(v[2]), AsNumber(w[2]))
         [] v[1] = TEXT    -> CompareBlobs(CString(v[2]), CString(w[2]))
         [] v[1] = BLOB    -> Len(v[2]) - Len(w[2])
         [] OTHER          -> 0
\* dbutils_value_compare; NULL has the greatest type code, and is the least.
Compare(v, w) ==
  IF v[1] # w[1] THEN w[1] - v[1]
  ELSE CASE v[1] = INTEGER -> CompareNumbers(v[2], w[2])
         [] v[1] = FLOAT   -> CompareNumbers(AsNumber(v[2]), AsNumber(w[2]))
         [] v[1] = TEXT    -> CompareBlobs(CString(v[2]), CString(w[2]))
         [] v[1] = BLOB    -> CompareBlobs(v[2], w[2])
         [] OTHER          -> 0

\* What it does not tell apart.
Same(v, w) ==
  \/ v = w
  \/ v[1] = TEXT /\ w[1] = TEXT /\ CString(v[2]) = CString(w[2])
  \/ v[1] = FLOAT /\ w[1] = FLOAT /\ Zero(v[2]) /\ Zero(w[2])
=============================================================================
