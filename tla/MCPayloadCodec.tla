---------------------------- MODULE MCPayloadCodec -----------------------------
(* Values and keys at the ends of every width, with bytes of two values.    *)
EXTENDS PayloadCodec

Bytes == {<<>>, <<0>>, <<1>>, <<0, 1>>, <<1, 0>>, <<1, 1, 0>>}

\* In eight digits of base 2, the ends of each width, and the neighbours of 0.
Ints   == {-128, -127, -64, -63, -1, 0, 1, 3, 4, 63, 64, 127}
Floats == {0, 1, 127, 128, 129, 255}

Values ==
  {<<INTEGER, i>> : i \in Ints} \cup {<<FLOAT, f>> : f \in Floats}
    \cup {<<t, b>> : t \in {TEXT, BLOB}, b \in Bytes} \cup {Nothing}

Pieces == {<<INTEGER, 0>>, <<TEXT, <<>>>>, <<BLOB, <<1>>>>}
Keys   == {<<v>> : v \in Values} \cup {<<v, w>> : v \in Pieces, w \in Pieces}

Stamps == {<<v, s>> : v \in {0, 7, 8, 15}, s \in {0, 1, 3}}

\* Each key, each value and each stamp at least once.
MCChanges ==
  LET row(k, v, s) == [key |-> k, val |-> v, ver |-> s[1], seq |-> s[2]]
      k1 == <<<<INTEGER, 1>>>>
      v1 == <<TEXT, <<1, 1>>>>
  IN  {row(k, v1, <<1, 0>>) : k \in Keys} \cup {row(k1, v, <<1, 1>>) : v \in Values}
        \cup {row(k1, v1, s) : s \in Stamps}

\* Changes are as the theorems of PayloadCodecProofs take them to be.
ASSUME ChangesAssumption == ChangesTyped /\ KeysTyped /\ StringsSized
=============================================================================
