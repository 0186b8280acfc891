-------------------------- MODULE PayloadCodecProofs ---------------------------
(* What holds of RowId and PayloadCodec for every width and all changes: the   *)
(* order decides, rowids keep changes apart, the buffer of a payload is always *)
(* large enough, keys can be read back from their encoding, and a receiver     *)
(* takes out of a payload the rows that were put in.                           *)
EXTENDS PayloadCodec, PkCodecProofs, TLAPS

-----------------------------------------------------------------------------
(* Rowids.                                                                   *)

\* cloudsync_rowid_decode gives back the db_version and seq a rowid was made of, within the
\* limits docs/RowID.md:22-26 states, on both sides of the change of sign.
THEOREM RowidInverts ==
  ASSUME NEW ver \in 0..(DbSpan - 1), NEW seq \in 0..(SeqSpan - 1)
  PROVE  RowidDecode(Rowid(ver, seq)) = [ver |-> ver, seq |-> seq]
<1> DEFINE u == ver * SeqSpan + seq
<1>1. u \in Nat /\ u < Unsigned /\ Unsigned \in Nat
  BY SpanAssumption, SMT DEF Unsigned
<1>2. u \div SeqSpan = ver /\ u % SeqSpan = seq
  BY SpanAssumption, SMT
<1>3. (IF Rowid(ver, seq) < 0 THEN Rowid(ver, seq) + Unsigned ELSE Rowid(ver, seq)) = u
  BY <1>1, SMT DEF Rowid
<1> QED
  BY <1>2, <1>3 DEF RowidDecode

\* So two changes within these limits that differ in db_version or seq have different rowids.
THEOREM RowidUnique ==
  ASSUME NEW ver \in 0..(DbSpan - 1), NEW seq \in 0..(SeqSpan - 1),
         NEW v \in 0..(DbSpan - 1), NEW s \in 0..(SeqSpan - 1),
         Rowid(ver, seq) = Rowid(v, s)
  PROVE  ver = v /\ seq = s
<1>1. [ver |-> ver, seq |-> seq] = [ver |-> v, seq |-> s]
  BY RowidInverts
<1> QED
  BY <1>1

-----------------------------------------------------------------------------
(* What the runs check of the order and of the rowids.                       *)

\* The rows given to the aggregate are rows of cloudsync_changes.
Given == changes \in Seq(Changes)

\* They are at all times.
LEMMA ChangesGiven == Spec => []Given
<1>1. Init => Given
  BY DEF Init, Given
<1>2. Given /\ [Next]_vars => Given'
  <2> SUFFICES ASSUME changes \in Seq(Changes), [Next]_vars PROVE changes' \in Seq(Changes)
    BY DEF Given
  <2>1. ASSUME NEW ch \in Changes, EncodeStep(ch) PROVE changes' \in Seq(Changes)
    BY <2>1 DEF EncodeStep
  <2>2. CASE EncodeFinal \/ ApplyHeader \/ ApplyRow \/ UNCHANGED vars
    BY <2>2 DEF EncodeFinal, ApplyHeader, ApplyRow, vars
  <2> QED BY <2>1, <2>2 DEF Next
<1> QED BY <1>1, <1>2, PTL DEF Spec

\* dbutils_value_compare is a total order, up to what it cannot tell apart: sites that
\* compare two concurrent values agree on the winner, and so on that of any number of
\* them, whatever the order in which they meet.
THEOREM OrderDecides ==
  ASSUME ChangesTyped
  PROVE  Spec => []ValuesOrdered
<1>1. Given => ValuesOrdered
  <2> SUFFICES ASSUME changes \in Seq(Changes), NEW i \in DOMAIN changes, NEW j \in DOMAIN changes
               PROVE  LET v == changes[i].val w == changes[j].val
                      IN  /\ Compare(v, w) > 0 <=> Compare(w, v) < 0
                          /\ Compare(v, w) = 0 <=> Same(v, w)
                          /\ \A u \in Vals :
                               Compare(u, v) <= 0 /\ Compare(v, w) <= 0 => Compare(u, w) <= 0
    BY DEF ValuesOrdered, Given
  <2>1. \A k \in DOMAIN changes : changes[k] \in Changes
    OBVIOUS
  <2>2. /\ changes[i].val \in Value /\ changes[j].val \in Value
        /\ \A u \in Vals : u \in Value
    BY <2>1 DEF Vals, ChangesTyped
  <2> DEFINE v == changes[i].val
             w == changes[j].val
  <2>3. /\ Compare(v, w) \in Int /\ Compare(w, v) = 0 - Compare(v, w)
        /\ Compare(v, w) = 0 <=> Same(v, w)
    BY <2>2, CompareMirrored
  <2>4. \A u \in Vals : Compare(u, v) <= 0 /\ Compare(v, w) <= 0 => Compare(u, w) <= 0
    BY <2>2, ValuesTransitive
  <2>5. Compare(v, w) > 0 <=> Compare(w, v) < 0
    BY <2>3
  <2> QED BY <2>3, <2>4, <2>5
<1> QED BY <1>1, ChangesGiven, PTL

\* Below 2^34 and 2^30 no two changes of cloudsync_changes have the same rowid, and each
\* rowid gives its db_version and seq back.
THEOREM RowidsDiffer ==
  ASSUME ChangesTyped
  PROVE  Spec => []RowidsTellApart
<1>1. Given => RowidsTellApart
  <2> SUFFICES ASSUME changes \in Seq(Changes), NEW i \in DOMAIN changes, NEW j \in DOMAIN changes
               PROVE  LET c == changes[i] d == changes[j]
                      IN  /\ RowidDecode(Rowid(c.ver, c.seq)) = [ver |-> c.ver, seq |-> c.seq]
                          /\ Rowid(c.ver, c.seq) = Rowid(d.ver, d.seq) => c.ver = d.ver /\ c.seq = d.seq
    BY DEF RowidsTellApart, Given
  <2>1. changes[i] \in Changes /\ changes[j] \in Changes
    OBVIOUS
  <2>2. /\ changes[i].ver \in 0 .. (DbSpan - 1) /\ changes[i].seq \in 0 .. (SeqSpan - 1)
        /\ changes[j].ver \in 0 .. (DbSpan - 1) /\ changes[j].seq \in 0 .. (SeqSpan - 1)
    BY <2>1 DEF ChangesTyped
  <2> QED BY <2>2, RowidInverts, RowidUnique
<1> QED BY <1>1, ChangesGiven, PTL

-----------------------------------------------------------------------------
(* The buffer.                                                               *)

\* The first row of the buffer leaves room for the header.
RoomForHeader == EncodeSize(RowOf(changes[lost + 1]), 0) <= MinBuf - HeaderSize

\* A cloudsync_network_payload.
Payload == [buf : Seq(Nat), bused : Nat, balloc : Nat, nrows : Nat, ncols : Nat]

\* The inductive invariant: the buffer holds the header and the rows after the lost ones,
\* or there is none, before the first row and when the rows were lost.
BufInv ==
  /\ changes \in Seq(Changes) /\ lost \in 0..Len(changes) /\ payload \in Payload
  /\ payload.nrows = 0 =>
       /\ payload.bused = 0 /\ payload.balloc = 0 /\ payload.buf = <<>>
       /\ blob = NoBlob => lost = Len(changes)
  /\ payload.nrows > 0 =>
       /\ lost < Len(changes)
       /\ payload.bused = HeaderSize + Len(payload.buf)
       /\ RoomForHeader => payload.bused <= payload.balloc

\* A primary key is encoded as numbers.
LEMMA KeyEncoded ==
  ASSUME KeysTyped, NEW ch \in Changes
  PROVE  PkEncode(ch.key) \in Seq(Nat)
<1>1. ch.key \in Seq(Value) /\ Len(ch.key) \in Nat
  BY DEF KeysTyped
<1>2. \A v \in Value : EncodeValue(v) \in Seq(Nat)
  BY ValueStored, DatumEncoded
<1>3. Encode(ch.key) \in Seq(Nat)
  BY <1>1, <1>2, RowEncodedType
<1>4. <<Len(ch.key) % 256>> \in Seq(Nat)
  <2>1. \A x \in Nat : <<x>> \in Seq(Nat) /\ x % 256 \in Nat
    OBVIOUS
  <2> QED BY <1>1, <2>1
<1> QED BY <1>3, <1>4, ConcatProperties DEF PkEncode

\* A row is encoded with as many bytes as were announced.
LEMMA RowAnnounced ==
  ASSUME ChangesTyped, KeysTyped, NEW ch \in Changes
  PROVE  /\ Encode(RowOf(ch)) \in Seq(Nat)
         /\ Len(Encode(RowOf(ch))) = EncodeSize(RowOf(ch), 0)
         /\ EncodeSize(RowOf(ch), 0) \in Nat \ {0}
<1> DEFINE row == RowOf(ch)
<1>1. row \in [1..4 -> Datum]
  <2>1. <<BLOB, PkEncode(ch.key)>> \in Datum
    BY KeyEncoded DEF Datum
  <2>2. ch.val \in Datum
    BY ValueStored DEF ChangesTyped
  <2>3. <<INTEGER, ch.ver>> \in Datum /\ <<INTEGER, ch.seq>> \in Datum
    <3>1. ch.ver \in Int /\ ch.seq \in Int
      BY SpanAssumption DEF ChangesTyped
    <3> QED BY <3>1 DEF Datum
  <2> QED BY <2>1, <2>2, <2>3 DEF RowOf
<1> HIDE DEF row
<1>2. Len(Encode(row)) = EncodeSize(row, 0) /\ EncodeSize(row, 0) \in Nat \ {0}
  BY <1>1, SizeAnnounced DEF Bytes
<1>3. Encode(row) \in Seq(Nat)
  <2>1. row \in Seq(Datum)
    BY <1>1, FunctionLen
  <2> QED BY <2>1, DatumEncoded, RowEncodedType
<1> QED BY <1>2, <1>3 DEF row

\* The fields after cloudsync_buffer_check.
LEMMA GrownFields ==
  ASSUME payload \in Payload, NEW need \in Nat
  PROVE  /\ Grown(need) \in Payload
         /\ Grown(need).balloc = payload.balloc + (IF need < MinBuf THEN MinBuf ELSE need)
         /\ Grown(need).bused = IF payload.nrows = 0 THEN HeaderSize ELSE payload.bused
         /\ Grown(need).buf = payload.buf /\ Grown(need).nrows = payload.nrows
         /\ Grown(need).ncols = payload.ncols
<1>1. HeaderSize \in Nat /\ MinBuf \in Nat
  BY SizesAssumption
<1> DEFINE x == payload.balloc + (IF need < MinBuf THEN MinBuf ELSE need)
           y == IF payload.nrows = 0 THEN HeaderSize ELSE payload.bused
<1>2. x \in Nat /\ y \in Nat
  BY <1>1 DEF Payload
<1>3. Grown(need) = [payload EXCEPT !.balloc = x, !.bused = y]
  BY DEF Grown, Payload
<1> HIDE DEF x, y
<1>4. /\ Grown(need) \in Payload /\ Grown(need).balloc = x /\ Grown(need).bused = y
      /\ Grown(need).buf = payload.buf /\ Grown(need).nrows = payload.nrows
      /\ Grown(need).ncols = payload.ncols
  BY <1>2, <1>3 DEF Payload
<1> QED BY <1>4 DEF x, y

\* The buffer q is pl with a row written behind.
Extends(q, pl, row, need) ==
  /\ q \in Payload /\ q.buf = pl.buf \o Encode(row) /\ q.bused = pl.bused + need
  /\ q.nrows = pl.nrows + 1 /\ q.balloc = pl.balloc
  /\ q.ncols = IF pl.nrows = 0 THEN Len(row) ELSE pl.ncols

\* And after a row was written.
LEMMA AddedFields ==
  ASSUME NEW pl \in Payload, NEW need \in Nat, NEW row, Len(row) \in Nat, Encode(row) \in Seq(Nat)
  PROVE  Extends(Added(pl, row, need), pl, row, need)
<1> DEFINE b == pl.buf \o Encode(row)
           u == pl.bused + need
           n == pl.nrows + 1
           k == IF pl.nrows = 0 THEN Len(row) ELSE pl.ncols
<1>1. b \in Seq(Nat) /\ u \in Nat /\ n \in Nat /\ k \in Nat
  BY ConcatProperties DEF Payload
<1>2. Added(pl, row, need) = [pl EXCEPT !.buf = b, !.bused = u, !.nrows = n, !.ncols = k]
  BY DEF Added, Payload
<1> HIDE DEF b, u, n, k
<1>3. /\ Added(pl, row, need) \in Payload /\ Added(pl, row, need).buf = b
      /\ Added(pl, row, need).bused = u /\ Added(pl, row, need).nrows = n
      /\ Added(pl, row, need).balloc = pl.balloc /\ Added(pl, row, need).ncols = k
  BY <1>1, <1>2 DEF Payload
<1> QED BY <1>3 DEF b, u, n, k, Extends

\* A row is added: the buffer has its bytes or is grown by as many, and the first growth
\* leaves room for the header.
LEMMA AddedFits ==
  ASSUME ChangesTyped, KeysTyped, BufInv, blob = NoBlob, NEW ch \in Changes,
         NEW need, need = EncodeSize(RowOf(ch), 0),
         NEW old, old = (IF payload.bused + need > payload.balloc THEN Grown(need) ELSE payload),
         changes' = Append(changes, ch), lost' = lost, blob' = blob,
         payload' = Added(old, RowOf(ch), need)
  PROVE  BufInv'
<1> DEFINE row == RowOf(ch)
           more == IF need < MinBuf THEN MinBuf ELSE need
<1>1. /\ Encode(row) \in Seq(Nat) /\ need \in Nat /\ need > 0 /\ Len(Encode(row)) = need
      /\ HeaderSize \in Nat /\ MinBuf \in Nat
  BY SizesAssumption, RowAnnounced
<1>2. Len(row) \in Nat
  BY DEF RowOf
<1>3. /\ changes' \in Seq(Changes) /\ Len(changes') = Len(changes) + 1
      /\ \A i \in 1..Len(changes) : changes'[i] = changes[i]
      /\ changes'[Len(changes) + 1] = ch
  BY DEF BufInv
<1>4. /\ payload.bused \in Nat /\ payload.balloc \in Nat /\ payload.nrows \in Nat
      /\ payload.buf \in Seq(Nat) /\ payload \in Payload
  BY DEF BufInv, Payload
<1>5. /\ old \in Payload /\ old.buf = payload.buf /\ old.nrows = payload.nrows
      /\ old.bused = (IF payload.nrows = 0 THEN HeaderSize ELSE payload.bused)
      /\ \/ old.balloc = payload.balloc + more
         \/ payload.nrows > 0 /\ old.balloc = payload.balloc /\ payload.bused + need <= payload.balloc
  <2>1. CASE payload.bused + need > payload.balloc
    <3>1. old = Grown(need)
      BY <2>1
    <3> QED BY <1>1, <1>4, <3>1, GrownFields
  <2>2. CASE ~(payload.bused + need > payload.balloc)
    <3>1. old = payload
      BY <2>2
    <3>2. payload.nrows # 0
      BY <1>1, <2>2 DEF BufInv
    <3>3. payload.nrows > 0 /\ payload.bused + need <= payload.balloc
      BY <1>1, <1>4, <2>2, <3>2
    <3> QED BY <1>4, <3>1, <3>2, <3>3
  <2> QED BY <2>1, <2>2
<1>6. /\ payload' \in Payload /\ payload'.buf = payload.buf \o Encode(row)
      /\ payload'.bused = old.bused + need /\ payload'.nrows = payload.nrows + 1
      /\ payload'.balloc = old.balloc
  <2>1. old \in Payload /\ need \in Nat /\ Len(row) \in Nat /\ Encode(row) \in Seq(Nat)
    BY <1>1, <1>2, <1>5
  <2>2. payload' = Added(old, row, need)
    OBVIOUS
  <2> HIDE DEF row
  <2>3. Extends(Added(old, row, need), old, row, need)
    BY <2>1, AddedFields
  <2> QED BY <1>5, <2>2, <2>3 DEF Extends
<1> HIDE DEF row
<1>7. Len(payload'.buf) = Len(payload.buf) + need /\ Len(payload.buf) \in Nat
  <2>1. Len(payload.buf \o Encode(row)) = Len(payload.buf) + Len(Encode(row))
    BY <1>1, <1>4, ConcatProperties
  <2>2. Len(payload.buf) \in Nat
    BY <1>4
  <2> QED BY <1>1, <1>6, <2>1, <2>2
<1>8. lost' \in 0..Len(changes') /\ lost' < Len(changes') /\ lost \in Nat /\ Len(changes) \in Nat
  BY <1>3 DEF BufInv
<1>9. payload'.bused = HeaderSize + Len(payload'.buf)
  <2>1. CASE payload.nrows = 0
    <3>1. payload.buf = <<>> /\ Len(payload.buf) = 0
      BY <2>1 DEF BufInv
    <3>2. old.bused = HeaderSize /\ Len(payload'.buf) = need
      BY <1>1, <1>5, <1>7, <2>1, <3>1
    <3> QED BY <1>6, <3>2
  <2>2. CASE payload.nrows > 0
    <3>1. payload.bused = HeaderSize + Len(payload.buf)
      BY <2>2 DEF BufInv
    <3>2. old.bused = payload.bused
      BY <1>4, <1>5, <2>2
    <3>3. \A l \in Nat : (HeaderSize + l) + need = HeaderSize + (l + need)
      BY <1>1
    <3> QED BY <1>6, <1>7, <3>1, <3>2, <3>3
  <2> QED BY <1>4, <2>1, <2>2
<1>10. ASSUME RoomForHeader' PROVE payload'.bused <= payload'.balloc
  <2>1. CASE payload.nrows = 0
    <3>1. payload.bused = 0 /\ payload.balloc = 0 /\ lost = Len(changes)
      BY <2>1 DEF BufInv
    <3>2. need <= MinBuf - HeaderSize
      BY <1>3, <1>10, <3>1 DEF RoomForHeader
    <3>3. old.bused = HeaderSize /\ old.balloc = payload.balloc + more
      BY <1>4, <1>5, <2>1
    <3>4. HeaderSize + need <= payload.balloc + more
      BY <1>1, <3>1, <3>2
    <3> QED BY <1>6, <3>3, <3>4
  <2>2. CASE payload.nrows > 0
    <3>1. lost + 1 \in 1..Len(changes)
      BY <1>8, <2>2 DEF BufInv
    <3>2. RoomForHeader
      BY <1>3, <1>10, <3>1 DEF RoomForHeader
    <3>3. payload.bused <= payload.balloc
      BY <2>2, <3>2 DEF BufInv
    <3>4. old.bused = payload.bused
      BY <1>4, <1>5, <2>2
    <3>5. payload.bused + need <= old.balloc
      <4>1. payload.bused + need <= payload.balloc + more
        BY <1>1, <1>4, <3>3
      <4> QED BY <1>5, <4>1
    <3> QED BY <1>6, <3>4, <3>5
  <2> QED BY <1>4, <2>1, <2>2
<1>11. payload'.nrows # 0 /\ payload'.nrows > 0
  BY <1>4, <1>6
<1> QED
  BY <1>3, <1>6, <1>8, <1>9, <1>10, <1>11 DEF BufInv

\* The invariant is one.
LEMMA BufInvariant ==
  ASSUME ChangesTyped, KeysTyped
  PROVE  Spec => []BufInv
<1>1. Init => BufInv
  <2>1. Empty \in Payload /\ Empty.nrows = 0 /\ Empty.bused = 0 /\ Empty.balloc = 0 /\ Empty.buf = <<>>
    BY DEF Empty, Payload
  <2> QED BY <2>1 DEF Init, BufInv
<1>2. ASSUME BufInv, [Next]_vars PROVE BufInv'
  <2>0. Empty \in Payload /\ Empty.nrows = 0 /\ Empty.bused = 0 /\ Empty.balloc = 0 /\ Empty.buf = <<>>
    BY DEF Empty, Payload
  <2>1. ASSUME NEW ch \in Changes, EncodeStep(ch) PROVE BufInv'
    <3> DEFINE need == EncodeSize(RowOf(ch), 0)
               old == IF payload.bused + need > payload.balloc THEN Grown(need) ELSE payload
    <3>1. CASE payload' = Added(old, RowOf(ch), need) /\ UNCHANGED lost
      <4>1. blob = NoBlob /\ changes' = Append(changes, ch) /\ lost' = lost /\ blob' = blob
        BY <2>1, <3>1 DEF EncodeStep
      <4> QED BY <1>2, <3>1, <4>1, AddedFits
    <3>2. CASE payload' = Empty /\ lost' = Len(changes')
      <4>1. changes' \in Seq(Changes) /\ Len(changes') \in Nat
        BY <1>2, <2>1 DEF BufInv, EncodeStep
      <4> QED BY <2>0, <3>2, <4>1 DEF BufInv
    <3> QED BY <2>1, <3>1, <3>2 DEF EncodeStep
  <2>2. CASE EncodeFinal
    <3>1. UNCHANGED <<changes, lost>> /\ payload' = Empty
      BY <2>2 DEF EncodeFinal
    <3>2. blob' # NoBlob
      <4>1. payload.nrows > 0 /\ payload.nrows # 0
        BY <2>2 DEF EncodeFinal
      <4>2. NoBlob.nrows = 0 /\ NoBlob.expanded = 0 /\ Failed.expanded = -1
        BY DEF NoBlob, Failed
      <4>3. blob' = Failed \/ blob'.nrows = payload.nrows
        BY <2>2 DEF EncodeFinal
      <4> QED BY <4>1, <4>2, <4>3
    <3> QED BY <1>2, <2>0, <3>1, <3>2 DEF BufInv
  <2>3. CASE ApplyHeader \/ ApplyRow \/ UNCHANGED vars
    <3>1. UNCHANGED <<changes, lost, payload, blob>>
      BY <2>3 DEF ApplyHeader, ApplyRow, vars
    <3> QED BY <1>2, <3>1 DEF BufInv, RoomForHeader
  <2> QED BY <1>2, <2>1, <2>2, <2>3 DEF Next
<1> QED BY <1>1, <1>2, PTL DEF Spec

\* The aggregate never writes beyond its buffer, in any number of rows of any size, with
\* memory running out at any of them, if the first row leaves room for the header: every
\* growth is at least what the next row takes.
THEOREM BufferSuffices ==
  ASSUME ChangesTyped, KeysTyped
  PROVE  Spec => []BufferFits
<1>1. BufInv => BufferFits
  BY DEF BufInv, BufferFits, RoomForHeader
<1> QED BY <1>1, BufInvariant, PTL

-----------------------------------------------------------------------------
(* Keys, read back.                                                          *)

\* Keys are values that pk_encode can say the size of.
LEMMA KeyStored ==
  ASSUME KeysTyped, StringsSized, NEW ch \in Changes
  PROVE  ch.key \in Seq(Storable)
<1>1. ch.key \in Seq(Value)
  BY DEF KeysTyped
<1>2. ch.key \in [1..Len(ch.key) -> Value] /\ Len(ch.key) \in Nat /\ DOMAIN ch.key = 1..Len(ch.key)
  BY <1>1, LenProperties
<1>3. \A k \in 1..Len(ch.key) : ch.key[k] \in Storable
  <2> SUFFICES ASSUME NEW k \in 1..Len(ch.key) PROVE ch.key[k] \in Storable
    OBVIOUS
  <2>1. ch.key[k] \in Value
    BY <1>2
  <2>2. Sized(ch.key[k])
    BY <1>2 DEF StringsSized
  <2> QED BY <2>1, <2>2, ValueStored DEF Sized
<1>4. ch.key \in [1..Len(ch.key) -> Storable]
  BY <1>2, <1>3
<1> QED BY <1>2, <1>4, FunctionLen

\* pk_decode_prikey gives back any primary key that pk_encode wrote, of as many values as
\* a table's key may have, at every width: the encoding that stands for a row at every site says which.
THEOREM KeysRead ==
  ASSUME KeysTyped, StringsSized
  PROVE  Spec => []KeysInvert
<1>1. Given => KeysInvert
  <2> SUFFICES ASSUME changes \in Seq(Changes), NEW i \in DOMAIN changes
               PROVE  PkDecode(PkEncode(changes[i].key)) = changes[i].key
    BY DEF KeysInvert, Given
  <2>1. changes[i] \in Changes
    OBVIOUS
  <2>2. changes[i].key \in Seq(Storable) /\ Len(changes[i].key) < 256
    <3>1. Len(changes[i].key) \in Nat /\ Len(changes[i].key) <= 128
      BY <2>1 DEF KeysTyped
    <3> QED BY <2>1, <3>1, KeyStored
  <2> QED BY <2>2, KeyInverts
<1> QED BY <1>1, ChangesGiven, PTL

-----------------------------------------------------------------------------
(* Rows, packed.                                                             *)

\* A row is four values that pk_encode can say the size of.
LEMMA RowStored ==
  ASSUME ChangesTyped, KeysTyped, StringsSized, NEW ch \in Changes
  PROVE  RowOf(ch) \in Seq(Storable) /\ Len(RowOf(ch)) = 4
<1>1. <<BLOB, PkEncode(ch.key)>> \in Storable
  <2>1. PkEncode(ch.key) \in Seq(Nat)
    BY KeyEncoded
  <2>2. Len(PkEncode(ch.key)) < Half
    BY DEF StringsSized, Sized
  <2> QED BY <2>1, <2>2 DEF Storable
<1>2. ch.val \in Storable
  <2>1. ch.val \in Value /\ Sized(ch.val)
    BY DEF ChangesTyped, StringsSized
  <2> QED BY <2>1, ValueStored DEF Sized
<1>3. <<INTEGER, ch.ver>> \in Storable /\ <<INTEGER, ch.seq>> \in Storable
  <2>1. ch.ver \in -Half .. Half - 1 /\ ch.seq \in -Half .. Half - 1
    <3>1. ch.ver \in 0 .. (DbSpan - 1) /\ ch.seq \in 0 .. (SeqSpan - 1)
      BY DEF ChangesTyped
    <3> QED BY <3>1, HalfType, SpanAssumption, StampsAssumption
  <2> QED BY <2>1 DEF Storable, INTEGER, TEXT, BLOB
<1>4. RowOf(ch) \in [1..4 -> Storable]
  BY <1>1, <1>2, <1>3 DEF RowOf
<1> QED BY <1>4, FunctionLen

\* The encodings of the rows g, and f[k], those of the first k behind one another.
EncodedRows(g) == [k \in DOMAIN g |-> Encode(RowOf(g[k]))]
Packs(f, g)    == Joins(f, EncodedRows(g))

\* They are byte strings.
LEMMA EncodedRowsType ==
  ASSUME ChangesTyped, KeysTyped, NEW g \in Seq(Changes)
  PROVE  /\ EncodedRows(g) \in Seq(Seq(Nat)) /\ Len(EncodedRows(g)) = Len(g) /\ Len(g) \in Nat
         /\ \A k \in 1..Len(g) : g[k] \in Changes /\ EncodedRows(g)[k] = Encode(RowOf(g[k]))
<1> DEFINE n == Len(g)
<1>1. n \in Nat /\ DOMAIN g = 1..n /\ \A k \in 1..n : g[k] \in Changes
  OBVIOUS
<1>2. \A k \in 1..n : Encode(RowOf(g[k])) \in Seq(Nat)
  BY <1>1, RowAnnounced
<1>3. EncodedRows(g) = [k \in 1..n |-> Encode(RowOf(g[k]))]
  BY <1>1 DEF EncodedRows
<1> HIDE DEF n
<1>4. EncodedRows(g) \in [1..n -> Seq(Nat)]
  BY <1>2, <1>3
<1>5. EncodedRows(g) \in Seq(Seq(Nat)) /\ Len(EncodedRows(g)) = n
  BY <1>1, <1>4, FunctionLen
<1> QED BY <1>1, <1>3, <1>5 DEF n

\* What packing rows does, with each row said by itself.
LEMMA PackSteps ==
  ASSUME ChangesTyped, KeysTyped, NEW g \in Seq(Changes), NEW f
  PROVE  Packs(f, g) <=> /\ f \in [0..Len(g) -> Seq(Nat)] /\ f[0] = <<>>
                         /\ \A k \in 1..Len(g) : f[k] = f[k - 1] \o Encode(RowOf(g[k]))
BY EncodedRowsType DEF Packs, Joins

\* Packed rows are byte strings.
LEMMA PackType ==
  ASSUME ChangesTyped, KeysTyped, NEW g \in Seq(Changes), NEW f, Packs(f, g)
  PROVE  /\ \A j \in 0..Len(g) : f[j] \in Seq(Nat) /\ Len(f[j]) \in Nat
         /\ f[0] = <<>> /\ f[Len(g)] \in Seq(Nat)
<1>1. f \in [0..Len(g) -> Seq(Nat)] /\ f[0] = <<>> /\ Len(g) \in Nat
  <2>1. f \in [0..Len(g) -> Seq(Nat)] /\ f[0] = <<>>
    BY PackSteps, Zenon
  <2> QED BY <2>1
<1>2. Len(g) \in 0..Len(g) /\ \A s \in Seq(Nat) : Len(s) \in Nat
  BY <1>1
<1> QED BY <1>1, <1>2

\* No rows are packed as nothing.
LEMMA PackNone ==
  ASSUME ChangesTyped, KeysTyped, NEW g \in Seq(Changes), Len(g) = 0
  PROVE  \E f : Packs(f, g) /\ f[Len(g)] = <<>>
<1> DEFINE f == [k \in 0..0 |-> <<>>]
<1>1. f \in [0..0 -> Seq(Nat)] /\ f[0] = <<>>
  OBVIOUS
<1> HIDE DEF f
<1>2. f \in [0..Len(g) -> Seq(Nat)] /\ \A k \in 1..Len(g) : f[k] = f[k - 1] \o Encode(RowOf(g[k]))
  <2>1. 0..Len(g) = 0..0 /\ \A k \in 1..Len(g) : FALSE
    OBVIOUS
  <2> QED BY <1>1, <2>1, Zenon
<1>3. Packs(f, g)
  BY <1>1, <1>2, PackSteps, Zenon
<1> QED BY <1>1, <1>3

\* One more row goes behind the others.
LEMMA PackMore ==
  ASSUME ChangesTyped, KeysTyped, NEW g \in Seq(Changes), NEW f, Packs(f, g), NEW ch \in Changes
  PROVE  \E h : Packs(h, Append(g, ch)) /\ h[Len(g) + 1] = f[Len(g)] \o Encode(RowOf(ch))
<1> DEFINE n == Len(g)
           m == Append(g, ch)
           row == Encode(RowOf(ch))
           h == [k \in 0 .. n + 1 |-> IF k = n + 1 THEN f[n] \o row ELSE f[k]]
<1>1. /\ n \in Nat /\ m \in Seq(Changes) /\ Len(m) = n + 1 /\ m[n + 1] = ch
      /\ \A k \in 1..n : m[k] = g[k]
  OBVIOUS
<1>2. /\ f \in [0..n -> Seq(Nat)] /\ f[0] = <<>>
      /\ \A k \in 1..n : f[k] = f[k - 1] \o Encode(RowOf(g[k]))
  BY PackSteps
<1>3. row \in Seq(Nat)
  BY RowAnnounced
<1> HIDE DEF n, m, row
<1>4. f[n] \o row \in Seq(Nat)
  <2>1. f[n] \in Seq(Nat)
    BY <1>1, <1>2
  <2> QED BY <1>3, <2>1, ConcatProperties
<1>5. h \in [0 .. n + 1 -> Seq(Nat)] /\ h[0] = <<>> /\ h[n + 1] = f[n] \o row
  <2>1. \A k \in 0 .. n + 1 : k # n + 1 => f[k] \in Seq(Nat)
    <3>1. \A k \in 0 .. n + 1 : k # n + 1 => k \in 0..n
      BY <1>1
    <3> QED BY <1>2, <3>1
  <2>2. 0 \in 0 .. n + 1 /\ 0 # n + 1 /\ n + 1 \in 0 .. n + 1
    BY <1>1
  <2> QED BY <1>2, <1>4, <2>1, <2>2
<1>6. ASSUME NEW k \in 1 .. n + 1 PROVE h[k] = h[k - 1] \o Encode(RowOf(m[k]))
  <2>1. k \in 0 .. n + 1 /\ k - 1 \in 0 .. n + 1 /\ k - 1 # n + 1 /\ (k # n + 1 => k \in 1..n)
    BY <1>1
  <2>2. h[k - 1] = f[k - 1] /\ (k # n + 1 => h[k] = f[k])
    BY <2>1, Zenon
  <2> HIDE DEF h
  <2>3. CASE k = n + 1
    <3>1. k - 1 = n /\ m[k] = ch
      BY <1>1, <2>3
    <3> QED BY <1>5, <2>2, <2>3, <3>1, Zenon DEF row
  <2>4. CASE k # n + 1
    <3>1. m[k] = g[k] /\ f[k] = f[k - 1] \o Encode(RowOf(g[k]))
      BY <1>1, <1>2, <2>1, <2>4
    <3> QED BY <2>2, <2>4, <3>1
  <2> QED BY <2>3, <2>4
<1> HIDE DEF h
<1>7. Packs(h, m)
  BY <1>1, <1>5, <1>6, PackSteps
<1> QED BY <1>5, <1>7 DEF n, m, row

\* The rows g, packed, measured: each has bytes, and ends not behind all of them.
Bounds(f, g) ==
  \A k \in 1..Len(g) : /\ f[k - 1] \in Seq(Nat) /\ f[k] \in Seq(Nat) /\ f[Len(g)] \in Seq(Nat)
                        /\ Len(f[k]) = Len(f[k - 1]) + Len(Encode(RowOf(g[k])))
                        /\ Len(Encode(RowOf(g[k]))) \in Nat \ {0}
                        /\ Len(f[k - 1]) \in Nat /\ Len(f[k]) <= Len(f[Len(g)])

\* They are so.
LEMMA PackBounds ==
  ASSUME ChangesTyped, KeysTyped, NEW g \in Seq(Changes), NEW f, Packs(f, g)
  PROVE  Bounds(f, g)
<1> DEFINE n == Len(g)
           len(k) == Len(f[k])
           row(k) == Encode(RowOf(g[k]))
           S == {k \in 0..n : len(n - k) <= len(n)}
<1>1. n \in Nat /\ \A k \in 1..n : g[k] \in Changes
  OBVIOUS
<1>2. f \in [0..n -> Seq(Nat)] /\ \A k \in 1..n : f[k] = f[k - 1] \o row(k)
  BY PackSteps
<1>3. \A k \in 1..n : row(k) \in Seq(Nat) /\ Len(row(k)) \in Nat \ {0}
  BY <1>1, RowAnnounced
<1> HIDE DEF n, row
<1>4. \A k \in 0..n : f[k] \in Seq(Nat) /\ len(k) \in Nat
  <2>1. \A k \in 0..n : f[k] \in Seq(Nat)
    BY <1>2
  <2> QED BY <2>1
<1>5. \A k \in 1..n : k - 1 \in 0..n /\ k \in 0..n /\ n - k \in 0..n /\ n \in 0..n
  BY <1>1
<1>6. \A k \in 1..n : len(k) = len(k - 1) + Len(row(k))
  <2>1. \A s, u \in Seq(Nat) : Len(s \o u) = Len(s) + Len(u)
    OBVIOUS
  <2>2. \A k \in 1..n : f[k - 1] \in Seq(Nat)
    BY <1>4, <1>5
  <2> QED BY <1>2, <1>3, <2>1, <2>2, Zenon
<1>7. \A k \in 0..n : k \in S
  <2>1. 0 \in S
    <3>1. 0 \in 0..n /\ n - 0 = n /\ n \in 0..n
      BY <1>1
    <3> QED BY <1>4, <3>1
  <2>2. ASSUME NEW k \in 1..n, k - 1 \in S PROVE k \in S
    <3> DEFINE m == n - (k - 1)
    <3>1. m \in 1..n /\ m - 1 = n - k /\ k \in 0..n
      BY <1>1
    <3>2. len(m) <= len(n)
      BY <2>2
    <3> HIDE DEF m
    <3>3. len(m) = len(m - 1) + Len(row(m)) /\ Len(row(m)) \in Nat
      BY <1>3, <1>6, <3>1
    <3>4. len(m) \in Nat /\ len(m - 1) \in Nat /\ len(n) \in Nat
      BY <1>4, <1>5, <3>1
    <3> HIDE DEF len
    <3>5. len(m - 1) <= len(n)
      BY <3>2, <3>3, <3>4
    <3> QED BY <3>1, <3>5
  <2> HIDE DEF S, len
  <2> QED BY <1>1, <2>1, <2>2, Climb
<1>8. \A k \in 1..n : len(k) <= len(n)
  <2> SUFFICES ASSUME NEW k \in 1..n PROVE len(k) <= len(n)
    OBVIOUS
  <2>1. n - (n - k) = k
    BY <1>1
  <2>2. len(n - (n - k)) <= len(n)
    BY <1>5, <1>7
  <2> QED BY <2>1, <2>2
<1> QED BY <1>3, <1>4, <1>5, <1>6, <1>8, Zenon DEF Bounds, n, row

-----------------------------------------------------------------------------
(* Rows, taken out again.                                                    *)

\* The end of the string s, behind its first a bytes.
Behind(s, a) == SubSeq(s, a + 1, Len(s))

\* Its bytes are those of s.
LEMMA BehindType ==
  ASSUME NEW s \in Seq(Nat), NEW a \in 0..Len(s)
  PROVE  /\ Behind(s, a) \in Seq(Nat) /\ Len(Behind(s, a)) = Len(s) - a
         /\ \A k \in 1 .. Len(s) - a : Behind(s, a)[k] = s[a + k]
<1>1. Len(s) \in Nat /\ a \in Nat /\ a + 1 \in 1 .. Len(s) + 1
  OBVIOUS
<1>2. Behind(s, a) \in Seq(Nat)
  BY <1>1 DEF Behind
<1>3. Len(Behind(s, a)) = Len(s) - a
  BY <1>1 DEF Behind
<1>4. \A k \in 1 .. Len(s) - a : Behind(s, a)[k] = s[a + k]
  BY <1>1 DEF Behind
<1> QED BY <1>2, <1>3, <1>4

\* The end of an end is an end, and so are the whole string and nothing.
LEMMA BehindBehind ==
  ASSUME NEW s \in Seq(Nat), NEW a \in Nat, NEW b \in Nat, a + b <= Len(s)
  PROVE  Behind(Behind(s, a), b) = Behind(s, a + b)
<1> DEFINE t == Behind(s, a)
<1>1. Len(s) \in Nat /\ a \in 0..Len(s) /\ a + b \in 0..Len(s) /\ b \in 0 .. Len(s) - a
  OBVIOUS
<1>2. /\ t \in Seq(Nat) /\ Len(t) = Len(s) - a
      /\ \A k \in 1 .. Len(s) - a : t[k] = s[a + k]
  BY <1>1, BehindType, Zenon
<1> HIDE DEF t
<1>3. b \in 0..Len(t)
  BY <1>1, <1>2
<1>4. /\ Behind(t, b) \in Seq(Nat) /\ Len(Behind(t, b)) = Len(t) - b
      /\ \A k \in 1 .. Len(t) - b : Behind(t, b)[k] = t[b + k]
  BY <1>2, <1>3, BehindType, Zenon
<1>5. /\ Behind(s, a + b) \in Seq(Nat) /\ Len(Behind(s, a + b)) = Len(s) - (a + b)
      /\ \A k \in 1 .. Len(s) - (a + b) : Behind(s, a + b)[k] = s[(a + b) + k]
  BY <1>1, BehindType, Zenon
<1>6. Len(t) - b = Len(s) - (a + b)
  BY <1>1, <1>2
<1>7. ASSUME NEW k \in 1 .. Len(s) - (a + b) PROVE Behind(t, b)[k] = Behind(s, a + b)[k]
  <2>1. b + k \in 1 .. Len(s) - a /\ a + (b + k) = (a + b) + k
    BY <1>1
  <2> QED BY <1>2, <1>4, <1>5, <1>6, <2>1
<1>8. Behind(t, b) = Behind(s, a + b)
  BY <1>4, <1>5, <1>6, <1>7, SeqEqual
<1> QED BY <1>8 DEF t

\* What cloudsync_payload_apply finds where the first j of the rows g were taken out: the
\* next row, and behind it what comes next.
Unpacks(f, g, j) ==
  LET left == Behind(f[Len(g)], Len(f[j]))
      d    == Decode(left, 4, 0)
  IN  d.row = RowOf(g[j + 1]) /\ Behind(left, d.seek) = Behind(f[Len(g)], Len(f[j + 1]))

\* It does, whatever rows come before and behind.
THEOREM RowUnpacked ==
  ASSUME ChangesTyped, KeysTyped, StringsSized,
         NEW g \in Seq(Changes), NEW f, Packs(f, g), NEW j \in 0 .. Len(g) - 1
  PROVE  Unpacks(f, g, j)
<1> DEFINE n == Len(g)
           s == f[n]
           row == RowOf(g[j + 1])
           a == Len(f[j])
           b == Len(Encode(row))
           left == Behind(s, a)
<1>1. n \in Nat /\ j + 1 \in 1..n /\ (j + 1) - 1 = j /\ g[j + 1] \in Changes
  OBVIOUS
<1>2. row \in Seq(Storable) /\ Len(row) = 4
  BY <1>1, RowStored
<1>3. s \in Seq(Nat) /\ a \in Nat /\ b \in Nat /\ Len(f[j + 1]) = a + b /\ a + b <= Len(s)
  <2>1. /\ f[(j + 1) - 1] \in Seq(Nat) /\ f[j + 1] \in Seq(Nat) /\ f[Len(g)] \in Seq(Nat)
        /\ Len(f[j + 1]) = Len(f[(j + 1) - 1]) + Len(Encode(RowOf(g[j + 1])))
        /\ Len(Encode(RowOf(g[j + 1]))) \in Nat \ {0}
        /\ Len(f[(j + 1) - 1]) \in Nat /\ Len(f[j + 1]) <= Len(f[Len(g)])
    BY <1>1, PackBounds, Zenon DEF Bounds
  <2> QED BY <1>1, <2>1
<1>4. At(s, a, Encode(row))
  <2>1. EncodedRows(g) \in Seq(Seq(Nat)) /\ Len(EncodedRows(g)) = n /\ EncodedRows(g)[j + 1] = Encode(row)
    BY <1>1, EncodedRowsType
  <2>2. Joins(f, EncodedRows(g))
    BY DEF Packs
  <2>3. At(s, 0, f[Len(EncodedRows(g))])
    BY <1>3, <2>1 DEF At
  <2>4. At(s, 0 + Len(f[(j + 1) - 1]), EncodedRows(g)[j + 1])
    <3> HIDE DEF s
    <3> QED BY <1>1, <2>1, <2>2, <2>3, PartsAt
  <2>5. 0 + Len(f[(j + 1) - 1]) = a
    BY <1>1, <1>3
  <2> QED BY <2>1, <2>4, <2>5
<1> HIDE DEF n, s, row, a, b
<1>5. a \in 0..Len(s) /\ Len(s) \in Nat
  BY <1>3
<1>6. /\ left \in Seq(Nat) /\ Len(left) = Len(s) - a
      /\ \A k \in 1 .. Len(s) - a : left[k] = s[a + k]
  BY <1>3, <1>5, BehindType, Zenon
<1>7. At(left, 0, Encode(row))
  <2> SUFFICES ASSUME NEW k \in 1..b PROVE left[0 + k] = Encode(row)[k]
    BY DEF At, b
  <2>1. k \in 1 .. Len(s) - a /\ 0 + k = k
    BY <1>3, <1>5
  <2>2. s[a + k] = Encode(row)[k]
    BY <1>4 DEF At, b
  <2> QED BY <1>6, <2>1, <2>2
<1>8. RowReads(left, 0, row)
  BY <1>2, <1>7, RowRead
<1>9. Decode(left, 4, 0).row = row /\ Decode(left, 4, 0).seek = b
  <2>1. Decode(left, 4, 0) = [row |-> row, seek |-> 0 + b]
    BY <1>2, <1>8 DEF RowReads, b
  <2>2. 0 + b = b
    BY <1>3
  <2> QED BY <2>1, <2>2
<1>10. Behind(left, b) = Behind(s, a + b)
  BY <1>3, BehindBehind
<1>11. Behind(left, Decode(left, 4, 0).seek) = Behind(s, Len(f[j + 1]))
  BY <1>3, <1>9, <1>10
<1> QED BY <1>9, <1>11 DEF Unpacks, n, s, row, a

\* The first j of the rows g.
First(g, j) == [i \in 1..j |-> RowOf(g[i])]

\* They are j rows, and with the next one j + 1.
LEMMA FirstRows ==
  ASSUME NEW g \in Seq(Changes), NEW j \in 0..Len(g)
  PROVE  /\ Len(First(g, j)) = j /\ DOMAIN First(g, j) = 1..j /\ First(g, 0) = <<>>
         /\ j < Len(g) => Append(First(g, j), RowOf(g[j + 1])) = First(g, j + 1)
<1> DEFINE S == {RowOf(g[i]) : i \in 1..Len(g)}
<1>1. Len(g) \in Nat /\ j \in Nat /\ \A i \in 1..j : i \in 1..Len(g)
  OBVIOUS
<1>2. First(g, j) \in [1..j -> S]
  BY <1>1 DEF First
<1>3. j < Len(g) => RowOf(g[j + 1]) \in S /\ First(g, j + 1) \in [1 .. j + 1 -> S]
  <2>1. j < Len(g) => \A i \in 1 .. j + 1 : i \in 1..Len(g)
    BY <1>1
  <2>2. j + 1 \in 1 .. j + 1
    BY <1>1
  <2> QED BY <2>1, <2>2 DEF First
<1> HIDE DEF S
<1>4. First(g, j) \in Seq(S) /\ Len(First(g, j)) = j
  BY <1>1, <1>2, FunctionLen
<1>5. First(g, 0) = <<>>
  BY DEF First
<1>6. ASSUME j < Len(g) PROVE Append(First(g, j), RowOf(g[j + 1])) = First(g, j + 1)
  <2> DEFINE more == Append(First(g, j), RowOf(g[j + 1]))
  <2>1. First(g, j + 1) \in Seq(S) /\ Len(First(g, j + 1)) = j + 1
    BY <1>1, <1>3, <1>6, FunctionLen
  <2>2. /\ more \in Seq(S) /\ Len(more) = j + 1 /\ more[j + 1] = RowOf(g[j + 1])
        /\ \A i \in 1..j : more[i] = First(g, j)[i]
    BY <1>1, <1>3, <1>4, <1>6
  <2>3. \A i \in 1 .. j + 1 : First(g, j + 1)[i] = RowOf(g[i]) /\ (i # j + 1 => i \in 1..j)
    BY <1>1 DEF First
  <2>4. \A i \in 1..j : First(g, j)[i] = RowOf(g[i])
    BY DEF First
  <2> HIDE DEF more
  <2>5. \A i \in 1 .. j + 1 : more[i] = First(g, j + 1)[i]
    BY <2>2, <2>3, <2>4
  <2>6. more = First(g, j + 1)
    BY <2>1, <2>2, <2>5, SeqEqual
  <2> QED BY <2>6 DEF more
<1> QED BY <1>2, <1>4, <1>5, <1>6

\* The rows that memory has not lost.
Kept == SubSeq(changes, lost + 1, Len(changes))

\* The aggregate has packed them, as many columns in each as in the first.
Collecting(f) ==
  /\ blob = NoBlob /\ rest = <<>> /\ decoded = <<>>
  /\ payload.nrows = Len(Kept) /\ payload.buf = f[Len(Kept)]
  /\ payload.nrows > 0 => payload.ncols = 4

\* It has returned them, and the receiver has not begun, or has the first j of them and
\* is to take the others out of what is behind these.
Returned(f) ==
  /\ payload.nrows = 0 /\ payload.buf = <<>>
  /\ blob.nrows = Len(Kept) /\ blob.nrows > 0 /\ blob.ncols = 4
  /\ blob.body = (IF blob.expanded = 0 THEN f[Len(Kept)] ELSE Lz4(f[Len(Kept)]))
  /\ \/ rest = <<>> /\ decoded = <<>>
     \/ \E j \in 0..Len(Kept) : /\ decoded = First(Kept, j)
                                /\ rest = Behind(f[Len(Kept)], Len(f[j]))

\* It has failed.
GivenUp == payload.nrows = 0 /\ payload.buf = <<>> /\ blob = Failed /\ rest = <<>> /\ decoded = <<>>

\* The inductive invariant.
RowsInv == \E f : Packs(f, Kept) /\ (Collecting(f) \/ Returned(f) \/ GivenUp)

\* The three are told apart by what the aggregate returned.
LEMMA Apart ==
  /\ NoBlob.nrows = 0 /\ Failed.nrows = 0 /\ NoBlob.expanded = 0 /\ Failed.expanded = -1
  /\ NoBlob # Failed /\ NoBlob.body = <<>> /\ Failed.body = <<>>
BY DEF NoBlob, Failed

\* What comes behind a string comes behind its end.
LEMMA EndMore ==
  ASSUME NEW S, NEW s \in Seq(S), NEW x \in S, NEW l \in 0..Len(s)
  PROVE  SubSeq(Append(s, x), l + 1, Len(s) + 1) = Append(SubSeq(s, l + 1, Len(s)), x)
<1> DEFINE m == Append(s, x)
           a == SubSeq(m, l + 1, Len(s) + 1)
           e == SubSeq(s, l + 1, Len(s))
           b == Append(e, x)
           n == Len(s) - l
<1>1. Len(s) \in Nat /\ l \in Nat /\ n \in Nat
  OBVIOUS
<1>2. /\ m \in Seq(S) /\ Len(m) = Len(s) + 1 /\ m[Len(s) + 1] = x
      /\ \A k \in 1..Len(s) : m[k] = s[k]
  OBVIOUS
<1> HIDE DEF m
<1>3. a \in Seq(S) /\ Len(a) = n + 1 /\ \A k \in 1 .. n + 1 : a[k] = m[l + k]
  BY <1>1, <1>2
<1>4. e \in Seq(S) /\ Len(e) = n /\ \A k \in 1..n : e[k] = s[l + k]
  BY <1>1
<1> HIDE DEF a, e
<1>5. b \in Seq(S) /\ Len(b) = n + 1 /\ b[n + 1] = x /\ \A k \in 1..n : b[k] = e[k]
  BY <1>1, <1>4
<1> HIDE DEF b
<1>6. ASSUME NEW k \in 1 .. n + 1 PROVE a[k] = b[k]
  <2>1. CASE k = n + 1
    <3>1. l + k = Len(s) + 1
      BY <1>1, <2>1
    <3> QED BY <1>2, <1>3, <1>5, <2>1, <3>1
  <2>2. CASE k # n + 1
    <3>1. k \in 1..n /\ l + k \in 1..Len(s)
      BY <1>1, <2>2
    <3> QED BY <1>2, <1>3, <1>4, <1>5, <3>1
  <2> QED BY <2>1, <2>2
<1>7. a = b
  BY <1>3, <1>5, <1>6, SeqEqual
<1> QED BY <1>7 DEF a, b, e, m

\* Rows that are kept are rows of cloudsync_changes, and one more goes behind them.
LEMMA KeptType ==
  ASSUME changes \in Seq(Changes), lost \in 0..Len(changes)
  PROVE  /\ Kept \in Seq(Changes) /\ Len(Kept) = Len(changes) - lost
         /\ \A ch \in Changes : changes' = Append(changes, ch) /\ lost' = lost => Kept' = Append(Kept, ch)
<1>1. Len(changes) \in Nat /\ lost \in Nat
  OBVIOUS
<1>2. Kept \in Seq(Changes) /\ Len(Kept) = Len(changes) - lost
  BY <1>1 DEF Kept
<1>3. ASSUME NEW ch \in Changes, changes' = Append(changes, ch), lost' = lost
      PROVE  Kept' = Append(Kept, ch)
  <2> DEFINE m == Append(changes, ch)
  <2>1. m \in Seq(Changes) /\ Len(m) = Len(changes) + 1 /\ lost + 1 \in 1 .. Len(changes) + 1
    BY <1>1
  <2>2. SubSeq(m, lost + 1, Len(changes) + 1) = Append(SubSeq(changes, lost + 1, Len(changes)), ch)
    BY EndMore
  <2> QED BY <1>3, <2>1, <2>2 DEF Kept
<1> QED BY <1>2, <1>3

\* cloudsync_payload_encode_step packs one more row, or loses those it had.
LEMMA StepKeepsRows ==
  ASSUME ChangesTyped, KeysTyped, StringsSized, BufInv, RowsInv, NEW ch \in Changes, EncodeStep(ch)
  PROVE  RowsInv'
<1> DEFINE row == RowOf(ch)
           need == EncodeSize(row, 0)
           grows == payload.bused + need > payload.balloc
           old == IF grows THEN Grown(need) ELSE payload
<1>1. /\ blob = NoBlob /\ changes' = Append(changes, ch)
      /\ blob' = NoBlob /\ rest' = rest /\ decoded' = decoded
      /\ \/ payload' = Added(old, row, need) /\ lost' = lost
         \/ payload' = Empty /\ lost' = Len(changes')
  BY DEF EncodeStep
<1>2. PICK f : Packs(f, Kept) /\ Collecting(f)
  <2>1. PICK f : Packs(f, Kept) /\ (Collecting(f) \/ Returned(f) \/ GivenUp)
    BY DEF RowsInv
  <2>2. ~Returned(f)
    <3> SUFFICES ASSUME Returned(f) PROVE FALSE
      OBVIOUS
    <3>1. blob.nrows = 0 /\ blob.nrows > 0
      BY <1>1, Apart DEF Returned
    <3> QED BY <3>1
  <2>3. ~GivenUp
    BY <1>1, Apart, Zenon DEF GivenUp
  <2> QED BY <2>1, <2>2, <2>3
<1>3. /\ rest' = <<>> /\ decoded' = <<>> /\ payload.nrows = Len(Kept) /\ payload.buf = f[Len(Kept)]
      /\ payload.nrows > 0 => payload.ncols = 4
  BY <1>1, <1>2 DEF Collecting
<1>4. changes \in Seq(Changes) /\ lost \in 0..Len(changes) /\ payload \in Payload
  BY DEF BufInv
<1>5. CASE payload' = Added(old, row, need) /\ lost' = lost
  <2>1. Kept \in Seq(Changes) /\ Kept' = Append(Kept, ch) /\ Len(Kept) \in Nat
    BY <1>1, <1>4, <1>5, KeptType
  <2>2. Len(Kept') = Len(Kept) + 1
    BY <2>1
  <2>3. PICK h : Packs(h, Kept') /\ h[Len(Kept) + 1] = f[Len(Kept)] \o Encode(row)
    BY <1>2, <2>1, PackMore
  <2>4. need \in Nat /\ Encode(row) \in Seq(Nat) /\ Len(row) = 4
    BY RowAnnounced, RowStored
  <2>5. /\ old \in Payload /\ old.buf = payload.buf /\ old.nrows = payload.nrows
        /\ old.ncols = payload.ncols
    <3>1. CASE grows
      <4>1. old = Grown(need)
        BY <3>1
      <4> HIDE DEF need, old, grows
      <4> QED BY <1>4, <2>4, <4>1, GrownFields
    <3>2. CASE ~grows
      BY <1>4, <3>2
    <3> QED BY <3>1, <3>2
  <2> HIDE DEF row, need, grows, old
  <2>6. Extends(payload', old, row, need)
    <3>1. Len(row) \in Nat
      BY <2>4
    <3> QED BY <1>5, <2>4, <2>5, <3>1, AddedFields
  <2>7. payload'.nrows = Len(Kept) + 1 /\ payload'.buf = f[Len(Kept)] \o Encode(row)
    BY <1>3, <2>5, <2>6 DEF Extends
  <2>8. payload'.ncols = 4
    <3>1. payload.nrows \in Nat
      BY <1>4 DEF Payload
    <3>2. payload'.ncols = IF payload.nrows = 0 THEN 4 ELSE payload.ncols
      BY <2>4, <2>5, <2>6 DEF Extends
    <3> QED BY <1>3, <3>1, <3>2
  <2>9. Collecting(h)'
    <3>1. payload'.nrows = Len(Kept') /\ payload'.buf = h[Len(Kept')]
      BY <2>2, <2>3, <2>7
    <3> QED BY <1>1, <1>3, <2>8, <3>1 DEF Collecting
  <2> QED BY <2>3, <2>9 DEF RowsInv
<1>6. CASE payload' = Empty /\ lost' = Len(changes')
  <2>1. changes' \in Seq(Changes)
    BY <1>1, <1>4
  <2>2. Kept' \in Seq(Changes) /\ Len(Kept') = 0
    BY <1>6, <2>1 DEF Kept
  <2>3. PICK h : Packs(h, Kept') /\ h[Len(Kept')] = <<>>
    BY <2>2, PackNone
  <2>4. payload'.nrows = 0 /\ payload'.buf = <<>>
    BY <1>6 DEF Empty
  <2>5. Collecting(h)'
    <3>1. payload'.nrows = Len(Kept') /\ payload'.buf = h[Len(Kept')] /\ ~(payload'.nrows > 0)
      BY <2>2, <2>3, <2>4
    <3> QED BY <1>1, <1>3, <3>1 DEF Collecting
  <2> QED BY <2>3, <2>5 DEF RowsInv
<1> QED BY <1>1, <1>5, <1>6

\* cloudsync_payload_encode_final returns all of them, compressed or not, or fails.
LEMMA FinalKeepsRows ==
  ASSUME ChangesTyped, KeysTyped, BufInv, RowsInv, EncodeFinal
  PROVE  RowsInv'
<1>1. /\ blob = NoBlob /\ payload.nrows > 0 /\ payload' = Empty
      /\ changes' = changes /\ rest' = rest /\ decoded' = decoded /\ lost' = lost
  BY DEF EncodeFinal
<1>2. PICK f : Packs(f, Kept) /\ Collecting(f)
  <2>1. PICK f : Packs(f, Kept) /\ (Collecting(f) \/ Returned(f) \/ GivenUp)
    BY DEF RowsInv
  <2>2. ~Returned(f)
    <3> SUFFICES ASSUME Returned(f) PROVE FALSE
      OBVIOUS
    <3>1. blob.nrows = 0 /\ blob.nrows > 0
      BY <1>1, Apart DEF Returned
    <3> QED BY <3>1
  <2>3. ~GivenUp
    BY <1>1, Apart, Zenon DEF GivenUp
  <2> QED BY <2>1, <2>2, <2>3
<1>3. /\ rest' = <<>> /\ decoded' = <<>> /\ payload.nrows = Len(Kept) /\ payload.buf = f[Len(Kept)]
      /\ payload.ncols = 4 /\ Kept' = Kept /\ payload'.nrows = 0 /\ payload'.buf = <<>>
  BY <1>1, <1>2 DEF Collecting, Kept, Empty
<1>4. CASE blob' = Failed
  <2>1. GivenUp'
    BY <1>3, <1>4 DEF GivenUp
  <2> QED BY <1>2, <1>3, <2>1 DEF RowsInv
<1>5. ASSUME NEW compressed \in BOOLEAN,
             blob' = [expanded |-> Expanded(compressed),
                      ncols    |-> payload.ncols, nrows |-> payload.nrows,
                      body     |-> IF compressed THEN Lz4(payload.buf) ELSE payload.buf]
      PROVE  RowsInv'
  <2>1. /\ blob'.expanded = Expanded(compressed) /\ blob'.ncols = 4 /\ blob'.nrows = Len(Kept)
        /\ blob'.body = (IF compressed THEN Lz4(f[Len(Kept)]) ELSE f[Len(Kept)])
    BY <1>3, <1>5
  <2>2. Expanded(compressed) = 0 <=> ~compressed
    <3>1. Len(f[Len(Kept)]) \in Nat \ {0}
      <4>1. Kept \in Seq(Changes) /\ Len(Kept) \in 1..Len(Kept)
        BY <1>1, <1>3, KeptType DEF BufInv
      <4>2. Bounds(f, Kept)
        BY <1>2, <4>1, PackBounds
      <4>3. /\ Len(f[Len(Kept)]) = Len(f[Len(Kept) - 1]) + Len(Encode(RowOf(Kept[Len(Kept)])))
            /\ Len(Encode(RowOf(Kept[Len(Kept)]))) \in Nat \ {0} /\ Len(f[Len(Kept) - 1]) \in Nat
        BY <4>1, <4>2, Zenon DEF Bounds
      <4>4. \A x \in Nat, y \in Nat \ {0} : x + y \in Nat \ {0}
        OBVIOUS
      <4> QED BY <4>3, <4>4
    <3>2. payload.bused = HeaderSize + Len(payload.buf)
      BY <1>1 DEF BufInv
    <3>3. payload.bused - HeaderSize = Len(f[Len(Kept)])
      BY <1>3, <3>1, <3>2, SizesAssumption
    <3> QED BY <3>1, <3>3 DEF Expanded
  <2>3. Returned(f)'
    <3>1. blob'.body = (IF blob'.expanded = 0 THEN f[Len(Kept)] ELSE Lz4(f[Len(Kept)]))
      BY <2>1, <2>2
    <3>2. blob'.nrows > 0
      BY <1>1, <1>3, <2>1
    <3> QED BY <1>3, <2>1, <3>1, <3>2 DEF Returned
  <2> QED BY <1>2, <1>3, <2>3 DEF RowsInv
<1> QED BY <1>4, <1>5 DEF EncodeFinal

\* cloudsync_payload_apply finds the rows that were packed.
LEMMA HeaderKeepsRows ==
  ASSUME ChangesTyped, KeysTyped, BufInv, RowsInv, ApplyHeader
  PROVE  RowsInv'
<1>1. /\ blob.nrows > 0 /\ decoded = <<>> /\ decoded' = decoded
      /\ rest' = (IF blob.expanded = 0 THEN blob.body ELSE UnLz4(blob.body))
      /\ changes' = changes /\ payload' = payload /\ blob' = blob /\ lost' = lost
  BY DEF ApplyHeader
<1>2. PICK f : Packs(f, Kept) /\ Returned(f)
  <2>1. PICK f : Packs(f, Kept) /\ (Collecting(f) \/ Returned(f) \/ GivenUp)
    BY DEF RowsInv
  <2>2. ~Collecting(f) /\ ~GivenUp
    <3>1. blob # NoBlob /\ blob # Failed
      BY <1>1, Apart
    <3> QED BY <3>1 DEF Collecting, GivenUp
  <2> QED BY <2>1, <2>2
<1>3. Kept \in Seq(Changes) /\ Len(Kept) \in Nat /\ Kept' = Kept
  BY <1>1, KeptType DEF BufInv, Kept
<1>4. f[Len(Kept)] \in Seq(Nat) /\ f[0] = <<>>
  BY <1>2, <1>3, PackType
<1>5. rest' = f[Len(Kept)]
  <2>1. UnLz4(Lz4(f[Len(Kept)])) = f[Len(Kept)]
    <3>1. TypeByte(NULL, 0) \in Nat
      BY HeadRead DEF NULL
    <3>2. \A x \in Nat, s \in Seq(Nat) : Tail(<<x>> \o s) = s
      OBVIOUS
    <3> QED BY <1>4, <3>1, <3>2 DEF UnLz4, Lz4
  <2> QED BY <1>1, <1>2, <2>1 DEF Returned
<1>6. Behind(f[Len(Kept)], Len(f[0])) = f[Len(Kept)]
  <2>1. \A s \in Seq(Nat) : SubSeq(s, 0 + 1, Len(s)) = s
    OBVIOUS
  <2>2. Len(f[0]) = 0
    BY <1>4
  <2> QED BY <1>4, <2>1, <2>2 DEF Behind
<1>7. decoded' = First(Kept, 0) /\ 0 \in 0..Len(Kept)
  BY <1>1, <1>3, FirstRows
<1>8. Returned(f)'
  BY <1>1, <1>2, <1>3, <1>5, <1>6, <1>7 DEF Returned
<1> QED BY <1>2, <1>3, <1>8 DEF RowsInv

\* Each turn of its loop takes the next row out.
LEMMA RowKeepsRows ==
  ASSUME ChangesTyped, KeysTyped, StringsSized, BufInv, RowsInv, ApplyRow
  PROVE  RowsInv'
<1> DEFINE d == Decode(rest, blob.ncols, 0)
<1>1. /\ rest # <<>> /\ Len(decoded) < blob.nrows
      /\ decoded' = Append(decoded, d.row) /\ rest' = Behind(rest, d.seek)
      /\ changes' = changes /\ payload' = payload /\ blob' = blob /\ lost' = lost
  BY DEF ApplyRow, Behind
<1>2. PICK f : Packs(f, Kept) /\ Returned(f)
  <2>1. PICK f : Packs(f, Kept) /\ (Collecting(f) \/ Returned(f) \/ GivenUp)
    BY DEF RowsInv
  <2>2. ~Collecting(f) /\ ~GivenUp
    BY <1>1 DEF Collecting, GivenUp
  <2> QED BY <2>1, <2>2
<1>3. PICK j \in 0..Len(Kept) : decoded = First(Kept, j) /\ rest = Behind(f[Len(Kept)], Len(f[j]))
  BY <1>1, <1>2 DEF Returned
<1>4. Kept \in Seq(Changes) /\ Len(Kept) \in Nat /\ Kept' = Kept
  BY <1>1, KeptType DEF BufInv, Kept
<1>5. j \in 0 .. Len(Kept) - 1 /\ j < Len(Kept) /\ j + 1 \in 0..Len(Kept)
  <2>1. Len(decoded) = j /\ blob.nrows = Len(Kept)
    BY <1>2, <1>3, <1>4, FirstRows DEF Returned
  <2> QED BY <1>1, <1>4, <2>1
<1>6. Unpacks(f, Kept, j)
  BY <1>2, <1>4, <1>5, RowUnpacked
<1>7. blob.ncols = 4
  BY <1>2 DEF Returned
<1>8. d.row = RowOf(Kept[j + 1]) /\ Behind(rest, d.seek) = Behind(f[Len(Kept)], Len(f[j + 1]))
  BY <1>3, <1>6, <1>7 DEF Unpacks
<1>9. decoded' = First(Kept, j + 1) /\ rest' = Behind(f[Len(Kept)], Len(f[j + 1]))
  <2>1. Append(First(Kept, j), RowOf(Kept[j + 1])) = First(Kept, j + 1)
    BY <1>4, <1>5, FirstRows
  <2> HIDE DEF d
  <2> QED BY <1>1, <1>3, <1>8, <2>1
<1>10. Returned(f)'
  <2> HIDE DEF d
  <2> QED BY <1>1, <1>2, <1>4, <1>5, <1>9 DEF Returned
<1> QED BY <1>2, <1>4, <1>10 DEF RowsInv

\* The invariant is one.
LEMMA RowsInvariant ==
  ASSUME ChangesTyped, KeysTyped, StringsSized
  PROVE  Spec => []RowsInv
<1>1. Init => RowsInv
  <2> SUFFICES ASSUME Init PROVE RowsInv
    OBVIOUS
  <2>1. Kept \in Seq(Changes) /\ Len(Kept) = 0
    BY DEF Init, Kept
  <2>2. PICK f : Packs(f, Kept) /\ f[Len(Kept)] = <<>>
    BY <2>1, PackNone
  <2>3. Collecting(f)
    <3>1. payload.nrows = 0 /\ payload.buf = <<>> /\ ~(payload.nrows > 0)
      BY DEF Init, Empty
    <3> QED BY <2>1, <2>2, <3>1 DEF Init, Collecting
  <2> QED BY <2>2, <2>3 DEF RowsInv
<1>2. BufInv /\ RowsInv /\ [Next]_vars => RowsInv'
  <2> SUFFICES ASSUME BufInv, RowsInv, [Next]_vars PROVE RowsInv'
    OBVIOUS
  <2>1. ASSUME NEW ch \in Changes, EncodeStep(ch) PROVE RowsInv'
    BY <2>1, StepKeepsRows
  <2>2. CASE EncodeFinal
    BY <2>2, FinalKeepsRows
  <2>3. CASE ApplyHeader
    BY <2>3, HeaderKeepsRows
  <2>4. CASE ApplyRow
    BY <2>4, RowKeepsRows
  <2>5. CASE UNCHANGED vars
    BY <2>5 DEF vars, RowsInv, Collecting, Returned, GivenUp, Kept
  <2> QED BY <2>1, <2>2, <2>3, <2>4, <2>5 DEF Next
<1> QED BY <1>1, <1>2, BufInvariant, PTL DEF Spec

\* A receiver takes out of a payload, of any number of rows with any values, the rows that
\* were put in, in order, to the last byte; all of them, unless memory ran out.
THEOREM RowsRead ==
  ASSUME ChangesTyped, KeysTyped, StringsSized
  PROVE  Spec => []RowsSurvive
<1>1. BufInv /\ RowsInv => RowsSurvive
  <2> SUFFICES ASSUME BufInv, RowsInv PROVE RowsSurvive
    OBVIOUS
  <2>1. PICK f : Packs(f, Kept) /\ (Collecting(f) \/ Returned(f) \/ GivenUp)
    BY DEF RowsInv
  <2>2. Kept \in Seq(Changes) /\ Len(Kept) \in Nat
    BY KeptType DEF BufInv
  <2>3. /\ decoded = [i \in DOMAIN decoded |-> RowOf(Kept[i])]
        /\ blob.nrows > 0 /\ Len(decoded) = blob.nrows => Len(Kept) = blob.nrows /\ rest = <<>>
    <3>1. CASE decoded = <<>>
      <4>1. decoded = [i \in DOMAIN decoded |-> RowOf(Kept[i])] /\ Len(decoded) = 0
        BY <3>1
      <4> QED BY <4>1
    <3>2. CASE decoded # <<>>
      <4>1. Returned(f)
        BY <2>1, <3>2 DEF Collecting, GivenUp
      <4>2. PICK j \in 0..Len(Kept) : decoded = First(Kept, j) /\ rest = Behind(f[Len(Kept)], Len(f[j]))
        BY <3>2, <4>1 DEF Returned
      <4>3. Len(decoded) = j /\ DOMAIN decoded = 1..j /\ blob.nrows = Len(Kept)
        BY <2>2, <4>1, <4>2, FirstRows DEF Returned
      <4>4. ASSUME j = Len(Kept) PROVE rest = <<>>
        <5>1. f[Len(Kept)] \in Seq(Nat)
          BY <2>1, <2>2, PackType
        <5>2. \A s \in Seq(Nat) : SubSeq(s, Len(s) + 1, Len(s)) = <<>>
          OBVIOUS
        <5> QED BY <4>2, <4>4, <5>1, <5>2 DEF Behind
      <4> QED BY <4>2, <4>3, <4>4 DEF First
    <3> QED BY <3>1, <3>2
  <2> QED BY <2>3 DEF RowsSurvive, Kept
<1> QED BY <1>1, BufInvariant, RowsInvariant, PTL

\* The aggregate's count of rows is that of the rows it still has, and what is sent and
\* what is left of it are bytes.
THEOREM PayloadTyped ==
  ASSUME ChangesTyped, KeysTyped, StringsSized
  PROVE  Spec => []TypeOK
<1>1. BufInv /\ RowsInv => TypeOK
  <2> SUFFICES ASSUME BufInv, RowsInv PROVE TypeOK
    OBVIOUS
  <2>1. PICK f : Packs(f, Kept) /\ (Collecting(f) \/ Returned(f) \/ GivenUp)
    BY DEF RowsInv
  <2>2. /\ changes \in Seq(Changes) /\ lost \in 0..Len(changes) /\ payload.buf \in Seq(Nat)
        /\ Kept \in Seq(Changes) /\ Len(Kept) \in Nat /\ Len(Kept) = Len(changes) - lost
    BY KeptType DEF BufInv, Payload
  <2>3. /\ \A j \in 0..Len(Kept) : f[j] \in Seq(Nat) /\ Len(f[j]) \in Nat
        /\ f[Len(Kept)] \in Seq(Nat)
    BY <2>1, <2>2, PackType
  <2>4. CASE Collecting(f)
    BY <2>2, <2>4, Apart DEF TypeOK, Collecting
  <2>5. CASE GivenUp
    BY <2>2, <2>5, Apart DEF TypeOK, GivenUp
  <2>6. CASE Returned(f)
    <3>1. blob # NoBlob /\ payload.nrows = 0 /\ blob.nrows = Len(Kept) /\ blob.nrows > 0
      BY <2>6, Apart DEF Returned
    <3>2. f[Len(Kept)] \in Seq(Nat)
      BY <2>2, <2>3
    <3>3. blob.body \in Seq(Nat)
      <4>1. TypeByte(NULL, 0) \in Nat
        BY HeadRead DEF NULL
      <4>2. \A x \in Nat, s \in Seq(Nat) : <<x>> \o s \in Seq(Nat)
        OBVIOUS
      <4> QED BY <2>6, <3>2, <4>1, <4>2 DEF Returned, Lz4
    <3>4. rest \in Seq(Nat) /\ Len(decoded) <= blob.nrows
      <4>1. CASE rest = <<>> /\ decoded = <<>>
        BY <3>1, <4>1
      <4>2. ASSUME NEW j \in 0..Len(Kept), decoded = First(Kept, j), rest = Behind(f[Len(Kept)], Len(f[j]))
            PROVE  rest \in Seq(Nat) /\ Len(decoded) <= blob.nrows
        <5>1. Len(decoded) = j
          BY <2>2, <4>2, FirstRows
        <5>2. \A s \in Seq(Nat), a \in Nat : SubSeq(s, a + 1, Len(s)) \in Seq(Nat)
          OBVIOUS
        <5>3. rest \in Seq(Nat)
          <6>1. Len(f[j]) \in Nat
            BY <2>3
          <6> QED BY <3>2, <4>2, <5>2, <6>1 DEF Behind
        <5>4. j <= Len(Kept)
          BY <2>2
        <5> QED BY <3>1, <5>1, <5>3, <5>4
      <4> QED BY <2>6, <4>1, <4>2 DEF Returned
    <3> QED BY <2>2, <3>1, <3>3, <3>4 DEF TypeOK
  <2> QED BY <2>1, <2>4, <2>5, <2>6
<1> QED BY <1>1, BufInvariant, RowsInvariant, PTL
=============================================================================
