----------------------------- MODULE PayloadCodec ------------------------------
(***************************************************************************)
(* A payload from end to end: the aggregate cloudsync_payload_encode, row  *)
(* by row into a growing buffer, and the loop of cloudsync_payload_apply   *)
(* that takes the rows out again (src/src/cloudsync.c).  What applying a   *)
(* row does is in SyncReceive and CloudSyncMerge.                          *)
(***************************************************************************)
EXTENDS PkCodec, RowId

CONSTANTS
  Changes,     \* rows of cloudsync_changes: [key, val, ver, seq]
  MaxRows,     \* bound on the rows given to the aggregate
  MinBuf,      \* CLOUDSYNC_PAYLOAD_MINBUF_SIZE
  HeaderSize   \* sizeof(cloudsync_network_header)

ASSUME SizesAssumption == MaxRows \in Nat /\ MinBuf \in Nat /\ HeaderSize \in 0..MinBuf

\* A payload has db_version, of 34 bits, and seq, of 30, as integers of 64.
ASSUME StampsAssumption == DbSpan <= Half /\ SeqSpan <= Half

VARIABLES
  changes,  \* the rows given so far
  payload,  \* cloudsync_network_payload, the aggregate's context
  blob,     \* what the aggregate returned, or NoBlob, or Failed
  rest,     \* what cloudsync_payload_apply has not decoded
  decoded,  \* the rows it has decoded
  lost      \* rows that went with the buffer when it could not grow (history)

vars == <<changes, payload, blob, rest, decoded, lost>>

\* A cloudsync_network_payload after memset; buf is what follows the header.
Empty == [buf |-> <<>>, bused |-> 0, balloc |-> 0, nrows |-> 0, ncols |-> 0]

NoBlob == [expanded |-> 0, ncols |-> 0, nrows |-> 0, body |-> <<>>]
Failed == [NoBlob EXCEPT !.expanded = -1]

\* LZ4 (src/src/lz4.c): a block that is not the text, and the text again.
Lz4(text)    == <<TypeByte(NULL, 0)>> \o text
UnLz4(block) == Tail(block)

\* The columns that the two sides read by their position.
RowOf(ch) ==
  << <<BLOB, PkEncode(ch.key)>>, ch.val, <<INTEGER, ch.ver>>, <<INTEGER, ch.seq>> >>

BrokenGrown(need) ==
  [payload EXCEPT !.balloc = MinBuf, !.bused = IF payload.nrows = 0 THEN HeaderSize ELSE @]
\* cloudsync_buffer_check: the header is not in the size that is asked for.
Grown(need) ==
  [payload EXCEPT !.balloc = @ + (IF need < MinBuf THEN MinBuf ELSE need),
                  !.bused = IF payload.nrows = 0 THEN HeaderSize ELSE @]

BrokenAdded(pl, row, need) ==
  [pl EXCEPT !.buf = @ \o Encode(row), !.bused = @ + need, !.ncols = Len(row),
             !.nrows = IF pl.nrows = 0 THEN 1 ELSE @]
Added(pl, row, need) ==
  [pl EXCEPT !.buf = @ \o Encode(row), !.bused = @ + need, !.nrows = @ + 1,
             !.ncols = IF pl.nrows = 0 THEN Len(row) ELSE @]

Init ==
  /\ changes = <<>> /\ payload = Empty /\ blob = NoBlob
  /\ rest = <<>> /\ decoded = <<>> /\ lost = 0

\* cloudsync_payload_encode_step.  If memory runs out the buffer is freed with
\* the rows in it, nothing is reported, and the next row starts a new one.
EncodeStep(ch) ==
  LET row   == RowOf(ch)
      need  == EncodeSize(row, 0)
      grows == payload.bused + need > payload.balloc
  IN  /\ blob = NoBlob /\ Len(changes) < MaxRows
      /\ changes' = Append(changes, ch)
      /\ \/ /\ payload' = Added(IF grows THEN Grown(need) ELSE payload, row, need)
            /\ UNCHANGED lost
         \/ /\ grows
            /\ payload' = Empty
            /\ lost' = Len(changes')
      /\ UNCHANGED <<blob, rest, decoded>>

BrokenExpanded(compressed) == 0
\* expanded_size of the header, which is zero if the body is not compressed.
Expanded(compressed) == IF compressed THEN payload.bused - HeaderSize ELSE 0

\* cloudsync_payload_encode_final: LZ4 unless it does not pay, or no memory.
EncodeFinal ==
  /\ blob = NoBlob /\ payload.nrows > 0
  /\ \/ \E compressed \in BOOLEAN :
          blob' = [expanded |-> Expanded(compressed),
                   ncols    |-> payload.ncols, nrows |-> payload.nrows,
                   body     |-> IF compressed THEN Lz4(payload.buf) ELSE payload.buf]
     \/ blob' = Failed
  /\ payload' = Empty
  /\ UNCHANGED <<changes, rest, decoded, lost>>

\* cloudsync_payload_apply up to its loop.
ApplyHeader ==
  /\ blob.nrows > 0 /\ decoded = <<>> /\ rest = <<>>
  /\ rest' = IF blob.expanded = 0 THEN blob.body ELSE UnLz4(blob.body)
  /\ UNCHANGED <<changes, payload, blob, decoded, lost>>

\* One row of the loop.
ApplyRow ==
  /\ rest # <<>> /\ Len(decoded) < blob.nrows
  /\ LET d == Decode(rest, blob.ncols, 0)
     IN  /\ decoded' = Append(decoded, d.row)
         /\ rest' = SubSeq(rest, d.seek + 1, Len(rest))
  /\ UNCHANGED <<changes, payload, blob, lost>>

Next == (\E ch \in Changes : EncodeStep(ch)) \/ EncodeFinal \/ ApplyHeader \/ ApplyRow

Spec == Init /\ [][Next]_vars

(***************************************************************************)
(* What changes are made of.                                               *)
(***************************************************************************)
\* Changes with such values, within the limits docs/RowID.md:22-26 states.
ChangesTyped ==
  \A ch \in Changes : ch.val \in Value /\ ch.ver \in 0 .. (DbSpan - 1) /\ ch.seq \in 0 .. (SeqSpan - 1)

\* A primary key is values, too, no more than dbutils_table_sanity_check admits columns.
KeysTyped == \A ch \in Changes : ch.key \in Seq(Value) /\ Len(ch.key) <= 128

\* A string is not longer than an integer can say (SQLite: 2^31 - 1 bytes), nor is
\* the encoding of a key.
Sized(v) == v[1] \in {TEXT, BLOB} => Len(v[2]) < Half
StringsSized ==
  \A ch \in Changes : /\ Sized(ch.val) /\ Sized(<<BLOB, PkEncode(ch.key)>>)
                       /\ \A k \in DOMAIN ch.key : Sized(ch.key[k])

(***************************************************************************)
(* Properties.                                                             *)
(***************************************************************************)
TypeOK ==
  /\ changes \in Seq(Changes) /\ lost \in 0..Len(changes)
  /\ payload.nrows = (IF blob = NoBlob THEN Len(changes) - lost ELSE 0)
  /\ payload.buf \in Seq(Nat) /\ rest \in Seq(Nat) /\ blob.body \in Seq(Nat)
  /\ Len(decoded) <= blob.nrows

\* The receiver takes out of a payload, in order, the rows that were put in, each
\* from where the one before it ended, to the last byte; all of them, unless
\* memory ran out, when those up to then are missing.
RowsSurvive ==
  LET given == SubSeq(changes, lost + 1, Len(changes))
  IN  /\ decoded = [i \in DOMAIN decoded |-> RowOf(given[i])]
      /\ blob.nrows > 0 /\ Len(decoded) = blob.nrows => Len(given) = blob.nrows /\ rest = <<>>

\* An encoded primary key gives its values back, so that no two keys share one
\* encoding, the identity of a row at every site: at the ends of each byte width,
\* for the least integer, both zeros, empty and long text, and with one key the
\* beginning of another.
KeysInvert ==
  \A i \in DOMAIN changes : PkDecode(PkEncode(changes[i].key)) = changes[i].key

\* pk_encode writes exactly the bytes pk_encode_size announced, into a buffer
\* that has them ("alloc/resize buffer"); provided the first row leaves room for
\* the header, which the first allocation does not count.
BufferFits ==
  payload.nrows > 0 =>
    /\ payload.bused = HeaderSize + Len(payload.buf)
    /\ EncodeSize(RowOf(changes[lost + 1]), 0) <= MinBuf - HeaderSize
         => payload.bused <= payload.balloc

Vals == {ch.val : ch \in Changes}

\* The order that decides between concurrent values is the same seen from either
\* site, transitive, and tells values apart, except texts that are equal up to a
\* zero byte, and the two zeros.
ValuesOrdered ==
  \A i, j \in DOMAIN changes :
    LET v == changes[i].val w == changes[j].val
    IN  /\ Compare(v, w) > 0 <=> Compare(w, v) < 0
        /\ Compare(v, w) = 0 <=> Same(v, w)
        /\ \A u \in Vals :
             Compare(u, v) <= 0 /\ Compare(v, w) <= 0 => Compare(u, w) <= 0

\* Changes that differ in db_version or seq have different rowids in
\* cloudsync_changes, below 2^34 and 2^30 ("maintaining rowid uniqueness",
\* docs/RowID.md:26), and the rowid says which they are.
RowidsTellApart ==
  \A i, j \in DOMAIN changes :
    LET c == changes[i] d == changes[j]
    IN  /\ RowidDecode(Rowid(c.ver, c.seq)) = [ver |-> c.ver, seq |-> c.seq]
        /\ Rowid(c.ver, c.seq) = Rowid(d.ver, d.seq) => c.ver = d.ver /\ c.seq = d.seq
=============================================================================
