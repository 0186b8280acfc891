---------------------------- MODULE SyncSendProofs -----------------------------
(* What holds of SyncSend for any connections, cells, versions and INT_MAX:    *)
(* a send never leaves a gap below the cursor, nor one in the cloud.           *)
EXTENDS SyncSend, WellFoundedInduction, TLAPS

-----------------------------------------------------------------------------
(* The inductive invariant.                                                  *)

\* Every change of this site up to version v is in S.
Within(S, v) == \A x \in Cells : (meta[x].own /\ meta[x].ver <= v) => <<x, meta[x].ver>> \in S

\* Version v was handed out: every later commit gets one above it.
Used(v) == v = 0 \/ \E x \in Cells : meta[x].ver >= v

\* No change of S is from a version not handed out yet.
OldOnly(S) == \A x \in Cells, v \in Versions : <<x, v>> \in S => Used(v)

\* What a send has read of the cursor is sent up to.
Reading(c) == call[c].at \in {"seq", "select"} => Used(call[c].db) /\ Within(cloud, call[c].db)

\* What a send has selected completes the cloud up to its new cursor.
Sending(c) ==
  call[c].at \in {"url", "upload", "notify"} =>
    /\ Used(call[c].newDb) /\ OldOnly(call[c].blob)
    /\ Within(cloud \cup call[c].blob, call[c].newDb)
    /\ \A x \in Cells, v \in Versions : <<x, v>> \in call[c].blob => v <= call[c].newDb

Saving(c) == call[c].at = "saveVersion" => Used(call[c].newDb) /\ Within(cloud, call[c].newDb)

\* The db_version half of the cursor alone is a sound cursor.
CursorSound == Used(sendDb) /\ Within(cloud, sendDb)

IInv ==
  /\ TypeOK /\ CursorSound /\ OldOnly(cloud) /\ NoHole
  /\ \A c \in Conns : Reading(c) /\ Sending(c) /\ Saving(c)

-----------------------------------------------------------------------------
(* Lemmas.                                                                   *)

\* The conversion to int never makes a cursor greater.
LEMMA AsIntBelow == \A n \in Nat : AsInt(n) \in Int /\ AsInt(n) <= n
BY IntMaxAssumption, SMT DEF AsInt

\* A number that fits an int is itself.
LEMMA AsIntSame == \A n \in Nat : n <= IntMax => AsInt(n) = n
BY IntMaxAssumption, SMT DEF AsInt

\* Numbers below a bound have a greatest.
LEMMA Greatest ==
  ASSUME NEW n \in Nat, NEW S \in SUBSET Nat, S # {}, \A s \in S : s <= n
  PROVE  \E g \in S : \A s \in S : s <= g
<1> DEFINE T == {m \in Nat : \A s \in S : s <= m}
           R == OpToRel(<, Nat)
<1>1. n \in T /\ T \subseteq Nat
  OBVIOUS
<1>2. PICK m \in T : \A k \in T : <<k, m>> \notin R
  <2>1. IsWellFoundedOn(R, Nat)
    BY NatLessThanWellFounded
  <2> HIDE DEF T, R
  <2> QED BY <1>1, <2>1, WFMin
<1>3. \A k \in T : m <= k
  <2> SUFFICES ASSUME NEW k \in T, ~(m <= k) PROVE FALSE
    OBVIOUS
  <2>1. k \in Nat /\ m \in Nat /\ k < m
    BY <1>1
  <2>2. <<k, m>> \in R
    BY <2>1 DEF OpToRel
  <2> QED BY <1>2, <2>2
<1>4. m \in S
  <2> SUFFICES ASSUME m \notin S PROVE FALSE
    OBVIOUS
  <2>1. PICK s \in S : s \in Nat /\ s <= m /\ s # m
    BY <1>1
  <2>2. m - 1 \in Nat /\ \A t \in S : t <= m - 1
    BY <2>1
  <2>3. m - 1 \in T
    BY <2>2
  <2>4. m <= m - 1
    BY <1>3, <2>3
  <2> QED BY <2>1, <2>4
<1> QED BY <1>4

\* Versions, and the cursor before the first, are natural numbers.
LEMMA VersionType == {0} \cup Versions \subseteq Nat
<1>1. \A v \in Versions : v \in Nat
  BY VersionsAssumption
<1> QED BY <1>1

\* The fields of a metadata row; a row of this site has a version.
LEMMA MetaType ==
  ASSUME TypeOK, NEW x \in Cells
  PROVE  /\ meta[x].ver \in Nat /\ meta[x].seq \in {0} \cup Seqs /\ meta[x].own \in BOOLEAN
         /\ meta[x].ver \in {0} \cup Versions
         /\ meta[x].own => meta[x].ver \in Versions
<1>1. meta[x] \in Entry
  BY DEF TypeOK
<1>2. /\ meta[x].ver \in {0} \cup Versions /\ meta[x].seq \in {0} \cup Seqs /\ meta[x].own \in BOOLEAN
      /\ meta[x].own => meta[x].ver \in Versions
  <2>1. CASE meta[x] = NoEntry
    <3>1. meta[x].ver = 0 /\ meta[x].seq = 0 /\ meta[x].own = FALSE
      BY <2>1 DEF NoEntry
    <3> QED BY <3>1
  <2>2. CASE meta[x] \in [ver : Versions, seq : Seqs, own : BOOLEAN]
    <3>1. meta[x].ver \in Versions /\ meta[x].seq \in Seqs /\ meta[x].own \in BOOLEAN
      BY <2>2
    <3> QED BY <3>1
  <2> QED BY <1>1, <2>1, <2>2 DEF Entry
<1>3. meta[x].ver \in Nat
  BY <1>2, VersionType
<1> QED BY <1>2, <1>3

\* The fields of a send.
LEMMA CallType ==
  ASSUME TypeOK, NEW c \in Conns
  PROVE  /\ call[c].db \in Nat /\ call[c].newDb \in Nat
         /\ call[c].newDb \in {0} \cup Versions /\ call[c].newSeq \in {0} \cup Seqs
         /\ call[c].blob \subseteq Cells \X Versions
<1>1. call[c] \in Call
  BY DEF TypeOK
<1>2. /\ call[c].db \in Nat /\ call[c].newDb \in {0} \cup Versions
      /\ call[c].newSeq \in {0} \cup Seqs /\ call[c].blob \in SUBSET (Cells \X Versions)
  BY <1>1 DEF Call
<1>3. call[c].newDb \in Nat
  BY <1>2, VersionType
<1> QED BY <1>2, <1>3

\* A transaction keeps what is known of the past: the rows it writes are above
\* every version handed out before, and it drops or restamps the others.
LEMMA CommitKeeps == ASSUME IInv, TypeOK', Write PROVE IInv'
<1>t. \A x \in Cells : meta[x].ver \in Nat
  BY MetaType DEF IInv
<1>p. \A x \in Cells : meta'[x].ver \in Nat
  <2>1. TypeOK' => \A x \in Cells : meta'[x].ver \in Nat
    <3>1. ASSUME NEW x \in Cells, meta'[x] \in Entry PROVE meta'[x].ver \in Nat
      <4>1. meta'[x].ver \in {0} \cup Versions
        BY <3>1 DEF Entry, NoEntry
      <4> QED BY <4>1, VersionType
    <3> QED BY <3>1 DEF TypeOK
  <2> QED BY <2>1
<1>a. ASSUME NEW x \in Cells, meta'[x] # meta[x]
      PROVE  \/ meta'[x].ver = 0 /\ ~meta'[x].own
             \/ \A y \in Cells : meta[y].ver < meta'[x].ver
  BY <1>a DEF Write, Committed!Transaction, Committed!Above, Committed!Nothing
<1>b. \A x \in Cells : \E y \in Cells : meta[x].ver <= meta'[y].ver
  BY DEF Write, Committed!Transaction
<1>c. UNCHANGED <<sendDb, sendSeq, call, cloud>>
  BY DEF Write
<1>u. ASSUME NEW w \in Nat, Used(w) PROVE Used(w)'
  <2>1. CASE w = 0
    BY <2>1 DEF Used
  <2>2. CASE w # 0
    <3> PICK x \in Cells : meta[x].ver >= w
      BY <1>u, <2>2 DEF Used
    <3> PICK y \in Cells : meta[x].ver <= meta'[y].ver
      BY <1>b
    <3> QED BY <1>t, <1>p DEF Used
  <2> QED BY <2>1, <2>2
\* A row written now is above every version in use.
<1>n. ASSUME NEW w \in Nat, Used(w), NEW x \in Cells, meta'[x] # meta[x], meta'[x].own
      PROVE  w < meta'[x].ver
  <2>1. \A y \in Cells : meta[y].ver < meta'[x].ver
    BY <1>a, <1>n
  <2>2. CASE w = 0
    BY <1>t, <1>p, <2>1, <2>2
  <2>3. CASE w # 0
    <3> PICK y \in Cells : meta[y].ver >= w
      BY <1>n, <2>3 DEF Used
    <3> QED BY <1>t, <1>p, <2>1
  <2> QED BY <2>2, <2>3
<1>w. ASSUME NEW S, NEW w \in Nat, Used(w), Within(S, w) PROVE (Within(S, w))'
  <2> SUFFICES ASSUME NEW x \in Cells, meta'[x].own, meta'[x].ver <= w
               PROVE  <<x, meta'[x].ver>> \in S
    BY DEF Within
  <2>1. meta'[x] = meta[x]
    BY <1>n, <1>p, <1>w
  <2> QED BY <1>w, <2>1 DEF Within
<1>o. ASSUME NEW S, OldOnly(S) PROVE (OldOnly(S))'
  <2> SUFFICES ASSUME NEW x \in Cells, NEW v \in Versions, <<x, v>> \in S PROVE Used(v)'
    BY DEF OldOnly
  <2> QED BY <1>u, <1>o, VersionType DEF OldOnly
<1>1. CursorSound'
  <2>1. sendDb \in Nat /\ Used(sendDb) /\ Within(cloud, sendDb)
    BY VersionType DEF IInv, TypeOK, CursorSound
  <2>2. Used(sendDb)' /\ Within(cloud, sendDb)'
    BY <1>u, <1>w, <1>c, <2>1 DEF Used, Within
  <2> QED BY <2>2 DEF CursorSound
<1>2. OldOnly(cloud)'
  BY <1>o, <1>c DEF IInv, OldOnly, Used
<1>3. NoHole'
  <2> SUFFICES ASSUME NEW x \in Cells, NEW y \in Cells,
                      meta'[x].own, <<x, meta'[x].ver>> \in cloud,
                      meta'[y].own, meta'[y].ver <= meta'[x].ver
               PROVE  <<y, meta'[y].ver>> \in cloud
    BY <1>c DEF NoHole, Sent
  <2>0. meta'[x].ver \in Versions /\ meta'[x].ver \in Nat
    <3>1. meta'[x] \in Entry /\ meta'[x] # NoEntry
      BY DEF TypeOK, NoEntry
    <3>2. meta'[x].ver \in Versions
      BY <3>1 DEF Entry
    <3> QED BY <3>2, VersionType
  <2>1. Used(meta'[x].ver)
    BY <2>0 DEF IInv, OldOnly
  <2>2. meta'[x] = meta[x]
    BY <1>n, <2>0, <2>1
  <2>3. meta'[y] = meta[y]
    BY <1>n, <1>p, <2>0, <2>1
  <2> QED BY <2>2, <2>3 DEF IInv, NoHole, Sent
<1>4. ASSUME NEW c \in Conns PROVE Reading(c)' /\ Sending(c)' /\ Saving(c)'
  <2>0. /\ call[c].db \in Nat /\ call[c].newDb \in Nat
        /\ Reading(c) /\ Sending(c) /\ Saving(c)
    BY CallType DEF IInv
  <2>1. Reading(c)'
    BY <1>u, <1>w, <1>c, <2>0 DEF Reading, Used, Within
  <2>2. Sending(c)'
    <3> SUFFICES ASSUME call[c].at \in {"url", "upload", "notify"} PROVE Sending(c)'
      BY <1>c DEF Sending
    <3>1. Used(call[c].newDb) /\ Used(call[c].newDb)'
      BY <1>u, <1>c, <2>0 DEF Sending, Used
    <3>2. Within(cloud \cup call[c].blob, call[c].newDb)'
      BY <1>w, <1>c, <2>0, <3>1 DEF Sending, Within
    <3>3. OldOnly(call[c].blob)'
      BY <1>o, <1>c, <2>0 DEF Sending, OldOnly, Used
    <3> QED BY <1>c, <2>0, <3>1, <3>2, <3>3 DEF Sending
  <2>3. Saving(c)'
    BY <1>u, <1>w, <1>c, <2>0 DEF Saving, Used, Within
  <2> QED BY <2>1, <2>2, <2>3
<1> QED BY <1>1, <1>2, <1>3, <1>4 DEF IInv

-----------------------------------------------------------------------------
(* Type correctness.                                                         *)

\* The variables hold values of their types, through all overlapping sends,
\* failures and resets.
THEOREM TypeCorrect == Spec => []TypeOK
<1>1. Init => TypeOK
  BY DEF Init, TypeOK, NoEntry, Entry, Idle, Call, Stages
<1>2. TypeOK /\ [Next]_vars => TypeOK'
  <2> SUFFICES ASSUME TypeOK, [Next]_vars PROVE TypeOK'
    OBVIOUS
  <2>0. CASE UNCHANGED vars
    BY <2>0 DEF TypeOK, vars
  <2>1. CASE Write
    BY <2>1 DEF Write, TypeOK
  <2>2. CASE Logout
    BY <2>2 DEF Logout, TypeOK, NoEntry, Entry
  <2>3. ASSUME NEW c \in Conns, Send(c) PROVE TypeOK'
    <3>0. call[c] \in Call /\ sendDb \in Nat /\ Idle \in Call
      BY VersionType DEF TypeOK, Idle, Call, Stages
    <3>1. CASE ReadVersion(c)
      <4> PICK v \in Readings(sendDb) :
            v >= 0 /\ Step(c, "idle", [Idle EXCEPT !.at = "seq", !.db = v])
        BY <3>1 DEF ReadVersion
      <4>1. v \in Nat
        BY <3>0, AsIntBelow DEF Readings
      <4>2. [Idle EXCEPT !.at = "seq", !.db = v] \in Call
        BY <3>0, <4>1 DEF Call, Stages
      <4> QED BY <3>1, <4>2 DEF ReadVersion, Step, TypeOK
    <3>2. CASE ReadSeq(c)
      <4> PICK s \in Readings(sendSeq) :
            Step(c, "seq", IF s < 0 THEN Idle ELSE [Goto(c, "select") EXCEPT !.seq = s])
        BY <3>2 DEF ReadSeq
      <4>1. CASE s < 0
        BY <3>0, <3>2, <4>1 DEF ReadSeq, Step, TypeOK
      <4>2. CASE ~ (s < 0)
        <5>1. sendSeq \in Nat
          BY SeqsAssumption DEF TypeOK
        <5>2. s \in Nat
          BY <5>1, <4>2, AsIntBelow DEF Readings
        <5>3. [Goto(c, "select") EXCEPT !.seq = s] \in Call
          BY <3>0, <5>2 DEF Goto, Call, Stages
        <5> QED BY <3>2, <4>2, <5>3 DEF ReadSeq, Step, TypeOK
      <4> QED BY <4>1, <4>2
    <3>3. CASE Select(c)
      <4> DEFINE X == Unsent(call[c].db, call[c].seq)
                 blob == {<<x, meta[x].ver>> : x \in X}
      <4> PICK v \in {0} \cup Versions, q \in {0} \cup Seqs :
            Step(c, "select", IF X = {} THEN Idle
               ELSE [Goto(c, "url") EXCEPT !.blob = blob, !.newDb = v, !.newSeq = q])
        BY <3>3 DEF Select
      <4>1. blob \subseteq Cells \X Versions
        <5> SUFFICES ASSUME NEW x \in X PROVE <<x, meta[x].ver>> \in Cells \X Versions
          OBVIOUS
        <5>1. x \in Cells /\ meta[x].own
          BY DEF Unsent
        <5> QED BY <5>1, MetaType
      <4> HIDE DEF blob, X
      <4>2. [Goto(c, "url") EXCEPT !.blob = blob, !.newDb = v, !.newSeq = q] \in Call
        BY <3>0, <4>1 DEF Goto, Call, Stages
      <4> QED BY <3>0, <3>3, <4>2 DEF Select, Step, TypeOK
    <3>4. CASE GetUrl(c) \/ Upload(c)
      BY <3>0, <3>4 DEF GetUrl, Upload, Step, Goto, TypeOK, Call, Stages
    <3>5. CASE Notify(c)
      BY <3>0, <3>5 DEF Notify, Step, Goto, TypeOK, Call, Stages
    <3>6. CASE SaveVersion(c)
      BY <3>0, <3>6 DEF SaveVersion, Step, Goto, TypeOK, Call, Stages
    <3>7. CASE SaveSeq(c)
      BY <3>0, <3>7 DEF SaveSeq, Step, TypeOK, Call
    <3> QED BY <2>3, <3>1, <3>2, <3>3, <3>4, <3>5, <3>6, <3>7 DEF Send
  <2>4. ASSUME NEW c \in Conns, Fail(c) \/ Crash(c) \/ Reset(c) \/ ResetVersion(c) \/ ResetSeq(c)
        PROVE  TypeOK'
    <3>0. call[c] \in Call /\ Idle \in Call
      BY DEF TypeOK, Idle, Call, Stages
    <3>1. CASE Fail(c)
      BY <3>0, <3>1 DEF Fail, TypeOK, Call
    <3>2. CASE Crash(c)
      BY <3>0, <3>2 DEF Crash, TypeOK
    <3>3. CASE Reset(c) \/ ResetVersion(c) \/ ResetSeq(c)
      BY <3>0, <3>3 DEF Reset, ResetVersion, ResetSeq, Step, Goto, TypeOK, Call, Stages
    <3> QED BY <2>4, <3>1, <3>2, <3>3
  <2> QED BY <2>0, <2>1, <2>2, <2>3, <2>4 DEF Next
<1> QED BY <1>1, <1>2, PTL DEF Spec

-----------------------------------------------------------------------------
(* The inductive invariant holds.                                            *)

\* Used is closed downwards.
LEMMA UsedBelow ==
  ASSUME TypeOK, NEW v \in Nat, NEW w \in Nat, w <= v, Used(v)
  PROVE  Used(w)
<1>1. \A x \in Cells : meta[x].ver \in Nat
  BY MetaType
<1> QED BY <1>1 DEF Used

\* Steps of c that change neither the metadata nor the cloud.
LEMMA QuietStep ==
  ASSUME IInv, TypeOK', UNCHANGED <<meta, cloud>>, NEW c \in Conns,
         \A d \in Conns \ {c} : call'[d] = call[d],
         CursorSound', Reading(c)', Sending(c)', Saving(c)'
  PROVE  IInv'
<1>1. ASSUME NEW d \in Conns \ {c} PROVE Reading(d)' /\ Sending(d)' /\ Saving(d)'
  BY <1>1 DEF IInv, Reading, Sending, Saving, Used, Within, OldOnly
<1>2. OldOnly(cloud)' /\ NoHole'
  BY DEF IInv, OldOnly, NoHole, Used, Sent
<1> QED BY <1>1, <1>2 DEF IInv

\* The cloud gets what c has selected: nothing becomes unsound, and there is
\* still no hole.
LEMMA Delivered ==
  ASSUME IInv, TypeOK', NEW c \in Conns, call[c].at = "notify",
         cloud' = cloud \cup call[c].blob, UNCHANGED <<meta, sendDb, sendSeq>>,
         \A d \in Conns \ {c} : call'[d] = call[d],
         Reading(c)', Sending(c)', Saving(c)'
  PROVE  IInv'
<1>0. Sending(c) /\ OldOnly(cloud) /\ NoHole /\ TypeOK
  BY DEF IInv
<1>1. CursorSound'
  BY DEF IInv, CursorSound, Used, Within
<1>2. OldOnly(cloud)'
  BY <1>0 DEF Sending, OldOnly, Used
<1>3. NoHole'
  <2> SUFFICES ASSUME NEW x \in Cells, NEW y \in Cells,
                      meta[x].own, <<x, meta[x].ver>> \in cloud \cup call[c].blob,
                      meta[y].own, meta[y].ver <= meta[x].ver
               PROVE  <<y, meta[y].ver>> \in cloud \cup call[c].blob
    BY DEF NoHole, Sent
  <2>1. CASE <<x, meta[x].ver>> \in cloud
    BY <1>0, <2>1 DEF NoHole, Sent
  <2>2. CASE <<x, meta[x].ver>> \in call[c].blob
    <3>1. meta[x].ver \in Versions /\ meta[x].ver \in Nat /\ meta[y].ver \in Nat /\ call[c].newDb \in Nat
      BY <1>0, MetaType, CallType
    <3>2. meta[x].ver <= call[c].newDb
      BY <1>0, <2>2, <3>1 DEF Sending
    <3> QED BY <1>0, <3>1, <3>2 DEF Sending, Within
  <2> QED BY <2>1, <2>2
<1>4. ASSUME NEW d \in Conns \ {c} PROVE Reading(d)' /\ Sending(d)' /\ Saving(d)'
  BY <1>4 DEF IInv, Reading, Sending, Saving, Used, Within, OldOnly
<1> QED BY <1>1, <1>2, <1>3, <1>4 DEF IInv

\* The cursor's db_version alone, every cursor read and every selection on its way
\* to the cloud leave nothing of this site below them unsent: a commit made while
\* a send is under way is above all of them.
THEOREM Invariant == Spec => []IInv
<1>1. Init => IInv
  <2> SUFFICES ASSUME Init PROVE IInv
    OBVIOUS
  <2>1. TypeOK
    BY DEF Init, TypeOK, NoEntry, Entry, Idle, Call, Stages
  <2>2. CursorSound /\ OldOnly(cloud) /\ NoHole
    BY DEF Init, CursorSound, OldOnly, NoHole, Used, Within, NoEntry
  <2>3. \A c \in Conns : Reading(c) /\ Sending(c) /\ Saving(c)
    BY DEF Init, Idle, Reading, Sending, Saving
  <2> QED BY <2>1, <2>2, <2>3 DEF IInv
<1>2. IInv /\ TypeOK' /\ [Next]_vars => IInv'
  <2> SUFFICES ASSUME IInv, TypeOK', [Next]_vars PROVE IInv'
    OBVIOUS
  <2>t. TypeOK /\ CursorSound /\ \A c \in Conns : Reading(c) /\ Sending(c) /\ Saving(c)
    BY DEF IInv
  <2>0. CASE UNCHANGED vars
    BY <2>0 DEF vars, IInv, CursorSound, OldOnly, NoHole, Sent, Reading, Sending, Saving, Used, Within
  <2>1. CASE Write
    BY <2>1, CommitKeeps
  <2>2. CASE Logout
    <3>1. CursorSound' /\ OldOnly(cloud)' /\ NoHole'
      BY <2>2 DEF Logout, CursorSound, OldOnly, NoHole, Used, Within, NoEntry
    <3>2. \A c \in Conns : (Reading(c) /\ Sending(c) /\ Saving(c))'
      BY <2>2 DEF Logout, Quiet, Idle, Reading, Sending, Saving
    <3> QED BY <3>1, <3>2 DEF IInv
  <2>3. ASSUME NEW c \in Conns, Send(c) PROVE IInv'
    <3>c. call \in [Conns -> Call]
      BY <2>t DEF TypeOK
    <3>1. CASE ReadVersion(c)
      <4>1. sendDb \in Nat
        BY <2>t, VersionType DEF TypeOK
      <4> PICK v \in Readings(sendDb) :
            v >= 0 /\ Step(c, "idle", [Idle EXCEPT !.at = "seq", !.db = v])
        BY <3>1 DEF ReadVersion
      <4>2. v \in Nat /\ v <= sendDb
        BY <4>1, AsIntBelow DEF Readings
      <4>3. Used(v) /\ Within(cloud, v)
        <5>1. \A x \in Cells : meta[x].ver \in Nat
          BY <2>t, MetaType
        <5> QED BY <2>t, <4>1, <4>2, <5>1, UsedBelow DEF CursorSound, Within
      <4>4. call'[c].at = "seq" /\ call'[c].db = v
        BY <3>c DEF Step, Idle
      <4>5. Reading(c)' /\ Sending(c)' /\ Saving(c)'
        BY <3>1, <4>3, <4>4 DEF ReadVersion, Reading, Sending, Saving, Used, Within
      <4>6. CursorSound' /\ \A d \in Conns \ {c} : call'[d] = call[d]
        BY <2>t, <3>1, <3>c DEF ReadVersion, Step, CursorSound, Used, Within
      <4> QED BY <3>1, <4>5, <4>6, QuietStep DEF ReadVersion
    <3>2. CASE ReadSeq(c)
      <4> PICK s \in Readings(sendSeq) :
            Step(c, "seq", IF s < 0 THEN Idle ELSE [Goto(c, "select") EXCEPT !.seq = s])
        BY <3>2 DEF ReadSeq
      <4>1. call'[c].at = "idle" \/ (call'[c].at = "select" /\ call'[c].db = call[c].db)
        BY <3>2, <3>c DEF ReadSeq, Step, Goto, Idle, Call
      <4>2. Reading(c)' /\ Sending(c)' /\ Saving(c)'
        BY <2>t, <3>2, <4>1 DEF ReadSeq, Step, Reading, Sending, Saving, Used, Within
      <4>3. CursorSound' /\ \A d \in Conns \ {c} : call'[d] = call[d]
        BY <2>t, <3>2, <3>c DEF ReadSeq, Step, CursorSound, Used, Within
      <4> QED BY <3>2, <4>2, <4>3, QuietStep DEF ReadSeq
    <3>3. CASE Select(c)
      <4> DEFINE X == Unsent(call[c].db, call[c].seq)
                 blob == {<<x, meta[x].ver>> : x \in X}
      <4> PICK v \in {w \in {0} \cup Versions : IsNewest(w)}, q \in {0} \cup Seqs :
            Step(c, "select", IF X = {} THEN Idle
               ELSE [Goto(c, "url") EXCEPT !.blob = blob, !.newDb = v, !.newSeq = q])
        BY <3>3 DEF Select
      <4>1. call[c].at = "select" /\ \A d \in Conns \ {c} : call'[d] = call[d]
        BY <3>c DEF Step
      <4>2. CursorSound'
        BY <2>t, <3>3 DEF Select, CursorSound, Used, Within
      <4>3. CASE X = {}
        <5>1. call'[c].at = "idle"
          BY <3>c, <4>3 DEF Step, Idle
        <5> QED BY <3>3, <4>1, <4>2, <5>1, QuietStep DEF Select, Reading, Sending, Saving
      <4>4. CASE X # {}
        <5>1. call[c].db \in Nat /\ v \in Nat
          BY <2>t, CallType, VersionType
        <5>2. \A x \in Cells : meta[x].ver \in Nat /\ meta[x].ver <= v
          BY <2>t, MetaType DEF IsNewest
        <5>3. Used(v)
          BY <5>2 DEF IsNewest, Used
        <5>4. OldOnly(blob) /\ \A x \in Cells, w \in Versions : <<x, w>> \in blob => w <= v
          <6> SUFFICES ASSUME NEW x \in Cells, NEW w \in Versions, <<x, w>> \in blob
                       PROVE  Used(w) /\ w <= v
            BY DEF OldOnly
          <6>1. w = meta[x].ver
            OBVIOUS
          <6> QED BY <5>2, <6>1 DEF Used
        <5>5. Within(cloud \cup blob, v)
          <6> SUFFICES ASSUME NEW x \in Cells, meta[x].own PROVE <<x, meta[x].ver>> \in cloud \cup blob
            BY DEF Within
          <6>1. CASE x \in X
            BY <6>1
          <6>2. CASE x \notin X
            <7>1. ~Above(meta[x].ver, meta[x].seq, call[c].db, call[c].seq)
              BY <6>2 DEF Unsent
            <7>2. meta[x].ver <= call[c].db
              BY <5>1, <5>2, <7>1 DEF Above
            <7> QED BY <2>t, <4>1, <7>2 DEF Reading, Within
          <6> QED BY <6>1, <6>2
        <5> HIDE DEF blob, X
        <5>6. call'[c].at = "url" /\ call'[c].blob = blob /\ call'[c].newDb = v
          BY <3>c, <4>4 DEF Step, Goto, Call
        <5>7. Reading(c)' /\ Sending(c)' /\ Saving(c)'
          BY <3>3, <5>3, <5>4, <5>5, <5>6 DEF Select, Reading, Sending, Saving, Used, Within, OldOnly
        <5> QED BY <3>3, <4>1, <4>2, <5>7, QuietStep DEF Select
      <4> QED BY <4>3, <4>4
    <3>4. CASE GetUrl(c) \/ Upload(c)
      <4>1. /\ call[c].at \in {"url", "upload"} /\ call'[c].at \in {"upload", "notify"}
            /\ call'[c].blob = call[c].blob /\ call'[c].newDb = call[c].newDb
        BY <3>4, <3>c DEF GetUrl, Upload, Step, Goto, Call
      <4>2. Reading(c)' /\ Sending(c)' /\ Saving(c)'
        BY <2>t, <3>4, <4>1 DEF GetUrl, Upload, Reading, Sending, Saving, Used, Within, OldOnly
      <4>3. CursorSound' /\ \A d \in Conns \ {c} : call'[d] = call[d]
        BY <2>t, <3>4, <3>c DEF GetUrl, Upload, Step, CursorSound, Used, Within
      <4> QED BY <3>4, <4>2, <4>3, QuietStep DEF GetUrl, Upload
    <3>5. CASE Notify(c)
      <4>1. call[c].at = "notify" /\ call'[c].at = "saveVersion" /\ call'[c].newDb = call[c].newDb
        BY <3>5, <3>c DEF Notify, Step, Goto, Call
      <4>2. Reading(c)' /\ Sending(c)' /\ Saving(c)'
        BY <2>t, <3>5, <4>1 DEF Notify, Reading, Sending, Saving, Used, Within
      <4>3. \A d \in Conns \ {c} : call'[d] = call[d]
        BY <3>5, <3>c DEF Notify, Step
      <4> QED BY <3>5, <4>1, <4>2, <4>3, Delivered DEF Notify
    <3>6. CASE SaveVersion(c)
      <4>1. call[c].at = "saveVersion" /\ call'[c].at = "saveSeq"
        BY <3>6, <3>c DEF SaveVersion, Step, Goto, Call
      <4>2. Reading(c)' /\ Sending(c)' /\ Saving(c)'
        BY <4>1 DEF Reading, Sending, Saving
      <4>3. CursorSound'
        BY <2>t, <3>6, <4>1 DEF SaveVersion, Saving, CursorSound, Used, Within
      <4>4. \A d \in Conns \ {c} : call'[d] = call[d]
        BY <3>6, <3>c DEF SaveVersion, Step
      <4> QED BY <3>6, <4>2, <4>3, <4>4, QuietStep DEF SaveVersion
    <3>7. CASE SaveSeq(c)
      <4>1. call'[c].at = "idle"
        BY <3>7, <3>c DEF SaveSeq, Step, Idle
      <4>2. Reading(c)' /\ Sending(c)' /\ Saving(c)'
        BY <4>1 DEF Reading, Sending, Saving
      <4>3. CursorSound' /\ \A d \in Conns \ {c} : call'[d] = call[d]
        BY <2>t, <3>7, <3>c DEF SaveSeq, Step, CursorSound, Used, Within
      <4> QED BY <3>7, <4>2, <4>3, QuietStep DEF SaveSeq
    <3> QED BY <2>3, <3>1, <3>2, <3>3, <3>4, <3>5, <3>6, <3>7 DEF Send
  <2>4. ASSUME NEW c \in Conns, Fail(c) \/ Crash(c) \/ Reset(c) \/ ResetVersion(c) \/ ResetSeq(c)
        PROVE  IInv'
    <3>c. call \in [Conns -> Call]
      BY <2>t DEF TypeOK
    <3>1. call'[c].at \in {"idle", "resetVersion", "resetSeq"} /\ \A d \in Conns \ {c} : call'[d] = call[d]
      BY <2>4, <3>c DEF Fail, Crash, Reset, ResetVersion, ResetSeq, Step, Goto, Idle, Call
    <3>2. Reading(c)' /\ Sending(c)' /\ Saving(c)'
      BY <3>1 DEF Reading, Sending, Saving
    <3>3. CASE cloud' = cloud
      <4>1. sendDb' = 0 \/ sendDb' = sendDb
        BY <2>4 DEF Fail, Crash, Reset, ResetVersion, ResetSeq
      <4>2. meta' = meta
        BY <2>4 DEF Fail, Crash, Reset, ResetVersion, ResetSeq
      <4>3. CursorSound'
        <5>1. \A x \in Cells : meta[x].ver \in Nat /\ (meta[x].own => meta[x].ver # 0)
          BY <2>t, MetaType, VersionsAssumption
        <5> QED BY <2>t, <3>3, <4>1, <4>2, <5>1 DEF CursorSound, Used, Within
      <4> QED BY <3>1, <3>2, <3>3, <4>2, <4>3, QuietStep
    <3>4. CASE cloud' # cloud
      <4>1. /\ call[c].at = "notify" /\ cloud' = cloud \cup call[c].blob
            /\ UNCHANGED <<meta, sendDb, sendSeq>>
        BY <2>4, <3>4 DEF Fail, Crash, Reset, ResetVersion, ResetSeq
      <4> QED BY <3>1, <3>2, <4>1, Delivered
    <3> QED BY <3>3, <3>4
  <2> QED BY <2>0, <2>1, <2>2, <2>3, <2>4 DEF Next
<1> QED BY <1>1, <1>2, TypeCorrect, PTL DEF Spec

-----------------------------------------------------------------------------
(* What the invariant gives.                                                 *)

\* A send that starts at any time selects, or the cloud has, every change of this
\* site, for every interleaving of sends, failures, crashes and resets, and also
\* when the cursor does not fit an int.
THEOREM NothingIsSkipped == Spec => []NothingSkipped
<1>1. IInv => NothingSkipped
  <2> SUFFICES ASSUME IInv, NEW x \in Cells, meta[x].own
               PROVE  Sent(x) \/ x \in Unsent(AsInt(sendDb), AsInt(sendSeq))
    BY DEF NothingSkipped
  <2>1. sendDb \in Nat /\ sendSeq \in Nat /\ meta[x].ver \in Nat
    BY VersionType, SeqsAssumption, MetaType DEF IInv, TypeOK
  <2>2. AsInt(sendDb) \in Int /\ AsInt(sendDb) <= sendDb
    BY <2>1, AsIntBelow
  <2>3. CASE meta[x].ver <= sendDb
    BY <2>3 DEF IInv, CursorSound, Within, Sent
  <2>4. CASE ~ (meta[x].ver <= sendDb)
    BY <2>1, <2>2, <2>4 DEF Unsent, Above
  <2> QED BY <2>3, <2>4
<1> QED BY <1>1, Invariant, PTL

\* cloudsync_network_has_unsent_changes tells the truth as long as the versions fit an
\* int: the greatest version of this site is not above a sound cursor.  Where they do not
\* fit it compares other numbers.
THEOREM SilenceIsTrue ==
  ASSUME \A v \in Versions : v <= IntMax
  PROVE  Spec => []SilentMeansSent
<1>1. IInv => SilentMeansSent
  <2> SUFFICES ASSUME IInv, ~HasUnsent, NEW y \in Cells, meta[y].own PROVE Sent(y)
    BY DEF SilentMeansSent
  <2> DEFINE S == {meta[x].ver : x \in {z \in Cells : meta[z].own}}
  <2>1. \A x \in Cells : meta[x].own => meta[x].ver \in Versions
    BY MetaType DEF IInv
  <2>2. S \in SUBSET Nat /\ S # {} /\ \A s \in S : s <= IntMax
    BY <2>1, VersionsAssumption
  <2>3. PICK x \in Cells : meta[x].own /\ \A z \in Cells : meta[z].own => meta[z].ver <= meta[x].ver
    <3>1. PICK g \in S : \A s \in S : s <= g
      <4> HIDE DEF S
      <4> QED BY <2>2, IntMaxAssumption, Greatest
    <3> QED BY <3>1
  <2>4. /\ meta[x].ver \in Nat \ {0} /\ meta[x].ver <= IntMax
        /\ sendDb \in Nat /\ sendDb <= IntMax
    <3>1. meta[x].ver \in Versions /\ sendDb \in {0} \cup Versions
      BY <2>1, <2>3 DEF IInv, TypeOK
    <3>2. \A v \in Versions : v \in Nat \ {0} /\ v <= IntMax
      BY VersionsAssumption
    <3>3. meta[x].ver \in Nat \ {0} /\ meta[x].ver <= IntMax
      BY <3>1, <3>2
    <3>4. sendDb \in Nat /\ sendDb <= IntMax
      BY <3>1, <3>2, IntMaxAssumption
    <3> QED BY <3>3, <3>4
  <2>5. AsInt(meta[x].ver) = meta[x].ver /\ AsInt(sendDb) = sendDb
    BY <2>4, AsIntSame
  <2>6. meta[x].ver <= sendDb
    BY <2>3, <2>4, <2>5 DEF HasUnsent
  <2>7. meta[y].ver <= sendDb
    <3>1. meta[y].ver \in Nat /\ meta[y].ver <= meta[x].ver
      BY <2>1, <2>3, VersionsAssumption
    <3> QED BY <2>4, <2>6, <3>1
  <2> QED BY <2>7 DEF IInv, CursorSound, Within, Sent
<1> QED BY <1>1, Invariant, PTL

\* The cloud has a prefix of the current changes of this site, in db_version
\* order, at all times.
THEOREM CloudHasPrefix == Spec => []NoHole
<1>1. IInv => NoHole
  BY DEF IInv
<1> QED BY <1>1, Invariant, PTL
=============================================================================
