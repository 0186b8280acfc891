--------------------------- MODULE SyncReceiveProofs ---------------------------
(* What holds of SyncReceive for any connections, versions, seqs and INT_MAX:  *)
(* the cursor never passes a change that was not tried.                        *)
EXTENDS SyncReceive, TLAPS

-----------------------------------------------------------------------------
(* The inductive invariant.                                                  *)

Tried == applied \cup refused

\* Version v was published: what the cloud gets later is above it.
Published(v) == v = 0 \/ \E f \in feed : f[1] >= v

\* All the cloud has up to version v is in S.
Within(S, v) == \A f \in feed : f[1] <= v => f \in S

\* v can stand in a cursor.
Sound(v) == Published(v) /\ Within(Tried, v)

AskedSound == \A k \in asked : Sound(k[1])

\* The cursor that c has read, and has not asked with yet.
Reading(c) == call[c].at \in {"seq", "ask"} => Sound(call[c].db)

\* The rows of the payload of c that are still to be tried.
Ahead(c) == IF call[c].at = "download" THEN call[c].rows ELSE call[c].todo

\* A payload has all the cloud had up to each of its rows, but for what was tried.
Applying(c) ==
  call[c].at \in {"download", "baseline", "apply", "saveVersion"} =>
    /\ call[c].rows \subseteq feed
    /\ \A r \in call[c].rows : Within(Tried \cup Ahead(c), r[1])

Saving(c) == call[c].at = "saveVersion" => call[c].todo = {}

IInv ==
  /\ TypeOK /\ Sound(checkDb) /\ AskedSound
  /\ \A c \in Conns : Reading(c) /\ Applying(c) /\ Saving(c)

-----------------------------------------------------------------------------
(* Lemmas.                                                                   *)

\* The conversion to int never makes a cursor greater.
LEMMA AsIntBelow == \A n \in Nat : AsInt(n) \in Int /\ AsInt(n) <= n
BY IntMaxAssumption, SMT DEF AsInt

\* Cursors are natural numbers.
LEMMA CursorType ==
  ASSUME TypeOK
  PROVE  /\ checkDb \in Nat /\ AsInt(checkDb) \in Int /\ AsInt(checkDb) <= checkDb
         /\ \A v \in Readings(checkDb) : v \in Int /\ v <= checkDb
         /\ \A s \in Readings(checkSeq) : s \in Int
<1>1. checkDb \in Nat /\ checkSeq \in Nat
  BY VersionsAssumption, SeqsAssumption DEF TypeOK
<1> QED BY <1>1, AsIntBelow DEF Readings

\* The halves of a change are natural numbers.
LEMMA ChangeType == \A f \in Change : f[1] \in Versions /\ f[2] \in Seqs /\ f[1] \in Nat /\ f[2] \in Nat
BY VersionsAssumption, SeqsAssumption DEF Change

\* The fields of a check.
LEMMA CallType ==
  ASSUME TypeOK, NEW c \in Conns
  PROVE  /\ call[c] \in Call /\ call[c].db \in Nat /\ call[c].seq \in Nat /\ call[c].left \in Nat
         /\ call[c].rows \subseteq Change /\ call[c].todo \subseteq Change
BY DEF TypeOK, Call

\* A check that came to nothing is one that has not begun, or that ended.
LEMMA MissedType ==
  ASSUME TypeOK, NEW c \in Conns
  PROVE  Missed(c) \in Call /\ Missed(c).at \in {"idle", "version"}
<1>1. call[c].left \in Nat
  BY CallType
<1>i. Idle \in Call /\ Idle.at = "idle"
  BY DEF Idle, Call, Stages
<1>2. CASE call[c].left > 1
  <2>1. call[c].left - 1 \in Nat
    BY <1>1, <1>2
  <2>2. Missed(c) = [Idle EXCEPT !.at = "version", !.left = call[c].left - 1]
    BY <1>2 DEF Missed
  <2>3. ASSUME NEW n \in Nat
        PROVE  /\ [Idle EXCEPT !.at = "version", !.left = n] \in Call
               /\ [Idle EXCEPT !.at = "version", !.left = n].at = "version"
    BY <1>i DEF Call, Stages
  <2> QED BY <2>1, <2>2, <2>3
<1>3. CASE ~ (call[c].left > 1)
  BY <1>i, <1>3 DEF Missed
<1> QED BY <1>2, <1>3

-----------------------------------------------------------------------------
(* Type correctness.                                                         *)

\* The variables hold values of their types, whatever the cloud answers and the
\* rows' outcomes are.
THEOREM TypeCorrect == Spec => []TypeOK
<1>1. Init => TypeOK
  BY DEF Init, TypeOK, Idle, Call, Stages
<1>2. TypeOK /\ [Next]_vars => TypeOK'
  <2> SUFFICES ASSUME TypeOK, [Next]_vars PROVE TypeOK'
    OBVIOUS
  <2>0. CASE UNCHANGED vars
    BY <2>0 DEF TypeOK, vars
  <2>1. CASE Cloud
    <3> PICK v \in Versions, S \in SUBSET Seqs : Publish(v, S)
      BY <2>1 DEF Cloud
    <3>1. feed' \subseteq Change
      BY DEF Publish, TypeOK, Change
    <3> QED BY <3>1 DEF Publish, TypeOK
  <2>2. ASSUME NEW c \in Conns, Check(c) \/ ApplyPayload(c) \/ Resets(c) \/ Crash(c)
        PROVE  TypeOK'
    <3>0. call[c] \in Call /\ Idle \in Call /\ Missed(c) \in Call
      BY CallType, MissedType DEF Idle, Call, Stages
    <3>1. ASSUME NEW n \in {1, MaxTries}, Start(c, n) PROVE TypeOK'
      <4>0. n \in Nat
        BY MaxTriesAssumption
      <4>1. [Idle EXCEPT !.at = "version", !.left = n] \in Call
        BY <3>0, <4>0 DEF Call, Stages
      <4> QED BY <3>1, <4>1 DEF Start, Step, TypeOK
    <3>2. CASE ReadVersion(c)
      <4> PICK v \in Readings(checkDb) :
            Step(c, "version", IF v < 0 THEN Missed(c) ELSE [Goto(c, "seq") EXCEPT !.db = v])
        BY <3>2 DEF ReadVersion
      <4>1. CASE v < 0
        BY <3>0, <3>2, <4>1 DEF ReadVersion, Step, TypeOK
      <4>2. CASE ~ (v < 0)
        <5>1. v \in Nat
          BY <4>2, CursorType
        <5>2. [Goto(c, "seq") EXCEPT !.db = v] \in Call
          BY <3>0, <5>1 DEF Goto, Call, Stages
        <5> QED BY <3>2, <4>2, <5>2 DEF ReadVersion, Step, TypeOK
      <4> QED BY <4>1, <4>2
    <3>3. CASE ReadSeq(c)
      <4> PICK s \in Readings(checkSeq) :
            Step(c, "seq", IF s < 0 THEN Missed(c) ELSE [Goto(c, "ask") EXCEPT !.seq = s])
        BY <3>3 DEF ReadSeq
      <4>1. CASE s < 0
        BY <3>0, <3>3, <4>1 DEF ReadSeq, Step, TypeOK
      <4>2. CASE ~ (s < 0)
        <5>1. s \in Nat
          BY <4>2, CursorType
        <5>2. [Goto(c, "ask") EXCEPT !.seq = s] \in Call
          BY <3>0, <5>1 DEF Goto, Call, Stages
        <5> QED BY <3>3, <4>2, <5>2 DEF ReadSeq, Step, TypeOK
      <4> QED BY <4>1, <4>2
    <3>4. CASE Ask(c)
      <4> PICK k \in asked \cup {<<call[c].db, call[c].seq>>}, v \in Versions : Answer(c, Payload(k, v))
        BY <3>4 DEF Ask
      <4>1. Payload(k, v) \subseteq Change
        BY DEF Payload, TypeOK
      <4>2. [Goto(c, "download") EXCEPT !.db = 0, !.seq = 0, !.rows = Payload(k, v)] \in Call
        BY <3>0, <4>1 DEF Goto, Call, Stages
      <4>3. asked' \subseteq Nat \X Nat
        BY CallType DEF Answer, TypeOK
      <4> QED BY <4>2, <4>3 DEF Answer, Step, TypeOK
    <3>5. CASE AskEmpty(c)
      <4>1. asked' \subseteq Nat \X Nat
        BY <3>5, CallType DEF AskEmpty, TypeOK
      <4> QED BY <3>0, <3>5, <4>1 DEF AskEmpty, Step, TypeOK
    <3>6. CASE Fail(c) \/ Crash(c)
      BY <3>0, <3>6 DEF Fail, Crash, TypeOK
    <3>7. CASE Download(c)
      <4> PICK v \in Readings(checkDb) :
            Step(c, "download", [Goto(c, "baseline") EXCEPT !.todo = call[c].rows, !.base = v])
        BY <3>7 DEF Download
      <4>1. [Goto(c, "baseline") EXCEPT !.todo = call[c].rows, !.base = v] \in Call
        BY <3>0, CursorType DEF Goto, Call, Stages
      <4> QED BY <3>7, <4>1 DEF Download, Step, TypeOK
    <3>8. CASE Baseline(c)
      <4> PICK s \in Readings(checkSeq) :
            Step(c, "baseline", [Goto(c, "apply") EXCEPT !.baseSeq = s])
        BY <3>8 DEF Baseline
      <4>1. [Goto(c, "apply") EXCEPT !.baseSeq = s] \in Call
        BY <3>0, CursorType DEF Goto, Call, Stages
      <4> QED BY <3>8, <4>1 DEF Baseline, Step, TypeOK
    <3>9. ASSUME NEW f \in call[c].rows, Apply(c, f) \/ Refuse(c, f) PROVE TypeOK'
      <4>1. f \in Change
        BY CallType
      <4>2. applied' \subseteq Change /\ refused' \subseteq Change
        BY <3>9, <4>1 DEF Apply, Refuse, TypeOK
      <4>3. call' \in [Conns -> Call]
        <5>1. CASE Apply(c, f)
          BY <3>0, <5>1 DEF Apply, TypeOK, Call
        <5>2. CASE Refuse(c, f)
          <6>1. call[c].ok \in BOOLEAN
            BY <3>0 DEF Call
          <6>2. PICK r \in BOOLEAN : call' = [call EXCEPT ![c].todo = @ \ {f}, ![c].ok = r]
            BY <5>2, <6>1 DEF Refuse
          <6> QED BY <3>0, <6>2 DEF TypeOK, Call
        <5> QED BY <3>9, <5>1, <5>2
      <4> QED BY <3>9, <4>2, <4>3 DEF Apply, Refuse, TypeOK
    <3>10. CASE Abandon(c)
      BY <3>0, <3>10 DEF Abandon, Step, TypeOK
    <3>11. CASE Finish(c)
      <4>0. Goto(c, "saveVersion") \in Call
        BY <3>0 DEF Goto, Call, Stages
      <4>1. [Goto(c, "saveVersion") EXCEPT !.base = 0] \in Call
        BY <4>0 DEF Call
      <4> QED BY <3>0, <3>11, <4>1 DEF Finish, Step, TypeOK
    <3>12. CASE SaveVersion(c)
      <4>0. Goto(c, "saveSeq") \in Call
        BY <3>0 DEF Goto, Call, Stages
      <4>1. [Goto(c, "saveSeq") EXCEPT !.baseSeq = 0] \in Call
        BY <4>0 DEF Call
      <4>2. checkDb' \in {0} \cup Versions
        BY <3>12, CallType, ChangeType DEF SaveVersion, TypeOK
      <4> QED BY <3>0, <3>12, <4>1, <4>2 DEF SaveVersion, Step, TypeOK
    <3>13. CASE SaveSeq(c)
      <4>1. checkSeq' \in {0} \cup Seqs
        BY <3>13, CallType, ChangeType DEF SaveSeq, TypeOK
      <4> QED BY <3>0, <3>13, <4>1 DEF SaveSeq, Step, TypeOK
    <3>14. CASE Resets(c)
      <4>1. [Idle EXCEPT !.at = "resetVersion"] \in Call /\ Goto(c, "resetSeq") \in Call
        BY <3>0 DEF Goto, Call, Stages
      <4> QED BY <3>0, <3>14, <4>1 DEF Resets, Reset, ResetVersion, ResetSeq, Step, TypeOK
    <3> QED BY <2>2, <3>1, <3>2, <3>3, <3>4, <3>5, <3>6, <3>7, <3>8, <3>9, <3>10, <3>11, <3>12,
               <3>13, <3>14 DEF Check, ApplyPayload
  <2> QED BY <2>0, <2>1, <2>2 DEF Next
<1> QED BY <1>1, <1>2, PTL DEF Spec

-----------------------------------------------------------------------------
(* The inductive invariant holds.                                            *)

\* The halves of what the cloud has.
LEMMA FeedType == TypeOK => \A f \in feed : f[1] \in Nat /\ f[2] \in Nat
BY ChangeType DEF TypeOK

\* What is sound is sound below, and stays sound when more is tried.
LEMMA SoundBelow ==
  ASSUME TypeOK, NEW v \in Nat, NEW w \in Int, w <= v, 0 <= w, Sound(v)
  PROVE  Sound(w)
<1>1. \A f \in feed : f[1] \in Nat
  BY FeedType
<1>2. Published(w)
  BY <1>1 DEF Sound, Published
<1>3. Within(Tried, w)
  BY <1>1 DEF Sound, Within
<1> QED BY <1>2, <1>3 DEF Sound

\* A later transaction of the cloud is above every cursor and every payload.
LEMMA PublishKeeps ==
  ASSUME IInv, TypeOK', NEW v \in Versions, NEW S \in SUBSET Seqs, Publish(v, S)
  PROVE  IInv'
<1>1. v \in Nat /\ v # 0
  BY VersionsAssumption
<1>2. /\ \A f \in feed : f[1] \in Nat /\ f[1] < v
      /\ \A f \in feed' : f \in feed \/ f[1] = v
      /\ feed \subseteq feed'
  BY FeedType DEF IInv, Publish
<1>s. UNCHANGED <<asked, checkDb, checkSeq, applied, refused, call>>
  BY DEF Publish
<1>3. ASSUME NEW w \in Nat, Sound(w) PROVE Sound(w)'
  <2>1. w < v
    BY <1>1, <1>2, <1>3 DEF Sound, Published
  <2>2. Published(w)'
    BY <1>2, <1>3 DEF Sound, Published
  <2>3. Within(Tried, w)'
    BY <1>1, <1>2, <1>3, <1>s, <2>1 DEF Sound, Within, Tried
  <2> QED BY <2>2, <2>3 DEF Sound
<1>4. Sound(checkDb)'
  <2>1. checkDb \in Nat
    BY CursorType DEF IInv
  <2>2. Sound(checkDb)
    BY DEF IInv
  <2>3. PICK w \in Nat : w = checkDb
    BY <2>1
  <2>4. Sound(w)'
    BY <1>3, <2>2, <2>3
  <2> QED BY <1>s, <2>3, <2>4 DEF Sound, Published, Within, Tried
<1>5. AskedSound'
  <2> SUFFICES ASSUME NEW k \in asked PROVE Sound(k[1])'
    BY <1>s DEF AskedSound
  <2>1. k[1] \in Nat
    BY DEF IInv, TypeOK
  <2>2. PICK w \in Nat : w = k[1]
    BY <2>1
  <2>3. Sound(w)'
    BY <1>3, <2>2 DEF IInv, AskedSound
  <2> QED BY <2>2, <2>3
<1>6. ASSUME NEW c \in Conns PROVE Reading(c)' /\ Applying(c)' /\ Saving(c)'
  <2>1. Reading(c)'
    <3>1. PICK w \in Nat : w = call[c].db
      BY CallType DEF IInv
    <3>2. Sound(w) => Sound(w)'
      BY <1>3
    <3> QED BY <1>s, <3>1, <3>2 DEF IInv, Reading, Sound, Published, Within, Tried
  <2>2. Applying(c)'
    <3> SUFFICES ASSUME call[c].at \in {"download", "baseline", "apply", "saveVersion"},
                        NEW r \in call[c].rows, NEW f \in feed', f[1] <= r[1]
                 PROVE  call[c].rows \subseteq feed' /\ f \in Tried \cup Ahead(c)
      BY <1>2, <1>s DEF IInv, Applying, Within, Tried, Ahead
    <3>1. call[c].rows \subseteq feed /\ Within(Tried \cup Ahead(c), r[1])
      BY DEF IInv, Applying
    <3>2. r[1] \in Nat /\ r[1] < v
      BY <1>2, <3>1
    <3>3. f \in feed
      BY <1>1, <1>2, <3>2
    <3> QED BY <1>2, <3>1, <3>3 DEF Within
  <2>3. Saving(c)'
    BY <1>s DEF IInv, Saving
  <2> QED BY <2>1, <2>2, <2>3
<1> QED BY <1>4, <1>5, <1>6 DEF IInv

\* Steps of c: what was tried stays tried.
LEMMA StepKeeps ==
  ASSUME IInv, TypeOK', feed' = feed, Tried \subseteq Tried', NEW c \in Conns,
         \A d \in Conns \ {c} : call'[d] = call[d],
         \/ checkDb' = checkDb
         \/ Sound(checkDb)',
         \/ asked' = asked
         \/ asked' = asked \cup {<<call[c].db, call[c].seq>>} /\ Sound(call[c].db),
         Reading(c)', Applying(c)', Saving(c)'
  PROVE  IInv'
<1>1. \A v : Sound(v) => Sound(v)'
  BY DEF Sound, Published, Within
<1>2. Sound(checkDb)'
  BY DEF IInv, Sound, Published, Within
<1>3. AskedSound'
  <2> SUFFICES ASSUME NEW k \in asked' PROVE Sound(k[1])
    BY <1>1 DEF AskedSound, Sound, Published, Within
  <2> QED BY DEF IInv, AskedSound
<1>4. ASSUME NEW d \in Conns \ {c} PROVE Reading(d)' /\ Applying(d)' /\ Saving(d)'
  <2>1. Reading(d) /\ Applying(d) /\ Saving(d) /\ call'[d] = call[d]
    BY DEF IInv
  <2>2. Reading(d)'
    BY <2>1 DEF Reading, Sound, Published, Within
  <2>3. Applying(d)'
    BY <2>1 DEF Applying, Within, Ahead
  <2>4. Saving(d)'
    BY <2>1 DEF Saving
  <2> QED BY <2>2, <2>3, <2>4
<1> QED BY <1>2, <1>3, <1>4 DEF IInv

\* The stored cursor, every cursor read and asked with, and every payload on its
\* way have nothing below them that was neither tried nor still to be tried.
THEOREM Invariant == Spec => []IInv
<1>1. Init => IInv
  <2> SUFFICES ASSUME Init PROVE IInv
    OBVIOUS
  <2>1. TypeOK
    BY DEF Init, TypeOK, Idle, Call, Stages
  <2>2. Sound(checkDb) /\ AskedSound
    BY DEF Init, Sound, Published, Within, AskedSound
  <2>3. \A c \in Conns : Reading(c) /\ Applying(c) /\ Saving(c)
    BY DEF Init, Idle, Reading, Applying, Saving
  <2> QED BY <2>1, <2>2, <2>3 DEF IInv
<1>2. IInv /\ TypeOK' /\ [Next]_vars => IInv'
  <2> SUFFICES ASSUME IInv, TypeOK', [Next]_vars PROVE IInv'
    OBVIOUS
  <2>t. TypeOK /\ Sound(checkDb) /\ AskedSound /\ \A c \in Conns : Reading(c) /\ Applying(c) /\ Saving(c)
    BY DEF IInv
  <2>0. CASE UNCHANGED vars
    BY <2>0 DEF vars, IInv, TypeOK, Sound, Published, Within, Tried, AskedSound, Reading, Applying, Ahead, Saving
  <2>1. CASE Cloud
    BY <2>1, PublishKeeps DEF Cloud
  <2>2. ASSUME NEW c \in Conns, Check(c) \/ ApplyPayload(c) \/ Resets(c) \/ Crash(c)
        PROVE  IInv'
    <3>c. call \in [Conns -> Call] /\ call[c] \in Call
      BY <2>t DEF TypeOK
    <3>m. Missed(c).at \in {"idle", "version"} /\ Idle.at = "idle"
      BY <2>t, MissedType DEF Idle
    <3>1. ASSUME feed' = feed, asked' = asked, applied' = applied, refused' = refused,
                 checkDb' = checkDb \/ checkDb' = 0,
                 \A d \in Conns \ {c} : call'[d] = call[d],
                 call'[c].at \in {"idle", "version", "saveSeq", "resetVersion", "resetSeq"}
          PROVE  IInv'
      <4>1. Reading(c)' /\ Applying(c)' /\ Saving(c)'
        BY <3>1 DEF Reading, Applying, Saving
      <4>2. CASE checkDb' = checkDb
        BY <3>1, <4>1, <4>2, StepKeeps DEF Tried
      <4>3. CASE checkDb' = 0
        <5>1. \A f \in feed : ~ (f[1] <= 0)
          BY <2>t, ChangeType, VersionsAssumption DEF TypeOK
        <5>2. Sound(checkDb)'
          BY <3>1, <4>3, <5>1 DEF Sound, Published, Within
        <5> QED BY <3>1, <4>1, <5>2, StepKeeps DEF Tried
      <4> QED BY <3>1, <4>2, <4>3
    <3>2. CASE \E n \in {1, MaxTries} : Start(c, n)
      <4>1. call'[c].at = "version"
        BY <3>2, <3>c DEF Start, Step, Idle
      <4> QED BY <3>1, <3>2, <3>c, <4>1 DEF Start, Step
    <3>3. CASE ReadVersion(c)
      <4> PICK v \in Readings(checkDb) :
            Step(c, "version", IF v < 0 THEN Missed(c) ELSE [Goto(c, "seq") EXCEPT !.db = v])
        BY <3>3 DEF ReadVersion
      <4>1. CASE v < 0
        BY <3>1, <3>3, <3>c, <3>m, <4>1 DEF ReadVersion, Step
      <4>2. CASE ~ (v < 0)
        <5>1. Sound(v)
          <6>1. checkDb \in Nat /\ v \in Int /\ v <= checkDb /\ 0 <= v
            BY <2>t, <4>2, CursorType
          <6> QED BY <2>t, <6>1, SoundBelow
        <5>2. call'[c].at = "seq" /\ call'[c].db = v
          BY <3>3, <3>c, <4>2 DEF ReadVersion, Step, Goto, Call
        <5>3. Reading(c)' /\ Applying(c)' /\ Saving(c)'
          BY <3>3, <5>1, <5>2 DEF ReadVersion, Reading, Applying, Saving, Sound, Published, Within, Tried
        <5> QED BY <3>3, <3>c, <5>3, StepKeeps DEF ReadVersion, Step, Tried
      <4> QED BY <4>1, <4>2
    <3>4. CASE ReadSeq(c)
      <4> PICK s \in Readings(checkSeq) :
            Step(c, "seq", IF s < 0 THEN Missed(c) ELSE [Goto(c, "ask") EXCEPT !.seq = s])
        BY <3>4 DEF ReadSeq
      <4>1. CASE s < 0
        BY <3>1, <3>4, <3>c, <3>m, <4>1 DEF ReadSeq, Step
      <4>2. CASE ~ (s < 0)
        <5>1. call[c].at = "seq" /\ call'[c].at = "ask" /\ call'[c].db = call[c].db
          BY <3>4, <3>c, <4>2 DEF ReadSeq, Step, Goto, Call
        <5>2. Reading(c)' /\ Applying(c)' /\ Saving(c)'
          BY <2>t, <3>4, <5>1 DEF ReadSeq, Reading, Applying, Saving, Sound, Published, Within, Tried
        <5> QED BY <3>4, <3>c, <5>2, StepKeeps DEF ReadSeq, Step, Tried
      <4> QED BY <4>1, <4>2
    <3>5. CASE Ask(c)
      <4> PICK k \in asked \cup {<<call[c].db, call[c].seq>>}, v \in Versions : Answer(c, Payload(k, v))
        BY <3>5 DEF Ask
      <4> DEFINE rows == Payload(k, v)
      <4>1. call[c].at = "ask" /\ Sound(call[c].db)
        BY <2>t DEF Answer, Step, Reading
      <4>2. Sound(k[1]) /\ k \in Nat \X Nat
        <5>1. CASE k \in asked
          BY <2>t, <5>1 DEF AskedSound, TypeOK
        <5>2. CASE k = <<call[c].db, call[c].seq>>
          BY <2>t, <4>1, <5>2, CallType
        <5> QED BY <5>1, <5>2
      <4>3. rows \subseteq feed
        BY DEF Payload
      <4>4. ASSUME NEW r \in rows, NEW f \in feed, f[1] <= r[1] PROVE f \in Tried \cup rows
        <5>1. v \in Nat /\ f[1] \in Nat /\ f[2] \in Nat /\ r[1] \in Nat /\ k[1] \in Nat /\ k[2] \in Nat
          BY <2>t, <4>2, <4>3, FeedType, VersionsAssumption
        <5>2. f[1] <= v
          BY <4>4, <5>1 DEF Payload
        <5>3. CASE Above(f[1], f[2], k[1], k[2])
          BY <5>2, <5>3 DEF Payload
        <5>4. CASE ~Above(f[1], f[2], k[1], k[2])
          <6>1. f[1] <= k[1]
            BY <5>1, <5>4 DEF Above
          <6> QED BY <4>2, <6>1 DEF Sound, Within
        <5> QED BY <5>3, <5>4
      <4> HIDE DEF rows
      <4>5. call'[c].at = "download" /\ call'[c].rows = rows
        BY <3>c DEF Answer, Step, Goto, Call, rows
      <4>6. Reading(c)' /\ Saving(c)'
        BY <4>5 DEF Reading, Saving
      <4>7. Applying(c)'
        BY <4>3, <4>4, <4>5 DEF Answer, Applying, Within, Ahead, Tried
      <4> QED BY <3>c, <4>1, <4>6, <4>7, StepKeeps DEF Answer, Step, Tried
    <3>6. CASE AskEmpty(c)
      <4>1. call[c].at = "ask" /\ Sound(call[c].db)
        BY <2>t, <3>6 DEF AskEmpty, Step, Reading
      <4>2. call'[c].at \in {"idle", "version"}
        BY <3>6, <3>c, <3>m DEF AskEmpty, Step
      <4>3. Reading(c)' /\ Applying(c)' /\ Saving(c)'
        BY <4>2 DEF Reading, Applying, Saving
      <4> QED BY <3>6, <3>c, <4>1, <4>3, StepKeeps DEF AskEmpty, Step, Tried
    <3>7. CASE Fail(c) \/ Crash(c)
      BY <3>1, <3>7, <3>c, <3>m DEF Fail, Crash
    <3>8. CASE Download(c)
      <4> PICK v \in Readings(checkDb) :
            Step(c, "download", [Goto(c, "baseline") EXCEPT !.todo = call[c].rows, !.base = v])
        BY <3>8 DEF Download
      <4>1. /\ call[c].at = "download" /\ call'[c].at = "baseline"
            /\ call'[c].rows = call[c].rows /\ call'[c].todo = call[c].rows
        BY <3>8, <3>c DEF Download, Step, Goto, Call
      <4>2. Reading(c)' /\ Saving(c)'
        BY <4>1 DEF Reading, Saving
      <4>3. Applying(c)'
        BY <2>t, <3>8, <4>1 DEF Download, Applying, Within, Ahead, Tried
      <4> QED BY <3>8, <3>c, <4>2, <4>3, StepKeeps DEF Download, Step, Tried
    <3>9. CASE Baseline(c)
      <4> PICK s \in Readings(checkSeq) :
            Step(c, "baseline", [Goto(c, "apply") EXCEPT !.baseSeq = s])
        BY <3>9 DEF Baseline
      <4>1. /\ call[c].at = "baseline" /\ call'[c].at = "apply"
            /\ call'[c].rows = call[c].rows /\ call'[c].todo = call[c].todo
        BY <3>9, <3>c DEF Baseline, Step, Goto, Call
      <4>2. Reading(c)' /\ Saving(c)'
        BY <4>1 DEF Reading, Saving
      <4>3. Applying(c)'
        BY <2>t, <3>9, <4>1 DEF Baseline, Applying, Within, Ahead, Tried
      <4> QED BY <3>9, <3>c, <4>2, <4>3, StepKeeps DEF Baseline, Step, Tried
    <3>10. ASSUME NEW f \in call[c].rows, Apply(c, f) \/ Refuse(c, f) PROVE IInv'
      <4>1. Tried' = Tried \cup {f}
        BY <3>10 DEF Apply, Refuse, Tried
      <4>2. /\ call[c].at = "apply" /\ call'[c].at = "apply"
            /\ call'[c].rows = call[c].rows /\ call'[c].todo = call[c].todo \ {f}
        BY <3>10, <3>c DEF Apply, Refuse, IsNext, Call
      <4>3. Reading(c)' /\ Saving(c)'
        BY <4>2 DEF Reading, Saving
      <4>4. UNCHANGED <<feed, asked, checkDb>> /\ \A d \in Conns \ {c} : call'[d] = call[d]
        BY <3>10, <3>c DEF Apply, Refuse
      <4>5. Applying(c)'
        BY <2>t, <4>1, <4>2, <4>4 DEF Applying, Within, Ahead
      <4> QED BY <4>1, <4>3, <4>4, <4>5, StepKeeps
    <3>11. CASE Abandon(c)
      BY <3>1, <3>11, <3>c, <3>m DEF Abandon, Step
    <3>12. CASE Finish(c)
      <4> PICK f \in call[c].rows :
            IsLast(c, f) /\ Step(c, "apply", IF Passed(c, f) THEN [Goto(c, "saveVersion") EXCEPT !.base = 0] ELSE Idle)
        BY <3>12 DEF Finish
      <4>1. CASE ~Passed(c, f)
        BY <3>1, <3>12, <3>c, <3>m, <4>1 DEF Finish, Step
      <4>2. CASE Passed(c, f)
        <5>1. /\ call[c].at = "apply" /\ call'[c].at = "saveVersion" /\ call[c].todo = {}
              /\ call'[c].rows = call[c].rows /\ call'[c].todo = call[c].todo
          BY <3>12, <3>c, <4>2 DEF Finish, Step, Goto, Call
        <5>2. Reading(c)' /\ Saving(c)'
          BY <5>1 DEF Reading, Saving
        <5>3. Applying(c)'
          BY <2>t, <3>12, <5>1 DEF Finish, Applying, Within, Ahead, Tried
        <5> QED BY <3>12, <3>c, <5>2, <5>3, StepKeeps DEF Finish, Step, Tried
      <4> QED BY <4>1, <4>2
    <3>13. CASE SaveVersion(c)
      <4> PICK f \in call[c].rows :
            /\ Step(c, "saveVersion", IF f[2] # call[c].baseSeq THEN [Goto(c, "saveSeq") EXCEPT !.baseSeq = 0] ELSE Idle)
            /\ checkDb' \in {f[1], checkDb}
        BY <3>13 DEF SaveVersion
      <4>1. call[c].at = "saveVersion" /\ call'[c].at \in {"saveSeq", "idle"}
        BY <3>c, <3>m DEF Step, Goto, Call
      <4>2. UNCHANGED <<feed, asked, applied, refused>> /\ \A d \in Conns \ {c} : call'[d] = call[d]
        BY <3>13, <3>c DEF SaveVersion, Step
      <4>3. Reading(c)' /\ Applying(c)' /\ Saving(c)'
        BY <4>1 DEF Reading, Applying, Saving
      <4>4. Sound(f[1])
        <5>1. f \in feed /\ Within(Tried, f[1])
          BY <2>t, <4>1 DEF Applying, Saving, Ahead, Within
        <5>2. f[1] \in Nat
          BY <2>t, <5>1, FeedType
        <5> QED BY <5>1, <5>2 DEF Sound, Published
      <4>5. checkDb' = checkDb \/ Sound(checkDb)'
        BY <4>2, <4>4 DEF Sound, Published, Within, Tried
      <4> QED BY <4>2, <4>3, <4>5, StepKeeps DEF Tried
    <3>14. CASE SaveSeq(c)
      BY <3>1, <3>14, <3>c, <3>m DEF SaveSeq, Step
    <3>15. CASE Resets(c)
      <4>1. call'[c].at \in {"idle", "resetVersion", "resetSeq"} /\ \A d \in Conns \ {c} : call'[d] = call[d]
        BY <3>15, <3>c DEF Resets, Reset, ResetVersion, ResetSeq, Step, Goto, Idle, Call
      <4> QED BY <3>1, <3>15, <4>1 DEF Resets, Reset, ResetVersion, ResetSeq
    <3> QED BY <2>2, <3>2, <3>3, <3>4, <3>5, <3>6, <3>7, <3>8, <3>9, <3>10, <3>11, <3>12, <3>13,
               <3>14, <3>15 DEF Check, ApplyPayload
  <2> QED BY <2>0, <2>1, <2>2 DEF Next
<1> QED BY <1>1, <1>2, TypeCorrect, PTL DEF Spec

-----------------------------------------------------------------------------
(* What the invariant gives.                                                 *)

\* Every change of the cloud that a check would not ask for was tried: for every
\* interleaving of checks, late and repeated payloads, failures, crashes and
\* resets, and also when the cursor does not fit an int.
THEOREM NothingIsPassed == Spec => []NoSilentGap
<1>1. IInv => NoSilentGap
  <2> SUFFICES ASSUME IInv, NEW f \in Behind PROVE f \in Tried
    BY DEF NoSilentGap, Tried
  <2>1. /\ checkDb \in Nat /\ AsInt(checkDb) \in Int /\ AsInt(checkDb) <= checkDb
        /\ f \in feed /\ f[1] \in Nat
    BY CursorType, FeedType DEF IInv, Behind
  <2>2. f[1] <= checkDb
    BY <2>1 DEF Behind, Above
  <2> QED BY <2>1, <2>2 DEF IInv, Sound, Within
<1> QED BY <1>1, Invariant, PTL
-----------------------------------------------------------------------------
(* A late payload, for one connection.                                       *)

\* A cursor that an int can hold is read as it is.
LEMMA AsIntSame == \A n \in Nat : n <= IntMax => AsInt(n) = n
<1> SUFFICES ASSUME NEW n \in Nat, n <= IntMax PROVE AsInt(n) = n
  OBVIOUS
<1> DEFINE w == IntMax + 1
<1>1. IntMax \in Nat /\ w \in Nat /\ w > 0 /\ n < w
  BY IntMaxAssumption
<1> HIDE DEF w
<1>2. n + w \in 0..(2 * w - 1)
  BY <1>1
<1>3. (n + w) % (2 * w) = n + w
  BY <1>1, <1>2
<1>4. (n + w) - w = n
  BY <1>1
<1>5. n + IntMax + 1 = n + w
  BY <1>1 DEF w
<1> QED BY <1>3, <1>4, <1>5 DEF AsInt, w

\* Between the download and the write, the cursor that c compares with is the stored one.
Compared(c) ==
  /\ call[c].at \in {"baseline", "apply"} => call[c].base = checkDb
  /\ call[c].at = "saveVersion" => \A f \in call[c].rows : IsLast(c, f) => f[1] >= checkDb

\* A payload has one last row.
LEMMA OneLast ==
  ASSUME TypeOK, NEW c \in Conns, NEW f, IsLast(c, f), NEW g, IsLast(c, g)
  PROVE  f = g
<1>1. f[1] \in Nat /\ f[2] \in Nat /\ g[1] \in Nat /\ g[2] \in Nat
  BY CallType, ChangeType DEF IsLast
<1>2. ASSUME f # g PROVE FALSE
  <2>1. Above(f[1], f[2], g[1], g[2]) /\ Above(g[1], g[2], f[1], f[2])
    BY <1>2 DEF IsLast
  <2> QED BY <1>1, <2>1 DEF Above
<1> QED BY <1>2

\* If the site has one connection, which does not reset the cursor, and the cloud's versions
\* fit an int, no payload moves the cursor back, however late it comes: the guard of
\* cloudsync_payload_apply suffices.
THEOREM CursorStays ==
  ASSUME \A c, d \in Conns : c = d, \A v \in Versions : v <= IntMax
  PROVE  LoneSpec => CursorKept
<1> DEFINE I == TypeOK /\ \A c \in Conns : Compared(c)
           Kept == checkDb' >= checkDb
<1>1. Init => I
  <2>1. Init => TypeOK
    BY DEF Init, TypeOK, Idle, Call, Stages
  <2>2. Init => \A c \in Conns : Compared(c)
    BY DEF Init, Compared, Idle
  <2> QED BY <2>1, <2>2
<1>2. ASSUME I, TypeOK', [LoneNext]_vars PROVE I' /\ Kept
  <2>0. checkDb \in Nat /\ AsInt(checkDb) = checkDb
    <3>1. checkDb \in Nat /\ checkDb <= IntMax
      BY <1>2, VersionsAssumption, IntMaxAssumption DEF TypeOK
    <3> QED BY <3>1, AsIntSame
  <2>1. CASE UNCHANGED vars
    BY <1>2, <2>0, <2>1 DEF vars, Compared, IsLast
  <2>2. CASE Cloud
    <3>1. UNCHANGED <<checkDb, call>>
      BY <2>2 DEF Cloud, Publish
    <3> QED BY <1>2, <2>0, <3>1 DEF Compared, IsLast
  <2>3. ASSUME NEW c \in Conns, Check(c) \/ ApplyPayload(c) \/ Crash(c),
               Download(c) => call'[c].base = AsInt(checkDb)
        PROVE  Compared(c)' /\ Kept
    <3>0. /\ call[c] \in Call /\ call \in [Conns -> Call] /\ Compared(c)
          /\ Idle.at = "idle" /\ Missed(c).at \in {"idle", "version"}
      <4>1. call \in [Conns -> Call] /\ call[c] \in Call /\ Compared(c)
        BY <1>2 DEF TypeOK
      <4>2. Idle.at = "idle"
        BY DEF Idle
      <4>3. Missed(c).at \in {"idle", "version"}
        BY <4>1, <4>2 DEF Missed, Start, Call
      <4> QED BY <4>1, <4>2, <4>3
    <3>1. CASE Check(c) \/ Abandon(c) \/ SaveSeq(c) \/ Crash(c)
      <4>1. checkDb' = checkDb
        BY <3>1 DEF Check, Start, ReadVersion, ReadSeq, Ask, Answer, AskEmpty, Fail, Abandon, SaveSeq, Crash
      <4>2. call'[c].at \in {"idle", "version", "seq", "ask", "download"}
        <5>1. \A x \in {"seq", "ask", "download"} : Goto(c, x).at = x
          BY <3>0 DEF Goto, Call
        <5>2. CASE \E n \in {1, MaxTries} : Start(c, n)
          BY <3>0, <5>2 DEF Start, Step, Idle
        <5>3. CASE ReadVersion(c)
          <6>1. PICK v \in Readings(checkDb) :
                  Step(c, "version", IF v < 0 THEN Missed(c) ELSE [Goto(c, "seq") EXCEPT !.db = v])
            BY <5>3 DEF ReadVersion
          <6>2. [Goto(c, "seq") EXCEPT !.db = v].at = "seq"
            BY <3>0 DEF Goto, Call
          <6> QED BY <3>0, <6>1, <6>2 DEF Step
        <5>4. CASE ReadSeq(c)
          <6>1. PICK s \in Readings(checkSeq) :
                  Step(c, "seq", IF s < 0 THEN Missed(c) ELSE [Goto(c, "ask") EXCEPT !.seq = s])
            BY <5>4 DEF ReadSeq
          <6>2. [Goto(c, "ask") EXCEPT !.seq = s].at = "ask"
            BY <3>0 DEF Goto, Call
          <6> QED BY <3>0, <6>1, <6>2 DEF Step
        <5>5. CASE Ask(c)
          <6>1. PICK X : Answer(c, X)
            BY <5>5 DEF Ask
          <6>2. [Goto(c, "download") EXCEPT !.db = 0, !.seq = 0, !.rows = X].at = "download"
            BY <3>0 DEF Goto, Call
          <6> QED BY <3>0, <6>1, <6>2 DEF Answer, Step
        <5>6. CASE AskEmpty(c) \/ Fail(c) \/ Abandon(c) \/ SaveSeq(c) \/ Crash(c)
          BY <3>0, <5>6 DEF AskEmpty, Fail, Abandon, SaveSeq, Crash, Step
        <5> QED BY <3>1, <5>2, <5>3, <5>4, <5>5, <5>6 DEF Check
      <4> QED BY <2>0, <4>1, <4>2 DEF Compared
    <3>2. CASE Download(c)
      <4>1. checkDb' = checkDb /\ call'[c].base = checkDb
        BY <2>0, <2>3, <3>2 DEF Download
      <4>2. call'[c].at = "baseline"
        BY <3>0, <3>2 DEF Download, Step, Goto, Call
      <4> QED BY <2>0, <4>1, <4>2 DEF Compared
    <3>3. CASE Baseline(c)
      <4>1. PICK s \in Readings(checkSeq) :
              Step(c, "baseline", [Goto(c, "apply") EXCEPT !.baseSeq = s])
        BY <3>3 DEF Baseline
      <4>2. /\ [Goto(c, "apply") EXCEPT !.baseSeq = s].at = "apply"
            /\ [Goto(c, "apply") EXCEPT !.baseSeq = s].base = call[c].base
        BY <3>0 DEF Goto, Call
      <4>3. checkDb' = checkDb /\ call'[c].at = "apply" /\ call'[c].base = call[c].base
        BY <3>0, <3>3, <4>1, <4>2 DEF Step, Baseline
      <4>4. call[c].base = checkDb
        BY <3>0, <4>1 DEF Compared, Step
      <4> QED BY <2>0, <4>3, <4>4 DEF Compared
    <3>4. ASSUME NEW f, Apply(c, f) \/ Refuse(c, f) PROVE Compared(c)' /\ Kept
      <4>1. checkDb' = checkDb /\ call[c].at = "apply"
        BY <3>4 DEF Apply, Refuse, IsNext
      <4>2. call'[c].at = "apply" /\ call'[c].base = call[c].base
        BY <3>0, <3>4, <4>1 DEF Apply, Refuse, Call
      <4>3. call[c].base = checkDb
        BY <3>0, <4>1 DEF Compared
      <4> QED BY <2>0, <4>1, <4>2, <4>3 DEF Compared
    <3>5. CASE Finish(c)
      <4>1. PICK f \in call[c].rows :
              IsLast(c, f) /\ Step(c, "apply", IF Passed(c, f) THEN [Goto(c, "saveVersion") EXCEPT !.base = 0] ELSE Idle)
        BY <3>5 DEF Finish
      <4>2. checkDb' = checkDb /\ call[c].base = checkDb
        BY <3>0, <3>5, <4>1 DEF Finish, Step, Compared
      <4>3. CASE Passed(c, f)
        <5>1. call'[c] = [Goto(c, "saveVersion") EXCEPT !.base = 0]
          BY <3>0, <4>1, <4>3 DEF Step
        <5>2. /\ [Goto(c, "saveVersion") EXCEPT !.base = 0].at = "saveVersion"
              /\ [Goto(c, "saveVersion") EXCEPT !.base = 0].rows = call[c].rows
          BY <3>0 DEF Goto, Call
        <5>3. \A g : IsLast(c, g)' => IsLast(c, g)
          BY <5>1, <5>2 DEF IsLast
        <5>4. \A g : IsLast(c, g) => g[1] >= checkDb
          BY <1>2, <4>1, <4>2, <4>3, OneLast DEF Passed
        <5> QED BY <2>0, <4>2, <5>1, <5>2, <5>3, <5>4 DEF Compared
      <4>4. CASE ~Passed(c, f)
        BY <2>0, <3>0, <4>1, <4>2, <4>4 DEF Step, Compared
      <4> QED BY <4>3, <4>4
    <3>6. CASE SaveVersion(c)
      <4>1. PICK f \in call[c].rows :
              /\ IsLast(c, f)
              /\ Step(c, "saveVersion", IF f[2] # call[c].baseSeq THEN [Goto(c, "saveSeq") EXCEPT !.baseSeq = 0] ELSE Idle)
              /\ checkDb' \in {f[1], checkDb}
        BY <3>6 DEF SaveVersion
      <4>2. f[1] >= checkDb
        BY <3>0, <4>1 DEF Compared, Step
      <4>3. call'[c].at \in {"saveSeq", "idle"}
        <5>1. [Goto(c, "saveSeq") EXCEPT !.baseSeq = 0].at = "saveSeq"
          BY <3>0 DEF Goto, Call
        <5> QED BY <3>0, <4>1, <5>1 DEF Step
      <4> QED BY <2>0, <4>1, <4>2, <4>3 DEF Compared
    <3> QED BY <2>3, <3>1, <3>2, <3>3, <3>4, <3>5, <3>6 DEF ApplyPayload
  <2> QED BY <1>2, <2>1, <2>2, <2>3 DEF LoneNext
<1>3. LoneSpec => []TypeOK
  <2>1. [LoneNext]_vars => [Next]_vars
    BY DEF LoneNext, Next
  <2>2. LoneSpec => Spec
    BY <2>1, PTL DEF LoneSpec, Spec
  <2> QED BY <2>2, TypeCorrect, PTL
<1>4. Kept => checkDb' >= checkDb
  OBVIOUS
<1> HIDE DEF I, Kept
<1>5. I /\ TypeOK' /\ [LoneNext]_vars => I' /\ Kept
  BY <1>2
<1>6. Kept => [checkDb' >= checkDb]_vars
  BY <1>4
<1> QED BY <1>1, <1>3, <1>5, <1>6, PTL DEF LoneSpec, CursorKept
=============================================================================
