------------------------------- MODULE LwwMap ---------------------------------
(***************************************************************************)
(* What the replication of one table promises, without its statements: a   *)
(* map replicated by updates that are joined.                              *)
(*                                                                         *)
(* A replica keeps, for every key, the number of the key's life (the       *)
(* causal length: odd while the row exists) and for each column a stamp, a *)
(* (version, value) pair.  An update tells of one column in one life, or   *)
(* of the life alone.  Absorbing it takes the greater life, in which all   *)
(* columns start at Bottom, and the greater stamp.  Absorbing is a join,   *)
(* so neither the order nor the repetition of updates matters.             *)
(*                                                                         *)
(* CloudSyncMerge implements this module.                                  *)
(***************************************************************************)
EXTENDS Integers

CONSTANTS Sites, Keys, Cols, Values

Bottom == <<0, 0>>
Stamps == Nat \X Values

VARIABLES
  clock,    \* clock[s][k]: what replica s holds of key k
  known     \* known[s]: the updates s has made or absorbed

vars == <<clock, known>>

Clock == [life : Nat, reg : [Cols -> Stamps]]

\* An update of the life alone has no columns.
Update == [key : Keys, life : Nat, cols : SUBSET Cols, stamp : Stamps]

Unborn == [life |-> 0, reg |-> [c \in Cols |-> Bottom]]

Leq(a, b) == a[1] < b[1] \/ (a[1] = b[1] /\ a[2] <= b[2])

Greater(a, b) == IF Leq(a, b) THEN b ELSE a

\* x is at most y
ClockLeq(x, y) ==
  /\ x.life <= y.life
  /\ x.life = y.life => \A c \in Cols : Leq(x.reg[c], y.reg[c])

Absorb(x, u) ==
  IF u.life < x.life THEN x
  ELSE [life |-> u.life,
        reg  |-> [c \in Cols |->
          Greater(IF u.life > x.life THEN Bottom ELSE x.reg[c],
                  IF c \in u.cols THEN u.stamp ELSE Bottom)]]

\* The update tells nothing that x does not include.
Covers(x, u) ==
  /\ u.life <= x.life
  /\ u.life = x.life => \A c \in u.cols : Leq(u.stamp, x.reg[c])

\* x is the join of the updates U of one key.
IsJoin(x, U) ==
  /\ \A u \in U : Covers(x, u)
  /\ x.life > 0 => \E u \in U : u.life = x.life
  /\ \A c \in Cols : x.reg[c] # Bottom =>
       \E u \in U : u.life = x.life /\ c \in u.cols /\ u.stamp = x.reg[c]

\* The update says what x holds.
Tells(x, u) == u.life = x.life /\ \A c \in u.cols : u.stamp = x.reg[c]

Init ==
  /\ clock = [s \in Sites |-> [k \in Keys |-> Unborn]]
  /\ known = [s \in Sites |-> {}]

\* Other replicas are not touched; s makes, or passes on, only updates that it
\* has absorbed.
Local(s) ==
  /\ \A t \in Sites \ {s} : clock'[t] = clock[t] /\ known'[t] = known[t]
  /\ known[s] \subseteq known'[s]
  /\ \A u \in known'[s] : Covers(clock'[s][u.key], u) \/ u \in known[s]

\* The user writes at s: clocks only go up, the new updates say what s holds
\* now, and they leave nothing out.
Write(s) ==
  /\ Local(s)
  /\ \A u \in known'[s] \ known[s] : Tells(clock'[s][u.key], u)
  /\ \A k \in Keys : /\ ClockLeq(clock[s][k], clock'[s][k])
                      /\ IsJoin(clock'[s][k], {u \in known'[s] : u.key = k})

\* s absorbs one update of another replica, and changes nothing else.
Receive(s) ==
  /\ Local(s)
  /\ \E u \in known'[s] \cap UNION {known[t] : t \in Sites} :
       clock'[s] = [clock[s] EXCEPT ![u.key] = Absorb(@, u)]

Next == \E s \in Sites : Receive(s) \/ Write(s)

Spec == Init /\ [][Next]_vars
===============================================================================
