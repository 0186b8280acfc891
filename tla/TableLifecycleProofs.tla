-------------------------- MODULE TableLifecycleProofs --------------------------
(***************************************************************************)
(* Proofs about TableLifecycle, for any connections, keys, columns and     *)
(* rows, of connections used with care.                                    *)
(*                                                                         *)
(* The argument: what is committed, and what a transaction sees outside of *)
(* an alteration, is Recorded; in an alteration that kept the key the      *)
(* metadata stays Alterable, and compacting makes of that what an init can *)
(* complete (Repairable).  A schema that is not the newest one announced   *)
(* is owed by a connection in behind whose memory does not hide it (Owes). *)
(***************************************************************************)
EXTENDS TableLifecycle, TLAPS

\* cloudsync_finalize_alter sees every change of the key.
NamesTellKeys == \A k, l \in Keys : k # l => KeyDiffers(k, Len(k), l)

NoMarks == [p \in Pks |-> Blank]

\* The rows an initialisation does not repair.
StillLoose(f) == IF f.has THEN {p \in f.loose : p \in f.rows => Dead(f, p)} ELSE {}

\* Metadata that cloudsync_init_internal completes.
Repairable(f) ==
  /\ ~f.has => f.marks = NoMarks
  /\ \A p \in Pks : f.marks[p].cols \subseteq f.cols
  /\ \A p \in f.rows \ f.loose : ~Dead(f, p)
  /\ \A p \in Pks \ (f.rows \cup f.loose) : f.marks[p].rip # "alive" /\ f.marks[p].cols = {}

\* It is complete while there are triggers.
Recorded(f) ==
  /\ Repairable(f)
  /\ f.has /\ f.trig =>
       \A p \in f.rows \ f.loose : f.marks[p] # Blank /\ f.marks[p].cols = f.cols

\* Metadata that a compacting makes repairable.
Alterable(f) ==
  /\ ~f.has => f.marks = NoMarks
  /\ \A p \in f.rows \ f.loose : ~Dead(f, p)

\* What the connection that alters the table remembers of it as it was.
Begun(s) ==
  mem[holder].tab.begun # <<>> =>
    mem[holder].tab.begun = s.key /\ mem[holder].tab.npks = Len(s.key)

RecordsInv ==
  /\ Recorded(file)
  /\ save = {} => Recorded(work)
  /\ \A s \in save : Recorded(s) /\ Begun(s) /\ (work.key = s.key => Alterable(work))

\* A connection with this context, when it updates the schema hash, will not find the
\* schema's in its memory.
Owes(m, f) == m.pc \in {"triggers", "settings", "hash"} => m.hash # SchemaOf(f)

\* A schema that is not announced is owed; d, who writes, owes what it commits.
Announced(f, d) == f.algo /\ f.newest # SchemaOf(f) => \E c \in f.behind : c = d \/ Owes(mem[c], f)

HashInv ==
  /\ \A c \in Conns : mem[c].pc \in {"triggers", "settings", "site"} => mem[c].tab.begun = <<>>
  /\ save # {} /\ mem[holder].tab.begun # <<>> => mem[holder].hash \in {NoSchema, work.newest}
  /\ Announced(file, holder)
  /\ save = {} => Announced(work, NoConn)
  /\ \A s \in save : Announced(s, holder)

(***************************************************************************)
(* What the operators return.                                              *)
(***************************************************************************)
\* A key is a sequence with a length.
LEMMA KeyType == \A k \in Keys : Len(k) \in Nat /\ k # <<>>
BY KeysAssumption

\* A row without entries.
LEMMA BlankType == Blank \in Mark
BY DEF Blank, Mark

\* The entries of a row stay entries of a row.
LEMMA MarkTypes ==
  ASSUME NEW m \in Mark, NEW C \in SUBSET Cols
  PROVE  Blank \in Mark /\ InsertMark(m, C) \in Mark /\ DeleteMark(m) \in Mark /\ RefillMark(m, C) \in Mark
BY DEF Mark, Blank, InsertMark, DeleteMark, RefillMark

\* A refill completes an entry and kills nobody.
LEMMA RefillFacts ==
  ASSUME NEW m \in Mark, NEW C \in SUBSET Cols, m.cols \subseteq C
  PROVE  /\ RefillMark(m, C).cols = C
         /\ RefillMark(m, C) # Blank
         /\ RefillMark(m, C).rip = "dead" => m.rip = "dead"
<1>1. CASE m = Blank
  <2>1. m.cols = {} /\ m.rip = "none"
    BY <1>1 DEF Blank
  <2>2. InsertMark(m, C) = [rip |-> IF C = {} THEN "alive" ELSE "none", cols |-> C]
    BY <2>1 DEF InsertMark
  <2>3. RefillMark(m, C) = InsertMark(m, C)
    BY <1>1 DEF RefillMark
  <2>4. QED
    BY <2>2, <2>3 DEF Blank
<1>2. CASE m # Blank
  <2>1. RefillMark(m, C) = [m EXCEPT !.cols = C]
    <3>1. m.cols \cup C = C
      OBVIOUS
    <3>2. QED
      BY <1>2, <3>1 DEF RefillMark
  <2>2. RefillMark(m, C).cols = C /\ RefillMark(m, C).rip = m.rip
    BY <2>1 DEF Mark
  <2>3. m.rip # "none" \/ m.cols # {}
    BY <1>2 DEF Blank, Mark
  <2>4. QED
    BY <2>2, <2>3 DEF Blank
<1>3. QED
  BY <1>1, <1>2

\* There is always a site id to install.
LEMMA NewSiteType == NewSite \in SiteIds
BY SiteIdsAssumption DEF NewSite

\* dbutils_settings_init touches the site id alone.
LEMMA InstalledFacts ==
  ASSUME NEW f \in File
  PROVE  /\ Installed(f) \in File
         /\ Installed(f) = [f EXCEPT !.site = Installed(f).site]
         /\ f.site # NoSite => Installed(f) = f
BY NewSiteType DEF Installed, File

\* The context of a table is what was compiled for it.
LEMMA TableOfFacts ==
  ASSUME NEW f \in File
  PROVE  /\ TableOf(f) \in Table
         /\ TableOf(f).in /\ TableOf(f).cols = f.cols
         /\ TableOf(f).npks = Len(f.key) /\ TableOf(f).begun = <<>>
BY KeyType DEF TableOf, Table, File

\* NoTable and NoContext are states of memory.
LEMMA NothingLoaded ==
  /\ NoTable \in Table /\ ~NoTable.in /\ NoTable.begun = <<>>
  /\ NoContext \in Context /\ NoContext.pc = "idle" /\ NoContext.tab = NoTable
BY DEF NoTable, Table, NoContext, Context

\* cloudsync_context_init adds a table, or leaves the one there is.
LEMMA LoadedFacts ==
  ASSUME NEW m \in Context, NEW f \in File
  PROVE  /\ Loaded(m, f) \in Context
         /\ Loaded(m, f).pc = m.pc
         /\ Loaded(m, f).tab \in {m.tab, TableOf(f)}
         /\ Loaded(m, f).hash \in {m.hash, f.newest}
<1>1. Installed(f).site \in SiteIds \cup {NoSite} /\ TableOf(f) \in Table
  BY InstalledFacts, TableOfFacts DEF File
<1>2. f.newest \in Schema \cup {NoSchema}
  BY DEF File
<1>3. QED
  BY <1>1, <1>2 DEF Loaded, Context

\* Dropping the metadata table.
LEMMA DropFacts ==
  ASSUME NEW f \in File
  PROVE  /\ Drop(f) \in File
         /\ Drop(f).drops # f.drops
         /\ ~Drop(f).has /\ Drop(f).marks = NoMarks
         /\ Drop(f).rows = f.rows /\ Drop(f).loose = f.loose
         /\ Drop(f).cols = f.cols /\ Drop(f).key = f.key
         /\ Drop(f).algo = f.algo /\ Drop(f).newest = f.newest /\ Drop(f).behind = f.behind
         /\ Drop(f).site = f.site /\ Drop(f).trig = f.trig
<1> DEFINE d == f.drops + 1
<1>1. NoMarks \in [Pks -> Mark]
  BY MarkTypes DEF NoMarks, Mark, Blank
<1>2. Drop(f) = [f EXCEPT !.has = FALSE, !.marks = NoMarks, !.drops = d]
  BY DEF Drop, NoMarks
<1>3. d \in Nat /\ d # f.drops
  BY DEF File
<1> HIDE DEF d
<1>4. Drop(f) \in File
  BY <1>1, <1>2, <1>3 DEF File
<1>5. QED
  BY <1>2, <1>3, <1>4 DEF File

\* Compacting the metadata table.
LEMMA CompactFacts ==
  ASSUME NEW f \in File
  PROVE  /\ Compact(f) \in File
         /\ \A p \in f.rows : Compact(f).marks[p] = [f.marks[p] EXCEPT !.cols = @ \cap f.cols]
         /\ \A p \in Pks \ f.rows :
              Compact(f).marks[p] = IF Dead(f, p) THEN [f.marks[p] EXCEPT !.cols = {}] ELSE Blank
         /\ Compact(f).loose = f.loose \cap f.rows
         /\ Compact(f).rows = f.rows /\ Compact(f).drops = f.drops
         /\ Compact(f).cols = f.cols /\ Compact(f).key = f.key
         /\ Compact(f).algo = f.algo /\ Compact(f).newest = f.newest /\ Compact(f).behind = f.behind
         /\ Compact(f).has = f.has /\ Compact(f).trig = f.trig
<1> DEFINE marks == [p \in Pks |-> IF p \in f.rows THEN [f.marks[p] EXCEPT !.cols = @ \cap f.cols]
                                   ELSE IF Dead(f, p) THEN [f.marks[p] EXCEPT !.cols = {}] ELSE Blank]
           loose == f.loose \cap f.rows
<1>1. \A p \in Pks : f.marks[p] \in Mark
  BY DEF File
<1>2. marks \in [Pks -> Mark]
  BY <1>1, MarkTypes DEF Mark
<1>3. Compact(f) = [f EXCEPT !.marks = marks, !.loose = loose]
  BY DEF Compact
<1>4. /\ \A p \in f.rows : marks[p] = [f.marks[p] EXCEPT !.cols = @ \cap f.cols]
      /\ \A p \in Pks \ f.rows :
           marks[p] = IF Dead(f, p) THEN [f.marks[p] EXCEPT !.cols = {}] ELSE Blank
  BY DEF File
<1>5. loose \in SUBSET Pks
  BY DEF File
<1> HIDE DEF marks, loose
<1>6. Compact(f) \in File /\ Compact(f).marks = marks /\ Compact(f).loose = loose
  BY <1>2, <1>3, <1>5 DEF File
<1>7. /\ Compact(f).rows = f.rows /\ Compact(f).drops = f.drops
      /\ Compact(f).cols = f.cols /\ Compact(f).key = f.key
      /\ Compact(f).algo = f.algo /\ Compact(f).newest = f.newest /\ Compact(f).behind = f.behind
      /\ Compact(f).has = f.has /\ Compact(f).trig = f.trig
  BY <1>3 DEF File
<1>8. QED
  BY <1>4, <1>6, <1>7 DEF loose

\* What an initialisation leaves in the file.
LEMMA AugmentFacts ==
  ASSUME NEW c \in Conns, NEW f \in File, NEW C \in SUBSET Cols
  PROVE  /\ Augment(c, f, C) \in File
         /\ \A p \in f.rows : Augment(c, f, C).marks[p] = RefillMark(f.marks[p], C)
         /\ \A p \in Pks \ f.rows : Augment(c, f, C).marks[p] = f.marks[p]
         /\ Augment(c, f, C).loose = StillLoose(f)
         /\ Augment(c, f, C).rows = f.rows /\ Augment(c, f, C).drops = f.drops
         /\ Augment(c, f, C).cols = f.cols /\ Augment(c, f, C).key = f.key
         /\ Augment(c, f, C).newest = f.newest
         /\ Augment(c, f, C).behind = f.behind \cup {c}
         /\ Augment(c, f, C).algo /\ Augment(c, f, C).has /\ Augment(c, f, C).trig
<1> DEFINE marks == [p \in Pks |-> IF p \in f.rows THEN RefillMark(f.marks[p], C) ELSE f.marks[p]]
           loose == StillLoose(f)
           behind == f.behind \cup {c}
<1>1. \A p \in Pks : f.marks[p] \in Mark
  BY DEF File
<1>2. marks \in [Pks -> Mark]
  BY <1>1, MarkTypes
<1>3. Augment(c, f, C) = [f EXCEPT !.algo = TRUE, !.trig = TRUE, !.has = TRUE, !.behind = behind,
                                   !.marks = marks, !.loose = loose]
  BY DEF Augment, StillLoose
<1>4. /\ \A p \in f.rows : marks[p] = RefillMark(f.marks[p], C)
      /\ \A p \in Pks \ f.rows : marks[p] = f.marks[p]
  BY DEF File
<1>5. loose \in SUBSET Pks
  BY DEF File, StillLoose
<1>6. behind \in SUBSET Conns
  BY DEF File
<1> HIDE DEF marks, loose, behind
<1>7. /\ Augment(c, f, C) \in File
      /\ Augment(c, f, C).marks = marks /\ Augment(c, f, C).loose = loose
      /\ Augment(c, f, C).behind = behind
      /\ Augment(c, f, C).algo /\ Augment(c, f, C).has /\ Augment(c, f, C).trig
  BY <1>2, <1>3, <1>5, <1>6 DEF File
<1>8. /\ Augment(c, f, C).rows = f.rows /\ Augment(c, f, C).drops = f.drops
      /\ Augment(c, f, C).cols = f.cols /\ Augment(c, f, C).key = f.key
      /\ Augment(c, f, C).newest = f.newest
  BY <1>3 DEF File
<1>9. QED
  BY <1>4, <1>7, <1>8 DEF loose, behind

\* An initialisation completes what is repairable, when it marks the columns of
\* the table.
LEMMA AugmentRecords ==
  ASSUME NEW c \in Conns, NEW f \in File, Repairable(f),
         NEW C \in SUBSET Cols, C = f.cols
  PROVE  Recorded(Augment(c, f, C))
<1> DEFINE g == Augment(c, f, C)
<1>1. f.rows \in SUBSET Pks /\ \A p \in Pks : f.marks[p] \in Mark
  BY DEF File
<1>2. /\ g.rows = f.rows /\ g.cols = C /\ g.has
      /\ \A p \in f.rows : g.marks[p] = RefillMark(f.marks[p], C)
      /\ \A p \in Pks \ f.rows : g.marks[p] = f.marks[p]
      /\ g.loose = StillLoose(f)
  BY AugmentFacts
<1> HIDE DEF g
<1>3. \A p \in f.rows : /\ g.marks[p].cols = C /\ g.marks[p] # Blank
                        /\ g.marks[p].rip = "dead" => Dead(f, p)
  <2> TAKE p \in f.rows
  <2>1. f.marks[p] \in Mark /\ f.marks[p].cols \subseteq f.cols
    BY <1>1 DEF Repairable
  <2>2. QED
    <3>1. g.marks[p] = RefillMark(f.marks[p], C)
      BY <1>2
    <3>2. /\ RefillMark(f.marks[p], C).cols = C
          /\ RefillMark(f.marks[p], C) # Blank
          /\ RefillMark(f.marks[p], C).rip = "dead" => f.marks[p].rip = "dead"
      BY <2>1, RefillFacts
    <3>3. QED
      BY <3>1, <3>2 DEF Dead
<1>4. ~f.has => \A p \in Pks : f.marks[p] = Blank
  BY DEF Repairable, NoMarks
<1>5. \A p \in g.rows \ g.loose : ~Dead(g, p)
  <2> TAKE p \in g.rows \ g.loose
  <2>1. p \in f.rows /\ p \in Pks
    BY <1>1, <1>2
  <2>2. ~f.has => ~Dead(f, p)
    BY <1>4, <2>1 DEF Dead, Blank
  <2>3. f.has => ~Dead(f, p)
    BY <1>2, <2>1 DEF Repairable, StillLoose
  <2>4. QED
    BY <1>3, <2>1, <2>2, <2>3 DEF Dead
<1>6. \A p \in Pks \ (g.rows \cup g.loose) : g.marks[p].rip # "alive" /\ g.marks[p].cols = {}
  <2> TAKE p \in Pks \ (g.rows \cup g.loose)
  <2>1. p \notin f.rows /\ g.marks[p] = f.marks[p]
    BY <1>2
  <2>2. CASE f.has
    BY <1>2, <2>1, <2>2 DEF Repairable, StillLoose
  <2>3. CASE ~f.has
    BY <1>4, <2>1, <2>3 DEF Blank
  <2>4. QED
    BY <2>2, <2>3
<1>7. \A p \in Pks : g.marks[p].cols \subseteq g.cols
  BY <1>2, <1>3 DEF Repairable
<1>8. QED
  BY <1>2, <1>3, <1>5, <1>6, <1>7 DEF Recorded, Repairable, g

\* Compacting makes alterable metadata repairable.
LEMMA CompactRepairs ==
  ASSUME NEW f \in File, Alterable(f)
  PROVE  Repairable(Compact(f))
<1> DEFINE g == Compact(f)
<1>1. f.rows \in SUBSET Pks /\ f.loose \in SUBSET Pks /\ \A p \in Pks : f.marks[p] \in Mark
  BY DEF File
<1>2. /\ g \in File /\ g.rows = f.rows /\ g.cols = f.cols /\ g.has = f.has
      /\ \A p \in f.rows : g.marks[p] = [f.marks[p] EXCEPT !.cols = @ \cap f.cols]
      /\ \A p \in Pks \ f.rows :
           g.marks[p] = IF Dead(f, p) THEN [f.marks[p] EXCEPT !.cols = {}] ELSE Blank
      /\ g.loose = f.loose \cap f.rows
  BY CompactFacts
<1> HIDE DEF g
<1>3. \A p \in f.rows : g.marks[p].rip = f.marks[p].rip /\ g.marks[p].cols = f.marks[p].cols \cap f.cols
  BY <1>1, <1>2 DEF Mark
<1>4. \A p \in Pks \ f.rows : g.marks[p].rip # "alive" /\ g.marks[p].cols = {}
  <2> TAKE p \in Pks \ f.rows
  <2>1. g.marks[p] = IF Dead(f, p) THEN [f.marks[p] EXCEPT !.cols = {}] ELSE Blank
    BY <1>2
  <2>2. f.marks[p] \in Mark
    BY <1>1
  <2>3. QED
    BY <2>1, <2>2 DEF Mark, Dead, Blank
<1>5. ~f.has => \A p \in Pks : g.marks[p] = Blank
  <2> SUFFICES ASSUME ~f.has, NEW p \in Pks
               PROVE  g.marks[p] = Blank
    OBVIOUS
  <2>1. f.marks[p] = Blank
    BY DEF Alterable, NoMarks
  <2>2. QED
    BY <1>2, <2>1 DEF Dead, Blank
<1>6. ~g.has => g.marks = NoMarks
  BY <1>2, <1>5 DEF File, NoMarks
<1>7. \A p \in g.rows \ g.loose : ~Dead(g, p)
  BY <1>2, <1>3 DEF Alterable, Dead
<1>8. \A p \in Pks : g.marks[p].cols \subseteq g.cols
  BY <1>2, <1>3, <1>4
<1>9. QED
  BY <1>2, <1>4, <1>6, <1>7, <1>8 DEF Repairable, g

\* What the three conditions say of a table does not depend on its site id.
LEMMA InstalledRecords ==
  ASSUME NEW f \in File
  PROVE  /\ Repairable(f) => Repairable(Installed(f))
         /\ Recorded(f) => Recorded(Installed(f))
         /\ Alterable(f) => Alterable(Installed(f))
<1> DEFINE g == Installed(f)
<1>1. /\ g.has = f.has /\ g.trig = f.trig /\ g.marks = f.marks
      /\ g.cols = f.cols /\ g.rows = f.rows /\ g.loose = f.loose
  BY InstalledFacts DEF File
<1> HIDE DEF g
<1>2. QED
  BY <1>1 DEF Repairable, Recorded, Alterable, Dead, g

\* An empty metadata table is repairable.
LEMMA DropRepairs ==
  ASSUME NEW f \in File
  PROVE  Repairable(Drop(f))
<1>1. \A p \in Pks : Drop(f).marks[p] = Blank
  BY DropFacts DEF NoMarks
<1>2. Drop(f).rows \in SUBSET Pks
  BY DropFacts DEF File
<1>3. QED
  BY <1>1, <1>2, DropFacts DEF Repairable, Dead, Blank

\* cloudsync_finalize_alter.
LEMMA FinalizeFacts ==
  ASSUME NEW f \in File, NEW t \in Table
  PROVE  /\ FinalizeAlter(f, t) \in File
         /\ FinalizeAlter(f, t).cols = f.cols /\ FinalizeAlter(f, t).key = f.key
         /\ FinalizeAlter(f, t).rows = f.rows
         /\ FinalizeAlter(f, t).newest = f.newest /\ FinalizeAlter(f, t).behind = f.behind
         /\ KeyDiffers(t.begun, t.npks, f.key) \/ Alterable(f) => Repairable(FinalizeAlter(f, t))
         /\ FinalizeAlter(f, t).drops = f.drops =>
              \A p \in Pks \ f.rows : Dead(f, p) => Dead(FinalizeAlter(f, t), p)
<1>1. CASE KeyDiffers(t.begun, t.npks, f.key)
  <2>1. FinalizeAlter(f, t) = Drop(f)
    BY <1>1 DEF FinalizeAlter
  <2>2. QED
    BY <2>1, DropFacts, DropRepairs
<1>2. CASE ~KeyDiffers(t.begun, t.npks, f.key)
  <2>1. FinalizeAlter(f, t) = Compact(f)
    BY <1>2 DEF FinalizeAlter
  <2>2. \A p \in Pks \ f.rows : Dead(f, p) => Dead(Compact(f), p)
    <3> SUFFICES ASSUME NEW p \in Pks \ f.rows, Dead(f, p)
                 PROVE  Dead(Compact(f), p)
      OBVIOUS
    <3>1. Compact(f).marks[p] = [f.marks[p] EXCEPT !.cols = {}]
      BY CompactFacts
    <3>2. f.marks[p] \in Mark
      BY DEF File
    <3>3. QED
      BY <3>1, <3>2 DEF Dead, Mark
  <2>3. QED
    BY <1>2, <2>1, <2>2, CompactFacts, CompactRepairs
<1>3. QED
  BY <1>1, <1>2

(***************************************************************************)
(* Transactions.                                                           *)
(***************************************************************************)
\* The part of TypeOK that is about the file.
Files ==
  /\ file \in File /\ work \in File
  /\ holder \in Conns \cup {NoConn} /\ explicit \in BOOLEAN
  /\ save \subseteq File
  /\ holder = NoConn => work = file /\ save = {} /\ ~explicit

\* A connection that can write sees the transaction in progress.
LEMMA ViewFacts ==
  ASSUME TypeOK, NEW c \in Conns
  PROVE  View(c) \in File /\ (CanWrite(c) => View(c) = work)
BY NoConnAssumption DEF TypeOK, View, CanWrite

\* A write keeps the types.
LEMMA WriteTypes ==
  ASSUME TypeOK, NEW c \in Conns, CanWrite(c), NEW g \in File, Write(c, g)
  PROVE  Files'
BY NoConnAssumption DEF TypeOK, Files, CanWrite, Write

\* So do the end of an alteration, and a rollback.
LEMMA EndTypes ==
  ASSUME TypeOK, NEW g \in File, (save # {} /\ Release(g)) \/ Undo
  PROVE  Files'
<1>1. CASE save # {} /\ Release(g) /\ explicit
  BY <1>1 DEF TypeOK, Files, Release
<1>2. CASE save # {} /\ Release(g) /\ ~explicit
  BY <1>2 DEF TypeOK, Files, Release
<1>3. CASE Undo
  BY <1>3 DEF TypeOK, Files, Undo
<1>4. QED
  BY <1>1, <1>2, <1>3

\* A connection's memory changes alone.
LEMMA RememberTypes ==
  ASSUME TypeOK, NEW c \in Conns, NEW m \in Context, Remember(c, m)
  PROVE  /\ mem' \in [Conns -> Context] /\ mem'[c] = m
         /\ \A d \in Conns \ {c} : mem'[d] = mem[d]
BY DEF TypeOK, Remember

\* A row and its entry written, or a row that no trigger recorded.
RowWritten(f, R, p, m) == [f EXCEPT !.rows = R, !.marks[p] = m]
RowMissed(f, R, p)     == [f EXCEPT !.rows = R, !.loose = @ \cup {p}]

\* A statement of the application writes one row and its entry.
LEMMA WrittenFacts ==
  ASSUME NEW f \in File, NEW p \in Pks, NEW R \in SUBSET Pks, NEW m \in Mark
  PROVE  /\ RowWritten(f, R, p, m) \in File
         /\ RowWritten(f, R, p, m).rows = R /\ RowWritten(f, R, p, m).loose = f.loose
         /\ RowWritten(f, R, p, m).cols = f.cols /\ RowWritten(f, R, p, m).key = f.key
         /\ RowWritten(f, R, p, m).has = f.has /\ RowWritten(f, R, p, m).trig = f.trig
         /\ RowWritten(f, R, p, m).algo = f.algo /\ RowWritten(f, R, p, m).newest = f.newest
         /\ RowWritten(f, R, p, m).behind = f.behind
         /\ RowWritten(f, R, p, m).marks[p] = m
         /\ \A q \in Pks \ {p} : RowWritten(f, R, p, m).marks[q] = f.marks[q]
<1> DEFINE marks == [f.marks EXCEPT ![p] = m]
           g == RowWritten(f, R, p, m)
<1>1. marks \in [Pks -> Mark] /\ g = [f EXCEPT !.rows = R, !.marks = marks]
  BY DEF File, RowWritten
<1>2. marks[p] = m /\ \A q \in Pks \ {p} : marks[q] = f.marks[q]
  BY DEF File
<1> HIDE DEF marks, g
<1>3. /\ g \in File /\ g.marks = marks /\ g.loose = f.loose
      /\ g.rows = R /\ g.cols = f.cols /\ g.key = f.key /\ g.has = f.has /\ g.trig = f.trig
      /\ g.algo = f.algo /\ g.newest = f.newest /\ g.behind = f.behind
  BY <1>1 DEF File
<1>4. QED
  BY <1>2, <1>3 DEF g

\* The file g has the structure and the settings of f.
SameSettings(g, f) ==
  /\ g \in File
  /\ g.cols = f.cols /\ g.key = f.key /\ g.algo = f.algo
  /\ g.newest = f.newest /\ g.behind = f.behind

\* So has what a write leaves.
LEMMA WrittenSame ==
  ASSUME NEW f \in File, NEW p \in Pks, NEW R \in SUBSET Pks, NEW m \in Mark
  PROVE  SameSettings(RowWritten(f, R, p, m), f)
<1> DEFINE g == RowWritten(f, R, p, m)
<1>1. g \in File
  BY WrittenFacts
<1>2. /\ g.cols = f.cols /\ g.key = f.key /\ g.algo = f.algo
      /\ g.newest = f.newest /\ g.behind = f.behind
  BY DEF RowWritten, File
<1> QED BY <1>1, <1>2 DEF SameSettings

\* Or it says that the row is not recorded.
LEMMA MissedFacts ==
  ASSUME NEW f \in File, NEW p \in Pks, NEW R \in SUBSET Pks
  PROVE  /\ RowMissed(f, R, p) \in File
         /\ RowMissed(f, R, p).rows = R /\ RowMissed(f, R, p).loose = f.loose \cup {p}
         /\ RowMissed(f, R, p).cols = f.cols /\ RowMissed(f, R, p).key = f.key
         /\ RowMissed(f, R, p).has = f.has /\ RowMissed(f, R, p).trig = f.trig
         /\ RowMissed(f, R, p).algo = f.algo /\ RowMissed(f, R, p).newest = f.newest
         /\ RowMissed(f, R, p).behind = f.behind
         /\ RowMissed(f, R, p).marks = f.marks
<1> DEFINE loose == f.loose \cup {p}
           h == RowMissed(f, R, p)
<1>1. loose \in SUBSET Pks /\ h = [f EXCEPT !.rows = R, !.loose = loose]
  BY DEF File, RowMissed
<1> HIDE DEF loose, h
<1>2. /\ h \in File /\ h.marks = f.marks /\ h.loose = loose
      /\ h.rows = R /\ h.cols = f.cols /\ h.key = f.key /\ h.has = f.has /\ h.trig = f.trig
      /\ h.algo = f.algo /\ h.newest = f.newest /\ h.behind = f.behind
  BY <1>1 DEF File
<1>3. QED
  BY <1>2 DEF h, loose

(***************************************************************************)
(* Type correctness.                                                       *)
(***************************************************************************)
\* A site id, once installed, is of the right type; so is a hash.
LEMMA SchemaTypes ==
  ASSUME NEW f \in File
  PROVE  /\ SchemaOf(f) \in Schema
         /\ SchemaOf(f) # NoSchema
         /\ f.newest \in Schema \cup {NoSchema}
         /\ f.key \in Keys
BY KeyType DEF File, Schema, SchemaOf, NoSchema

\* What a new connection has.
LEMMA OpenedFacts ==
  ASSUME NEW f \in File
  PROVE  /\ Opened(f) \in Context /\ Opened(f).pc = "idle" /\ Opened(f).tab.begun = <<>>
BY NothingLoaded, LoadedFacts, TableOfFacts DEF Opened

\* The update of the schema hash.
LEMMA HashTypes ==
  ASSUME NEW f \in File, NEW h \in Schema \cup {NoSchema}, NEW B \in SUBSET Conns
  PROVE  [f EXCEPT !.newest = h, !.behind = B] \in File
BY DEF File

\* A step that writes what a file can be, or leaves the files, and remembers what a
\* context can be.
LEMMA TypesKept ==
  ASSUME TypeOK, NEW c \in Conns,
         \/ UNCHANGED <<file, work, holder, explicit, save>>
         \/ CanWrite(c) /\ \E g \in File : Write(c, g),
         mem' = mem \/ \E m \in Context : Remember(c, m)
  PROVE  TypeOK'
<1>1. Files'
  <2>1. CASE UNCHANGED <<file, work, holder, explicit, save>>
    BY <2>1 DEF TypeOK, Files
  <2>2. CASE CanWrite(c) /\ \E g \in File : Write(c, g)
    BY <2>2, WriteTypes
  <2>3. QED
    BY <2>1, <2>2
<1>2. mem' \in [Conns -> Context]
  <2>1. CASE mem' = mem
    BY <2>1 DEF TypeOK
  <2>2. CASE \E m \in Context : Remember(c, m)
    BY <2>2, RememberTypes
  <2>3. QED
    BY <2>1, <2>2
<1>3. QED
  BY <1>1, <1>2 DEF TypeOK, Files

\* cloudsync_init.
LEMMA InitFacts ==
  ASSUME TypeOK, NEW c \in Conns, CloudsyncInit(c)
  PROVE  /\ CanWrite(c) /\ Idle(c)
         /\ \E g \in File, n \in Context, C \in SUBSET Cols :
              /\ g = Augment(c, Installed(work), C) /\ Write(c, g)
              /\ Fresh(c) => C = work.cols
              /\ Remember(c, n) /\ n.pc = "hash" /\ n.hash \in {mem[c].hash, work.newest}
              /\ n.tab.begun = <<>> \/ (n.tab.begun = mem[c].tab.begun /\ n.tab.npks = mem[c].tab.npks)
<1> DEFINE m == Loaded(mem[c], work)
           t == IF m.tab.in THEN m.tab ELSE TableOf(work)
           n == [m EXCEPT !.tab = t, !.pc = "hash"]
           g == Augment(c, Installed(work), t.cols)
<1>1. mem[c] \in Context /\ work \in File /\ View(c) = work /\ CanWrite(c)
  BY ViewFacts DEF TypeOK, CloudsyncInit
<1>2. Idle(c) /\ Write(c, g) /\ Remember(c, n)
  BY <1>1 DEF CloudsyncInit
<1>3. /\ m \in Context /\ m.tab \in Table /\ m.hash \in {mem[c].hash, work.newest}
      /\ m.tab \in {mem[c].tab, TableOf(work)}
      /\ TableOf(work) \in Table /\ TableOf(work).cols = work.cols /\ TableOf(work).begun = <<>>
  BY <1>1, LoadedFacts, TableOfFacts DEF Context
<1>4. t \in Table /\ (Fresh(c) => t.cols = work.cols) /\ t \in {mem[c].tab, TableOf(work)}
  BY <1>1, <1>3 DEF Fresh
<1> HIDE DEF m, t
<1>5. n \in Context /\ n.pc = "hash" /\ n.hash = m.hash /\ n.tab = t
  BY <1>3, <1>4 DEF Context
<1>6. t.cols \in SUBSET Cols
  BY <1>4 DEF Table
<1>7. g \in File
  BY <1>1, <1>6, InstalledFacts, AugmentFacts
<1> HIDE DEF n
<1>8. QED
  BY <1>1, <1>2, <1>3, <1>4, <1>5, <1>6, <1>7

\* Two states of the file that differ in settings and, perhaps, in triggers dropped.
SameTable(g, f) ==
  /\ g.has = f.has /\ g.marks = f.marks /\ g.cols = f.cols /\ g.key = f.key
  /\ g.rows = f.rows /\ g.loose = f.loose /\ g.drops = f.drops
  /\ g.trig => f.trig

\* dbutils_update_schema_hash.
LEMMA UpdateHashFacts ==
  ASSUME TypeOK, NEW c \in Conns, UpdateHash(c)
  PROVE  \E g \in File, n \in Context :
           /\ Remember(c, n) /\ n.tab = mem[c].tab /\ n.pc = "idle"
           /\ \/ ~CanWrite(c) /\ UNCHANGED <<file, work, holder, explicit, save>>
              \/ /\ CanWrite(c) /\ Write(c, g) /\ SameTable(g, work)
                 /\ g.algo = work.algo /\ g.behind = work.behind \ {c}
                 /\ \/ /\ ~work.algo \/ mem[c].hash = SchemaOf(work)
                       /\ g.newest = work.newest /\ n.hash = mem[c].hash
                    \/ g.newest = SchemaOf(work) /\ n.hash = SchemaOf(work)
<1>1. mem[c] \in Context /\ work \in File /\ (CanWrite(c) => View(c) = work)
  BY ViewFacts DEF TypeOK
<1>2. CASE ~CanWrite(c)
  <2> DEFINE n == [mem[c] EXCEPT !.pc = "idle"]
  <2>1. n \in Context /\ n.tab = mem[c].tab /\ n.pc = "idle"
    BY <1>1 DEF Context
  <2>2. Remember(c, n) /\ UNCHANGED <<file, work, holder, explicit, save>>
    BY <1>2 DEF UpdateHash
  <2> HIDE DEF n
  <2>3. QED
    BY <1>1, <1>2, <2>1, <2>2
<1>3. CASE CanWrite(c)
  <2> DEFINE same == ~work.algo \/ mem[c].hash = SchemaOf(work)
             h == IF same THEN work.newest ELSE SchemaOf(work)
             k == IF same THEN mem[c].hash ELSE SchemaOf(work)
             B == work.behind \ {c}
             g == [work EXCEPT !.newest = h, !.behind = B]
             n == [mem[c] EXCEPT !.hash = k, !.pc = "idle"]
  <2>1. h \in Schema \cup {NoSchema} /\ k \in Schema \cup {NoSchema} /\ B \in SUBSET Conns
    BY <1>1, SchemaTypes DEF File, Context
  <2>2. Write(c, g) /\ Remember(c, n)
    BY <1>1, <1>3 DEF UpdateHash
  <2>3. \/ same /\ h = work.newest /\ k = mem[c].hash
        \/ h = SchemaOf(work) /\ k = SchemaOf(work)
    OBVIOUS
  <2> HIDE DEF h, k
  <2>4. n \in Context /\ n.tab = mem[c].tab /\ n.pc = "idle" /\ n.hash = k
    BY <1>1, <2>1 DEF Context
  <2>5. g \in File /\ SameTable(g, work) /\ g.algo = work.algo /\ g.behind = B /\ g.newest = h
    BY <1>1, <2>1 DEF File, SameTable
  <2> HIDE DEF g, n
  <2>6. QED
    BY <1>3, <2>2, <2>3, <2>4, <2>5
<1>4. QED
  BY <1>2, <1>3

\* cloudsync_context_init makes no alteration.
LEMMA LoadedBegun ==
  ASSUME NEW m \in Context, NEW f \in File
  PROVE  \/ Loaded(m, f).tab.begun = <<>>
         \/ Loaded(m, f).tab.begun = m.tab.begun /\ Loaded(m, f).tab.npks = m.tab.npks
BY LoadedFacts, TableOfFacts

\* cloudsync_begin_alter.
LEMMA BeginAlterFacts ==
  ASSUME TypeOK, NEW c \in Conns, BeginAlter(c)
  PROVE  /\ save = {} /\ save' = {work} /\ holder' = c
         /\ work' \in File /\ SameTable(work', work)
         /\ work'.newest = work.newest /\ work'.algo = work.algo /\ work'.behind = work.behind
         /\ UNCHANGED file /\ Idle(c)
         /\ \E n \in Context :
              /\ Remember(c, n) /\ n.pc = mem[c].pc /\ n.hash \in {mem[c].hash, work.newest}
              /\ n.tab.begun = work.key /\ n.tab.npks = Len(work.key)
<1> DEFINE m == Loaded(mem[c], work)
           n == [m EXCEPT !.tab.begun = work.key]
<1>1. mem[c] \in Context /\ work \in File /\ View(c) = work
  BY ViewFacts DEF TypeOK, BeginAlter
<1>2. m \in Context /\ m.hash \in {mem[c].hash, work.newest} /\ m.pc = mem[c].pc
  BY <1>1, LoadedFacts
<1>3. /\ m.tab.npks = Len(work.key) /\ Remember(c, n)
      /\ work' = [work EXCEPT !.trig = FALSE]
  BY <1>1 DEF BeginAlter
<1> HIDE DEF m
<1>4. n \in Context /\ n.tab.begun = work.key /\ n.tab.npks = m.tab.npks /\ n.hash = m.hash /\ n.pc = m.pc
  <2> DEFINE t == [m.tab EXCEPT !.begun = work.key]
  <2>1. t \in Table /\ t.begun = work.key /\ t.npks = m.tab.npks
    BY <1>1, <1>2 DEF Context, Table, File
  <2>2. n = [m EXCEPT !.tab = t]
    BY <1>2 DEF Context
  <2> HIDE DEF t
  <2>3. QED
    BY <1>2, <2>1, <2>2 DEF Context
<1> HIDE DEF n
<1>5. /\ work' \in File /\ SameTable(work', work)
      /\ work'.newest = work.newest /\ work'.algo = work.algo /\ work'.behind = work.behind
  BY <1>1, <1>3 DEF File, SameTable
<1>6. QED
  BY <1>1, <1>2, <1>3, <1>4, <1>5 DEF BeginAlter

\* It keeps the types.
LEMMA BeginAlterTypes ==
  ASSUME TypeOK, NEW c \in Conns, BeginAlter(c)
  PROVE  TypeOK'
<1>1. mem' \in [Conns -> Context]
  BY BeginAlterFacts, RememberTypes
<1>2. work' \in File /\ holder' = c /\ save' = {work} /\ UNCHANGED <<file, explicit>>
  BY BeginAlterFacts DEF BeginAlter
<1>3. QED
  BY <1>1, <1>2, NoConnAssumption DEF TypeOK

\* What cloudsync_commit_alter leaves in the file, when it succeeds.
Committed(c, f, t) == Augment(c, FinalizeAlter(Installed(f), t), TableOf(f).cols)

\* It is completed, and keeps the tombstones unless it drops everything.
LEMMA CommittedFacts ==
  ASSUME NEW c \in Conns, NEW f \in File, NEW t \in Table
  PROVE  /\ Committed(c, f, t) \in File
         /\ Committed(c, f, t).cols = f.cols /\ Committed(c, f, t).key = f.key
         /\ Committed(c, f, t).newest = f.newest
         /\ c \in Committed(c, f, t).behind
         /\ KeyDiffers(t.begun, t.npks, f.key) \/ Alterable(f) => Recorded(Committed(c, f, t))
         /\ Committed(c, f, t).drops = f.drops =>
              \A p \in Pks : Dead(f, p) => Dead(Committed(c, f, t), p) \/ p \in Committed(c, f, t).rows
<1> DEFINE i == Installed(f)
           g == FinalizeAlter(i, t)
<1>1. /\ i \in File /\ i.cols = f.cols /\ i.key = f.key /\ i.newest = f.newest
      /\ i.rows = f.rows /\ i.drops = f.drops /\ i.marks = f.marks
      /\ Alterable(f) => Alterable(i)
  BY InstalledFacts, InstalledRecords DEF File
<1> HIDE DEF i
<1>2. /\ g \in File /\ g.cols = i.cols /\ g.key = i.key /\ g.rows = i.rows /\ g.newest = i.newest
      /\ KeyDiffers(t.begun, t.npks, i.key) \/ Alterable(i) => Repairable(g)
      /\ g.drops = i.drops => \A p \in Pks \ i.rows : Dead(i, p) => Dead(g, p)
  BY <1>1, FinalizeFacts
<1>3. TableOf(f).cols = f.cols /\ f.cols \in SUBSET Cols
  BY TableOfFacts DEF File
<1> HIDE DEF g
<1>4. Committed(c, f, t) = Augment(c, g, f.cols)
  BY <1>3 DEF Committed, g, i
<1> DEFINE C == f.cols
           a == Augment(c, g, C)
<1>5. C \in SUBSET Cols /\ C = g.cols
  BY <1>1, <1>2, <1>3
<1> HIDE DEF C
<1>6. /\ a \in File /\ a.cols = g.cols /\ a.key = g.key /\ a.newest = g.newest /\ a.rows = g.rows
      /\ a.behind = g.behind \cup {c} /\ a.drops = g.drops
      /\ \A p \in Pks \ g.rows : a.marks[p] = g.marks[p]
  BY <1>2, <1>5, AugmentFacts
<1>7. Repairable(g) => Recorded(a)
  BY <1>2, <1>5, AugmentRecords
<1>8. Committed(c, f, t) = a
  BY <1>4 DEF C
<1> HIDE DEF a
<1>9. ASSUME a.drops = f.drops, NEW p \in Pks, Dead(f, p), p \notin a.rows
      PROVE  Dead(a, p)
  BY <1>1, <1>2, <1>6, <1>9 DEF Dead
<1>10. QED
  BY <1>1, <1>2, <1>6, <1>7, <1>8, <1>9

\* cloudsync_commit_alter.
LEMMA CommitAlterFacts ==
  ASSUME TypeOK, NEW c \in Conns, CommitAlter(c)
  PROVE  /\ CanWrite(c) /\ mem[c].tab.begun # <<>>
         /\ \E g \in File, n \in Context :
              /\ g = Committed(c, work, mem[c].tab)
              /\ Remember(c, n) /\ n.tab.begun = <<>> /\ n.hash \in {mem[c].hash, work.newest}
              /\ \/ save # {} /\ Release(g) /\ n.pc = "hash"
                 \/ save # {} /\ (\E s \in save : Release(s)) /\ n.pc = "idle"
                 \/ save = {} /\ Write(c, g) /\ n.pc = "idle"
<1> DEFINE m == Loaded(mem[c], work)
           t == TableOf(work)
           g == Committed(c, work, m.tab)
<1>1. mem[c] \in Context /\ work \in File /\ View(c) = work /\ CanWrite(c) /\ mem[c].pc = "idle"
  BY ViewFacts DEF TypeOK, CommitAlter, Idle
<1>2. /\ m \in Context /\ m.tab \in Table /\ t \in Table /\ NoTable \in Table
      /\ m.tab \in {mem[c].tab, t} /\ t.begun = <<>> /\ NoTable.begun = <<>>
      /\ m.hash \in {mem[c].hash, work.newest} /\ m.pc = "idle"
  BY <1>1, LoadedFacts, TableOfFacts, NothingLoaded DEF Context
<1>3. /\ m.tab.begun # <<>>
      /\ \/ save # {} /\ Release(g) /\ Remember(c, [m EXCEPT !.tab = t, !.pc = "hash"])
         \/ save # {} /\ (\E s \in save : Release(s)) /\ Remember(c, [m EXCEPT !.tab = NoTable])
         \/ save = {} /\ Write(c, g) /\ Remember(c, [m EXCEPT !.tab = t])
  BY <1>1 DEF CommitAlter, Committed
<1>4. m.tab = mem[c].tab
  BY <1>2, <1>3
<1>5. g \in File /\ g = Committed(c, work, mem[c].tab)
  BY <1>1, <1>2, <1>4, CommittedFacts
<1>6. \A n \in {[m EXCEPT !.tab = t, !.pc = "hash"], [m EXCEPT !.tab = NoTable], [m EXCEPT !.tab = t]} :
        n \in Context /\ n.tab.begun = <<>> /\ n.hash = m.hash
  BY <1>2 DEF Context
<1>7. /\ [m EXCEPT !.tab = t, !.pc = "hash"].pc = "hash"
      /\ [m EXCEPT !.tab = NoTable].pc = "idle"
      /\ [m EXCEPT !.tab = t].pc = "idle"
  BY <1>2 DEF Context
<1> HIDE DEF g, m, t
<1>8. QED
  BY <1>1, <1>2, <1>3, <1>4, <1>5, <1>6, <1>7

\* What it releases, or writes, is a file.
LEMMA CommitAlterTypes ==
  ASSUME TypeOK, NEW c \in Conns, CommitAlter(c)
  PROVE  TypeOK'
<1>1. mem[c].tab \in Table /\ work \in File
  BY DEF TypeOK, Context
<1>2. PICK g \in File, n \in Context :
        /\ Remember(c, n)
        /\ \/ save # {} /\ Release(g)
           \/ save # {} /\ (\E s \in save : Release(s))
           \/ CanWrite(c) /\ Write(c, g)
  BY CommitAlterFacts
<1>3. CASE save # {} /\ (Release(g) \/ \E s \in save : Release(s))
  <2>1. Files'
    BY <1>3, EndTypes DEF TypeOK
  <2>2. mem' \in [Conns -> Context]
    BY <1>2, RememberTypes
  <2>3. QED
    BY <2>1, <2>2 DEF Files, TypeOK
<1>4. CASE CanWrite(c) /\ Write(c, g)
  BY <1>2, <1>4, TypesKept
<1>5. QED
  BY <1>2, <1>3, <1>4

\* cloudsync_cleanup, its first statement.
LEMMA CleanFacts ==
  ASSUME TypeOK, NEW c \in Conns, Clean(c)
  PROVE  /\ \E n \in Context :
              /\ Remember(c, n) /\ n.tab = NoTable
              /\ \/ Cleanup(c) /\ CanWrite(c) /\ n.hash \in {mem[c].hash, work.newest}
                 \/ CleanupFails(c) /\ n.pc = "idle"
         /\ \/ UNCHANGED <<file, work, holder, explicit, save>>
            \/ CanWrite(c) /\ Write(c, Drop(work))
<1>1. /\ mem[c] \in Context /\ file \in File /\ work \in File /\ View(c) \in File
      /\ CanWrite(c) => View(c) = work
  BY ViewFacts DEF TypeOK
<1>2. /\ Loaded(mem[c], View(c)) \in Context /\ Loaded(mem[c], file) \in Context
      /\ Loaded(mem[c], View(c)).hash \in {mem[c].hash, View(c).newest}
      /\ Loaded(mem[c], file).pc = mem[c].pc
  BY <1>1, LoadedFacts
<1>3. CASE Cleanup(c)
  <2> DEFINE m == Loaded(mem[c], View(c))
  <2>1. CanWrite(c)
    BY <1>3 DEF Cleanup
  <2>2. PICK all \in BOOLEAN, pc \in {"triggers", "site", "hash"} :
          Remember(c, [m EXCEPT !.tab = NoTable, !.all = all, !.pc = pc])
    BY <1>3 DEF Cleanup
  <2> DEFINE n == [m EXCEPT !.tab = NoTable, !.all = all, !.pc = pc]
  <2>3. n \in Context /\ n.tab = NoTable /\ n.hash = m.hash
    BY <1>2, NothingLoaded DEF Context
  <2>4. Write(c, Drop(work)) \/ UNCHANGED <<file, work, holder, explicit, save>>
    BY <1>1, <1>3, <2>1 DEF Cleanup
  <2> HIDE DEF n
  <2>5. QED
    BY <1>1, <1>2, <1>3, <2>1, <2>2, <2>3, <2>4 DEF n
<1>4. CASE CleanupFails(c)
  <2> DEFINE n == [Loaded(mem[c], file) EXCEPT !.tab = NoTable]
  <2>1. n \in Context /\ n.tab = NoTable /\ n.pc = mem[c].pc
    BY <1>2, NothingLoaded DEF Context
  <2>2. Remember(c, n) /\ mem[c].pc = "idle" /\ UNCHANGED <<file, work, holder, explicit, save>>
    BY <1>4 DEF CleanupFails, Idle
  <2> HIDE DEF n
  <2>3. QED
    BY <1>4, <2>1, <2>2
<1>5. QED
  BY <1>3, <1>4 DEF Clean

\* The later ones.
LEMMA CleanupStepFacts ==
  ASSUME TypeOK, NEW c \in Conns, CleanupStep(c)
  PROVE  /\ mem[c].pc \in {"triggers", "settings", "site"}
         /\ \E n \in Context :
              /\ Remember(c, n) /\ n.tab = mem[c].tab /\ n.hash = mem[c].hash
              /\ mem[c].pc = "site" => n.pc = "idle"
         /\ \/ UNCHANGED <<file, work, holder, explicit, save>>
            \/ /\ CanWrite(c)
               /\ \E g \in File :
                    /\ Write(c, g) /\ SameTable(g, work) /\ g.behind = work.behind
                    /\ g.algo => work.algo /\ g.newest = work.newest
<1>1. mem[c] \in Context /\ work \in File /\ (CanWrite(c) => View(c) = work)
  BY ViewFacts DEF TypeOK
<1>2. mem[c].pc \in {"triggers", "settings", "site"}
  BY DEF CleanupStep
<1>3. \E n \in Context :
        /\ Remember(c, n) /\ n.tab = mem[c].tab /\ n.hash = mem[c].hash
        /\ mem[c].pc = "site" => n.pc = "idle"
  <2> DEFINE pc == mem[c].pc
             next == CASE pc = "triggers" -> "settings"
                       [] pc = "settings" /\ mem[c].all -> "site"
                       [] pc = "settings" /\ ~mem[c].all -> "hash"
                       [] OTHER -> "idle"
             all == mem[c].all /\ next = "site"
             site == IF pc = "site" THEN NoSite ELSE mem[c].site
             n == [mem[c] EXCEPT !.pc = next, !.all = all, !.site = site]
  <2>1. next \in {"idle", "hash", "settings", "site"} /\ all \in BOOLEAN /\ site \in SiteIds \cup {NoSite}
    BY <1>1 DEF Context
  <2>2. Remember(c, n)
    BY <1>1 DEF CleanupStep
  <2>3. mem[c].pc = "site" => next = "idle"
    OBVIOUS
  <2> HIDE DEF next, all, site
  <2>4. n \in Context /\ n.tab = mem[c].tab /\ n.hash = mem[c].hash /\ n.pc = next
    BY <1>1, <2>1 DEF Context
  <2> HIDE DEF n
  <2>5. QED
    BY <2>2, <2>3, <2>4
<1>4. CASE ~CanWrite(c)
  BY <1>2, <1>3, <1>4 DEF CleanupStep
<1>5. ASSUME CanWrite(c),
             NEW g \in {[work EXCEPT !.trig = FALSE], [work EXCEPT !.algo = FALSE],
                        [work EXCEPT !.site = NoSite, !.algo = FALSE, !.newest = NoSchema]}
      PROVE  /\ g \in File /\ SameTable(g, work) /\ g.behind = work.behind
             /\ g.algo => work.algo /\ g.newest = work.newest
  <2>1. CASE g = [work EXCEPT !.trig = FALSE]
    BY <1>1, <2>1 DEF File, SameTable
  <2>2. CASE g = [work EXCEPT !.algo = FALSE]
    BY <1>1, <2>2 DEF File, SameTable
  <2>3. CASE g = [work EXCEPT !.site = NoSite, !.algo = FALSE, !.newest = NoSchema]
    BY <1>1, <2>3 DEF File, SameTable
  <2>4. QED
    BY <2>1, <2>2, <2>3
<1>6. CASE CanWrite(c)
  <2>1. \/ Write(c, [work EXCEPT !.trig = FALSE])
        \/ Write(c, [work EXCEPT !.algo = FALSE])
        \/ Write(c, [work EXCEPT !.site = NoSite, !.algo = FALSE, !.newest = NoSchema])
    BY <1>1, <1>6 DEF CleanupStep
  <2>2. QED
    BY <1>2, <1>3, <1>5, <1>6, <2>1
<1>7. QED
  BY <1>4, <1>6

\* All of them keep the types.
LEMMA FinishTypes ==
  ASSUME TypeOK, NEW c \in Conns, Clean(c) \/ Finish(c)
  PROVE  TypeOK'
<1>1. work \in File
  BY DEF TypeOK
<1>2. CASE Clean(c)
  BY <1>1, <1>2, CleanFacts, DropFacts, TypesKept
<1>3. CASE UpdateHash(c)
  BY <1>3, UpdateHashFacts, TypesKept
<1>4. CASE CleanupStep(c)
  BY <1>4, CleanupStepFacts, TypesKept
<1>5. QED
  BY <1>2, <1>3, <1>4 DEF Finish

\* What a logout that succeeds leaves in the file; dropped says that the table was in
\* the context.
Emptied(f, dropped) ==
  LET d == IF dropped THEN [Drop(f) EXCEPT !.trig = FALSE] ELSE f
  IN  [d EXCEPT !.rows = {}, !.loose = @ \cup f.rows, !.site = NoSite, !.newest = NoSchema]
LoggedOut(c, f, dropped) ==
  [Augment(c, Installed(Emptied(f, dropped)), f.cols) EXCEPT !.newest = SchemaOf(f), !.behind = @ \ {c}]

\* It has no rows, its metadata is complete and its hash is announced.
LEMMA LoggedOutFacts ==
  ASSUME NEW c \in Conns, NEW f \in File, NEW dropped \in BOOLEAN
  PROVE  /\ LoggedOut(c, f, dropped) \in File
         /\ LoggedOut(c, f, dropped).newest = SchemaOf(LoggedOut(c, f, dropped))
         /\ Recorded(f) => Recorded(LoggedOut(c, f, dropped))
         /\ LoggedOut(c, f, dropped).drops = f.drops =>
              /\ \A p \in Pks : LoggedOut(c, f, dropped).marks[p] = f.marks[p]
              /\ f.has => f.rows \subseteq LoggedOut(c, f, dropped).loose
<1> DEFINE d == IF dropped THEN [Drop(f) EXCEPT !.trig = FALSE] ELSE f
           R == f.loose \cup f.rows
           e == Emptied(f, dropped)
           i == Installed(e)
           C == f.cols
           a == Augment(c, i, C)
           B == a.behind \ {c}
           h == SchemaOf(f)
<1>1. /\ d \in File /\ d.loose = f.loose /\ d.cols = f.cols /\ d.key = f.key
      /\ dropped => d.marks = NoMarks /\ d.drops # f.drops
      /\ ~dropped => d = f
  <2>1. CASE ~dropped
    BY <2>1
  <2>2. CASE dropped
    <3> DEFINE x == Drop(f)
    <3>1. /\ x \in File /\ x.loose = f.loose /\ x.cols = f.cols /\ x.key = f.key
          /\ x.marks = NoMarks /\ x.drops # f.drops
      BY DropFacts
    <3>2. d = [x EXCEPT !.trig = FALSE]
      BY <2>2
    <3> HIDE DEF x, d
    <3>3. QED
      BY <2>2, <3>1, <3>2 DEF File
  <2>3. QED
    BY <2>1, <2>2
<1>2. R \in SUBSET Pks /\ C \in SUBSET Cols /\ h \in Schema
  BY SchemaTypes DEF File
<1>3. e = [d EXCEPT !.rows = {}, !.loose = R, !.site = NoSite, !.newest = NoSchema]
  <2>1. e = [d EXCEPT !.rows = {}, !.loose = d.loose \cup f.rows, !.site = NoSite, !.newest = NoSchema]
    BY <1>1 DEF Emptied, File
  <2>2. QED
    BY <1>1, <2>1
<1> HIDE DEF d, R, e, C, h
<1>4. /\ e \in File /\ e.rows = {} /\ e.loose = R /\ e.cols = d.cols /\ e.key = d.key
      /\ e.marks = d.marks /\ e.has = d.has /\ e.drops = d.drops
  <2>1. NoSchema \in Schema \cup {NoSchema} /\ NoSite \in SiteIds \cup {NoSite}
    OBVIOUS
  <2>2. QED
    BY <1>1, <1>2, <1>3, <2>1 DEF File
<1>5. /\ i \in File /\ i.rows = {} /\ i.loose = R /\ i.cols = d.cols /\ i.key = d.key
      /\ i.marks = d.marks /\ i.has = d.has /\ i.drops = d.drops
  BY <1>4, InstalledFacts DEF File
<1> HIDE DEF i
<1>6. /\ a \in File /\ a.rows = {} /\ a.cols = d.cols /\ a.key = d.key /\ a.drops = d.drops
      /\ a.loose = StillLoose(i) /\ \A p \in Pks : a.marks[p] = d.marks[p]
  BY <1>2, <1>5, AugmentFacts
<1>7. Repairable(i) => Recorded(a)
  BY <1>1, <1>2, <1>5, AugmentRecords DEF C
<1> DEFINE z == [a EXCEPT !.newest = h, !.behind = B]
<1> HIDE DEF a
<1>8. LoggedOut(c, f, dropped) = z
  BY <1>6 DEF LoggedOut, a, i, e, C, h, File
<1>9. B \in SUBSET Conns
  BY <1>6 DEF File
<1> HIDE DEF B
<1>10. /\ z \in File /\ z.newest = h /\ z.cols = a.cols /\ z.key = a.key /\ z.drops = a.drops
       /\ z.marks = a.marks /\ z.loose = a.loose /\ z.rows = a.rows /\ z.has = a.has /\ z.trig = a.trig
  BY <1>2, <1>6, <1>9 DEF File
<1> HIDE DEF z
<1>11. z.newest = SchemaOf(z)
  BY <1>1, <1>6, <1>10 DEF h, SchemaOf
<1>12. Recorded(a) => Recorded(z)
  BY <1>10 DEF Recorded, Repairable, Dead
<1>13. ASSUME Recorded(f)
       PROVE  Repairable(i)
  <2>1. CASE dropped
    <3>1. i.marks = NoMarks
      BY <1>1, <1>5, <2>1
    <3>2. QED
      BY <1>5, <3>1 DEF Repairable, NoMarks, Blank
  <2>2. CASE ~dropped
    <3>1. i.marks = f.marks /\ i.has = f.has /\ i.cols = f.cols
      BY <1>1, <1>5, <2>2
    <3>2. QED
      BY <1>5, <1>13, <3>1 DEF Recorded, Repairable, R
  <2>3. QED
    BY <2>1, <2>2
<1>14. ASSUME z.drops = f.drops
       PROVE  /\ \A p \in Pks : z.marks[p] = f.marks[p]
              /\ f.has => f.rows \subseteq z.loose
  <2>1. d = f
    BY <1>1, <1>6, <1>10, <1>14
  <2>2. f.has => z.loose = R
    BY <1>5, <1>6, <1>10, <2>1 DEF StillLoose
  <2>3. QED
    BY <1>6, <1>10, <2>1, <2>2 DEF R
<1>15. QED
  BY <1>7, <1>8, <1>10, <1>11, <1>12, <1>13, <1>14

\* cloudsync_network_logout.
LEMMA LogoutFacts ==
  ASSUME TypeOK, NEW c \in Conns, Logout(c)
  PROVE  /\ CanWrite(c) /\ save = {} /\ Idle(c)
         /\ \E g \in File, n \in Context, dropped \in BOOLEAN :
              /\ g = LoggedOut(c, work, dropped)
              /\ Remember(c, n) /\ n.pc = "idle" /\ n.tab.begun = <<>>
              /\ Write(c, g) \/ UNCHANGED <<file, work, holder, explicit, save>>
<1> DEFINE dropped == Loaded(mem[c], work).tab.in
           g == LoggedOut(c, work, dropped)
           n == [NoContext EXCEPT !.site = g.site, !.tab = TableOf(work), !.hash = g.newest]
<1>1. mem[c] \in Context /\ work \in File /\ View(c) = work /\ CanWrite(c) /\ save = {} /\ Idle(c)
  BY ViewFacts DEF TypeOK, Logout
<1>2. dropped \in BOOLEAN
  BY <1>1, LoadedFacts DEF Context, Table
<1>3. \/ Write(c, g) /\ Remember(c, n)
      \/ /\ UNCHANGED <<file, work, holder, explicit, save>>
         /\ Remember(c, n) \/ Remember(c, NoContext)
  BY <1>1 DEF Logout, LoggedOut, Emptied, Remember
<1> HIDE DEF dropped
<1>4. g \in File
  BY <1>1, <1>2, LoggedOutFacts
<1>5. n \in Context /\ n.pc = "idle" /\ n.tab.begun = <<>>
  <2>1. g.site \in SiteIds \cup {NoSite} /\ g.newest \in Schema \cup {NoSchema}
    BY <1>4 DEF File
  <2>2. TableOf(work) \in Table /\ TableOf(work).begun = <<>>
    BY <1>1, TableOfFacts
  <2> HIDE DEF g
  <2>3. QED
    BY <2>1, <2>2, NothingLoaded DEF Context
<1> HIDE DEF n
<1>6. QED
  BY <1>1, <1>2, <1>3, <1>4, <1>5, NothingLoaded DEF g

\* The functions that change contexts, and at most the site id.
LEMMA LoadFacts ==
  ASSUME TypeOK, NEW c \in Conns,
         Load(c) \/ InitFails(c) \/ EnableDisable(c) \/ Terminate(c)
  PROVE  /\ Idle(c)
         /\ \E n \in Context :
              /\ Remember(c, n) /\ n.pc = "idle"
              /\ n.tab.begun = <<>> \/ (n.tab.begun = mem[c].tab.begun /\ n.tab.npks = mem[c].tab.npks)
              /\ CanWrite(c) => n.hash \in {mem[c].hash, work.newest}
         /\ \/ UNCHANGED <<file, work, holder, explicit, save>>
            \/ CanWrite(c) /\ Write(c, Installed(work))
<1>1. /\ mem[c] \in Context /\ View(c) \in File /\ (CanWrite(c) => View(c) = work)
      /\ mem[c].pc = "idle"
  BY ViewFacts DEF TypeOK, Load, InitFails, EnableDisable, Terminate, Idle
<1>2. CASE Load(c) \/ InitFails(c)
  <2> DEFINE n == Loaded(mem[c], View(c))
  <2>1. /\ n \in Context /\ n.pc = "idle" /\ n.hash \in {mem[c].hash, View(c).newest}
        /\ n.tab.begun = <<>> \/ (n.tab.begun = mem[c].tab.begun /\ n.tab.npks = mem[c].tab.npks)
    BY <1>1, LoadedFacts, LoadedBegun
  <2>2. Remember(c, n)
    BY <1>2 DEF Load, InitFails
  <2>3. UNCHANGED <<file, work, holder, explicit, save>> \/ (CanWrite(c) /\ Write(c, Installed(work)))
    BY <1>1, <1>2 DEF Load, InitFails
  <2> HIDE DEF n
  <2>4. QED
    BY <1>1, <1>2, <2>1, <2>2, <2>3 DEF Load, InitFails
<1>3. CASE EnableDisable(c)
  <2> DEFINE t == [mem[c].tab EXCEPT !.on = ~@]
             n == [mem[c] EXCEPT !.tab = t]
  <2>1. t \in Table /\ t.begun = mem[c].tab.begun /\ t.npks = mem[c].tab.npks
    BY <1>1 DEF Context, Table
  <2>2. Remember(c, n)
    <3>1. n = [mem[c] EXCEPT !.tab.on = ~@]
      BY <1>1 DEF Context
    <3>2. QED
      BY <1>3, <3>1 DEF EnableDisable
  <2> HIDE DEF t
  <2>3. n \in Context /\ n.pc = "idle" /\ n.hash = mem[c].hash /\ n.tab = t
    BY <1>1, <2>1 DEF Context
  <2> HIDE DEF n
  <2>4. QED
    BY <1>3, <2>1, <2>2, <2>3 DEF EnableDisable
<1>4. CASE Terminate(c)
  <2> DEFINE n == [mem[c] EXCEPT !.tab = NoTable, !.site = NoSite]
  <2>1. n \in Context /\ n.pc = "idle" /\ n.hash = mem[c].hash /\ n.tab.begun = <<>>
    BY <1>1, NothingLoaded DEF Context
  <2>2. Remember(c, n)
    BY <1>4 DEF Terminate
  <2> HIDE DEF n
  <2>3. QED
    BY <1>4, <2>1, <2>2 DEF Terminate
<1>5. QED
  BY <1>2, <1>3, <1>4

\* They keep the types.
LEMMA LoadTypes ==
  ASSUME TypeOK, NEW c \in Conns,
         Load(c) \/ InitFails(c) \/ EnableDisable(c) \/ Terminate(c)
  PROVE  TypeOK'
<1>1. Installed(work) \in File
  BY InstalledFacts DEF TypeOK
<1>2. QED
  BY <1>1, LoadFacts, TypesKept

\* The DDL between the two halves of an alteration.
LEMMA DdlFacts ==
  ASSUME TypeOK, NEW c \in Conns, Ddl(c)
  PROVE  /\ save # {} /\ holder = c /\ UNCHANGED <<file, holder, explicit, save, mem>>
         /\ work' \in File
         /\ work'.marks = work.marks /\ work'.has = work.has /\ work'.loose = work.loose
         /\ work'.drops = work.drops /\ work'.newest = work.newest
         /\ \/ work'.key = work.key /\ work'.rows = work.rows
            \/ \A s \in save : s.key = work.key /\ work'.key # s.key
<1>1. work \in File
  BY DEF TypeOK
<1>2. CASE AlterColumns(c)
  <2>1. PICK n \in Cols :
          work' = [work EXCEPT !.cols = IF n \in @ THEN @ \ {n} ELSE @ \cup {n}]
    BY <1>2 DEF AlterColumns
  <2> DEFINE C == IF n \in work.cols THEN work.cols \ {n} ELSE work.cols \cup {n}
  <2>2. C \in SUBSET Cols /\ work' = [work EXCEPT !.cols = C]
    BY <1>1, <2>1 DEF File
  <2> HIDE DEF C
  <2>3. /\ work' \in File
        /\ work'.marks = work.marks /\ work'.has = work.has /\ work'.loose = work.loose
        /\ work'.drops = work.drops /\ work'.newest = work.newest
        /\ work'.key = work.key /\ work'.rows = work.rows
    BY <1>1, <2>2 DEF File
  <2>4. QED
    BY <1>2, <2>3 DEF AlterColumns, Altering
<1>3. CASE Rebuild(c)
  <2>1. PICK key \in Keys \ {work.key}, rows \in SUBSET Pks : work' = [work EXCEPT !.key = key, !.rows = rows]
    BY <1>3 DEF Rebuild
  <2>2. /\ work' \in File
        /\ work'.marks = work.marks /\ work'.has = work.has /\ work'.loose = work.loose
        /\ work'.drops = work.drops /\ work'.newest = work.newest
        /\ work'.key = key
    BY <1>1, <2>1 DEF File
  <2>3. QED
    BY <1>3, <2>1, <2>2 DEF Rebuild, Altering
<1>4. QED
  BY <1>2, <1>3 DEF Ddl

\* It keeps the types, too.
LEMMA DdlTypes ==
  ASSUME TypeOK, NEW c \in Conns, Ddl(c)
  PROVE  TypeOK'
BY DdlFacts, NoConnAssumption DEF TypeOK

\* A statement of the application writes rows and marks, or rows alone.
LEMMA WritesFacts ==
  ASSUME TypeOK, NEW c \in Conns, Writes(c)
  PROVE  /\ Idle(c) /\ CanWrite(c) /\ View(c) = work /\ mem' = mem
         /\ \E p \in Pks :
              \/ /\ Tracks(c) /\ p \notin work.rows
                 /\ Write(c, RowWritten(work, work.rows \cup {p}, p, InsertMark(work.marks[p], mem[c].tab.cols)))
              \/ /\ Tracks(c) /\ p \in work.rows
                 /\ Write(c, RowWritten(work, work.rows \ {p}, p, DeleteMark(work.marks[p])))
              \/ /\ Tracks(c) /\ p \in work.rows
                 /\ \E n \in mem[c].tab.cols \cap work.cols :
                      Write(c, RowWritten(work, work.rows, p, [work.marks[p] EXCEPT !.cols = @ \cup {n}]))
              \/ \E R \in {work.rows \cup {p}, work.rows \ {p}} :
                   Write(c, RowMissed(work, R, p))
<1>1. PICK p \in Pks : Insert(c, p) \/ Delete(c, p) \/ Update(c, p)
  BY DEF Writes
<1>2. Idle(c) /\ CanWrite(c) /\ mem' = mem
  BY <1>1 DEF Insert, Delete, Update
<1>3. View(c) = work
  BY <1>2, ViewFacts
<1>4. CASE Insert(c, p)
  BY <1>2, <1>3, <1>4 DEF Insert, Tracked, Untracked, RowWritten, RowMissed
<1>5. CASE Delete(c, p)
  BY <1>2, <1>3, <1>5 DEF Delete, Tracked, Untracked, RowWritten, RowMissed
<1>6. CASE Update(c, p)
  BY <1>2, <1>3, <1>6 DEF Update, Tracked, Untracked, RowWritten, RowMissed
<1>7. QED
  BY <1>1, <1>4, <1>5, <1>6

\* It writes a row that is there before or after, or misses one.
LEMMA RowFacts ==
  ASSUME TypeOK, NEW c \in Conns, Writes(c)
  PROVE  \E p \in Pks, R \in SUBSET Pks, m \in Mark :
           \/ Write(c, RowWritten(work, R, p, m)) /\ (p \in work.rows \/ p \in R)
           \/ Write(c, RowMissed(work, R, p))
<1>1. work \in File /\ mem[c] \in Context
  BY DEF TypeOK
<1>2. mem[c].tab.cols \in SUBSET Cols /\ work.rows \in SUBSET Pks /\ \A p \in Pks : work.marks[p] \in Mark
  BY <1>1 DEF File, Context, Table
<1>3. \A p \in Pks : /\ InsertMark(work.marks[p], mem[c].tab.cols) \in Mark
                     /\ DeleteMark(work.marks[p]) \in Mark
                     /\ \A n \in mem[c].tab.cols : [work.marks[p] EXCEPT !.cols = @ \cup {n}] \in Mark
  <2> TAKE p \in Pks
  <2>1. work.marks[p] \in Mark
    BY <1>2
  <2>2. \A n \in mem[c].tab.cols : [work.marks[p] EXCEPT !.cols = @ \cup {n}] \in Mark
    BY <1>2, <2>1 DEF Mark
  <2>3. QED
    BY <1>2, <2>1, <2>2, MarkTypes
<1>4. PICK p \in Pks : \E R \in {work.rows \cup {p}, work.rows \ {p}, work.rows} :
        \/ (\E m \in Mark : Write(c, RowWritten(work, R, p, m))) /\ (p \in work.rows \/ p \in R)
        \/ Write(c, RowMissed(work, R, p))
  BY <1>3, WritesFacts
<1>5. work.rows \cup {p} \in SUBSET Pks /\ work.rows \ {p} \in SUBSET Pks
  BY <1>2
<1>6. QED
  BY <1>2, <1>4, <1>5, BlankType

\* It keeps the structure of the table, and its settings.
LEMMA WritesKeep ==
  ASSUME TypeOK, NEW c \in Conns, Writes(c)
  PROVE  \E g \in File :
           /\ Write(c, g)
           /\ g.cols = work.cols /\ g.key = work.key /\ g.algo = work.algo
           /\ g.newest = work.newest /\ g.behind = work.behind
<1>1. work \in File
  BY DEF TypeOK
<1>2. PICK p \in Pks, R \in SUBSET Pks, m \in Mark :
        Write(c, RowWritten(work, R, p, m)) \/ Write(c, RowMissed(work, R, p))
  BY RowFacts
<1>3. SameSettings(RowWritten(work, R, p, m), work)
  BY <1>1, WrittenSame
<1>4. SameSettings(RowMissed(work, R, p), work)
  BY <1>1, MissedFacts DEF SameSettings
<1>5. QED
  BY <1>2, <1>3, <1>4 DEF SameSettings

\* The application's statements and transactions, and a connection that is closed.
LEMMA ApplicationTypes ==
  ASSUME TypeOK, NEW c \in Conns,
         Writes(c) \/ Begin(c) \/ Commit(c) \/ Rollback(c) \/ Reopen(c)
  PROVE  TypeOK'
<1>1. file \in File /\ work \in File /\ mem[c] \in Context
  BY DEF TypeOK
<1>2. CASE Writes(c)
  BY <1>2, WritesFacts, WritesKeep, TypesKept
<1>3. CASE Begin(c)
  BY <1>3, NoConnAssumption DEF Begin, TypeOK
<1>4. CASE Commit(c)
  BY <1>4 DEF Commit, TypeOK
<1>5. CASE Rollback(c)
  BY <1>5 DEF Rollback, Undo, TypeOK
<1>6. CASE Reopen(c)
  <2>1. Opened(file) \in Context
    BY <1>1, OpenedFacts
  <2>2. CASE UNCHANGED <<file, work, holder, explicit, save>>
    BY <1>6, <2>1, <2>2, TypesKept DEF Reopen
  <2>3. CASE Undo
    <3>1. mem' \in [Conns -> Context]
      BY <1>6, <2>1, RememberTypes DEF Reopen
    <3>2. QED
      BY <2>3, <3>1 DEF Undo, TypeOK
  <2>4. QED
    BY <1>6, <2>2, <2>3 DEF Reopen
<1>7. QED
  BY <1>2, <1>3, <1>4, <1>5, <1>6

\* Every step keeps the types.
LEMMA TypeStep == TypeOK /\ [CarefulNext]_vars => TypeOK'
<1> SUFFICES ASSUME TypeOK, [CarefulNext]_vars
             PROVE  TypeOK'
  OBVIOUS
<1>1. CASE UNCHANGED vars
  BY <1>1 DEF TypeOK, vars
<1>2. CASE CarefulNext
  <2>1. PICK c \in Conns :
          \/ CloudsyncInit(c) \/ BeginAlter(c) \/ Clean(c) \/ Logout(c)
          \/ Writes(c) \/ Load(c) \/ InitFails(c) \/ EnableDisable(c) \/ Terminate(c)
          \/ Ddl(c) \/ CommitAlter(c) \/ Finish(c)
          \/ Begin(c) \/ Commit(c) \/ Rollback(c) \/ Reopen(c)
    BY <1>2 DEF CarefulNext, Administers
  <2>2. CASE CloudsyncInit(c)
    BY <2>2, InitFacts, TypesKept
  <2>3. CASE Logout(c)
    BY <2>3, LogoutFacts, TypesKept
  <2>4. QED
    BY <2>1, <2>2, <2>3, BeginAlterTypes, LoadTypes, DdlTypes,
       CommitAlterTypes, FinishTypes, ApplicationTypes
<1>3. QED
  BY <1>1, <1>2

\* The initial states have their types.
LEMMA TypeInit == Init => TypeOK
<1> SUFFICES ASSUME Init
             PROVE  TypeOK
  OBVIOUS
<1>1. PICK cols \in SUBSET (Cols \ Unfit), key \in Keys, rows \in SUBSET Pks :
        file = [cols |-> cols, key |-> key, rows |-> rows,
                site |-> NoSite, algo |-> FALSE, trig |-> FALSE, has |-> FALSE,
                marks |-> NoMarks, newest |-> NoSchema,
                loose |-> {}, drops |-> 0, behind |-> {}]
  BY DEF Init, NoMarks
<1>2. NoMarks \in [Pks -> Mark]
  BY MarkTypes DEF NoMarks, Mark, Blank
<1>3. file \in File
  <2>1. cols \in SUBSET Cols
    OBVIOUS
  <2>2. 0 \in Nat
    OBVIOUS
  <2> DEFINE zero == 0
  <2>3. zero \in Nat /\ file.drops = zero
    BY <1>1, <2>2
  <2>4. QED
    BY <1>1, <1>2, <2>1 DEF File
<1>4. QED
  BY <1>3, NothingLoaded DEF Init, TypeOK

\* Types: file, transaction and contexts are always of the shape the code gives them,
\* and outside of a transaction every connection sees what is committed.
THEOREM TypeCorrect == CarefulSpec => []TypeOK
BY TypeInit, TypeStep, PTL DEF CarefulSpec

(***************************************************************************)
(* The metadata says what the table holds.                                 *)
(***************************************************************************)
\* What is alterable or recorded stays so when only settings change, or triggers go.
LEMMA SettingsRecords ==
  ASSUME NEW f \in File, NEW g \in File,
         g.has = f.has, g.marks = f.marks, g.cols = f.cols, g.rows = f.rows, g.loose = f.loose,
         g.trig => f.trig
  PROVE  /\ Recorded(f) => Recorded(g)
         /\ Alterable(f) => Alterable(g)
BY DEF Recorded, Repairable, Alterable, Dead

\* A recorded table can be altered.
LEMMA RecordedAlterable ==
  ASSUME NEW f \in File, Repairable(f)
  PROVE  Alterable(f)
BY DEF Repairable, Alterable

\* Without metadata there is nothing to record.
LEMMA DropRecords ==
  ASSUME NEW f \in File
  PROVE  Recorded(Drop(f)) /\ Alterable(Drop(f))
BY DropFacts, DropRepairs, RecordedAlterable DEF Recorded

\* An initialisation in the middle of an alteration.
LEMMA AugmentAlterable ==
  ASSUME NEW c \in Conns, NEW f \in File, Alterable(f), NEW C \in SUBSET Cols
  PROVE  Alterable(Augment(c, f, C))
<1> DEFINE g == Augment(c, f, C)
<1>1. f.rows \in SUBSET Pks /\ \A p \in Pks : f.marks[p] \in Mark
  BY DEF File
<1>2. /\ g.rows = f.rows /\ g.has /\ g.loose = StillLoose(f)
      /\ \A p \in f.rows : g.marks[p] = RefillMark(f.marks[p], C)
  BY AugmentFacts
<1> HIDE DEF g
<1>3. ASSUME NEW p \in f.rows, p \notin g.loose
      PROVE  ~Dead(g, p)
  <2>1. g.marks[p] = RefillMark(f.marks[p], C) /\ f.marks[p] \in Mark
    BY <1>1, <1>2
  <2>2. f.marks[p].rip # "dead"
    <3>1. CASE f.has
      BY <1>2, <1>3, <3>1 DEF Alterable, StillLoose, Dead
    <3>2. CASE ~f.has
      BY <1>1, <3>2 DEF Alterable, NoMarks, Blank
    <3>3. QED
      BY <3>1, <3>2
  <2>3. g.marks[p].rip # "dead"
    BY <2>1, <2>2 DEF RefillMark, InsertMark, Mark
  <2>4. QED
    BY <2>3 DEF Dead
<1>4. QED
  BY <1>2, <1>3 DEF Alterable, g

\* What a tracked statement of the application does to the records.
LEMMA WrittenRecords ==
  ASSUME NEW f \in File, f.has, NEW p \in Pks, NEW R \in SUBSET Pks, NEW m \in Mark,
         R \subseteq f.rows \cup {p}, f.rows \subseteq R \cup {p}
  PROVE  /\ /\ Recorded(f)
            /\ m.cols \subseteq f.cols
            /\ p \in R \ f.loose => m.rip # "dead" /\ (f.trig => m # Blank /\ m.cols = f.cols)
            /\ p \notin R \cup f.loose => m.rip # "alive" /\ m.cols = {}
            => Recorded(RowWritten(f, R, p, m))
         /\ Alterable(f) /\ (p \in R \ f.loose => m.rip # "dead") => Alterable(RowWritten(f, R, p, m))
<1> DEFINE g == RowWritten(f, R, p, m)
<1>1. /\ g \in File /\ g.has
      /\ g.rows = R /\ g.cols = f.cols /\ g.trig = f.trig /\ g.loose = f.loose
      /\ g.marks[p] = m /\ \A q \in Pks \ {p} : g.marks[q] = f.marks[q]
  BY WrittenFacts, SMTT(30)
<1>2. \A q \in Pks \ {p} : q \in R <=> q \in f.rows
  OBVIOUS
<1> HIDE DEF g
<1>3. ASSUME Alterable(f), p \in R \ f.loose => m.rip # "dead"
      PROVE  Alterable(g)
  BY <1>1, <1>2, <1>3 DEF Alterable, Dead
<1>4. ASSUME Recorded(f), m.cols \subseteq f.cols,
             p \in R \ f.loose => m.rip # "dead" /\ (f.trig => m # Blank /\ m.cols = f.cols),
             p \notin R \cup f.loose => m.rip # "alive" /\ m.cols = {}
      PROVE  Recorded(g)
  <2>1. Alterable(g)
    BY <1>3, <1>4, RecordedAlterable DEF Recorded
  <2>2. ASSUME NEW q \in Pks
        PROVE  /\ g.marks[q].cols \subseteq g.cols
               /\ q \notin g.rows \cup g.loose => g.marks[q].rip # "alive" /\ g.marks[q].cols = {}
    <3>1. CASE q = p
      BY <1>1, <1>4, <3>1
    <3>2. CASE q # p
      BY <1>1, <1>2, <1>4, <3>2 DEF Recorded, Repairable
    <3>3. QED
      BY <3>1, <3>2
  <2>3. ASSUME g.trig, NEW q \in g.rows \ g.loose
        PROVE  g.marks[q] # Blank /\ g.marks[q].cols = g.cols
    <3>1. CASE q = p
      BY <1>1, <1>4, <2>3, <3>1
    <3>2. CASE q # p
      BY <1>1, <1>2, <1>4, <2>3, <3>2 DEF Recorded
    <3>3. QED
      BY <3>1, <3>2
  <2>4. QED
    BY <2>1, <2>2, <2>3 DEF Recorded, Repairable, Alterable
<1>5. QED
  BY <1>3, <1>4 DEF g

\* What one that no trigger records does.
LEMMA MissedRecords ==
  ASSUME NEW f \in File, NEW p \in Pks, NEW R \in SUBSET Pks,
         R \subseteq f.rows \cup {p}, f.rows \subseteq R \cup {p}
  PROVE  /\ Recorded(f) => Recorded(RowMissed(f, R, p))
         /\ Alterable(f) => Alterable(RowMissed(f, R, p))
<1> DEFINE g == RowMissed(f, R, p)
<1>1. /\ g \in File /\ g.has = f.has /\ g.marks = f.marks
      /\ g.rows = R /\ g.cols = f.cols /\ g.trig = f.trig /\ g.loose = f.loose \cup {p}
  BY MissedFacts
<1>2. \A q \in Pks \ {p} : q \in R <=> q \in f.rows
  OBVIOUS
<1> HIDE DEF g
<1>3. QED
  BY <1>1, <1>2 DEF Recorded, Repairable, Alterable, Dead, g

\* Each connection remembers of an alteration what it did, or nothing.
KeptBegun ==
  \A d \in Conns : \/ mem'[d].tab.begun = <<>>
                   \/ mem'[d].tab.begun = mem[d].tab.begun /\ mem'[d].tab.npks = mem[d].tab.npks

\* A context that forgets the alteration or keeps it as it was.
LEMMA BegunFacts ==
  ASSUME TypeOK, NEW c \in Conns, NEW m \in Context, Remember(c, m),
         \/ m.tab.begun = <<>>
         \/ m.tab.begun = mem[c].tab.begun /\ m.tab.npks = mem[c].tab.npks
  PROVE  KeptBegun
<1>1. mem'[c] = m /\ \A d \in Conns \ {c} : mem'[d] = mem[d]
  BY RememberTypes
<1>2. QED
  BY <1>1 DEF KeptBegun

\* A write that keeps what the invariant says of the transaction keeps it.
LEMMA WriteKeepsRecords ==
  ASSUME TypeOK, RecordsInv, NEW c \in Conns, CanWrite(c), NEW g \in File, Write(c, g), KeptBegun,
         save = {} => Recorded(g),
         save # {} => (\A s \in save : g.key = s.key => Alterable(g))
  PROVE  RecordsInv'
<1>1. work' = g /\ holder' = holder /\ save' = save
  BY DEF Write
<1>2. Recorded(file')
  <2>1. CASE holder = c
    BY <2>1 DEF Write, RecordsInv
  <2>2. CASE holder # c
    <3>1. save = {}
      BY <2>2 DEF TypeOK, CanWrite
    <3>2. QED
      BY <2>2, <3>1 DEF Write
  <2>3. QED
    BY <2>1, <2>2
<1>3. \A s \in save : Begun(s)'
  <2>1. SUFFICES ASSUME NEW s \in save
                 PROVE  Begun(s)'
    OBVIOUS
  <2>2. holder \in Conns
    BY DEF TypeOK
  <2>3. Begun(s)
    BY DEF RecordsInv
  <2>4. QED
    BY <1>1, <2>2, <2>3 DEF Begun, KeptBegun
<1>4. QED
  BY <1>1, <1>2, <1>3 DEF RecordsInv

\* So does a step that changes contexts alone.
LEMMA SameFilesKeepRecords ==
  ASSUME TypeOK, RecordsInv, UNCHANGED <<file, work, holder, save>>, KeptBegun
  PROVE  RecordsInv'
<1>1. \A s \in save : Begun(s)'
  <2>1. SUFFICES ASSUME NEW s \in save
                 PROVE  Begun(s)'
    OBVIOUS
  <2>2. holder \in Conns
    BY DEF TypeOK
  <2>3. QED
    BY <2>2 DEF RecordsInv, Begun, KeptBegun
<1>2. QED
  BY <1>1 DEF RecordsInv

\* A rollback keeps what is committed.
LEMMA UndoKeepsRecords ==
  ASSUME RecordsInv, Undo
  PROVE  RecordsInv'
BY DEF RecordsInv, Undo

\* cloudsync_init, of a connection whose columns are the table's.
LEMMA InitRecords ==
  ASSUME TypeOK, RecordsInv, NEW c \in Conns, Fresh(c), CloudsyncInit(c)
  PROVE  RecordsInv'
<1>1. PICK g \in File, n \in Context, C \in SUBSET Cols :
        /\ g = Augment(c, Installed(work), C) /\ Write(c, g) /\ C = work.cols
        /\ Remember(c, n)
        /\ n.tab.begun = <<>> \/ (n.tab.begun = mem[c].tab.begun /\ n.tab.npks = mem[c].tab.npks)
  BY InitFacts
<1>2. work \in File /\ CanWrite(c)
  BY InitFacts DEF TypeOK
<1> DEFINE i == Installed(work)
<1>3. /\ i \in File /\ i.cols = C /\ i.key = work.key
      /\ Recorded(work) => Recorded(i)
      /\ Alterable(work) => Alterable(i)
  BY <1>1, <1>2, InstalledFacts, InstalledRecords DEF File
<1>4. KeptBegun
  BY <1>1, BegunFacts
<1>5. g = Augment(c, i, C)
  BY <1>1
<1> HIDE DEF i
<1>6. /\ g.key = work.key
      /\ Recorded(work) => Recorded(g)
      /\ Alterable(work) => Alterable(g)
  <2>1. g.key = work.key
    BY <1>3, <1>5, AugmentFacts
  <2>2. Repairable(i) => Recorded(g)
    BY <1>3, <1>5, AugmentRecords
  <2>3. Alterable(i) => Alterable(g)
    BY <1>3, <1>5, AugmentAlterable
  <2>4. QED
    BY <1>3, <2>1, <2>2, <2>3 DEF Recorded
<1>7. QED
  BY <1>1, <1>2, <1>4, <1>6, WriteKeepsRecords DEF RecordsInv

\* dbutils_update_schema_hash, and cloudsync_cleanup, each of its statements.
LEMMA FinishRecords ==
  ASSUME TypeOK, RecordsInv, NEW c \in Conns, Clean(c) \/ Finish(c)
  PROVE  RecordsInv'
<1>1. work \in File
  BY DEF TypeOK
<1>2. ASSUME CanWrite(c), NEW g \in File, Write(c, g), SameTable(g, work), KeptBegun
      PROVE  RecordsInv'
  <2>1. (Recorded(work) => Recorded(g)) /\ (Alterable(work) => Alterable(g)) /\ g.key = work.key
    BY <1>1, <1>2, SettingsRecords DEF SameTable
  <2>2. QED
    BY <1>2, <2>1, WriteKeepsRecords DEF RecordsInv
<1>3. CASE Clean(c)
  <2>1. KeptBegun
    BY <1>3, CleanFacts, BegunFacts, NothingLoaded
  <2>2. QED
    BY <1>1, <1>3, <2>1, CleanFacts, DropFacts, DropRecords, WriteKeepsRecords, SameFilesKeepRecords
<1>4. CASE UpdateHash(c)
  <2>1. KeptBegun
    BY <1>4, UpdateHashFacts, BegunFacts
  <2>2. QED
    BY <1>2, <1>4, <2>1, UpdateHashFacts, SameFilesKeepRecords
<1>5. CASE CleanupStep(c)
  <2>1. KeptBegun
    BY <1>5, CleanupStepFacts, BegunFacts
  <2>2. QED
    BY <1>2, <1>5, <2>1, CleanupStepFacts, SameFilesKeepRecords
<1>6. QED
  BY <1>3, <1>4, <1>5 DEF Finish

\* cloudsync_network_logout.
LEMMA LogoutRecords ==
  ASSUME TypeOK, RecordsInv, NEW c \in Conns, Logout(c)
  PROVE  RecordsInv'
<1>1. PICK g \in File, n \in Context, dropped \in BOOLEAN :
        /\ g = LoggedOut(c, work, dropped)
        /\ Remember(c, n) /\ n.tab.begun = <<>>
        /\ Write(c, g) \/ UNCHANGED <<file, work, holder, explicit, save>>
  BY LogoutFacts
<1>2. CanWrite(c) /\ save = {} /\ work \in File
  BY LogoutFacts DEF TypeOK
<1>3. Recorded(work) => Recorded(g)
  BY <1>1, <1>2, LoggedOutFacts
<1>4. KeptBegun
  BY <1>1, BegunFacts
<1>5. QED
  BY <1>1, <1>2, <1>3, <1>4, WriteKeepsRecords, SameFilesKeepRecords DEF RecordsInv

\* It starts from a table that is recorded.
LEMMA BeginAlterRecords ==
  ASSUME TypeOK, RecordsInv, NEW c \in Conns, BeginAlter(c)
  PROVE  RecordsInv'
<1>1. work \in File /\ save = {} /\ Recorded(work) /\ Recorded(file)
  BY BeginAlterFacts DEF TypeOK, RecordsInv
<1>2. /\ save' = {work} /\ holder' = c /\ UNCHANGED file
      /\ work' \in File /\ SameTable(work', work)
  BY BeginAlterFacts
<1>3. Alterable(work')
  BY <1>1, <1>2, RecordedAlterable, SettingsRecords DEF Recorded, SameTable
<1>4. mem'[c].tab.begun = work.key /\ mem'[c].tab.npks = Len(work.key)
  BY BeginAlterFacts, RememberTypes
<1>5. QED
  BY <1>1, <1>2, <1>3, <1>4 DEF RecordsInv, Begun

\* It keeps the entries alterable, or takes another key.
LEMMA DdlRecords ==
  ASSUME TypeOK, RecordsInv, NEW c \in Conns, Ddl(c)
  PROVE  RecordsInv'
<1>1. /\ save # {} /\ UNCHANGED <<file, holder, explicit, save, mem>>
      /\ work'.marks = work.marks /\ work'.has = work.has /\ work'.loose = work.loose
      /\ \/ work'.key = work.key /\ work'.rows = work.rows
         \/ \A s \in save : work'.key # s.key
  BY DdlFacts
<1>2. \A s \in save : work'.key = s.key => Alterable(work')
  <2> SUFFICES ASSUME NEW s \in save, work'.key = s.key
               PROVE  Alterable(work')
    OBVIOUS
  <2>1. work'.key = work.key /\ work'.rows = work.rows
    BY <1>1
  <2>2. Alterable(work)
    BY <2>1 DEF RecordsInv
  <2>3. QED
    BY <1>1, <2>1, <2>2 DEF Alterable, Dead
<1>3. \A s \in save : Begun(s)' /\ Recorded(s)
  BY <1>1 DEF RecordsInv, Begun
<1>4. QED
  BY <1>1, <1>2, <1>3 DEF RecordsInv

\* It completes what the alteration left, whether it saw a new key or not.
LEMMA CommitAlterRecords ==
  ASSUME NamesTellKeys, TypeOK, RecordsInv, NEW c \in Conns, CommitAlter(c)
  PROVE  RecordsInv'
<1>1. CanWrite(c) /\ mem[c].tab.begun # <<>>
  BY CommitAlterFacts
<1>2. PICK g \in File, n \in Context :
        /\ g = Committed(c, work, mem[c].tab)
        /\ Remember(c, n) /\ n.tab.begun = <<>> /\ n.hash \in {mem[c].hash, work.newest}
        /\ \/ save # {} /\ Release(g) /\ n.pc = "hash"
           \/ save # {} /\ (\E s \in save : Release(s)) /\ n.pc = "idle"
           \/ save = {} /\ Write(c, g) /\ n.pc = "idle"
  BY CommitAlterFacts
<1>3. work \in File /\ mem[c].tab \in Table /\ work.key \in Keys
  BY DEF TypeOK, Context, File
<1>4. Recorded(g)
  <2> DEFINE t == mem[c].tab
  <2>1. KeyDiffers(t.begun, t.npks, work.key) \/ Alterable(work)
    <3>1. CASE save = {}
      BY <1>3, <3>1, RecordedAlterable DEF RecordsInv, Recorded
    <3>2. ASSUME NEW s \in save
          PROVE  KeyDiffers(t.begun, t.npks, work.key) \/ Alterable(work)
      <4>1. holder = c
        BY <1>1 DEF TypeOK, CanWrite
      <4>2. t.begun = s.key /\ t.npks = Len(s.key)
        BY <1>1, <4>1 DEF RecordsInv, Begun
      <4>3. s.key \in Keys
        BY DEF TypeOK, File
      <4>4. CASE work.key = s.key
        BY <4>4 DEF RecordsInv
      <4>5. CASE work.key # s.key
        BY <1>3, <4>2, <4>3, <4>5 DEF NamesTellKeys
      <4>6. QED
        BY <4>4, <4>5
    <3>3. QED
      BY <3>1, <3>2
  <2>2. QED
    BY <1>2, <1>3, <2>1, CommittedFacts
<1>5. CASE save # {} /\ Release(g)
  BY <1>4, <1>5 DEF Release, RecordsInv
<1>6. CASE save # {} /\ \E s \in save : Release(s)
  BY <1>6 DEF Release, RecordsInv
<1>7. CASE save = {} /\ Write(c, g)
  <2>1. KeptBegun
    BY <1>2, BegunFacts
  <2>2. QED
    BY <1>1, <1>4, <1>7, <2>1, WriteKeepsRecords
<1>8. QED
  BY <1>2, <1>5, <1>6, <1>7

\* They change nothing that is recorded.
LEMMA LoadRecords ==
  ASSUME TypeOK, RecordsInv, NEW c \in Conns,
         Load(c) \/ InitFails(c) \/ EnableDisable(c) \/ Terminate(c)
  PROVE  RecordsInv'
<1>1. work \in File
  BY DEF TypeOK
<1>2. KeptBegun
  BY LoadFacts, BegunFacts
<1>3. Installed(work) \in File /\ Installed(work).key = work.key
  BY <1>1, InstalledFacts DEF File
<1>4. (Recorded(work) => Recorded(Installed(work))) /\ (Alterable(work) => Alterable(Installed(work)))
  BY <1>1, InstalledRecords
<1>5. UNCHANGED <<file, work, holder, explicit, save>> \/ (CanWrite(c) /\ Write(c, Installed(work)))
  BY LoadFacts
<1>6. QED
  BY <1>2, <1>3, <1>4, <1>5, WriteKeepsRecords, SameFilesKeepRecords DEF RecordsInv

\* Statements of the application.
LEMMA WritesRecords ==
  ASSUME TypeOK, RecordsInv, NEW c \in Conns, Fresh(c) \/ save # {}, Writes(c)
  PROVE  RecordsInv'
<1>1. CanWrite(c) /\ View(c) = work /\ mem' = mem
  BY WritesFacts
<1>2. work \in File /\ mem[c] \in Context
  BY DEF TypeOK
<1> DEFINE C == mem[c].tab.cols
<1>3. C \in SUBSET Cols /\ work.rows \in SUBSET Pks /\ work.cols \in SUBSET Cols
  BY <1>2 DEF Context, Table, File
<1>4. KeptBegun
  BY <1>1 DEF KeptBegun
<1>5. save = {} /\ Tracks(c) => C = work.cols
  BY <1>1 DEF Fresh, Tracks
<1>6. Tracks(c) => work.has
  BY <1>1 DEF Tracks
<1> HIDE DEF C
<1>7. PICK p \in Pks :
        \/ Tracks(c) /\ p \notin work.rows /\ Write(c, RowWritten(work, work.rows \cup {p}, p, InsertMark(work.marks[p], C)))
        \/ Tracks(c) /\ p \in work.rows /\ Write(c, RowWritten(work, work.rows \ {p}, p, DeleteMark(work.marks[p])))
        \/ /\ Tracks(c) /\ p \in work.rows
           /\ \E n \in C \cap work.cols : Write(c, RowWritten(work, work.rows, p, [work.marks[p] EXCEPT !.cols = @ \cup {n}]))
        \/ \E R \in {work.rows \cup {p}, work.rows \ {p}} : Write(c, RowMissed(work, R, p))
  BY WritesFacts DEF C
<1>8. work.marks[p] \in Mark
  BY <1>2 DEF File
<1>9. ASSUME NEW R \in {work.rows \cup {p}, work.rows \ {p}, work.rows}, NEW m \in Mark,
             Tracks(c), Write(c, RowWritten(work, R, p, m)),
             Alterable(work) /\ p \in R \ work.loose => m.rip # "dead",
             save = {} => /\ m.cols \subseteq work.cols
                          /\ p \in R \ work.loose => (work.trig => m # Blank /\ m.cols = work.cols)
                          /\ p \notin R \cup work.loose => m.rip # "alive" /\ m.cols = {}
      PROVE  RecordsInv'
  <2> DEFINE g == RowWritten(work, R, p, m)
  <2>1. /\ R \in SUBSET Pks /\ R \subseteq work.rows \cup {p} /\ work.rows \subseteq R \cup {p}
    BY <1>3
  <2>2. g \in File /\ g.key = work.key
    BY <1>2, <2>1, WrittenFacts
  <2>3. Alterable(work) => Alterable(g)
    BY <1>2, <1>6, <1>9, <2>1, WrittenRecords
  <2>4. save = {} => Recorded(g)
    <3>1. save = {} => Recorded(work) /\ Alterable(work)
      BY <1>2, RecordedAlterable DEF RecordsInv, Recorded
    <3>2. QED
      BY <1>2, <1>6, <1>9, <2>1, <3>1, WrittenRecords
  <2>5. QED
    BY <1>1, <1>4, <1>9, <2>2, <2>3, <2>4, WriteKeepsRecords DEF RecordsInv
<1>10. CASE Tracks(c) /\ p \notin work.rows /\ Write(c, RowWritten(work, work.rows \cup {p}, p, InsertMark(work.marks[p], C)))
  <2> DEFINE m == InsertMark(work.marks[p], C)
  <2>1. m \in Mark
    BY <1>3, <1>8, MarkTypes
  <2>2. m.rip # "dead" /\ m.cols = work.marks[p].cols \cup C /\ m # Blank
    BY <1>8 DEF InsertMark, Mark, Blank
  <2>3. ASSUME save = {}
        PROVE  m.cols = work.cols
    <3>1. work.marks[p].cols \subseteq work.cols
      BY <2>3 DEF RecordsInv, Recorded, Repairable
    <3>2. QED
      BY <1>5, <1>10, <2>2, <2>3, <3>1
  <2> HIDE DEF m
  <2>4. QED
    BY <1>6, <1>9, <1>10, <2>1, <2>2, <2>3 DEF m
<1>11. CASE Tracks(c) /\ p \in work.rows /\ Write(c, RowWritten(work, work.rows \ {p}, p, DeleteMark(work.marks[p])))
  <2> DEFINE m == DeleteMark(work.marks[p])
  <2>1. m \in Mark /\ m.cols = {}
    BY <1>8, MarkTypes DEF DeleteMark
  <2>2. ASSUME save = {}, p \notin work.loose
        PROVE  m.rip # "alive"
    <3>1. work.marks[p].rip # "dead"
      BY <1>11, <2>2 DEF RecordsInv, Recorded, Repairable, Dead
    <3>2. QED
      BY <3>1 DEF DeleteMark
  <2> HIDE DEF m
  <2>3. QED
    BY <1>6, <1>9, <1>11, <2>1, <2>2 DEF m
<1>12. ASSUME NEW n \in C \cap work.cols, Tracks(c), p \in work.rows,
              Write(c, RowWritten(work, work.rows, p, [work.marks[p] EXCEPT !.cols = @ \cup {n}]))
       PROVE  RecordsInv'
  <2> DEFINE m == [work.marks[p] EXCEPT !.cols = @ \cup {n}]
  <2>1. m \in Mark /\ m.cols = work.marks[p].cols \cup {n} /\ m.rip = work.marks[p].rip /\ m # Blank
    BY <1>3, <1>8 DEF Mark, Blank
  <2>2. save = {} /\ p \notin work.loose /\ work.trig => work.marks[p].cols = work.cols
    BY <1>6, <1>12 DEF RecordsInv, Recorded
  <2>3. save = {} => work.marks[p].cols \subseteq work.cols
    BY DEF RecordsInv, Recorded, Repairable
  <2>4. Alterable(work) /\ p \notin work.loose => m.rip # "dead"
    BY <1>12, <2>1 DEF Alterable, Dead
  <2>5. p \in work.rows
    BY <1>12
  <2> HIDE DEF m
  <2>6. save = {} => m.cols \subseteq work.cols /\ (p \notin work.loose /\ work.trig => m.cols = work.cols)
    BY <1>3, <1>12, <2>1, <2>2, <2>3
  <2>7. QED
    BY <1>6, <1>9, <1>12, <2>1, <2>4, <2>5, <2>6 DEF m
<1>13. ASSUME NEW R \in {work.rows \cup {p}, work.rows \ {p}}, Write(c, RowMissed(work, R, p))
       PROVE  RecordsInv'
  <2> DEFINE g == RowMissed(work, R, p)
  <2>1. /\ R \in SUBSET Pks /\ R \subseteq work.rows \cup {p} /\ work.rows \subseteq R \cup {p}
    BY <1>3
  <2>2. g \in File /\ g.key = work.key
    BY <1>2, <2>1, MissedFacts
  <2>3. (Recorded(work) => Recorded(g)) /\ (Alterable(work) => Alterable(g))
    BY <1>2, <2>1, MissedRecords
  <2>4. QED
    BY <1>1, <1>4, <1>13, <2>2, <2>3, WriteKeepsRecords DEF RecordsInv
<1>14. QED
  BY <1>7, <1>10, <1>11, <1>12, <1>13

\* Transactions, and connections that are closed.
LEMMA TransactionRecords ==
  ASSUME TypeOK, RecordsInv, NEW c \in Conns,
         Begin(c) \/ Commit(c) \/ Rollback(c) \/ Reopen(c)
  PROVE  RecordsInv'
<1>1. CASE Begin(c)
  <2>1. save = {} /\ UNCHANGED <<file, work, save>>
    BY <1>1 DEF Begin, TypeOK
  <2>2. QED
    BY <2>1 DEF RecordsInv
<1>2. CASE Commit(c)
  BY <1>2 DEF Commit, RecordsInv
<1>3. CASE Rollback(c)
  BY <1>3, UndoKeepsRecords DEF Rollback
<1>4. CASE Reopen(c)
  <2>1. KeptBegun
    <3>1. file \in File
      BY DEF TypeOK
    <3>2. QED
      BY <1>4, <3>1, OpenedFacts, BegunFacts DEF Reopen
  <2>2. QED
    BY <1>4, <2>1, UndoKeepsRecords, SameFilesKeepRecords DEF Reopen
<1>5. QED
  BY <1>1, <1>2, <1>3, <1>4

\* No step leaves the invariant.
LEMMA RecordsStep ==
  ASSUME NamesTellKeys, TypeOK, RecordsInv, [CarefulNext]_vars
  PROVE  RecordsInv'
<1>1. CASE UNCHANGED vars
  BY <1>1 DEF RecordsInv, Begun, vars
<1>2. CASE CarefulNext
  <2>1. PICK c \in Conns :
          \/ Fresh(c) /\ (CloudsyncInit(c) \/ BeginAlter(c) \/ Clean(c) \/ Logout(c))
          \/ (Fresh(c) \/ save # {}) /\ Writes(c)
          \/ Load(c) \/ InitFails(c) \/ EnableDisable(c) \/ Terminate(c)
          \/ Ddl(c) \/ CommitAlter(c) \/ Finish(c)
          \/ Begin(c) \/ Commit(c) \/ Rollback(c) \/ Reopen(c)
    BY <1>2 DEF CarefulNext, Administers
  <2>2. CASE Fresh(c) /\ CloudsyncInit(c)
    BY <2>2, InitRecords
  <2>3. CASE BeginAlter(c) \/ Ddl(c)
    BY <2>3, BeginAlterRecords, DdlRecords
  <2>4. CASE CommitAlter(c)
    BY <2>4, CommitAlterRecords
  <2>5. CASE Clean(c) \/ Finish(c)
    BY <2>5, FinishRecords
  <2>6. CASE Logout(c)
    BY <2>6, LogoutRecords
  <2>7. CASE (Fresh(c) \/ save # {}) /\ Writes(c)
    BY <2>7, WritesRecords
  <2>8. CASE Load(c) \/ InitFails(c) \/ EnableDisable(c) \/ Terminate(c)
    BY <2>8, LoadRecords
  <2>9. CASE Begin(c) \/ Commit(c) \/ Rollback(c) \/ Reopen(c)
    BY <2>9, TransactionRecords
  <2>10. QED
    BY <2>1, <2>2, <2>3, <2>4, <2>5, <2>6, <2>7, <2>8, <2>9
<1>3. QED
  BY <1>1, <1>2

\* A table that is not augmented has nothing recorded and nothing to record.
LEMMA RecordsInit == Init => RecordsInv
<1> SUFFICES ASSUME Init
             PROVE  RecordsInv
  OBVIOUS
<1>1. /\ ~file.has /\ file.marks = NoMarks /\ file.rows \in SUBSET Pks
      /\ work = file /\ save = {}
  BY DEF Init, NoMarks
<1>2. \A p \in Pks : file.marks[p] = Blank
  BY <1>1 DEF NoMarks
<1>3. QED
  BY <1>1, <1>2 DEF RecordsInv, Recorded, Repairable, Dead, Blank

\* What RecordsInv says of the file is what MetaMatchesRows says.
LEMMA RecordsMatch == TypeOK /\ RecordsInv => MetaMatchesRows
BY DEF TypeOK, File, RecordsInv, Recorded, Repairable, MetaMatchesRows, Dead

\* Metadata and table agree: of every row written with triggers the file has every
\* column's entry and no tombstone, and of a row that is not there no entry and no
\* sentinel that says it lives; whatever is initialised, altered, rolled back, cleaned
\* up or crashes, for keys whose changes cloudsync_finalize_alter can see.
THEOREM MetadataMatchesRows ==
  ASSUME NamesTellKeys
  PROVE  CarefulSpec => []MetaMatchesRows
<1>1. TypeOK /\ RecordsInv /\ [CarefulNext]_vars => RecordsInv'
  BY RecordsStep
<1>2. QED
  BY <1>1, RecordsInit, RecordsMatch, TypeCorrect, PTL DEF CarefulSpec

(***************************************************************************)
(* The newest hash is the schema's.                                        *)
(***************************************************************************)
\* What HashInv says of one connection's context, f being what it writes to.
Remembers(c, m, f) ==
  /\ m.pc \in {"triggers", "settings", "site"} => m.tab.begun = <<>>
  /\ save # {} /\ holder = c /\ m.tab.begun # <<>> => m.hash \in {NoSchema, f.newest}

\* It is what HashInv says of contexts.
LEMMA RemembersAll ==
  ASSUME TypeOK, HashInv, NEW c \in Conns
  PROVE  Remembers(c, mem[c], work)
BY DEF HashInv, Remembers

\* Another connection's context matters to nobody who is exempt.
LEMMA ExemptAnnounced ==
  ASSUME TypeOK, NEW c \in Conns, NEW n \in Context, Remember(c, n),
         NEW f \in File, NEW d, d \in {c, NoConn}, Announced(f, d)
  PROVE  /\ Announced(f, c)'
         /\ (Owes(mem[c], f) \/ d = c => Owes(n, f)) => Announced(f, NoConn)'
<1>1. mem'[c] = n /\ \A e \in Conns \ {c} : mem'[e] = mem[e]
  BY RememberTypes
<1>2. f.behind \subseteq Conns
  BY DEF File
<1>3. QED
  BY <1>1, <1>2, NoConnAssumption DEF Announced

\* Who cannot write changes what it owes for the better.
LEMMA OthersAnnounced ==
  ASSUME TypeOK, NEW c \in Conns, NEW n \in Context, Remember(c, n),
         NEW f \in File, Owes(mem[c], f) => Owes(n, f), NEW d, Announced(f, d)
  PROVE  Announced(f, d)'
<1>1. mem'[c] = n /\ \A e \in Conns \ {c} : mem'[e] = mem[e]
  BY RememberTypes
<1>2. f.behind \subseteq Conns
  BY DEF File
<1>3. QED
  BY <1>1, <1>2 DEF Announced

\* Contexts after a step of c.
LEMMA ContextsAfter ==
  ASSUME TypeOK, HashInv, NEW c \in Conns, NEW n \in Context, Remember(c, n),
         holder' = holder, save' = save, holder # c => work' = work,
         Remembers(c, n, work')
  PROVE  /\ \A d \in Conns : mem'[d].pc \in {"triggers", "settings", "site"} => mem'[d].tab.begun = <<>>
         /\ save # {} /\ mem'[holder].tab.begun # <<>> => mem'[holder].hash \in {NoSchema, work'.newest}
<1>1. mem'[c] = n /\ \A e \in Conns \ {c} : mem'[e] = mem[e]
  BY RememberTypes
<1>2. save # {} => holder \in Conns
  BY DEF TypeOK
<1>3. QED
  BY <1>1, <1>2 DEF HashInv, Remembers

\* A write by c whose result is announced, or owed.
LEMMA WriteKeepsHash ==
  ASSUME TypeOK, HashInv, NEW c \in Conns, CanWrite(c), NEW g \in File, Write(c, g),
         NEW n \in Context, Remember(c, n), Remembers(c, n, g),
         save = {} => Announced(g, NoConn)'
  PROVE  HashInv'
<1>1. work' = g /\ holder' = holder /\ save' = save
  BY DEF Write
<1>2. holder # c => holder = NoConn /\ save = {} /\ file' = g
  BY DEF TypeOK, CanWrite, Write
<1>3. holder = c => file' = file
  BY DEF Write
<1>4. file \in File /\ save \subseteq File
  BY DEF TypeOK
<1>5. Announced(file, holder)'
  <2>1. CASE holder = c
    <3>1. Announced(file, c)
      BY <2>1 DEF HashInv
    <3>2. ASSUME NEW f \in File, f = file
          PROVE  Announced(f, c)'
      <4>1. Announced(f, c)
        BY <3>1, <3>2
      <4>2. QED
        BY <4>1, ExemptAnnounced
    <3>3. QED
      BY <1>1, <1>3, <1>4, <2>1, <3>2 DEF Announced
  <2>2. CASE holder # c
    BY <1>1, <1>2, <2>2 DEF Announced
  <2>3. QED
    BY <2>1, <2>2
<1>6. \A s \in save : Announced(s, holder)'
  <2> SUFFICES ASSUME NEW s \in save
               PROVE  Announced(s, holder)'
    OBVIOUS
  <2>1. holder = c /\ s \in File
    BY <1>2, <1>4
  <2>2. Announced(s, c)
    BY <2>1 DEF HashInv
  <2>3. Announced(s, c)'
    BY <2>1, <2>2, ExemptAnnounced
  <2>4. QED
    BY <1>1, <2>1, <2>3 DEF Announced
<1>7. save = {} => Announced(work, NoConn)'
  BY <1>1 DEF Announced
<1>8. /\ \A d \in Conns : mem'[d].pc \in {"triggers", "settings", "site"} => mem'[d].tab.begun = <<>>
      /\ save # {} /\ mem'[holder].tab.begun # <<>> => mem'[holder].hash \in {NoSchema, work'.newest}
  <2>1. CASE holder = c
    BY <1>1, <2>1, ContextsAfter
  <2>2. CASE holder # c
    <3>1. save = {}
      BY <1>2, <2>2
    <3>2. mem'[c] = n /\ \A e \in Conns \ {c} : mem'[e] = mem[e]
      BY RememberTypes
    <3>3. QED
      BY <3>1, <3>2 DEF HashInv, Remembers
  <2>3. QED
    BY <2>1, <2>2
<1>9. QED
  BY <1>1, <1>5, <1>6, <1>7, <1>8 DEF HashInv

\* A step that changes c's context alone, and owes no less.
LEMMA SameFilesKeepHash ==
  ASSUME TypeOK, HashInv, NEW c \in Conns, UNCHANGED <<file, work, holder, explicit, save>>,
         NEW n \in Context, Remember(c, n), Remembers(c, n, work),
         \A f \in File : Owes(mem[c], f) => Owes(n, f)
  PROVE  HashInv'
<1>1. \A f \in File, d \in Conns \cup {NoConn} : Announced(f, d) => Announced(f, d)'
  BY OthersAnnounced
<1>2. file \in File /\ work \in File /\ save \subseteq File /\ holder \in Conns \cup {NoConn}
  BY DEF TypeOK
<1>3. Announced(file, holder)' /\ (save = {} => Announced(work, NoConn)')
  <2>1. ASSUME NEW f \in File, NEW d \in Conns \cup {NoConn}, f = file, d = holder
        PROVE  Announced(f, d)'
    BY <1>1, <2>1 DEF HashInv
  <2>2. ASSUME NEW f \in File, f = work, save = {}
        PROVE  Announced(f, NoConn)'
    BY <1>1, <2>2 DEF HashInv
  <2>3. Announced(file, holder)'
    BY <1>2, <2>1 DEF Announced
  <2>4. save = {} => Announced(work, NoConn)'
    BY <1>2, <2>2 DEF Announced
  <2>5. QED
    BY <2>3, <2>4
<1>4. \A s \in save : Announced(s, holder)'
  <2>1. ASSUME NEW s \in save, NEW d \in Conns \cup {NoConn}, d = holder
        PROVE  Announced(s, d)'
    BY <1>1, <1>2, <2>1 DEF HashInv
  <2>2. QED
    BY <1>2, <2>1 DEF Announced
<1>5. QED
  BY <1>3, <1>4, ContextsAfter DEF HashInv

\* c can write what it sees and thereby change nothing.
LEMMA NothingWritten ==
  ASSUME TypeOK, NEW c \in Conns, CanWrite(c), UNCHANGED <<file, work, holder, explicit, save>>
  PROVE  Write(c, work)
BY DEF TypeOK, CanWrite, Write

\* Whoever starts from the newest hash, or from none, does not hide the schema's.
LEMMA FreshOwes ==
  ASSUME NEW f \in File, NEW m \in Context, m.hash \in {NoSchema, f.newest}
  PROVE  f.newest # SchemaOf(f) => Owes(m, f)
BY SchemaTypes DEF Owes

\* What c owed before it wrote g, which announces no more and no less than f did.
LEMMA StillAnnounced ==
  ASSUME TypeOK, NEW c \in Conns, NEW n \in Context, Remember(c, n),
         NEW f \in File, NEW g \in File, Announced(f, NoConn),
         g.cols = f.cols, g.key = f.key, f.behind \subseteq g.behind,
         g.algo => f.algo /\ g.newest = f.newest,
         f.newest # SchemaOf(f) => (Owes(mem[c], f) => Owes(n, f))
  PROVE  Announced(g, NoConn)'
<1>1. mem'[c] = n /\ \A e \in Conns \ {c} : mem'[e] = mem[e]
  BY RememberTypes
<1>2. f.behind \subseteq Conns /\ SchemaOf(g) = SchemaOf(f)
  BY DEF File, SchemaOf
<1>3. QED
  BY <1>1, <1>2, NoConnAssumption DEF Announced, Owes

\* cloudsync_init, of a connection that knows the newest hash or none.
LEMMA InitHash ==
  ASSUME TypeOK, HashInv, NEW c \in Conns, Fresh(c), CloudsyncInit(c)
  PROVE  HashInv'
<1>1. PICK g \in File, n \in Context, C \in SUBSET Cols :
        /\ g = Augment(c, Installed(work), C) /\ Write(c, g)
        /\ Remember(c, n) /\ n.pc = "hash" /\ n.hash \in {mem[c].hash, work.newest}
  BY InitFacts
<1>2. work \in File /\ CanWrite(c) /\ View(c) = work
  BY InitFacts, ViewFacts DEF TypeOK
<1>3. Installed(work) \in File /\ Installed(work).newest = work.newest
  BY <1>2, InstalledFacts DEF File
<1>4. g.newest = work.newest /\ c \in g.behind
  BY <1>1, <1>3, AugmentFacts
<1>5. n.hash \in {NoSchema, g.newest}
  BY <1>1, <1>2, <1>4 DEF Fresh
<1>6. g.newest # SchemaOf(g) => Owes(n, g)
  BY <1>5, FreshOwes
<1>7. Announced(g, NoConn)'
  <2>1. mem'[c] = n
    BY <1>1, RememberTypes
  <2>2. QED
    BY <1>4, <1>6, <2>1 DEF Announced
<1>8. Remembers(c, n, g)
  BY <1>1, <1>5 DEF Remembers
<1>9. QED
  BY <1>1, <1>2, <1>7, <1>8, WriteKeepsHash

\* dbutils_update_schema_hash.
LEMMA UpdateHashHash ==
  ASSUME TypeOK, HashInv, NEW c \in Conns, UpdateHash(c)
  PROVE  HashInv'
<1>1. PICK g \in File, n \in Context :
        /\ Remember(c, n) /\ n.tab = mem[c].tab /\ n.pc = "idle"
        /\ \/ ~CanWrite(c) /\ UNCHANGED <<file, work, holder, explicit, save>>
           \/ /\ CanWrite(c) /\ Write(c, g) /\ SameTable(g, work)
              /\ g.algo = work.algo /\ g.behind = work.behind \ {c}
              /\ \/ /\ ~work.algo \/ mem[c].hash = SchemaOf(work)
                    /\ g.newest = work.newest /\ n.hash = mem[c].hash
                 \/ g.newest = SchemaOf(work) /\ n.hash = SchemaOf(work)
  BY UpdateHashFacts
<1>2. mem[c].pc = "hash" /\ work \in File
  BY DEF UpdateHash, TypeOK
<1>3. CASE ~CanWrite(c) /\ UNCHANGED <<file, work, holder, explicit, save>>
  <2>1. Remembers(c, n, work) /\ \A f \in File : Owes(n, f)
    BY <1>1, <1>3 DEF Remembers, Owes, CanWrite
  <2>2. QED
    BY <1>1, <1>3, <2>1, SameFilesKeepHash
<1>4. CASE CanWrite(c) /\ ~(g.newest = SchemaOf(work) /\ n.hash = SchemaOf(work))
  <2>1. /\ Write(c, g) /\ SameTable(g, work)
        /\ g.algo = work.algo /\ g.behind = work.behind \ {c}
        /\ ~work.algo \/ mem[c].hash = SchemaOf(work)
        /\ g.newest = work.newest /\ n.hash = mem[c].hash
    BY <1>1, <1>4
  <2>2. Remembers(c, n, g)
    BY <1>1, <2>1, RemembersAll DEF Remembers
  <2>3. save = {} => Announced(g, NoConn)'
    <3>1. SUFFICES ASSUME save = {}, g.algo, g.newest # SchemaOf(g)
                   PROVE  \E e \in g.behind : e = NoConn \/ Owes(mem'[e], g)
      BY DEF Announced
    <3>2. SchemaOf(g) = SchemaOf(work)
      BY <2>1 DEF SameTable, SchemaOf
    <3>3. PICK e \in work.behind : e = NoConn \/ Owes(mem[e], work)
      BY <2>1, <3>1, <3>2 DEF HashInv, Announced
    <3>4. e \in Conns /\ e # NoConn
      BY <1>2, NoConnAssumption DEF File
    <3>5. e # c
      BY <1>2, <2>1, <3>1, <3>2, <3>3, <3>4 DEF Owes
    <3>6. mem'[e] = mem[e]
      BY <1>1, <3>4, <3>5, RememberTypes
    <3>7. QED
      BY <2>1, <3>2, <3>3, <3>4, <3>5, <3>6 DEF Owes
  <2>4. QED
    BY <1>1, <1>4, <2>1, <2>2, <2>3, WriteKeepsHash
<1>5. CASE CanWrite(c) /\ g.newest = SchemaOf(work) /\ n.hash = SchemaOf(work)
  <2>1. Write(c, g) /\ SameTable(g, work)
    BY <1>1, <1>5
  <2>2. g.newest = SchemaOf(g)
    BY <1>5, <2>1 DEF SameTable, SchemaOf
  <2>3. Remembers(c, n, g)
    BY <1>1, <1>5 DEF Remembers
  <2>4. Announced(g, NoConn)'
    BY <2>2 DEF Announced
  <2>5. QED
    BY <1>1, <1>5, <2>1, <2>3, <2>4, WriteKeepsHash
<1>6. QED
  BY <1>1, <1>3, <1>4, <1>5

\* cloudsync_cleanup, each of its statements.
LEMMA CleanupHash ==
  ASSUME TypeOK, HashInv, NEW c \in Conns, (Fresh(c) /\ Clean(c)) \/ CleanupStep(c)
  PROVE  HashInv'
<1>1. work \in File /\ (CanWrite(c) => View(c) = work)
  BY ViewFacts DEF TypeOK
<1>2. CASE Fresh(c) /\ Clean(c)
  <2>1. PICK n \in Context :
          /\ Remember(c, n) /\ n.tab = NoTable
          /\ \/ Cleanup(c) /\ CanWrite(c) /\ n.hash \in {mem[c].hash, work.newest}
             \/ CleanupFails(c) /\ n.pc = "idle"
    BY <1>2, CleanFacts
  <2>2. \A f \in File : Remembers(c, n, f)
    BY <2>1, NothingLoaded DEF Remembers
  <2>3. CASE Cleanup(c)
    <3>1. CanWrite(c) /\ n.hash \in {mem[c].hash, work.newest}
      BY <2>1, <2>3 DEF Cleanup, CleanupFails
    <3>2. PICK g \in {work, Drop(work)} : Write(c, g)
      BY <1>2, <3>1, CleanFacts, NothingWritten
    <3>3. /\ g \in File /\ g.cols = work.cols /\ g.key = work.key /\ g.algo = work.algo
          /\ g.newest = work.newest /\ g.behind = work.behind
      BY <1>1, DropFacts
    <3>4. work.newest # SchemaOf(work) => Owes(n, work)
      BY <1>1, <1>2, <3>1, FreshOwes DEF Fresh
    <3>5. save = {} => Announced(g, NoConn)'
      BY <1>1, <2>1, <3>3, <3>4, StillAnnounced DEF HashInv
    <3>6. QED
      BY <2>1, <2>2, <3>1, <3>2, <3>3, <3>5, WriteKeepsHash
  <2>4. CASE CleanupFails(c)
    <3>1. n.pc = "idle"
      BY <2>1, <2>4 DEF Cleanup, CleanupFails
    <3>2. UNCHANGED <<file, work, holder, explicit, save>>
      BY <2>4 DEF CleanupFails
    <3>3. \A f \in File : Owes(n, f)
      BY <3>1 DEF Owes
    <3>4. QED
      BY <1>1, <2>1, <2>2, <3>2, <3>3, SameFilesKeepHash
  <2>5. QED
    BY <1>2, <2>3, <2>4 DEF Clean
<1>3. CASE CleanupStep(c)
  <2>1. PICK n \in Context :
          /\ Remember(c, n) /\ n.tab = mem[c].tab /\ n.hash = mem[c].hash
          /\ mem[c].pc = "site" => n.pc = "idle"
    BY <1>3, CleanupStepFacts
  <2>2. mem[c].pc \in {"triggers", "settings", "site"}
    BY <1>3, CleanupStepFacts
  <2>3. \A f \in File : Remembers(c, n, f)
    BY <2>1, <2>2 DEF HashInv, Remembers
  <2>4. \A f \in File : Owes(mem[c], f) => Owes(n, f)
    BY <2>1, <2>2 DEF Owes
  <2>5. CASE UNCHANGED <<file, work, holder, explicit, save>>
    BY <1>1, <2>1, <2>3, <2>4, <2>5, SameFilesKeepHash
  <2>6. ASSUME CanWrite(c), NEW g \in File, Write(c, g), SameTable(g, work), g.behind = work.behind,
               g.algo => work.algo /\ g.newest = work.newest
        PROVE  HashInv'
    <3>1. save = {} => Announced(g, NoConn)'
      BY <1>1, <2>1, <2>4, <2>6, StillAnnounced DEF HashInv, SameTable
    <3>2. QED
      BY <2>1, <2>3, <2>6, <3>1, WriteKeepsHash
  <2>7. QED
    BY <1>3, <2>5, <2>6, CleanupStepFacts
<1>4. QED
  BY <1>2, <1>3

\* cloudsync_network_logout announces the schema, or forgets.
LEMMA LogoutHash ==
  ASSUME TypeOK, HashInv, NEW c \in Conns, Logout(c)
  PROVE  HashInv'
<1>1. PICK g \in File, n \in Context, dropped \in BOOLEAN :
        /\ g = LoggedOut(c, work, dropped)
        /\ Remember(c, n) /\ n.pc = "idle" /\ n.tab.begun = <<>>
        /\ Write(c, g) \/ UNCHANGED <<file, work, holder, explicit, save>>
  BY LogoutFacts
<1>2. CanWrite(c) /\ work \in File
  BY LogoutFacts DEF TypeOK
<1>3. g.newest = SchemaOf(g)
  BY <1>1, <1>2, LoggedOutFacts
<1>4. \A f \in File : Remembers(c, n, f) /\ Owes(n, f)
  BY <1>1 DEF Remembers, Owes
<1>5. Announced(g, NoConn)'
  BY <1>3 DEF Announced
<1>6. QED
  BY <1>1, <1>2, <1>4, <1>5, WriteKeepsHash, SameFilesKeepHash

\* The functions that change contexts, and at most the site id.
LEMMA LoadHash ==
  ASSUME TypeOK, HashInv, NEW c \in Conns,
         Load(c) \/ InitFails(c) \/ EnableDisable(c) \/ Terminate(c)
  PROVE  HashInv'
<1>1. PICK n \in Context :
        /\ Remember(c, n) /\ n.pc = "idle"
        /\ n.tab.begun = <<>> \/ (n.tab.begun = mem[c].tab.begun /\ n.tab.npks = mem[c].tab.npks)
        /\ CanWrite(c) => n.hash \in {mem[c].hash, work.newest}
  BY LoadFacts
<1>2. work \in File
  BY DEF TypeOK
<1> DEFINE i == Installed(work)
<1>3. /\ i \in File /\ i.cols = work.cols /\ i.key = work.key /\ i.algo = work.algo
      /\ i.newest = work.newest /\ i.behind = work.behind
  BY <1>2, InstalledFacts DEF File
<1>4. Remembers(c, n, work)
  BY <1>1, RemembersAll DEF Remembers, CanWrite
<1>5. \A f \in File : Owes(n, f)
  BY <1>1 DEF Owes
<1>6. CASE UNCHANGED <<file, work, holder, explicit, save>>
  BY <1>1, <1>2, <1>4, <1>5, <1>6, SameFilesKeepHash
<1>7. ASSUME CanWrite(c), NEW g, g = i, Write(c, g)
      PROVE  HashInv'
  <2>1. g \in File /\ Remembers(c, n, g)
    BY <1>3, <1>4, <1>7 DEF Remembers
  <2>2. save = {} => Announced(g, NoConn)'
    BY <1>1, <1>2, <1>3, <1>5, <1>7, StillAnnounced DEF HashInv
  <2>3. QED
    BY <1>1, <1>7, <2>1, <2>2, WriteKeepsHash
<1>8. QED
  BY <1>6, <1>7, LoadFacts

\* An alteration begins with the newest hash in memory, or none.
LEMMA BeginAlterHash ==
  ASSUME TypeOK, HashInv, NEW c \in Conns, Fresh(c), BeginAlter(c)
  PROVE  HashInv'
<1>1. /\ save = {} /\ save' = {work} /\ holder' = c /\ UNCHANGED file /\ Idle(c)
      /\ work'.newest = work.newest /\ file \in File /\ work \in File
      /\ View(c) = work /\ CanWrite(c)
  BY BeginAlterFacts, ViewFacts DEF TypeOK, BeginAlter
<1>2. PICK n \in Context :
        /\ Remember(c, n) /\ n.pc = mem[c].pc /\ n.hash \in {mem[c].hash, work.newest}
  BY BeginAlterFacts
<1>3. mem'[c] = n /\ \A e \in Conns \ {c} : mem'[e] = mem[e]
  BY <1>2, RememberTypes
<1>4. n.hash \in {NoSchema, work.newest} /\ n.pc = "idle"
  BY <1>1, <1>2 DEF Fresh, Idle
<1>5. Announced(work, NoConn) /\ (Announced(file, c) \/ Announced(file, NoConn))
  BY <1>1 DEF HashInv, CanWrite
<1>6. ASSUME NEW f \in File, NEW d \in {c, NoConn}, Announced(f, d)
      PROVE  Announced(f, c)'
  BY <1>2, <1>6, ExemptAnnounced
<1>7. Announced(file, c)' /\ \A s \in {work} : Announced(s, c)'
  <2>1. ASSUME NEW f \in File, f = file
        PROVE  Announced(f, c)'
    BY <1>5, <1>6, <2>1
  <2>2. ASSUME NEW s \in {work}
        PROVE  Announced(s, c)'
    BY <1>1, <1>5, <1>6, <2>2
  <2>3. Announced(file, c)'
    BY <1>1, <2>1 DEF Announced
  <2>4. QED
    BY <2>2, <2>3
<1>8. /\ Announced(file, holder)' /\ \A s \in save' : Announced(s, holder)'
  BY <1>1, <1>7 DEF Announced
<1>9. \A d \in Conns : mem'[d].pc \in {"triggers", "settings", "site"} => mem'[d].tab.begun = <<>>
  BY <1>3, <1>4 DEF HashInv
<1>10. mem'[holder'].hash \in {NoSchema, work'.newest}
  BY <1>1, <1>3, <1>4
<1>11. save' # {}
  BY <1>1
<1>12. QED
  BY <1>8, <1>9, <1>10, <1>11 DEF HashInv

\* It ends with a connection that owes the new hash, or with the old schema.
LEMMA CommitAlterHash ==
  ASSUME TypeOK, HashInv, NEW c \in Conns, CommitAlter(c)
  PROVE  HashInv'
<1>1. CanWrite(c) /\ mem[c].tab.begun # <<>> /\ work \in File /\ file \in File /\ save \subseteq File
  BY CommitAlterFacts DEF TypeOK
<1>2. PICK g \in File, n \in Context :
        /\ g = Committed(c, work, mem[c].tab)
        /\ Remember(c, n) /\ n.tab.begun = <<>> /\ n.hash \in {mem[c].hash, work.newest}
        /\ \/ save # {} /\ Release(g) /\ n.pc = "hash"
           \/ save # {} /\ (\E s \in save : Release(s)) /\ n.pc = "idle"
           \/ save = {} /\ Write(c, g) /\ n.pc = "idle"
  BY CommitAlterFacts
<1>3. g.newest = work.newest /\ c \in g.behind
  <2>1. mem[c].tab \in Table
    BY DEF TypeOK, Context
  <2>2. QED
    BY <1>1, <1>2, <2>1, CommittedFacts
<1>4. mem'[c] = n /\ \A e \in Conns \ {c} : mem'[e] = mem[e]
  BY <1>2, RememberTypes
<1>5. \A d \in Conns : mem'[d].pc \in {"triggers", "settings", "site"} => mem'[d].tab.begun = <<>>
  BY <1>2, <1>4 DEF HashInv
<1>6. ASSUME NEW x \in File, Release(x), save # {}, Announced(x, NoConn)'
      PROVE  HashInv'
  <2>1. holder = c
    BY <1>1, <1>6 DEF TypeOK, CanWrite
  <2>2. save' = {} /\ work' = x
    BY <1>6 DEF Release
  <2>3. Announced(work, NoConn)'
    BY <1>6, <2>2 DEF Announced
  <2>4. Announced(file, holder)'
    <3>1. CASE explicit
      <4>1. file' = file /\ holder' = c
        BY <1>6, <2>1, <3>1 DEF Release
      <4>2. ASSUME NEW f \in File, f = file
            PROVE  Announced(f, c)'
        BY <1>2, <2>1, <4>2, ExemptAnnounced DEF HashInv
      <4>3. QED
        BY <1>1, <4>1, <4>2 DEF Announced
    <3>2. CASE ~explicit
      <4>1. file' = x /\ holder' = NoConn
        BY <1>6, <3>2 DEF Release
      <4>2. QED
        BY <1>6, <4>1 DEF Announced
    <3>3. QED
      BY <3>1, <3>2
  <2>5. QED
    BY <1>5, <2>2, <2>3, <2>4 DEF HashInv
<1>7. CASE save # {} /\ Release(g) /\ n.pc = "hash"
  <2>1. holder = c
    BY <1>1, <1>7 DEF TypeOK, CanWrite
  <2>2. n.hash \in {NoSchema, g.newest}
    BY <1>1, <1>2, <1>3, <1>7, <2>1 DEF HashInv
  <2>3. g.newest # SchemaOf(g) => Owes(n, g)
    BY <2>2, FreshOwes
  <2>4. Announced(g, NoConn)'
    BY <1>3, <1>4, <2>3 DEF Announced
  <2>5. QED
    BY <1>6, <1>7, <2>4
<1>8. CASE save # {} /\ (\E s \in save : Release(s)) /\ n.pc = "idle"
  <2>1. holder = c
    BY <1>1, <1>8 DEF TypeOK, CanWrite
  <2>2. PICK s \in save : Release(s)
    BY <1>8
  <2>3. s \in File /\ Announced(s, c) /\ Owes(n, s)
    BY <1>1, <1>8, <2>1 DEF HashInv, Owes
  <2>4. Announced(s, NoConn)'
    BY <1>2, <2>3, ExemptAnnounced
  <2>5. QED
    BY <1>6, <1>8, <2>2, <2>3, <2>4
<1>9. CASE save = {} /\ Write(c, g) /\ n.pc = "idle"
  <2>1. Remembers(c, n, g) /\ Owes(n, g)
    BY <1>9 DEF Remembers, Owes
  <2>2. Announced(g, NoConn)'
    BY <1>3, <1>4, <2>1 DEF Announced
  <2>3. QED
    BY <1>1, <1>2, <1>9, <2>1, <2>2, WriteKeepsHash
<1>10. QED
  BY <1>2, <1>7, <1>8, <1>9

\* The application's DDL and statements.
LEMMA ApplicationHash ==
  ASSUME TypeOK, HashInv, NEW c \in Conns, Ddl(c) \/ Writes(c)
  PROVE  HashInv'
<1>1. work \in File /\ mem[c] \in Context
  BY DEF TypeOK
<1>2. CASE Ddl(c)
  <2>1. save # {} /\ UNCHANGED <<file, holder, explicit, save, mem>> /\ work'.newest = work.newest
    BY <1>2, DdlFacts
  <2>2. QED
    BY <2>1 DEF HashInv, Announced
<1>3. CASE Writes(c)
  <2>1. CanWrite(c) /\ mem' = mem
    BY <1>3, WritesFacts
  <2>2. Remember(c, mem[c]) /\ Remembers(c, mem[c], work)
    BY <2>1, RemembersAll DEF Remember, TypeOK
  <2>3. PICK g \in File :
          /\ Write(c, g)
          /\ g.cols = work.cols /\ g.key = work.key /\ g.algo = work.algo
          /\ g.newest = work.newest /\ g.behind = work.behind
    BY <1>3, WritesKeep
  <2>4. Remembers(c, mem[c], g)
    BY <2>2, <2>3 DEF Remembers
  <2>5. save = {} => Announced(g, NoConn)'
    BY <1>1, <2>2, <2>3, StillAnnounced DEF HashInv
  <2>6. QED
    BY <1>1, <2>1, <2>2, <2>3, <2>4, <2>5, WriteKeepsHash
<1>4. QED
  BY <1>2, <1>3

\* What a transaction sees that is undone is the file, which nobody is exempt of any
\* more: the connection that held it is idle, or forgets what it was doing.
LEMMA UndoKeepsHash ==
  ASSUME TypeOK, HashInv, NEW c \in Conns, holder = c, Undo,
         NEW n \in Context, Remember(c, n), n.pc = "idle"
  PROVE  HashInv'
<1>1. file \in File /\ file' = file /\ work' = file /\ holder' = NoConn /\ save' = {}
  BY DEF TypeOK, Undo
<1>2. mem'[c] = n /\ \A e \in Conns \ {c} : mem'[e] = mem[e]
  BY RememberTypes
<1>3. ASSUME NEW f \in File, f = file
      PROVE  Announced(f, NoConn)'
  <2>1. Announced(f, c) /\ Owes(n, f)
    BY <1>3 DEF HashInv, Owes
  <2>2. QED
    BY <2>1, ExemptAnnounced
<1>4. Announced(file, holder)' /\ Announced(work, NoConn)'
  BY <1>1, <1>3 DEF Announced
<1>5. \A d \in Conns : mem'[d].pc \in {"triggers", "settings", "site"} => mem'[d].tab.begun = <<>>
  BY <1>2 DEF HashInv
<1>6. QED
  BY <1>1, <1>4, <1>5 DEF HashInv

\* Transactions, and connections that are closed.
LEMMA TransactionHash ==
  ASSUME TypeOK, HashInv, NEW c \in Conns,
         Begin(c) \/ Commit(c) \/ Rollback(c) \/ Reopen(c)
  PROVE  HashInv'
<1>1. file \in File /\ work \in File /\ mem[c] \in Context /\ Remember(c, mem[c]) = (mem' = mem)
  BY DEF TypeOK, Remember
<1>2. CASE Begin(c)
  <2>1. holder = NoConn /\ save = {} /\ holder' = c /\ UNCHANGED <<file, work, save, mem>>
    BY <1>2 DEF Begin, TypeOK
  <2>2. file.behind \subseteq Conns
    BY <1>1 DEF File
  <2>3. Announced(file, holder)'
    BY <2>1, <2>2, NoConnAssumption DEF HashInv, Announced
  <2>4. QED
    BY <2>1, <2>3 DEF HashInv, Announced
<1>3. CASE Commit(c)
  BY <1>3 DEF Commit, HashInv, Announced
<1>4. CASE Rollback(c)
  BY <1>1, <1>4, UndoKeepsHash DEF Rollback, Idle
<1>5. CASE Reopen(c)
  <2>1. /\ Opened(file) \in Context /\ Opened(file).pc = "idle" /\ Opened(file).tab.begun = <<>>
        /\ Remember(c, Opened(file))
    BY <1>1, <1>5, OpenedFacts DEF Reopen
  <2>2. \E n \in Context : Remember(c, n) /\ n.pc = "idle" /\ n.tab.begun = <<>>
    BY <2>1
  <2>3. PICK n \in Context : Remember(c, n) /\ n.pc = "idle" /\ n.tab.begun = <<>>
    BY <2>2
  <2>4. CASE holder = c
    BY <1>5, <2>3, <2>4, UndoKeepsHash DEF Reopen
  <2>5. CASE holder # c
    <3>1. Remembers(c, n, work) /\ \A f \in File : Owes(n, f)
      BY <2>3 DEF Remembers, Owes
    <3>2. QED
      BY <1>5, <2>3, <2>5, <3>1, SameFilesKeepHash DEF Reopen
  <2>6. QED
    BY <2>4, <2>5
<1>6. QED
  BY <1>2, <1>3, <1>4, <1>5

\* No step leaves the invariant.
LEMMA HashStep ==
  ASSUME TypeOK, HashInv, [CarefulNext]_vars
  PROVE  HashInv'
<1>1. CASE UNCHANGED vars
  BY <1>1 DEF HashInv, Announced, vars
<1>2. CASE CarefulNext
  <2>1. PICK c \in Conns :
          \/ Fresh(c) /\ (CloudsyncInit(c) \/ BeginAlter(c) \/ Clean(c) \/ Logout(c))
          \/ Writes(c)
          \/ Load(c) \/ InitFails(c) \/ EnableDisable(c) \/ Terminate(c)
          \/ Ddl(c) \/ CommitAlter(c) \/ Finish(c)
          \/ Begin(c) \/ Commit(c) \/ Rollback(c) \/ Reopen(c)
    BY <1>2 DEF CarefulNext, Administers
  <2>2. CASE Fresh(c) /\ CloudsyncInit(c)
    BY <2>2, InitHash
  <2>3. CASE Fresh(c) /\ BeginAlter(c)
    BY <2>3, BeginAlterHash
  <2>4. CASE (Fresh(c) /\ Clean(c)) \/ CleanupStep(c)
    BY <2>4, CleanupHash
  <2>5. CASE Logout(c)
    BY <2>5, LogoutHash
  <2>6. CASE CommitAlter(c)
    BY <2>6, CommitAlterHash
  <2>7. CASE UpdateHash(c)
    BY <2>7, UpdateHashHash
  <2>8. CASE Ddl(c) \/ Writes(c)
    BY <2>8, ApplicationHash
  <2>9. CASE Load(c) \/ InitFails(c) \/ EnableDisable(c) \/ Terminate(c)
    BY <2>9, LoadHash
  <2>10. CASE Begin(c) \/ Commit(c) \/ Rollback(c) \/ Reopen(c)
    BY <2>10, TransactionHash
  <2>11. QED
    BY <2>1, <2>2, <2>3, <2>4, <2>5, <2>6, <2>7, <2>8, <2>9, <2>10 DEF Finish
<1>3. QED
  BY <1>1, <1>2

\* A table that is not augmented announces nothing.
LEMMA HashInit == Init => HashInv
BY DEF Init, HashInv, Announced, NoContext, NoTable

\* Once every init and alteration has recorded its hash, the newest schema hash is
\* that of the table as it is: what payloads announce and dbutils_check_schema_hash
\* looks for, whoever altered, logged out, cleaned up or crashed in between.
THEOREM SchemaAnnounced == CarefulSpec => []SchemaCurrent
<1>1. TypeOK /\ HashInv /\ [CarefulNext]_vars => HashInv'
  BY HashStep
<1>2. HashInv => SchemaCurrent
  BY DEF HashInv, Announced, SchemaCurrent
<1>3. QED
  BY <1>1, <1>2, HashInit, TypeCorrect, PTL DEF CarefulSpec

(***************************************************************************)
(* Deletions are remembered.                                               *)
(***************************************************************************)
\* Of a tombstone it says which files a step may leave.
Keeps(g, p) == Dead(g, p) \/ p \in g.rows

\* A tombstone of a row that is there is that of one that was written untracked.
LEMMA DeadRows ==
  ASSUME TypeOK, RecordsInv, \A s \in save : s.key = work.key,
         NEW p \in work.rows, Dead(work, p)
  PROVE  p \in work.loose
<1>1. CASE save = {}
  BY <1>1 DEF RecordsInv, Recorded, Repairable
<1>2. CASE save # {}
  BY <1>2 DEF RecordsInv, Alterable
<1>3. QED
  BY <1>1, <1>2

\* The functions that administer the table, short of dropping its metadata.
LEMMA FunctionsKeep ==
  ASSUME TypeOK, NEW c \in Conns, NEW p \in Pks, Dead(work, p), work'.drops = work.drops,
         \/ CloudsyncInit(c) \/ BeginAlter(c) \/ Clean(c) \/ Logout(c) \/ Finish(c)
         \/ Load(c) \/ InitFails(c) \/ EnableDisable(c) \/ Terminate(c)
  PROVE  Keeps(work', p)
<1> USE DEF Keeps
<1>1. work \in File
  BY DEF TypeOK
<1> DEFINE i == Installed(work)
<1>2. i \in File /\ i.rows = work.rows /\ i.marks = work.marks /\ i.drops = work.drops
  BY <1>1, InstalledFacts DEF File
<1>3. CASE CloudsyncInit(c)
  <2>1. PICK C \in SUBSET Cols : work' = Augment(c, i, C)
    BY <1>3, InitFacts DEF Write
  <2>2. work'.rows = work.rows /\ (p \notin work.rows => work'.marks[p] = work.marks[p])
    BY <1>2, <2>1, AugmentFacts
  <2>3. QED
    BY <2>2 DEF Dead
<1>4. CASE BeginAlter(c)
  BY <1>4, BeginAlterFacts DEF SameTable, Dead
<1>5. CASE Clean(c)
  BY <1>1, <1>5, CleanFacts, DropFacts DEF Write
<1>6. CASE Logout(c)
  <2>1. CASE UNCHANGED work
    BY <2>1
  <2>2. CASE \E dropped \in BOOLEAN : work' = LoggedOut(c, work, dropped)
    BY <1>1, <2>2, LoggedOutFacts DEF Dead
  <2>3. QED
    BY <1>6, <2>1, <2>2, LogoutFacts DEF Write
<1>7. CASE UpdateHash(c)
  BY <1>7, UpdateHashFacts DEF Write, SameTable, Dead
<1>8. CASE CleanupStep(c)
  BY <1>8, CleanupStepFacts DEF Write, SameTable, Dead
<1>9. CASE Load(c) \/ InitFails(c) \/ EnableDisable(c) \/ Terminate(c)
  <2>1. work' = work \/ work' = i
    BY <1>9, LoadFacts DEF Write
  <2>2. QED
    BY <1>2, <2>1 DEF Dead
<1>10. QED
  BY <1>3, <1>4, <1>5, <1>6, <1>7, <1>8, <1>9 DEF Finish

\* An alteration.
LEMMA AlterationKeeps ==
  ASSUME TypeOK, NEW c \in Conns, NEW p \in Pks, Dead(work, p), work'.drops = work.drops,
         Ddl(c) \/ CommitAlter(c)
  PROVE  Keeps(work', p) \/ work' \in save
<1>1. work \in File /\ mem[c].tab \in Table
  BY DEF TypeOK, Context
<1>2. CASE Ddl(c)
  BY <1>2, DdlFacts DEF Keeps, Dead
<1>3. CASE CommitAlter(c)
  <2>1. work' = Committed(c, work, mem[c].tab) \/ work' \in save
    BY <1>3, CommitAlterFacts DEF Write, Release
  <2>2. QED
    BY <1>1, <2>1, CommittedFacts DEF Keeps
<1>4. QED
  BY <1>2, <1>3

\* The application's statements.
LEMMA WritesKeepDead ==
  ASSUME TypeOK, RecordsInv, NEW c \in Conns, Writes(c), \A s \in save : s.key = work.key,
         NEW p \in Pks, Dead(work, p), p \notin work.loose
  PROVE  Keeps(work', p)
<1>1. work \in File /\ p \notin work.rows
  BY DeadRows DEF TypeOK
<1>2. PICK q \in Pks, R \in SUBSET Pks, m \in Mark :
        \/ work' = RowWritten(work, R, q, m) /\ (q \in work.rows \/ q \in R)
        \/ work' = RowMissed(work, R, q)
  BY RowFacts DEF Write
<1>3. CASE work' = RowMissed(work, R, q)
  <2>1. work'.marks = work.marks
    BY <1>1, <1>3, MissedFacts
  <2>2. QED
    BY <2>1 DEF Keeps, Dead
<1>4. CASE work' = RowWritten(work, R, q, m) /\ (q \in work.rows \/ q \in R)
  <2>1. work'.rows = R /\ \A x \in Pks \ {q} : work'.marks[x] = work.marks[x]
    BY <1>1, <1>4, WrittenFacts
  <2>2. CASE p = q
    BY <1>1, <1>4, <2>1, <2>2 DEF Keeps
  <2>3. CASE p # q
    <3>1. work'.marks[p] = work.marks[p]
      BY <2>1, <2>3
    <3>2. QED
      BY <3>1 DEF Keeps, Dead
  <2>4. QED
    BY <2>2, <2>3
<1>5. QED
  BY <1>2, <1>3, <1>4

\* Each step.
LEMMA TombstonesStep ==
  ASSUME TypeOK, RecordsInv, CarefulNext,
         NEW p \in Pks, Dead(work, p), p \notin work.loose, work'.drops = work.drops,
         \A s \in save : s.key = work.key
  PROVE  Dead(work', p) \/ p \in work'.rows \/ work' \in save \cup {file}
<1>1. PICK c \in Conns :
        \/ CloudsyncInit(c) \/ BeginAlter(c) \/ Clean(c) \/ Logout(c) \/ Finish(c)
        \/ Load(c) \/ InitFails(c) \/ EnableDisable(c) \/ Terminate(c)
        \/ Ddl(c) \/ CommitAlter(c) \/ Writes(c)
        \/ Begin(c) \/ Commit(c) \/ Rollback(c) \/ Reopen(c)
  BY DEF CarefulNext, Administers
<1>2. CASE Begin(c) \/ Commit(c) \/ Rollback(c) \/ Reopen(c)
  BY <1>2 DEF Begin, Commit, Rollback, Reopen, Undo
<1>3. CASE Writes(c)
  BY <1>3, WritesKeepDead DEF Keeps
<1>4. CASE Ddl(c) \/ CommitAlter(c)
  BY <1>4, AlterationKeeps DEF Keeps
<1>5. QED
  BY <1>1, <1>2, <1>3, <1>4, FunctionsKeep DEF Keeps

\* Deletions are remembered: no statement of a careful use but one that drops the
\* whole metadata table takes the tombstone of a deleted row, cloudsync_init's refill
\* and cloudsync_finalize_alter's compacting included; for keys whose changes the
\* latter can see.
THEOREM DeletionsRemembered ==
  ASSUME NamesTellKeys
  PROVE  CarefulSpec => TombstonesKept
<1> DEFINE KeptIn(p) ==
      /\ Dead(work, p) /\ p \notin work.loose \cup work'.loose
      /\ work'.drops = work.drops
      /\ \A s \in save : s.key = work.key
      => Dead(work', p) \/ p \in work'.rows \/ work' \in save \cup {file}
<1>1. TypeOK /\ RecordsInv /\ [CarefulNext]_vars => RecordsInv'
  BY RecordsStep
<1>2. TypeOK /\ RecordsInv /\ [CarefulNext]_vars => [\A p \in Pks : KeptIn(p)]_vars
  BY TombstonesStep
<1>3. QED
  BY <1>1, <1>2, RecordsInit, TypeCorrect, PTL DEF CarefulSpec, TombstonesKept
=============================================================================
