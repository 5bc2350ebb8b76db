-------------------------- MODULE MaintenanceProofs --------------------------
(***************************************************************************)
(* Proofs about Maintenance, for any calendar that meets its assumption,   *)
(* any days ahead, kept and of grace, and any number of migrators and      *)
(* nodes.                                                                  *)
(*                                                                         *)
(* ResultsFit says nothing of the partitions of days to come.  Its         *)
(* strengthening names the newest month up to which no partition is        *)
(* missing: it lies at or behind every day before the next tick is due,    *)
(* and the month that tick provides for is not beyond its successor.       *)
(***************************************************************************)
EXTENDS Maintenance, TLAPS

LEMMA Bounds == Ahead \in Nat /\ Keep \in Nat /\ Grace \in Nat /\ Pause \in Nat /\ LastDay \in Nat
BY DaysAssumption

USE Bounds, CalendarAssumption

\* Months that have not expired have their partition, from the first up to m.
CoveredTo(m) ==
    \A k \in Nat : (Month[created] <= k /\ k <= m /\ ~Expired(k)) => k \in parts

\* m is late enough for the days until the next tick, and for the month it makes.
Suffices(m, t) ==
    /\ \A e \in Day : e <= t + Pause => Month[e] <= m
    /\ \A e \in Day : e <= t + Pause + Ahead => Month[e] <= m + 1

InTime == created <= ensured /\ ensured <= now /\ now <= ensured + Pause

Covered == \E m \in Nat : Suffices(m, ensured) /\ CoveredTo(m)

FitInv ==
    /\ TypeOK
    /\ (Partitions \in done /\ lapsed = FALSE) => InTime /\ Covered

-----------------------------------------------------------------------------
\* The type invariant holds at first.
LEMMA TypeInit == ASSUME Init PROVE TypeOK
<1>1. lapsed \in BOOLEAN
  BY Zenon DEF Init
<1>2. now \in Today /\ created \in Today /\ ensured \in Today
  BY DEF Init, Today
<1>3. /\ done \subseteq File /\ applied \subseteq File /\ parts \subseteq Nat
      /\ file \in [Migrator -> File \cup {0}] /\ open \subseteq {p \in Migrator : file[p] # 0}
      /\ loop \in {"wait", "drop", "delete"} /\ node \in [Node -> Row \cup {NoRow}]
  BY DEF Init
<1> QED
  BY <1>1, <1>2, <1>3 DEF TypeOK

\* A day and those to come.
LEMMA DayFacts ==
    ASSUME TypeOK
    PROVE  /\ now \in Day /\ now \in Nat /\ now + Ahead \in Day /\ Today \subseteq Day
           /\ Month[now] \in Nat /\ Month[now + Ahead] \in Nat
BY DEF TypeOK, Day, Today

\* The rows of a check's node stay rows.
LEMMA RecomputedRow ==
    ASSUME NEW r \in Row, NEW d \in Today, NEW s \in Recomputed(r, d) PROVE s \in Row
BY DEF Row, Recomputed, Today, Null

\* Each action of the migrators preserves the types.
LEMMA MigrateType == ASSUME TypeOK, NEW p \in Migrator, Migrate(p) PROVE TypeOK'
<1>1. CASE MigrateStart(p)
  BY <1>1 DEF MigrateStart, TypeOK, File
<1>2. CASE MigrateCheck(p)
  BY <1>2 DEF MigrateCheck, NextFile, TypeOK, File, Retention
<1>3. CASE Apply(p)
  <2>1. PartitionsOf(file[p]) \subseteq Nat
    BY DayFacts DEF PartitionsOf
  <2>2. file[p] \in File
    BY <1>3 DEF Apply, TypeOK, File
  <2>3. /\ now' \in Today /\ created' \in Today /\ ensured' \in Today
        /\ done' \subseteq File /\ applied' \subseteq File
        /\ open' \subseteq {q \in Migrator : file'[q] # 0}
    BY <1>3, <2>2 DEF Apply, TypeOK
  <2>4. file' \in [Migrator -> File \cup {0}]
    BY <1>3, <2>2 DEF Apply, TypeOK, NextFile, File, Retention
  <2>5. parts' \subseteq Nat
    BY <1>3, <2>1 DEF Apply, TypeOK
  <2>6. lapsed' \in BOOLEAN /\ loop' \in {"wait", "drop", "delete"}
        /\ node' \in [Node -> Row \cup {NoRow}]
    BY <1>3, Zenon DEF Apply, TypeOK
  <2> QED
    BY <2>3, <2>4, <2>5, <2>6 DEF TypeOK
<1>4. CASE MigrateEnds(p)
  BY <1>4 DEF MigrateEnds, TypeOK, File
<1> QED
  BY <1>1, <1>2, <1>3, <1>4 DEF Migrate

\* So does every step.
LEMMA TypeNext == ASSUME TypeOK, [Next]_vars PROVE TypeOK'
<1>1. CASE \E p \in Migrator : Migrate(p)
  BY <1>1, MigrateType
<1>2. CASE Maintain
  <2>1. now + Ahead \in Day /\ Month[now + Ahead] \in Nat
    BY DayFacts
  <2>2. parts' \subseteq Nat
    BY <1>2, <2>1 DEF Maintain, EnsurePartition, EnsureFails, DropPartitions, DropFails,
        DeleteLongDead, DeleteFails, CoordDies, AheadOf, TypeOK, schema
  <2>3. node' \in [Node -> Row \cup {NoRow}]
    BY <1>2 DEF Maintain, EnsurePartition, EnsureFails, DropPartitions, DropFails,
        DeleteLongDead, DeleteFails, CoordDies, TypeOK, schema
  <2>4. /\ now' \in Today /\ created' \in Today /\ ensured' \in Today
        /\ done' \subseteq File /\ applied' \subseteq File
        /\ file' \in [Migrator -> File \cup {0}] /\ open' \subseteq {p \in Migrator : file'[p] # 0}
        /\ loop' \in {"wait", "drop", "delete"}
    BY <1>2 DEF Maintain, EnsurePartition, EnsureFails, DropPartitions, DropFails,
        DeleteLongDead, DeleteFails, CoordDies, TickGoesOn, TypeOK, schema
  <2>5. lapsed' \in BOOLEAN
    BY <1>2, Zenon DEF Maintain, EnsurePartition, EnsureFails, DropPartitions, DropFails,
        DeleteLongDead, DeleteFails, CoordDies, TypeOK
  <2> QED
    BY <2>2, <2>3, <2>4, <2>5 DEF TypeOK
<1>3. ASSUME NEW n \in Node, AddNode(n) PROVE TypeOK'
  BY <1>3 DEF AddNode, TypeOK, Row, schema
<1>4. ASSUME NEW n \in Node, NEW d \in Today, InsertCheck(n, d) PROVE TypeOK'
  <2>1. node[n] \in Row
    BY <1>4 DEF InsertCheck, TypeOK
  <2>2. node' \in [Node -> Row \cup {NoRow}]
    BY <1>4, <2>1, RecomputedRow DEF InsertCheck, TypeOK
  <2> QED
    BY <1>4, <2>2 DEF InsertCheck, TypeOK, schema
<1>5. CASE NextDay
  <2>1. lapsed' \in BOOLEAN
    BY <1>5, Zenon DEF NextDay
  <2>2. now' \in Today
    BY <1>5 DEF NextDay, TypeOK, Today
  <2> QED
    BY <1>5, <2>1, <2>2 DEF NextDay, TypeOK, schema
<1>6. CASE UNCHANGED vars
  BY <1>6 DEF vars, schema, TypeOK
<1> QED
  BY <1>1, <1>2, <1>3, <1>4, <1>5, <1>6 DEF Next

\* Maintenance, TypeOK: every variable keeps its type.
THEOREM TypeCorrect == Spec => []TypeOK
BY TypeInit, TypeNext, PTL DEF Spec

-----------------------------------------------------------------------------
\* The first partitions: this month's and the next one's last for a pause.
LEMMA FirstSuffices ==
    ASSUME NEW t \in Today PROVE Suffices(Month[t] + 1, t)
<1> t \in Day /\ t \in Nat /\ Month[t] \in Nat
  BY DEF Today, Day
<1> QED
  BY DEF Suffices

\* A tick provides for the days until the next, and for the month that one makes.
LEMMA TickSuffices ==
    ASSUME NEW t \in Today PROVE Suffices(Month[t + Ahead], t)
<1>1. /\ t \in Day /\ t \in Nat /\ t + Ahead \in Day
      /\ Month[t] \in Nat /\ Month[t + Ahead] \in Nat
  BY DEF Today, Day
<1>2. Month[t + Ahead] > Month[t]
  BY <1>1
<1>3. ASSUME NEW e \in Day, e <= t + Pause PROVE Month[e] <= Month[t + Ahead]
  <2>1. Month[e] <= Month[t] + 1 /\ Month[e] \in Nat
    BY <1>1, <1>3
  <2> QED
    BY <1>1, <1>2, <2>1
<1>4. ASSUME NEW e \in Day, e <= t + Pause + Ahead PROVE Month[e] <= Month[t + Ahead] + 1
  <2>1. e <= (t + Ahead) + Pause
    BY <1>1, <1>4 DEF Day
  <2> QED
    BY <1>1, <2>1
<1> QED
  BY <1>3, <1>4 DEF Suffices

\* What suffices is still sufficient when m grows.
LEMMA SufficesMore ==
    ASSUME NEW m \in Nat, NEW k \in Nat, m <= k, NEW t \in Today, Suffices(m, t)
    PROVE  Suffices(k, t)
<1> \A e \in Day : Month[e] \in Nat
  OBVIOUS
<1> QED
  BY DEF Suffices

\* Nothing that has expired comes back.
LEMMA ExpiredStays ==
    ASSUME TypeOK, TypeOK', now' = now \/ now' = now + 1, NEW k \in Nat, Expired(k)
    PROVE  Expired(k)'
<1>1. now \in Nat /\ now' \in Nat /\ now >= Keep /\ k < Month[now - Keep]
  BY DayFacts DEF Expired, TypeOK, Today
<1>2. now - Keep \in Day /\ now' - Keep \in Day /\ now - Keep <= now' - Keep
  <2>1. now \in Today /\ now' \in Today
    BY DEF TypeOK
  <2>2. \A a, b \in Nat : (a >= Keep /\ (b = a \/ b = a + 1)) =>
            a - Keep \in Nat /\ b - Keep \in Nat /\ a - Keep <= b - Keep
    OBVIOUS
  <2>3. now - Keep \in Nat /\ now' - Keep \in Nat /\ now - Keep <= now' - Keep
    BY <1>1, <2>2
  <2>4. now <= LastDay /\ now' <= LastDay
    BY <2>1 DEF Today
  <2>5. \A a \in Nat : (a <= LastDay /\ a - Keep \in Nat) => a - Keep \in Day
    BY DEF Day
  <2> QED
    BY <1>1, <2>3, <2>4, <2>5
<1>3. Month[now - Keep] <= Month[now' - Keep] /\ Month[now - Keep] \in Nat /\ Month[now' - Keep] \in Nat
  BY <1>2
<1> QED
  BY <1>1, <1>3 DEF Expired

\* Partitions only go when they have expired, so what is covered remains so.
LEMMA CoverStays ==
    ASSUME TypeOK, TypeOK', now' = now \/ now' = now + 1, created' = created,
           \A k \in parts : k \in parts' \/ Expired(k),
           NEW m \in Nat, CoveredTo(m)
    PROVE  CoveredTo(m)'
<1> SUFFICES ASSUME NEW k \in Nat, Month[created] <= k, k <= m, ~Expired(k)'
             PROVE  k \in parts'
  BY DEF CoveredTo
<1>1. ~Expired(k)
  BY ExpiredStays
<1> QED
  BY <1>1 DEF CoveredTo

\* What leaves the calendar, the first day and the last tick alone keeps the cover.
LEMMA FitFrame ==
    ASSUME FitInv, TypeOK', UNCHANGED <<now, created, ensured, lapsed>>,
           Partitions \in done' => Partitions \in done,
           \A k \in parts : k \in parts' \/ Expired(k)
    PROVE  FitInv'
<1> SUFFICES ASSUME Partitions \in done', lapsed' = FALSE PROVE InTime' /\ Covered'
  BY DEF FitInv
<1>0. lapsed = FALSE
  BY Zenon
<1>1. InTime /\ Covered
  BY <1>0 DEF FitInv
<1>2. InTime'
  BY <1>1 DEF InTime
<1>3. PICK m \in Nat : Suffices(m, ensured) /\ CoveredTo(m)
  BY <1>1 DEF Covered
<1>4. CoveredTo(m)'
  BY <1>3, CoverStays DEF FitInv
<1> QED
  BY <1>2, <1>3, <1>4 DEF Covered, Suffices

\* 0002 makes the first partitions.
LEMMA ApplyFit == ASSUME FitInv, TypeOK', NEW p \in Migrator, Apply(p) PROVE FitInv'
<1>1. CASE file[p] # Partitions
  <2>1. parts' = parts
    BY <1>1 DEF Apply, PartitionsOf
  <2>2. UNCHANGED <<now, created, ensured, lapsed>>
    BY <1>1, Zenon DEF Apply
  <2>3. Partitions \in done' => Partitions \in done
    BY <1>1 DEF Apply
  <2> QED
    BY <2>1, <2>2, <2>3, FitFrame
<1>2. CASE file[p] = Partitions
  <2>1. /\ now' = now /\ created' = now /\ ensured' = now
        /\ parts' = parts \cup {Month[now], Month[now] + 1}
    BY <1>2 DEF Apply, PartitionsOf
  <2>2. now \in Today /\ now \in Nat /\ Month[now] \in Nat
    BY DayFacts DEF FitInv, TypeOK
  <2>3. InTime'
    BY <2>1, <2>2 DEF InTime
  <2>4. Suffices(Month[now] + 1, now)
    BY <2>2, FirstSuffices
  <2>5. CoveredTo(Month[now] + 1)'
    BY <2>1, <2>2 DEF CoveredTo
  <2>6. Covered'
    BY <2>1, <2>2, <2>4, <2>5 DEF Covered, Suffices
  <2> QED
    BY <2>3, <2>6 DEF FitInv
<1> QED
  BY <1>1, <1>2

\* A tick in time makes the next month, or one that is there.
LEMMA EnsureFit == ASSUME FitInv, TypeOK', EnsurePartition PROVE FitInv'
<1> SUFFICES ASSUME lapsed' = FALSE PROVE InTime' /\ Covered'
  BY DEF FitInv
<1>0. lapsed = FALSE /\ Partitions \in done
  BY Zenon DEF EnsurePartition
<1>1. InTime /\ Covered
  BY <1>0 DEF FitInv
<1>2. /\ now' = now /\ created' = created /\ ensured' = now
      /\ parts' = parts \cup {Month[now + Ahead]}
  BY DEF EnsurePartition, AheadOf
<1>3. /\ now \in Today /\ now \in Nat /\ ensured \in Today /\ ensured \in Nat /\ created \in Nat
      /\ now + Ahead \in Day /\ Month[now + Ahead] \in Nat
  BY DayFacts DEF FitInv, TypeOK, Today
<1>4. InTime'
  BY <1>1, <1>2, <1>3 DEF InTime
<1>5. PICK m \in Nat : Suffices(m, ensured) /\ CoveredTo(m)
  BY <1>1 DEF Covered
<1>6. Month[now + Ahead] <= m + 1
  <2>1. now + Ahead <= ensured + Pause + Ahead
    BY <1>1, <1>3 DEF InTime
  <2> QED
    BY <1>3, <1>5, <2>1 DEF Suffices
<1>7. CoveredTo(m)'
  BY <1>2, <1>5, CoverStays DEF FitInv
<1>8. PICK k \in Nat : Month[now + Ahead] <= k /\ (k = m \/ k = Month[now + Ahead])
  BY <1>3
<1>9. CoveredTo(k)'
  BY <1>2, <1>3, <1>6, <1>7, <1>8 DEF CoveredTo
<1>10. Suffices(k, now)
  <2>1. Suffices(Month[now + Ahead], now)
    BY <1>3, TickSuffices
  <2> QED
    BY <1>3, <1>8, <2>1, SufficesMore
<1>11. Suffices(k, ensured)'
  BY <1>2, <1>10 DEF Suffices
<1> QED
  BY <1>4, <1>8, <1>9, <1>11 DEF Covered

\* A day passes; the tick is still in time, or the pause has become too long.
LEMMA DayFit == ASSUME FitInv, TypeOK', NextDay PROVE FitInv'
<1> SUFFICES ASSUME Partitions \in done', lapsed' = FALSE PROVE InTime' /\ Covered'
  BY DEF FitInv
<1>0. lapsed = FALSE /\ ~(Partitions \in done /\ now' - ensured > Pause)
  <2>1. lapsed \in BOOLEAN
    BY Zenon DEF FitInv, TypeOK
  <2>2. ~(lapsed \/ (Partitions \in done /\ now' - ensured > Pause))
    BY Zenon DEF NextDay
  <2> QED
    BY <2>1, <2>2, Zenon
<1>1. /\ now' = now + 1
      /\ created' = created /\ ensured' = ensured /\ parts' = parts /\ done' = done
  BY DEF NextDay, schema
<1>2. InTime /\ Covered
  BY <1>0, <1>1 DEF FitInv
<1>3. now \in Nat /\ ensured \in Nat /\ created \in Nat
  BY DEF FitInv, TypeOK, Today
<1>4. InTime'
  BY <1>0, <1>1, <1>2, <1>3 DEF InTime
<1>5. PICK m \in Nat : Suffices(m, ensured) /\ CoveredTo(m)
  BY <1>2 DEF Covered
<1>6. CoveredTo(m)'
  BY <1>1, <1>5, CoverStays DEF FitInv
<1> QED
  BY <1>1, <1>4, <1>5, <1>6 DEF Covered, Suffices

\* Every step preserves the strengthening.
LEMMA FitNext == ASSUME FitInv, [Next]_vars PROVE FitInv'
<1>0. TypeOK'
  BY TypeNext DEF FitInv
<1>1. ASSUME NEW p \in Migrator, Migrate(p) PROVE FitInv'
  <2>1. CASE Apply(p)
    BY <1>0, <2>1, ApplyFit
  <2>2. CASE MigrateStart(p) \/ MigrateCheck(p) \/ MigrateEnds(p)
    <3>1. UNCHANGED <<now, done, parts, created, ensured, lapsed>>
      BY <2>2, Zenon DEF MigrateStart, MigrateCheck, MigrateEnds
    <3> QED
      BY <1>0, <3>1, FitFrame
  <2> QED
    BY <1>1, <2>1, <2>2 DEF Migrate
<1>2. CASE EnsurePartition
  BY <1>0, <1>2, EnsureFit
<1>3. CASE NextDay
  BY <1>0, <1>3, DayFit
<1>4. CASE DropPartitions
  <2>1. UNCHANGED <<now, done, created, ensured, lapsed>>
    BY <1>4, Zenon DEF DropPartitions, schema
  <2>2. \A k \in parts : k \in parts' \/ Expired(k)
    BY <1>4 DEF DropPartitions
  <2> QED
    BY <1>0, <2>1, <2>2, FitFrame
<1>5. CASE \/ EnsureFails \/ DropFails \/ DeleteLongDead \/ DeleteFails \/ CoordDies
           \/ (\E n \in Node : AddNode(n) \/ \E d \in Today : InsertCheck(n, d))
           \/ UNCHANGED vars
  <2>1. UNCHANGED <<now, done, parts, created, ensured, lapsed>>
    BY <1>5, Zenon DEF EnsureFails, DropFails, DeleteLongDead, DeleteFails, CoordDies, AddNode,
        InsertCheck, vars, schema
  <2> QED
    BY <1>0, <2>1, FitFrame
<1> QED
  BY <1>1, <1>2, <1>3, <1>4, <1>5 DEF Next, Maintain

\* The strengthening says what ResultsFit asks.
LEMMA FitImplies == ASSUME FitInv PROVE ResultsFit
<1> SUFFICES ASSUME Partitions \in done, lapsed = FALSE, NEW d \in created..now, d + Keep >= now
             PROVE  Month[d] \in parts
  <2>1. lapsed \in BOOLEAN
    BY Zenon DEF FitInv, TypeOK
  <2> QED
    BY <2>1, Zenon DEF ResultsFit
<1>1. InTime /\ Covered
  BY DEF FitInv
<1>2. PICK m \in Nat : Suffices(m, ensured) /\ CoveredTo(m)
  BY <1>1 DEF Covered
<1>3. /\ now \in Day /\ now \in Nat /\ created \in Nat /\ created \in Day /\ ensured \in Nat
  BY DEF FitInv, TypeOK, Today, Day
<1>4. d \in Nat /\ created <= d /\ d <= now /\ d \in Day
  BY <1>3 DEF Day
<1>5. Month[d] \in Nat /\ Month[created] <= Month[d] /\ Month[d] <= m
  BY <1>1, <1>2, <1>3, <1>4 DEF Suffices, InTime
<1>6. ~Expired(Month[d])
  <2> SUFFICES ASSUME now >= Keep PROVE Month[now - Keep] <= Month[d]
    <3>1. now >= Keep => Month[now - Keep] \in Nat
      BY <1>3 DEF Day
    <3> QED
      BY <1>5, <3>1 DEF Expired
  <2>1. now - Keep \in Day /\ now - Keep <= d
    BY <1>3, <1>4 DEF Day
  <2> QED
    BY <1>4, <2>1
<1> QED
  BY <1>2, <1>5, <1>6 DEF CoveredTo

\* Maintenance, ResultsFit: as long as the loop never pauses for longer than Pause,
\* every result that is at most Keep days old finds the partition of its day.
THEOREM ResultsAlwaysFit == Spec => []ResultsFit
<1>1. Init => FitInv
  BY TypeInit DEF Init, FitInv
<1>2. FitInv /\ [Next]_vars => FitInv'
  BY FitNext
<1>3. FitInv => ResultsFit
  BY FitImplies
<1> QED
  BY <1>1, <1>2, <1>3, PTL DEF Spec

-----------------------------------------------------------------------------
\* A partition is dropped only when its month has expired.
LEMMA DropExpired ==
    ASSUME [Next]_vars, NEW m \in parts \ parts' PROVE Expired(m)
<1>1. CASE DropPartitions
  BY <1>1 DEF DropPartitions
<1>2. CASE EnsurePartition
  BY <1>2 DEF EnsurePartition
<1>3. ASSUME NEW p \in Migrator, Apply(p) PROVE FALSE
  BY <1>3 DEF Apply
<1>4. CASE \/ \E p \in Migrator : MigrateStart(p) \/ MigrateCheck(p) \/ MigrateEnds(p)
           \/ EnsureFails \/ DropFails \/ DeleteLongDead \/ DeleteFails \/ CoordDies
           \/ (\E n \in Node : AddNode(n) \/ \E d \in Today : InsertCheck(n, d))
           \/ NextDay \/ UNCHANGED vars
  <2>1. UNCHANGED parts
    BY <1>4, Zenon DEF MigrateStart, MigrateCheck, MigrateEnds, EnsureFails, DropFails,
        DeleteLongDead, DeleteFails, CoordDies, AddNode, InsertCheck, NextDay, vars
  <2> QED
    BY <2>1
<1> QED
  BY <1>1, <1>2, <1>3, <1>4 DEF Next, Maintain, Migrate

\* Every day of a month that has expired is more than Keep days ago.
LEMMA ExpiredOld ==
    ASSUME TypeOK, NEW m, Expired(m), NEW d \in Day, Month[d] = m PROVE d + Keep < now
<1>1. now \in Nat /\ d \in Nat /\ now >= Keep /\ Month[d] < Month[now - Keep]
  BY DayFacts DEF Expired, Day
<1>2. SUFFICES ASSUME now - Keep <= d PROVE FALSE
  BY <1>1
<1>3. now - Keep \in Day
  BY <1>1, <1>2 DEF Day
<1>4. Month[now - Keep] <= Month[d] /\ Month[d] \in Nat /\ Month[now - Keep] \in Nat
  BY <1>2, <1>3
<1> QED
  BY <1>1, <1>4

\* Maintenance, RawKept: retention drops only what is older than Keep days.
THEOREM RawIsKept == Spec => RawKept
<1>1. TypeOK /\ [Next]_vars =>
        \A m \in parts \ parts' : \A d \in Day : Month[d] = m => d + Keep < now
  BY DropExpired, ExpiredOld
<1> QED
  BY <1>1, TypeCorrect, PTL DEF Spec, RawKept

-----------------------------------------------------------------------------
\* A dead node has lost the time of its last pass.
DeadForgets == \A n \in Node : node[n].status = "dead" => node[n].lastL1 = Null

\* DeleteLongDead is all that removes a node.
LEMMA GoneIsDead ==
    ASSUME TypeOK, [Next]_vars, NEW n \in Node, node[n] # NoRow, node'[n] = NoRow
    PROVE  LongDead(node[n])
<1>1. \A r \in Row : r # NoRow
  BY DEF Row, NoRow
<1>2. CASE DeleteLongDead
  BY <1>2 DEF DeleteLongDead
<1>3. ASSUME NEW k \in Node, AddNode(k) PROVE FALSE
  BY <1>1, <1>3 DEF AddNode, TypeOK, NoRow
<1>4. ASSUME NEW k \in Node, NEW d \in Today, InsertCheck(k, d) PROVE FALSE
  <2>1. node[k] \in Row
    BY <1>4 DEF InsertCheck, TypeOK
  <2>2. \A r \in Recomputed(node[k], d) : r \in Row
    BY <2>1, RecomputedRow
  <2> QED
    BY <1>1, <1>4, <2>2 DEF InsertCheck, TypeOK
<1>5. CASE \/ \E p \in Migrator : Migrate(p)
           \/ EnsurePartition \/ EnsureFails \/ DropPartitions \/ DropFails \/ DeleteFails
           \/ CoordDies \/ NextDay \/ UNCHANGED vars
  <2>1. UNCHANGED node
    BY <1>5, Zenon DEF Migrate, MigrateStart, MigrateCheck, Apply, MigrateEnds, EnsurePartition,
        EnsureFails, DropPartitions, DropFails, DeleteFails, CoordDies, NextDay, vars
  <2> QED
    BY <2>1
<1> QED
  BY <1>2, <1>3, <1>4, <1>5 DEF Next, Maintain

\* No step gives a dead node such a time.
LEMMA ForgetsNext == ASSUME TypeOK, DeadForgets, [Next]_vars PROVE DeadForgets'
<1>1. CASE DeleteLongDead
  BY <1>1 DEF DeleteLongDead, DeadForgets, NoRow
<1>2. ASSUME NEW k \in Node, AddNode(k) PROVE DeadForgets'
  BY <1>2 DEF AddNode, TypeOK, DeadForgets
<1>3. ASSUME NEW k \in Node, NEW d \in Today, InsertCheck(k, d) PROVE DeadForgets'
  <2>1. node[k] \in Row /\ \A r \in Recomputed(node[k], d) : r.status = "dead" => r.lastL1 = Null
    BY <1>3 DEF InsertCheck, TypeOK, Row, Recomputed
  <2> QED
    BY <1>3, <2>1 DEF InsertCheck, TypeOK, DeadForgets
<1>4. CASE \/ \E p \in Migrator : Migrate(p)
           \/ EnsurePartition \/ EnsureFails \/ DropPartitions \/ DropFails \/ DeleteFails
           \/ CoordDies \/ NextDay \/ UNCHANGED vars
  <2>1. UNCHANGED node
    BY <1>4, Zenon DEF Migrate, MigrateStart, MigrateCheck, Apply, MigrateEnds, EnsurePartition,
        EnsureFails, DropPartitions, DropFails, DeleteFails, CoordDies, NextDay, vars
  <2> QED
    BY <2>1 DEF DeadForgets
<1> QED
  BY <1>1, <1>2, <1>3, <1>4 DEF Next, Maintain

\* Maintenance: a dead node never bears the time of a pass, so the query for the
\* long-dead always falls back to the day on which the node was found.
THEOREM DeadNodesForget == Spec => []DeadForgets
<1>1. Init => DeadForgets
  BY DEF Init, DeadForgets, NoRow
<1> QED
  BY <1>1, TypeCorrect, ForgetsNext, PTL DEF Spec

\* Maintenance, GraceKept: a node is deleted only while dead, and at the earliest Grace
\* days after it was found.
THEOREM GraceIsKept == Spec => GraceKept
<1>1. TypeOK /\ DeadForgets /\ [Next]_vars =>
        \A n \in Node : node[n] # NoRow /\ node'[n] = NoRow =>
            node[n].status = "dead" /\ now > node[n].first + Grace
  <2> SUFFICES ASSUME TypeOK, DeadForgets, [Next]_vars,
                      NEW n \in Node, node[n] # NoRow, node'[n] = NoRow
               PROVE  node[n].status = "dead" /\ now > node[n].first + Grace
    OBVIOUS
  <2>1. LongDead(node[n])
    BY GoneIsDead
  <2>2. node[n] \in Row
    BY DEF TypeOK
  <2>3. node[n].first \in Nat /\ now \in Nat
    BY <2>2, DayFacts DEF Row, Today
  <2>4. node[n].status = "dead" /\ node[n].first < now - Grace
    BY <2>1 DEF LongDead, LastLife, DeadForgets
  <2> QED
    BY <2>3, <2>4
<1> QED
  BY <1>1, TypeCorrect, DeadNodesForget, PTL DEF Spec, GraceKept

-----------------------------------------------------------------------------
\* A migrator is at a file only when the one before has taken effect.
MigrInv ==
    /\ MigrationsResume
    /\ \A p \in Migrator : file[p] > 1 => file[p] - 1 \in done

LEMMA MigrNext == ASSUME TypeOK, MigrInv, [Next]_vars PROVE MigrInv'
<1>1. ASSUME NEW p \in Migrator, Migrate(p) PROVE MigrInv'
  <2>1. CASE MigrateStart(p)
    BY <2>1 DEF MigrateStart, TypeOK, MigrInv, MigrationsResume, File
  <2>2. CASE MigrateCheck(p)
    BY <2>2 DEF MigrateCheck, NextFile, Retention, TypeOK, MigrInv, MigrationsResume, File
  <2>3. CASE Apply(p)
    BY <2>3 DEF Apply, NextFile, Retention, TypeOK, MigrInv, MigrationsResume, File
  <2>4. CASE MigrateEnds(p)
    BY <2>4 DEF MigrateEnds, TypeOK, MigrInv, MigrationsResume, File
  <2> QED
    BY <1>1, <2>1, <2>2, <2>3, <2>4 DEF Migrate
<1>2. CASE \/ Maintain \/ NextDay \/ UNCHANGED vars
           \/ (\E n \in Node : AddNode(n) \/ \E d \in Today : InsertCheck(n, d))
  <2>1. UNCHANGED schema
    BY <1>2, Zenon DEF Maintain, EnsurePartition, EnsureFails, DropPartitions, DropFails,
        DeleteLongDead, DeleteFails, CoordDies, NextDay, AddNode, InsertCheck, vars
  <2> QED
    BY <2>1 DEF schema, MigrInv, MigrationsResume
<1> QED
  BY <1>1, <1>2 DEF Next

\* Maintenance, MigrationsResume: crashes and rivals never leave a migration that has
\* taken effect without its record, or before its predecessor.
THEOREM MigrationsAlwaysResume == Spec => []MigrationsResume
<1>1. Init => MigrInv
  BY DEF Init, MigrInv, MigrationsResume
<1>2. MigrInv => MigrationsResume
  BY DEF MigrInv
<1> QED
  BY <1>1, <1>2, MigrNext, TypeCorrect, PTL DEF Spec
=============================================================================
