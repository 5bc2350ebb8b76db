----------------------------- MODULE Maintenance -----------------------------
(***************************************************************************)
(* What keeps the tables in shape over the months: the migrations, the     *)
(* monthly partitions of node_checks, and the coordinator's maintenance    *)
(* loop, which makes partitions ahead of time, drops old ones and deletes  *)
(* nodes that are long dead, while results and nodes go on arriving.       *)
(*                                                                         *)
(* Time is counted in days; Month says in which month a day lies.  A tick  *)
(* of the loop is over on the day on which it began, and several may come  *)
(* on a day, or none.  Of a node only what the loop reads is kept: the     *)
(* aggregate that recomputeNode derives from its checks is any that        *)
(* CheckHistory allows.                                                    *)
(***************************************************************************)
EXTENDS Integers

CONSTANTS
    Node,          \* nodes, by uri_hash
    Migrator,      \* processes that may run the migrations
    Month,         \* [Day -> month]
    Ahead,         \* days by which partitions are made ahead (35)
    Keep,          \* days for which checks are kept (30)
    Grace,         \* days after which a dead node is deleted (14)
    Pause,         \* longest pause between two ticks that does no harm (24)
    LastDay        \* bound: days

Day   == 0..(LastDay + Ahead)
Today == 0..LastDay

ASSUME DaysAssumption == {Ahead, Keep, Grace, Pause, LastDay} \subseteq Nat

\* Months follow each other.  A pause does not span a whole month (28 days), Ahead
\* does (31), and both together do not span two (59).
ASSUME CalendarAssumption ==
    /\ Month \in [Day -> Nat]
    /\ \A d, e \in Day : d <= e => Month[d] <= Month[e]
    /\ \A d, e \in Day :
        /\ e <= d + Pause => Month[e] <= Month[d] + 1
        /\ e >= d + Ahead => Month[e] > Month[d]
        /\ e <= d + Pause + Ahead => Month[e] <= Month[d] + 2

VARIABLES
    now,        \* the day
    done,       \* migrations that have taken effect
    applied,    \* table schema_migrations: those recorded
    file,       \* the migration each migrator is at, 0 if it does not run
    open,       \* migrators in a transaction
    parts,      \* months that have a partition
    loop,       \* maintenanceLoop: between its ticks, or at which chore of one
    node,       \* table nodes
    created,    \* history: the day on which the first partitions were made
    ensured,    \* history: the day on which partitions were last made
    lapsed      \* history: partitions were once not made for more than Pause days

schema == <<done, applied, file, open>>
vars == <<now, schema, parts, loop, node, created, ensured, lapsed>>

\* 0001_init, 0002_partitions, 0003_retention.
File == 1..3
Tables == 1
Partitions == 2
Retention == 3

Null  == -1
NoRow == [status |-> "none", first |-> Null, lastL1 |-> Null]

Row == [status: {"unknown", "alive", "dead"}, first: Today, lastL1: Today \cup {Null}]

TypeOK ==
    /\ now \in Today /\ created \in Today /\ ensured \in Today /\ lapsed \in BOOLEAN
    /\ done \subseteq File /\ applied \subseteq File
    /\ file \in [Migrator -> File \cup {0}] /\ open \subseteq {p \in Migrator : file[p] # 0}
    /\ parts \subseteq Nat
    /\ loop \in {"wait", "drop", "delete"}
    /\ node \in [Node -> Row \cup {NoRow}]

Init ==
    /\ now = 0 /\ created = 0 /\ ensured = 0 /\ lapsed = FALSE
    /\ done = {} /\ applied = {}
    /\ file = [p \in Migrator |-> 0] /\ open = {}
    /\ parts = {} /\ loop = "wait"
    /\ node = [n \in Node |-> NoRow]

-----------------------------------------------------------------------------
(***************************************************************************)
(* Migrate.                                                                *)
(***************************************************************************)

\* A run that finds every migration applied changes nothing and is left out.
MigrateStart(p) ==
    /\ file[p] = 0 /\ applied # File
    /\ file' = [file EXCEPT ![p] = 1]
    /\ UNCHANGED <<now, done, applied, open, parts, loop, node, created, ensured, lapsed>>

\* Mutant: the run goes on after the last file.
NextFileBeyond(f) == f + 1

NextFile(f) == IF f = Retention THEN 0 ELSE f + 1

\* The next file: skipped if it is recorded, else a transaction begins.
MigrateCheck(p) ==
    /\ file[p] # 0 /\ p \notin open
    /\ IF file[p] \in applied
       THEN file' = [file EXCEPT ![p] = NextFile(@)] /\ UNCHANGED open
       ELSE open' = open \cup {p} /\ UNCHANGED file
    /\ UNCHANGED <<now, done, applied, parts, loop, node, created, ensured, lapsed>>

\* 0002 makes the partitions of this month and the next.
PartitionsOf(f) == IF f = Partitions THEN {Month[now], Month[now] + 1} ELSE {}

\* Mutant: body and record are not one transaction, and the process may end between.
ApplyInTwo(p) ==
    /\ p \in open /\ file[p] \notin done \cup applied
    /\ done' = done \cup {file[p]} /\ parts' = parts \cup PartitionsOf(file[p])
    /\ \/ applied' = applied \cup {file[p]} /\ file' = [file EXCEPT ![p] = NextFile(@)]
       \/ UNCHANGED applied /\ file' = [file EXCEPT ![p] = 0]
    /\ open' = open \ {p}
    /\ IF file[p] = Partitions THEN created' = now /\ ensured' = now
       ELSE UNCHANGED <<created, ensured>>
    /\ UNCHANGED <<now, loop, node, lapsed>>

\* Body and record take effect together.
Apply(p) ==
    /\ p \in open /\ file[p] \notin done \cup applied
    /\ done' = done \cup {file[p]} /\ parts' = parts \cup PartitionsOf(file[p])
    /\ applied' = applied \cup {file[p]}
    /\ file' = [file EXCEPT ![p] = NextFile(@)]
    /\ open' = open \ {p}
    /\ IF file[p] = Partitions THEN created' = now /\ ensured' = now
       ELSE UNCHANGED <<created, ensured>>
    /\ UNCHANGED <<now, loop, node, lapsed>>

\* The transaction is rolled back and the process ends: the other migrator has
\* applied the file meanwhile, or the process dies.
MigrateEnds(p) ==
    /\ file[p] # 0
    /\ file' = [file EXCEPT ![p] = 0] /\ open' = open \ {p}
    /\ UNCHANGED <<now, done, applied, parts, loop, node, created, ensured, lapsed>>

-----------------------------------------------------------------------------
(***************************************************************************)
(* maintenanceLoop.                                                        *)
(***************************************************************************)

\* After the partition a tick at three o'clock goes on to the nightly chores.
TickGoesOn == loop' \in {"wait", "drop"}

\* Mutant: a month gets its partition when it has begun.
AheadOfNone == now

\* The day whose month a tick provides for.
AheadOf == now + Ahead

EnsurePartition ==
    /\ loop = "wait" /\ Partitions \in done
    /\ parts' = parts \cup {Month[AheadOf]}
    /\ ensured' = now
    /\ TickGoesOn
    /\ UNCHANGED <<now, schema, node, created, lapsed>>

\* Every failure is only logged.
EnsureFails ==
    /\ loop = "wait" /\ TickGoesOn
    /\ UNCHANGED <<now, schema, parts, node, created, ensured, lapsed>>

\* Mutant: the month that the cut-off lies in is dropped too.
ExpiredToo(m) == now >= Keep /\ m <= Month[now - Keep]

\* Partitions of months before that of the day Keep days ago.
Expired(m) == now >= Keep /\ m < Month[now - Keep]

DropPartitions ==
    /\ loop = "drop" /\ loop' = "delete"
    /\ Retention \in done
    /\ parts' = {m \in parts : ~Expired(m)}
    /\ UNCHANGED <<now, schema, node, created, ensured, lapsed>>

DropFails ==
    /\ loop = "drop" /\ loop' = "delete"
    /\ UNCHANGED <<now, schema, parts, node, created, ensured, lapsed>>

\* Mutant: without the fall-back to first_seen, taken for the beginning of time.
LastLifeOrNever(r) == r.lastL1

\* COALESCE(last_l1_ok_at, first_seen).
LastLife(r) == IF r.lastL1 = Null THEN r.first ELSE r.lastL1

LongDead(r) == r.status = "dead" /\ LastLife(r) < now - Grace

DeleteLongDead ==
    /\ loop = "delete" /\ loop' = "wait"
    /\ node' = [n \in Node |-> IF LongDead(node[n]) THEN NoRow ELSE node[n]]
    /\ UNCHANGED <<now, schema, parts, created, ensured, lapsed>>

DeleteFails ==
    /\ loop = "delete" /\ loop' = "wait"
    /\ UNCHANGED <<now, schema, parts, node, created, ensured, lapsed>>

\* The coordinator dies in a tick; its successor waits for its first tick.
CoordDies ==
    /\ loop # "wait" /\ loop' = "wait"
    /\ UNCHANGED <<now, schema, parts, node, created, ensured, lapsed>>

-----------------------------------------------------------------------------
(***************************************************************************)
(* What else writes the tables, and the calendar.                          *)
(***************************************************************************)

\* UpsertNode of a node that is not there.
AddNode(n) ==
    /\ Tables \in done /\ node[n] = NoRow
    /\ node' = [node EXCEPT ![n] = [status |-> "unknown", first |-> now, lastL1 |-> Null]]
    /\ UNCHANGED <<now, schema, parts, loop, created, ensured, lapsed>>

\* The rows recomputeNode may make of r after a check of day d: alive since a pass of
\* that day or an earlier one, or dead, and then without the time of any pass.
Recomputed(r, d) ==
    {[r EXCEPT !.status = "alive", !.lastL1 = d], [r EXCEPT !.status = "dead", !.lastL1 = Null]}
    \cup IF r.lastL1 = Null THEN {} ELSE {[r EXCEPT !.status = "alive"]}

\* A result of day d: without the partition of its month, or without its node, the
\* INSERT fails, and the result is gone.  A node that was deleted and found again has
\* another id, so results from before do not reach it.
InsertCheck(n, d) ==
    /\ node[n] # NoRow /\ node[n].first <= d /\ d <= now /\ Month[d] \in parts
    /\ \E r \in Recomputed(node[n], d) : node' = [node EXCEPT ![n] = r]
    /\ UNCHANGED <<now, schema, parts, loop, created, ensured, lapsed>>

NextDay ==
    /\ now < LastDay /\ loop = "wait"
    /\ now' = now + 1
    /\ lapsed' = (lapsed \/ (Partitions \in done /\ now' - ensured > Pause))
    /\ UNCHANGED <<schema, parts, loop, node, created, ensured>>

-----------------------------------------------------------------------------
Migrate(p) == MigrateStart(p) \/ MigrateCheck(p) \/ Apply(p) \/ MigrateEnds(p)

Maintain ==
    \/ EnsurePartition \/ EnsureFails \/ DropPartitions \/ DropFails
    \/ DeleteLongDead \/ DeleteFails \/ CoordDies

Next ==
    \/ \E p \in Migrator : Migrate(p)
    \/ Maintain
    \/ \E n \in Node : AddNode(n) \/ \E d \in Today : InsertCheck(n, d)
    \/ NextDay

Spec == Init /\ [][Next]_vars

-----------------------------------------------------------------------------
(***************************************************************************)
(* Properties.                                                             *)
(***************************************************************************)
\* Migrations that were interrupted, or ran twice at a time, can be taken up again: a
\* file has taken effect exactly if it is recorded, and no file before its predecessor
\* (Migrate).
MigrationsResume ==
    done = applied /\ \A f \in done : f > 1 => f - 1 \in done

\* A result finds the partition of its day until it is Keep days old, months' ends,
\* failed ticks and nightly drops notwithstanding, unless the loop paused for more than
\* Pause days (maintenanceLoop, 0002_partitions.sql, 0003_retention.sql).
ResultsFit ==
    Partitions \in done /\ ~lapsed =>
        \A d \in created..now : d + Keep >= now => Month[d] \in parts

\* Only checks older than Keep days are dropped (DropOldCheckPartitions).
RawKept ==
    [][\A m \in parts \ parts' : \A d \in Day : Month[d] = m => d + Keep < now]_vars

\* A node is deleted at the earliest Grace days after it was found, or found again, and
\* not after its newest result made it alive (DeleteLongDead, recomputeNode).
GraceKept ==
    [][\A n \in Node : node[n] # NoRow /\ node'[n] = NoRow =>
            node[n].status = "dead" /\ now > node[n].first + Grace]_vars

=============================================================================
