------------------------------ MODULE Publisher ------------------------------
(***************************************************************************)
(* The publisher of the coordinator, and the API's event stream.           *)
(*                                                                         *)
(* Once a minute publishLoop lists the nodes that are alive and publishes  *)
(* them when the last publication is a period ago or differs by more than  *)
(* Percent.  A version is a row of the table publishes, whose sequence     *)
(* numbers it, and then an entry of the bucket PUBLISHES.  A client of     *)
(* /api/events is sent every entry of the bucket from the first on, through*)
(* a channel that drops what it has no room for.                           *)
(*                                                                         *)
(* Times are ages in minutes, each at most Period.                         *)
(***************************************************************************)
EXTENDS Integers, FiniteSets, Sequences

CONSTANTS
    Node,          \* nodes
    Client,        \* clients of /api/events
    Period,        \* longest age of the last publication (6h)
    Percent,       \* change of the set that is published at once (20)
    Buffer,        \* room of a client's channel (8)
    MaxVersions,   \* bound: versions of the table's sequence
    MaxChanges,    \* bound: changes of the set of live nodes
    MaxFaults      \* bound: crashes, failed calls, cut connections

ASSUME PublisherAssumption ==
    /\ {Percent, MaxVersions, MaxChanges, MaxFaults} \subseteq Nat
    /\ {Period, Buffer} \subseteq Nat \ {0}

VARIABLES
    alive,      \* table nodes: those with status 'alive'
    changes,    \* changes of it so far
    version,    \* table publishes: the last value of its sequence
    rows,       \* table publishes: the sets by version
    rowAge,     \* age of its newest row
    kv,         \* bucket PUBLISHES: the entries in the order of their writing
    ticked,     \* the ticker's channel holds a tick
    loop,       \* publishLoop: where it is, the set it listed and its age, the version it got
    last,       \* publishLoop: age of lastPublish and lastSet ({} for nil)
    feed,       \* handleEvents for each client
    faults      \* faults so far

tables == <<version, rows, rowAge>>
vars == <<alive, changes, tables, kv, ticked, loop, last, feed, faults>>

Version == 1..MaxVersions
Entry   == [ver: Version, set: SUBSET Node]

\* heard and lost are history: versions written to the client, versions dropped.
FeedRec == [on: BOOLEAN, next: Nat \ {0}, queue: Seq(Version),
            heard: SUBSET Version, lost: SUBSET Version]

TypeOK ==
    /\ alive \subseteq Node /\ changes \in Nat
    /\ version \in 0..MaxVersions
    /\ rows \in [Version -> SUBSET Node]
    /\ rowAge \in 0..Period
    /\ kv \in Seq(Entry)
    /\ ticked \in BOOLEAN
    /\ loop \in [phase: {"down", "idle", "insert", "put"}, set: SUBSET Node, age: 0..Period,
                ver: 0..MaxVersions]
    /\ last \in [age: 0..Period, set: SUBSET Node]
    /\ feed \in [Client -> FeedRec]
    /\ \A c \in Client : Len(feed[c].queue) <= Buffer
    /\ faults \in Nat

Idle == [phase |-> "idle", set |-> {}, age |-> 0, ver |-> 0]
Down == [Idle EXCEPT !.phase = "down"]

\* A client before its first event, connected or not.
Feed(on) == [on |-> on, next |-> 1, queue |-> <<>>, heard |-> {}, lost |-> {}]

Init ==
    /\ alive = {} /\ changes = 0
    /\ version = 0 /\ rows = [v \in Version |-> {}] /\ rowAge = Period
    /\ kv = <<>>
    /\ ticked = FALSE
    /\ loop = Down
    /\ last = [age |-> Period, set |-> {}]
    /\ feed = [c \in Client |-> Feed(FALSE)]
    /\ faults = 0

Fault == faults < MaxFaults /\ faults' = faults + 1

-----------------------------------------------------------------------------
\* The pipeline turns nodes alive and dead.
Change ==
    /\ changes < MaxChanges
    /\ changes' = changes + 1
    /\ \E S \in SUBSET Node : S # alive /\ alive' = S
    /\ UNCHANGED <<tables, kv, ticked, loop, last, feed, faults>>

Older(age) == IF age < Period THEN age + 1 ELSE Period

\* A minute passes; a tick the loop has not taken is not doubled.
Minute ==
    /\ rowAge' = Older(rowAge)
    /\ last' = [last EXCEPT !.age = Older(@)]
    /\ loop' = IF loop.phase \in {"insert", "put"} THEN [loop EXCEPT !.age = Older(@)] ELSE loop
    /\ ticked' = (loop.phase # "down")
    /\ UNCHANGED <<alive, changes, version, rows, kv, feed, faults>>

\* The newest row that is there: an insert that failed leaves none.
Published == {v \in Version : rows[v] # {}}

\* publishLoop starts with the time of the newest row, if the table can be read.
Start ==
    /\ loop.phase = "down"
    /\ loop' = Idle
    /\ \/ /\ last' = [age |-> IF Published = {} THEN Period ELSE rowAge, set |-> {}]
          /\ UNCHANGED faults
       \/ last' = [age |-> Period, set |-> {}] /\ Fault
    /\ UNCHANGED <<alive, changes, tables, kv, ticked, feed>>

Crash ==
    /\ loop.phase # "down" /\ Fault
    /\ loop' = Down /\ ticked' = FALSE
    /\ last' = [age |-> Period, set |-> {}]
    /\ UNCHANGED <<alive, changes, tables, kv, feed>>

\* More than Percent of old differs, in the code's integer arithmetic.
BigChange(new, old) ==
    LET diff == Cardinality(new \ old) + Cardinality(old \ new)
    IN  (diff * 100) \div Cardinality(old) > Percent

\* Mutant: the period counts only until the process has published.
DueUntilPublished == last.age >= Period /\ last.set = {}

PeriodDue == last.age >= Period
Changed(S) == last.set # {} /\ BigChange(S, last.set)

\* The loop takes a tick and finds no reason to publish, or cannot list the nodes.
Skip ==
    /\ loop.phase = "idle" /\ ticked
    /\ alive = {} \/ (~PeriodDue /\ ~Changed(alive))
    /\ ticked' = FALSE
    /\ UNCHANGED <<alive, changes, tables, kv, loop, last, feed, faults>>

ListFails ==
    /\ loop.phase = "idle" /\ ticked /\ Fault
    /\ ticked' = FALSE
    /\ UNCHANGED <<alive, changes, tables, kv, loop, last, feed>>

List ==
    /\ loop.phase = "idle" /\ ticked
    /\ alive # {} /\ (PeriodDue \/ Changed(alive))
    /\ ticked' = FALSE
    /\ loop' = [phase |-> "insert", set |-> alive, age |-> 0, ver |-> 0]
    /\ UNCHANGED <<alive, changes, tables, kv, last, feed, faults>>

\* A row with the next value of the sequence.
NewRow ==
    /\ rows' = [rows EXCEPT ![version + 1] = loop.set]
    /\ rowAge' = 0

\* Mutant: the newest row is taken up again unless the loop remembers its entry.
InsertReuse ==
    /\ loop.phase = "insert" /\ version < MaxVersions
    /\ LET again == version > 0 /\ rows[version] # {} /\ last.set # rows[version]
           v     == IF again THEN version ELSE version + 1
       IN  /\ version' = v
           /\ rows' = [rows EXCEPT ![v] = loop.set]
           /\ loop' = [loop EXCEPT !.phase = "put", !.ver = v]
    /\ rowAge' = 0
    /\ UNCHANGED <<alive, changes, kv, ticked, last, feed, faults>>

InsertPublish ==
    /\ loop.phase = "insert" /\ version < MaxVersions
    /\ version' = version + 1
    /\ NewRow
    /\ loop' = [loop EXCEPT !.phase = "put", !.ver = version + 1]
    /\ UNCHANGED <<alive, changes, kv, ticked, last, feed, faults>>

\* The statement fails, after it took a version or before, or its answer is lost.
InsertFails ==
    /\ loop.phase = "insert" /\ Fault
    /\ \/ UNCHANGED tables
       \/ /\ version < MaxVersions /\ version' = version + 1
          /\ NewRow \/ UNCHANGED <<rows, rowAge>>
    /\ loop' = Idle
    /\ UNCHANGED <<alive, changes, kv, ticked, last, feed>>

Store == kv' = Append(kv, [ver |-> loop.ver, set |-> loop.set])

\* Mutant: what is put is listed again.
PutRelisted ==
    /\ loop.phase = "put"
    /\ kv' = Append(kv, [ver |-> loop.ver, set |-> alive])
    /\ last' = [age |-> loop.age, set |-> loop.set]
    /\ loop' = Idle
    /\ UNCHANGED <<alive, changes, tables, ticked, feed, faults>>

\* Mutant: the publication bears the time of its end.
PutStampedLate ==
    /\ loop.phase = "put"
    /\ Store
    /\ last' = [age |-> 0, set |-> loop.set]
    /\ loop' = Idle
    /\ UNCHANGED <<alive, changes, tables, ticked, feed, faults>>

\* lastPublish is the time of the tick, before the nodes were listed.
PutPublish ==
    /\ loop.phase = "put"
    /\ Store
    /\ last' = [age |-> loop.age, set |-> loop.set]
    /\ loop' = Idle
    /\ UNCHANGED <<alive, changes, tables, ticked, feed, faults>>

\* The put fails, or only its answer is lost: the next tick publishes again.
PutFails ==
    /\ loop.phase = "put" /\ Fault
    /\ Store \/ UNCHANGED kv
    /\ loop' = Idle
    /\ UNCHANGED <<alive, changes, tables, ticked, last, feed>>

-----------------------------------------------------------------------------
(***************************************************************************)
(* /api/events.                                                            *)
(***************************************************************************)
Connect(c) ==
    /\ ~feed[c].on
    /\ feed' = [feed EXCEPT ![c] = Feed(TRUE)]
    /\ UNCHANGED <<alive, changes, tables, kv, ticked, loop, last, faults>>

\* The client goes, or the watch ends.
Disconnect(c) ==
    /\ feed[c].on /\ Fault
    /\ feed' = [feed EXCEPT ![c] = Feed(FALSE)]
    /\ UNCHANGED <<alive, changes, tables, kv, ticked, loop, last>>

\* Mutant: an event is queued, room or not.
RelayUnbounded(c) ==
    /\ feed[c].on /\ feed[c].next <= Len(kv)
    /\ feed' = [feed EXCEPT ![c].next = @ + 1,
                            ![c].queue = Append(@, kv[feed[c].next].ver)]
    /\ UNCHANGED <<alive, changes, tables, kv, ticked, loop, last, faults>>

\* Mutant: the watch ends when the channel is full, and the handler stays.
RelayEnds(c) ==
    /\ feed[c].on /\ feed[c].next <= Len(kv)
    /\ LET v == kv[feed[c].next].ver
       IN  feed' = IF Len(feed[c].queue) < Buffer
                   THEN [feed EXCEPT ![c].next = @ + 1, ![c].queue = Append(@, v)]
                   ELSE [feed EXCEPT ![c].next = MaxVersions + 1, ![c].lost = @ \cup {v}]
    /\ UNCHANGED <<alive, changes, tables, kv, ticked, loop, last, faults>>

\* WatchPublishes hands on the next entry, if the channel has room.
Relay(c) ==
    /\ feed[c].on /\ feed[c].next <= Len(kv)
    /\ LET v == kv[feed[c].next].ver
       IN  feed' = IF Len(feed[c].queue) < Buffer
                   THEN [feed EXCEPT ![c].next = @ + 1, ![c].queue = Append(@, v)]
                   ELSE [feed EXCEPT ![c].next = @ + 1, ![c].lost = @ \cup {v}]
    /\ UNCHANGED <<alive, changes, tables, kv, ticked, loop, last, faults>>

\* An event is written to the client.
Send(c) ==
    /\ feed[c].on /\ feed[c].queue # <<>>
    /\ feed' = [feed EXCEPT ![c].queue = Tail(@), ![c].heard = @ \cup {Head(feed[c].queue)}]
    /\ UNCHANGED <<alive, changes, tables, kv, ticked, loop, last, faults>>

-----------------------------------------------------------------------------
Publish == Skip \/ List \/ InsertPublish \/ PutPublish
Broken  == ListFails \/ InsertFails \/ PutFails \/ Crash
Events(c) == Connect(c) \/ Relay(c) \/ Send(c) \/ Disconnect(c)

Next == Change \/ Minute \/ Start \/ Publish \/ Broken \/ \E c \in Client : Events(c)

Spec == Init /\ [][Next]_vars

\* Minutes pass, a dead coordinator is restarted, a running one goes on, and so do
\* the handlers of connected clients.
FairSpec ==
    /\ Spec /\ WF_vars(Minute) /\ WF_vars(Start) /\ WF_vars(Publish)
    /\ \A c \in Client : WF_vars(Relay(c)) /\ WF_vars(Send(c))

-----------------------------------------------------------------------------
(***************************************************************************)
(* Properties.                                                             *)
(***************************************************************************)
Latest == kv[Len(kv)]

\* The bucket is an append-only log of non-empty versions, whatever fails between
\* the row and the entry and however often the loop tries again (publishVersion).
Log == INSTANCE PublishLog WITH log <- kv
IsLog == Log!Spec

\* The entry of a version and its row in the table are of the same list, though the
\* pipeline changes the nodes between the two writes (publishVersion's checksum).
EntryHasRow == \A k \in 1..Len(kv) : rows[kv[k].ver] = kv[k].set

\* publishLoop takes a tick, the nodes are listed, and nothing is published.
Passed == ticked /\ ~ticked' /\ loop.phase = "idle" /\ alive # {} /\ UNCHANGED <<loop, faults>>

\* A tick passes without publication only while the newest row is younger than the
\* period, restarts and failures in between or not; and as long as there were none,
\* only while the newest entry is within Percent of the live nodes (publishLoop).
SkipJustified ==
    [][Passed => /\ Published # {} /\ rowAge < Period
                 /\ faults = 0 => ~BigChange(alive, Latest.set)]_vars

\* A version is left, beside the one the loop is about to take.
VersionLeft == version + (IF loop.phase = "insert" THEN 1 ELSE 0) < MaxVersions

\* While the nodes stay the same, nothing fails and a version is left, the newest entry
\* becomes the list of the live nodes: puts and rows that failed, a list taken before
\* the nodes changed, changes too small to be published at once and restarts only
\* delay it (publishLoop's period).
CatchesUp ==
    \A S \in (SUBSET Node) \ {{}}, f \in 0..MaxFaults :
        (alive = S /\ faults = f /\ VersionLeft)
            ~> (alive # S \/ faults # f \/ (kv # <<>> /\ Latest.set = S))

\* A client is sent every version in the bucket, but for those its channel had no
\* room for, as long as it stays connected (handleEvents, WatchPublishes).
ClientHears ==
    \A c \in Client, v \in Version :
        (feed[c].on /\ \E k \in 1..Len(kv) : kv[k].ver = v) ~>
            (v \in feed[c].heard \cup feed[c].lost \/ ~feed[c].on)
=============================================================================
