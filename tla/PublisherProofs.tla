--------------------------- MODULE PublisherProofs ---------------------------
(***************************************************************************)
(* What Publisher guarantees for all nodes, clients, periods and failures: *)
(* its types, that an entry of the bucket has its row, that the bucket     *)
(* implements the append-only log of PublishLog, and that the ticks it     *)
(* lets pass are justified.                                                *)
(***************************************************************************)
EXTENDS Publisher, SequenceTheorems, TLAPS

\* The entries so far are older than a version the loop is about to put.
EntriesOld ==
    /\ \A k \in 1..Len(kv) : kv[k].ver <= version /\ kv[k].set # {}
    /\ loop.phase = "put" =>
         /\ loop.ver \in 1..version
         /\ \A k \in 1..Len(kv) : kv[k].ver < loop.ver

\* What is listed is not empty, and what is put is what was inserted.
ListedInserted ==
    /\ loop.phase \in {"insert", "put"} => loop.set # {}
    /\ loop.phase = "put" => rows[loop.ver] = loop.set

PubInv == TypeOK /\ EntriesOld /\ ListedInserted /\ EntryHasRow

pubVars == <<version, rows, kv, loop>>

-----------------------------------------------------------------------------
LEMMA Bounds == Period \in Nat /\ Buffer \in Nat /\ Buffer >= 1 /\ MaxVersions \in Nat
<1>1. Period \in Nat \ {0} /\ Buffer \in Nat \ {0} /\ MaxVersions \in Nat
  BY PublisherAssumption
<1> QED
  BY <1>1

LEMMA LoopFields ==
    ASSUME TypeOK
    PROVE  /\ loop.phase \in {"down", "idle", "insert", "put"} /\ loop.set \in SUBSET Node
           /\ loop.age \in 0..Period /\ loop.ver \in 0..MaxVersions
           /\ last.age \in 0..Period /\ last.set \in SUBSET Node
BY DEF TypeOK

LEMMA EntryTypes ==
    ASSUME TypeOK
    PROVE  \A k \in 1..Len(kv) : kv[k] \in Entry /\ kv[k].ver \in Version /\ kv[k].ver \in Int
<1>1. \A k \in 1..Len(kv) : kv[k] \in Entry
  BY DEF TypeOK
<1> QED
  BY <1>1, Bounds DEF Entry, Version

LEMMA OlderType == ASSUME NEW a \in 0..Period PROVE Older(a) \in 0..Period
BY PublisherAssumption DEF Older

LEMMA LoopValues ==
    ASSUME NEW S \in SUBSET Node, NEW a \in 0..Period, NEW v \in 0..MaxVersions,
           NEW p \in {"down", "idle", "insert", "put"}
    PROVE  [phase |-> p, set |-> S, age |-> a, ver |-> v] \in
               [phase: {"down", "idle", "insert", "put"}, set: SUBSET Node, age: 0..Period,
                ver: 0..MaxVersions]
OBVIOUS

LEMMA LastValue ==
    TypeOK => [age |-> loop.age, set |-> loop.set] \in [age: 0..Period, set: SUBSET Node]
BY LoopFields

\* The loop at rest.
LEMMA Rest ==
    /\ Idle \in [phase: {"down", "idle", "insert", "put"}, set: SUBSET Node, age: 0..Period,
                 ver: 0..MaxVersions]
    /\ Down \in [phase: {"down", "idle", "insert", "put"}, set: SUBSET Node, age: 0..Period,
                 ver: 0..MaxVersions]
    /\ Idle.phase = "idle" /\ Down.phase = "down"
BY PublisherAssumption DEF Idle, Down

LEMMA FeedType ==
    /\ Feed(TRUE) \in FeedRec /\ Len(Feed(TRUE).queue) <= Buffer
    /\ Feed(FALSE) \in FeedRec /\ Len(Feed(FALSE).queue) <= Buffer
<1>1. <<>> \in Seq(Version) /\ Len(<<>>) <= Buffer
  BY Bounds
<1>2. 1 \in Nat \ {0} /\ {} \in SUBSET Version
  OBVIOUS
<1> QED
  BY <1>1, <1>2 DEF FeedRec, Feed

\* Initially nothing is published.
LEMMA PubInit == Init => PubInv
<1> SUFFICES ASSUME Init PROVE PubInv
  OBVIOUS
<1>1. kv = <<>> /\ Len(kv) = 0 /\ kv \in Seq(Entry)
  BY DEF Init
<1>2. TypeOK
  <2>1. feed \in [Client -> FeedRec] /\ \A c \in Client : Len(feed[c].queue) <= Buffer
    BY FeedType DEF Init
  <2> QED
    <3>1. rows \in [Version -> SUBSET Node]
      BY DEF Init
    <3>2. Period \in 0..Period /\ 0 \in 0..MaxVersions
      BY PublisherAssumption
    <3>3. last \in [age: 0..Period, set: SUBSET Node]
      BY <3>2 DEF Init
    <3> QED
      BY <1>1, <2>1, <3>1, <3>2, <3>3, Rest DEF Init, TypeOK
<1> QED
  BY <1>1, <1>2, Rest DEF Init, PubInv, EntriesOld, ListedInserted, EntryHasRow

\* The entry the loop puts: it extends the bucket by a version that is newer.
LEMMA StoreStep ==
    ASSUME TypeOK, EntriesOld, ListedInserted, loop.phase = "put", Store
    PROVE  /\ kv' \in Seq(Entry) /\ Len(kv') = Len(kv) + 1
           /\ kv'[Len(kv')] = [ver |-> loop.ver, set |-> loop.set]
           /\ \A k \in 1..Len(kv) : kv'[k] = kv[k]
           /\ SubSeq(kv', 1, Len(kv)) = kv
           /\ \A k \in 1..Len(kv') : k \in 1..Len(kv) \/ k = Len(kv')
<1> DEFINE e == [ver |-> loop.ver, set |-> loop.set]
<1>1. e \in Entry
  BY LoopFields DEF EntriesOld, Entry, Version, TypeOK
<1>2. kv \in Seq(Entry) /\ Len(kv) \in Nat
  BY DEF TypeOK
<1>3. kv' = Append(kv, e)
  BY DEF Store
<1> HIDE DEF e
<1>4. kv' \in Seq(Entry) /\ Len(kv') = Len(kv) + 1
  BY <1>1, <1>2, <1>3
<1>5. kv'[Len(kv')] = e /\ \A k \in 1..Len(kv) : kv'[k] = kv[k]
  BY <1>1, <1>2, <1>3, <1>4
<1>6. SubSeq(kv', 1, Len(kv)) = kv
  BY <1>1, <1>2, <1>3
<1> QED
  BY <1>2, <1>4, <1>5, <1>6 DEF e

-----------------------------------------------------------------------------
(***************************************************************************)
(* Types.                                                                  *)
(***************************************************************************)
LoopType == [phase: {"down", "idle", "insert", "put"}, set: SUBSET Node, age: 0..Period,
             ver: 0..MaxVersions]

FeedsType == feed \in [Client -> FeedRec] /\ \A c \in Client : Len(feed[c].queue) <= Buffer

\* One client's feed is replaced by another of the type.
LEMMA FeedChange ==
    ASSUME FeedsType, NEW c \in Client, NEW f \in FeedRec, Len(f.queue) <= Buffer,
           feed' = [feed EXCEPT ![c] = f]
    PROVE  FeedsType'
BY DEF FeedsType

\* The events of a client keep its channel within its room.
LEMMA EventsType == ASSUME TypeOK, NEW c \in Client, Events(c) PROVE FeedsType'
<1> DEFINE f == feed[c]
<1>1. FeedsType /\ f \in FeedRec /\ Len(f.queue) <= Buffer /\ f.queue \in Seq(Version)
  BY DEF TypeOK, FeedsType, FeedRec
<1>2. CASE Connect(c) \/ Disconnect(c)
  <2>1. feed' = [feed EXCEPT ![c] = Feed(TRUE)] \/ feed' = [feed EXCEPT ![c] = Feed(FALSE)]
    BY <1>2 DEF Connect, Disconnect
  <2> QED
    BY <1>1, <2>1, FeedType, FeedChange
<1>3. CASE Relay(c)
  <2>1. kv[f.next] \in Entry /\ Len(kv) \in Nat /\ f.next \in 1..Len(kv)
    BY <1>1, <1>3 DEF TypeOK, Relay, FeedRec
  <2> DEFINE v == kv[f.next].ver
             queued  == [f EXCEPT !.next = f.next + 1, !.queue = Append(f.queue, v)]
             dropped == [f EXCEPT !.next = f.next + 1, !.lost = f.lost \cup {v}]
  <2>2. v \in Version
    BY <2>1 DEF Entry
  <2>3. f.next + 1 \in Nat \ {0}
    BY <2>1
  <2>4. CASE Len(f.queue) < Buffer
    <3>1. Append(f.queue, v) \in Seq(Version) /\ Len(Append(f.queue, v)) <= Buffer
      BY <1>1, <2>2, <2>4, Bounds
    <3>2. queued \in FeedRec /\ queued.queue = Append(f.queue, v)
      BY <1>1, <2>3, <3>1 DEF FeedRec
    <3>3. feed' = [feed EXCEPT ![c] = queued]
      BY <1>1, <1>3, <2>4 DEF Relay, FeedsType, FeedRec
    <3> HIDE DEF queued
    <3> QED
      BY <1>1, <3>1, <3>2, <3>3, FeedChange
  <2>5. CASE ~(Len(f.queue) < Buffer)
    <3>1. dropped \in FeedRec /\ dropped.queue = f.queue
      BY <1>1, <2>2, <2>3 DEF FeedRec
    <3>2. feed' = [feed EXCEPT ![c] = dropped]
      BY <1>1, <1>3, <2>5 DEF Relay, FeedsType, FeedRec
    <3> HIDE DEF dropped
    <3> QED
      BY <1>1, <3>1, <3>2, FeedChange
  <2> QED
    BY <2>4, <2>5
<1>4. CASE Send(c)
  <2> DEFINE sent == [f EXCEPT !.queue = Tail(f.queue), !.heard = f.heard \cup {Head(f.queue)}]
  <2>1. f.queue # <<>>
    BY <1>4 DEF Send
  <2>2. Head(f.queue) \in Version /\ Tail(f.queue) \in Seq(Version) /\ Len(Tail(f.queue)) <= Buffer
    BY <1>1, <2>1, Bounds, HeadTailProperties
  <2>3. sent \in FeedRec /\ sent.queue = Tail(f.queue)
    BY <1>1, <2>2 DEF FeedRec
  <2>4. feed' = [feed EXCEPT ![c] = sent]
    BY <1>1, <1>4 DEF Send, FeedsType, FeedRec
  <2> HIDE DEF sent
  <2> QED
    BY <1>1, <2>2, <2>3, <2>4, FeedChange
<1> QED
  BY <1>2, <1>3, <1>4 DEF Events

\* The types of everything but the feeds and the ticker.
CoreType ==
    /\ alive \subseteq Node /\ changes \in Nat /\ faults \in Nat
    /\ version \in 0..MaxVersions /\ rows \in [Version -> SUBSET Node] /\ rowAge \in 0..Period
    /\ kv \in Seq(Entry)
    /\ loop \in LoopType
    /\ last \in [age: 0..Period, set: SUBSET Node]

LEMMA TypeParts == TypeOK <=> CoreType /\ FeedsType /\ ticked \in BOOLEAN
BY Zenon DEF TypeOK, CoreType, FeedsType, LoopType

\* The ticker's channel holds a tick or not.
LEMMA TickedType == ASSUME ticked \in BOOLEAN, [Next]_vars PROVE ticked' \in BOOLEAN
<1>1. CASE Minute
  BY <1>1, Zenon DEF Minute
<1>2. CASE Skip \/ List \/ ListFails \/ Crash
  BY <1>2, Zenon DEF Skip, List, ListFails, Crash
<1>3. CASE UNCHANGED ticked
  BY <1>3, Zenon
<1> QED
  BY <1>1, <1>2, <1>3, Zenon
     DEF Next, vars, Publish, Broken, Change, Start, InsertPublish, InsertFails, PutPublish, PutFails,
         Events, Connect, Disconnect, Relay, Send

\* The variables keep their types.
LEMMA TypeStep == TypeOK /\ EntriesOld /\ ListedInserted /\ [Next]_vars => TypeOK'
<1> SUFFICES ASSUME TypeOK, EntriesOld, ListedInserted, [Next]_vars PROVE TypeOK'
  OBVIOUS
<1>0. CoreType /\ FeedsType /\ ticked \in BOOLEAN
  BY TypeParts, Zenon
<1>t. ticked' \in BOOLEAN
  BY <1>0, TickedType, Zenon
<1>f. ASSUME UNCHANGED feed, ~ \E c \in Client : Events(c) PROVE CoreType' /\ FeedsType'
  <2> SUFFICES CoreType'
    BY <1>0, <1>f DEF FeedsType
  <2>0a. Fault => faults' \in Nat
    BY <1>0 DEF Fault, CoreType
  <2> USE LoopFields, Bounds, Rest, <1>0
  <2>1. CASE Change
    BY <2>1 DEF Change, CoreType, tables
  <2>1a. CASE Skip \/ ListFails \/ UNCHANGED vars
    <3>1. UNCHANGED <<alive, changes, version, rows, rowAge, kv, loop, last>>
      BY <2>1a DEF Skip, ListFails, tables, vars
    <3>2. faults' \in Nat
      BY <2>0a, <2>1a DEF Skip, ListFails, vars, CoreType
    <3> QED
      BY <3>1, <3>2 DEF CoreType
  <2>2. CASE Minute
    <3>1. rowAge' \in 0..Period
      BY <2>2, OlderType DEF Minute, CoreType
    <3>2. last' \in [age: 0..Period, set: SUBSET Node]
      BY <2>2, OlderType DEF Minute, CoreType
    <3>3. loop' \in LoopType
      BY <2>2, OlderType DEF Minute, CoreType, LoopType
    <3> QED
      BY <2>2, <3>1, <3>2, <3>3 DEF Minute, CoreType
  <2>3. CASE Start \/ Crash
    <3>1. last' \in [age: 0..Period, set: SUBSET Node]
      BY <2>3 DEF Start, Crash, CoreType
    <3>2. loop' \in LoopType
      BY <2>3 DEF Start, Crash, LoopType
    <3> QED
      BY <2>0a, <2>3, <3>1, <3>2 DEF Start, Crash, CoreType, tables
  <2>4. CASE List
    <3>1. loop' \in LoopType
      BY <2>4, LoopValues DEF List, LoopType, CoreType
    <3> QED
      BY <2>4, <3>1 DEF List, CoreType, tables
  <2>5. ASSUME version < MaxVersions, version' = version + 1, NewRow \/ UNCHANGED <<rows, rowAge>>
        PROVE  version' \in 0..MaxVersions /\ rows' \in [Version -> SUBSET Node] /\ rowAge' \in 0..Period
    <3>1. version' \in 0..MaxVersions
      BY <2>5 DEF CoreType
    <3>2. rows' \in [Version -> SUBSET Node]
      BY <2>5 DEF NewRow, CoreType
    <3>3. rowAge' \in 0..Period
      BY <2>5 DEF NewRow, CoreType
    <3> QED
      BY <3>1, <3>2, <3>3
  <2>6. CASE InsertPublish
    <3>1. version + 1 \in 0..MaxVersions /\ "put" \in {"down", "idle", "insert", "put"}
      BY <2>6 DEF InsertPublish, CoreType
    <3>2. loop' \in LoopType
      BY <2>6, <3>1 DEF InsertPublish, CoreType, LoopType
    <3> QED
      BY <2>5, <2>6, <3>2 DEF InsertPublish, CoreType
  <2>7. CASE InsertFails
    <3>1. version' \in 0..MaxVersions /\ rows' \in [Version -> SUBSET Node] /\ rowAge' \in 0..Period
      BY <2>5, <2>7 DEF InsertFails, CoreType, tables
    <3>2. loop' \in LoopType
      BY <2>7 DEF InsertFails, LoopType
    <3> QED
      BY <2>0a, <2>7, <3>1, <3>2 DEF InsertFails, CoreType
  <2>8. CASE PutPublish \/ PutFails
    <3>1. kv' \in Seq(Entry)
      BY <2>8, StoreStep DEF PutPublish, PutFails, CoreType
    <3>2. last' \in [age: 0..Period, set: SUBSET Node]
      BY <2>8, LastValue DEF PutPublish, PutFails, CoreType
    <3>3. loop' \in LoopType
      BY <2>8 DEF PutPublish, PutFails, LoopType
    <3> QED
      BY <2>0a, <2>8, <3>1, <3>2, <3>3 DEF PutPublish, PutFails, CoreType, tables
  <2> QED
    BY <1>f, <2>1, <2>1a, <2>2, <2>3, <2>4, <2>6, <2>7, <2>8 DEF Next, Publish, Broken
<1>e. ASSUME NEW c \in Client, Events(c) PROVE CoreType' /\ FeedsType'
  <2>1. FeedsType'
    BY <1>e, EventsType
  <2>2. UNCHANGED <<alive, changes, version, rows, rowAge, kv, ticked, loop, last>>
    BY <1>e DEF Events, Connect, Disconnect, Relay, Send, tables
  <2>3. faults' \in Nat
    <3>1. Fault => faults' \in Nat
      BY <1>0 DEF Fault, CoreType
    <3>2. Fault \/ UNCHANGED faults
      BY <1>e DEF Events, Connect, Disconnect, Relay, Send
    <3> QED
      BY <1>0, <3>1, <3>2 DEF CoreType
  <2> QED
    BY <1>0, <2>1, <2>2, <2>3 DEF CoreType
<1>g. UNCHANGED feed \/ \E c \in Client : Events(c)
  BY DEF Next, vars, Publish, Broken, Change, Minute, Start, Skip, List, ListFails, Crash,
         InsertPublish, InsertFails, PutPublish, PutFails
<1>h. CoreType' /\ FeedsType'
  BY <1>f, <1>e, <1>g, Zenon
<1> QED
  BY <1>h, <1>t, Zenon DEF TypeOK, CoreType, FeedsType, LoopType

-----------------------------------------------------------------------------
(***************************************************************************)
(* The entries and their rows.                                             *)
(***************************************************************************)

\* A step that writes neither table nor bucket, and does not begin a put.
LEMMA Quiet ==
    ASSUME PubInv, UNCHANGED <<version, rows, kv>>,
           loop'.phase \in {"insert", "put"} => loop'.set # {},
           loop'.phase = "put" => (loop.phase = "put" /\ loop'.ver = loop.ver /\ loop'.set = loop.set)
    PROVE  EntriesOld' /\ ListedInserted' /\ EntryHasRow'
BY DEF PubInv, EntriesOld, ListedInserted, EntryHasRow

\* A new row is younger than every entry, and no entry's row is touched.
LEMMA RowStep ==
    ASSUME PubInv, version < MaxVersions, version' = version + 1, UNCHANGED kv,
           NewRow \/ UNCHANGED <<rows, rowAge>>
    PROVE  /\ \A k \in 1..Len(kv) : kv[k].ver < version' /\ kv[k].set # {}
           /\ EntryHasRow'
<1>1. TypeOK
  BY DEF PubInv
<1>2. \A k \in 1..Len(kv) : kv[k].ver \in Version /\ kv[k].ver <= version /\ kv[k].set # {}
  BY <1>1, EntryTypes DEF PubInv, EntriesOld
<1>3. version \in Nat /\ rows \in [Version -> SUBSET Node]
  BY <1>1, Bounds DEF TypeOK
<1>4. ASSUME NEW v \in Version, v <= version PROVE rows'[v] = rows[v] /\ v < version'
  BY <1>3, <1>4, Bounds DEF NewRow, Version
<1> QED
  BY <1>2, <1>4 DEF PubInv, EntryHasRow

\* Each step keeps the entries old, the put inserted, and the rows of the entries.
LEMMA EntryStep == PubInv /\ [Next]_vars => EntriesOld' /\ ListedInserted' /\ EntryHasRow'
<1> DEFINE Kept == EntriesOld' /\ ListedInserted' /\ EntryHasRow'
<1> SUFFICES ASSUME PubInv, [Next]_vars PROVE Kept
  OBVIOUS
<1>0. TypeOK /\ EntriesOld /\ ListedInserted /\ EntryHasRow
  BY DEF PubInv
<1> USE LoopFields, Rest
<1>1. CASE Change \/ Skip \/ ListFails \/ Minute \/ Start \/ Crash \/ List
  <2>1. UNCHANGED <<version, rows, kv>>
    BY <1>1 DEF Change, Skip, ListFails, Minute, Start, Crash, List, tables
  <2>2. loop'.phase \in {"insert", "put"} => loop'.set # {}
    BY <1>0, <1>1 DEF Change, Skip, ListFails, Minute, Start, Crash, List, ListedInserted, TypeOK
  <2>3. loop'.phase = "put" => (loop.phase = "put" /\ loop'.ver = loop.ver /\ loop'.set = loop.set)
    BY <1>0, <1>1 DEF Change, Skip, ListFails, Minute, Start, Crash, List, TypeOK
  <2> QED
    BY <2>1, <2>2, <2>3, Quiet
<1>2. CASE InsertPublish
  <2>1. \A k \in 1..Len(kv) : kv[k].ver < version' /\ kv[k].set # {}
    BY <1>2, RowStep DEF InsertPublish
  <2>2. EntryHasRow'
    BY <1>2, RowStep DEF InsertPublish
  <2>3. loop'.phase = "put" /\ loop'.ver = version + 1 /\ loop'.set = loop.set /\ loop.set # {}
    BY <1>0, <1>2 DEF InsertPublish, TypeOK, ListedInserted
  <2>4. version \in 0..MaxVersions /\ version < MaxVersions /\ version' = version + 1 /\ kv' = kv
    BY <1>0, <1>2 DEF InsertPublish, TypeOK
  <2>5. rows'[version + 1] = loop.set
    BY <1>0, <1>2, <2>4, Bounds DEF InsertPublish, NewRow, TypeOK, Version
  <2>6. \A k \in 1..Len(kv) : kv[k].ver \in Int
    BY <1>0, EntryTypes
  <2>7. EntriesOld'
    <3>1. \A k \in 1..Len(kv') : kv'[k].ver <= version' /\ kv'[k].set # {}
      BY <2>1, <2>4, <2>6, Bounds
    <3>2. loop'.ver \in 1..version'
      BY <2>3, <2>4, Bounds
    <3>3. \A k \in 1..Len(kv') : kv'[k].ver < loop'.ver
      BY <2>1, <2>3, <2>4
    <3> QED
      BY <3>1, <3>2, <3>3, Zenon DEF EntriesOld
  <2> QED
    BY <2>2, <2>3, <2>5, <2>7 DEF ListedInserted
<1>3. CASE InsertFails
  <2>1. loop'.phase = "idle" /\ kv' = kv
    BY <1>3 DEF InsertFails
  <2>2. CASE UNCHANGED tables
    BY <2>1, <2>2, Quiet DEF tables
  <2>3. CASE version < MaxVersions /\ version' = version + 1 /\ (NewRow \/ UNCHANGED <<rows, rowAge>>)
    <3>1. \A k \in 1..Len(kv) : kv[k].ver < version' /\ kv[k].set # {}
      BY <2>1, <2>3, RowStep
    <3>2. EntryHasRow'
      BY <2>1, <2>3, RowStep
    <3>3. \A k \in 1..Len(kv) : kv[k].ver \in Int
      BY <1>0, EntryTypes
    <3>4. version' \in Int
      BY <1>0, <2>3, Bounds DEF TypeOK
    <3> QED
      BY <2>1, <3>1, <3>2, <3>3, <3>4 DEF EntriesOld, ListedInserted
  <2> QED
    BY <1>3, <2>2, <2>3 DEF InsertFails
<1>4. CASE PutPublish \/ PutFails
  <2>1. loop.phase = "put" /\ loop'.phase = "idle" /\ UNCHANGED <<version, rows>>
    BY <1>4 DEF PutPublish, PutFails, tables
  <2>2. CASE kv' = kv
    BY <2>1, <2>2, Quiet
  <2>3. CASE Store
    <3>1. /\ kv'[Len(kv')] = [ver |-> loop.ver, set |-> loop.set]
          /\ \A k \in 1..Len(kv) : kv'[k] = kv[k]
          /\ \A k \in 1..Len(kv') : k \in 1..Len(kv) \/ k = Len(kv')
      BY <1>0, <2>1, <2>3, StoreStep
    <3>2. kv'[Len(kv')].ver = loop.ver /\ kv'[Len(kv')].set = loop.set
      BY <3>1
    <3>3. loop.ver <= version /\ loop.set # {} /\ rows[loop.ver] = loop.set
      BY <1>0, <2>1 DEF EntriesOld, ListedInserted
    <3> QED
      BY <1>0, <2>1, <3>1, <3>2, <3>3 DEF EntriesOld, ListedInserted, EntryHasRow
  <2> QED
    BY <1>4, <2>2, <2>3 DEF PutPublish, PutFails
<1>5. CASE UNCHANGED vars \/ \E c \in Client : Events(c)
  <2>1. UNCHANGED <<version, rows, kv, loop>>
    BY <1>5 DEF vars, Events, Connect, Disconnect, Relay, Send, tables
  <2> QED
    BY <1>0, <2>1, Quiet DEF ListedInserted
<1> QED
  BY <1>1, <1>2, <1>3, <1>4, <1>5 DEF Next, Publish, Broken

\* The invariant of Publisher.
THEOREM PublisherInvariant == Spec => []PubInv
<1>1. PubInv /\ [Next]_vars => PubInv'
  BY TypeStep, EntryStep DEF PubInv
<1> QED
  BY <1>1, PubInit, PTL DEF Spec

\* An entry and its row are of the same list (EntryHasRow): the checksum in the table
\* is that of what was published.
THEOREM EntriesHaveRows == Spec => []EntryHasRow
<1>1. PubInv => EntryHasRow
  BY DEF PubInv
<1> QED
  BY <1>1, PublisherInvariant, PTL

\* The types, the room of the clients' channels included.
THEOREM PublisherTypes == Spec => []TypeOK
<1>1. PubInv => TypeOK
  BY DEF PubInv
<1> QED
  BY <1>1, PublisherInvariant, PTL

-----------------------------------------------------------------------------
(***************************************************************************)
(* The bucket implements the log.                                          *)
(***************************************************************************)

\* A step leaves the bucket alone or appends a newer version.
LEMMA LogStep == PubInv /\ [Next]_vars => [Log!Next]_kv
<1> SUFFICES ASSUME PubInv, [Next]_vars, kv' # kv PROVE Log!Next
  OBVIOUS
<1>1. loop.phase = "put" /\ Store
  BY DEF Next, vars, tables, Publish, Broken, Change, Minute, Start, Skip, List, ListFails, Crash,
         InsertPublish, InsertFails, PutPublish, PutFails, Events, Connect, Disconnect, Relay, Send
<1>2. TypeOK /\ EntriesOld /\ ListedInserted
  BY DEF PubInv
<1>3. /\ Len(kv') = Len(kv) + 1
      /\ kv'[Len(kv')] = [ver |-> loop.ver, set |-> loop.set]
      /\ SubSeq(kv', 1, Len(kv)) = kv
  BY <1>1, <1>2, StoreStep
<1>4. loop.ver \in Nat \ {0} /\ loop.set \in (SUBSET Node) \ {{}}
  BY <1>1, <1>2, LoopFields, Bounds DEF EntriesOld, ListedInserted, TypeOK
<1>5. kv'[Len(kv')] \in Log!Entry
  BY <1>3, <1>4 DEF Log!Entry
<1>6. \A k \in 1..Len(kv) : kv[k].ver < kv'[Len(kv')].ver
  BY <1>1, <1>2, <1>3 DEF EntriesOld
<1> QED
  BY <1>3, <1>5, <1>6 DEF Log!Next, Log!Grows

\* Publications are an append-only log of non-empty versions (IsLog).
THEOREM PublisherIsLog == Spec => IsLog
<1>1. Init => Log!Init
  BY DEF Init, Log!Init
<1> QED
  BY <1>1, LogStep, PublisherInvariant, PTL DEF Spec, IsLog, Log!Spec
-----------------------------------------------------------------------------
(***************************************************************************)
(* Skipped ticks are justified: what the loop remembers of the last        *)
(* publication is no younger than the newest row, and as long as nothing   *)
(* failed it is the newest entry.                                          *)
(***************************************************************************)

RowIsRecent ==
    /\ last.age < Period => Published # {} /\ rowAge <= last.age
    /\ loop.phase = "put" => Published # {} /\ rowAge <= loop.age

EntryIsLast ==
    /\ loop.phase = "down" => Published = {}
    /\ last.age < Period => last.set # {}
    /\ last.set # {} => kv # <<>> /\ Latest.set = last.set

SkipInv == RowIsRecent /\ (faults = 0 => EntryIsLast)

LEMMA OlderGrows ==
    ASSUME NEW a \in 0..Period, NEW b \in 0..Period, a <= b
    PROVE  Older(a) <= Older(b) /\ (Older(b) < Period => b < Period)
<1>1. Period \in Nat /\ a \in Nat /\ b \in Nat
  BY Bounds
<1> QED
  BY <1>1 DEF Older

\* Nothing is undone by a fault, and a step that counts one leaves no promise of EntryIsLast.
LEMMA FaultCounts == ASSUME TypeOK, Fault PROVE faults' # 0
BY DEF TypeOK, Fault

\* A new row, or none, is at least as good as the one before.
LEMMA RowsGrow ==
    ASSUME PubInv, loop.phase = "insert", version < MaxVersions, version' = version + 1,
           NewRow \/ UNCHANGED <<rows, rowAge>>
    PROVE  /\ Published # {} => Published' # {}
           /\ rowAge' <= rowAge
           /\ NewRow => Published' # {} /\ rowAge' = 0
<1>1. TypeOK /\ loop.set # {}
  BY DEF PubInv, ListedInserted
<1>2. version + 1 \in Version /\ rowAge \in Nat /\ rows \in [Version -> SUBSET Node]
  BY <1>1, Bounds DEF TypeOK, Version
<1>3. CASE NewRow
  <2>1. rows'[version + 1] = loop.set /\ version + 1 \in Version
    BY <1>2, <1>3 DEF NewRow
  <2>2. version + 1 \in Published'
    BY <1>1, <2>1 DEF Published, Version
  <2> QED
    BY <1>2, <1>3, <2>2 DEF NewRow
<1>4. CASE UNCHANGED <<rows, rowAge>> /\ ~NewRow
  BY <1>2, <1>4 DEF Published, Version
<1> QED
  BY <1>3, <1>4

\* A step that leaves table, bucket, memory and faults alone, and does not begin a put.
LEMMA SkipQuiet ==
    ASSUME SkipInv, UNCHANGED <<rows, rowAge, kv, last>>,
           loop'.phase = "put" => (loop.phase = "put" /\ loop'.age = loop.age),
           faults' = 0 => faults = 0 /\ (loop'.phase = "down" => loop.phase = "down")
    PROVE  SkipInv'
<1>1. Published' = Published /\ Latest' = Latest
  BY DEF Published, Version, Latest
<1> QED
  BY <1>1 DEF SkipInv, RowIsRecent, EntryIsLast

LEMMA SkipInit == Init => SkipInv
BY PublisherAssumption DEF Init, SkipInv, RowIsRecent, EntryIsLast, Published, Version, Down, Idle

LEMMA SkipStep == PubInv /\ SkipInv /\ [Next]_vars => SkipInv'
<1> SUFFICES ASSUME PubInv, SkipInv, [Next]_vars PROVE SkipInv'
  OBVIOUS
<1>0. TypeOK /\ EntriesOld /\ ListedInserted /\ EntryHasRow
  BY DEF PubInv
<1>a. rowAge \in 0..Period /\ faults \in Nat /\ Period \in Nat \ {0}
  BY <1>0, PublisherAssumption DEF TypeOK
<1> USE LoopFields, Rest, Bounds
<1>1. CASE Change \/ Skip \/ List
  <2>1. UNCHANGED <<rows, rowAge, kv, last, faults>>
    BY <1>1 DEF Change, Skip, List, tables
  <2>2. loop' = loop \/ (loop'.phase = "insert")
    BY <1>1 DEF Change, Skip, List
  <2> QED
    BY <2>1, <2>2, SkipQuiet
<1>2. CASE ListFails
  BY <1>0, <1>2, FaultCounts, SkipQuiet DEF ListFails, tables
<1>3. CASE Minute
  <2>1. /\ rowAge' = Older(rowAge) /\ last'.age = Older(last.age) /\ last'.set = last.set
        /\ UNCHANGED <<rows, kv, faults>> /\ loop'.phase = loop.phase
        /\ loop.phase = "put" => loop'.age = Older(loop.age)
    BY <1>0, <1>3 DEF Minute, TypeOK
  <2>2. Published' = Published /\ Latest' = Latest
    BY <2>1 DEF Published, Version, Latest
  <2>3. /\ last'.age < Period => last.age < Period
        /\ rowAge <= last.age => rowAge' <= last'.age
        /\ (loop.phase = "put" /\ rowAge <= loop.age) => rowAge' <= loop'.age
    BY <1>0, <1>a, <2>1, OlderGrows
  <2> QED
    BY <2>1, <2>2, <2>3 DEF SkipInv, RowIsRecent, EntryIsLast
<1>4. CASE Start
  <2>1. UNCHANGED <<rows, rowAge, kv>> /\ loop'.phase = "idle" /\ last'.set = {} /\ Published' = Published
    BY <1>4 DEF Start, tables, Published, Version
  <2>2. last'.age = Period \/ (Published # {} /\ last'.age = rowAge /\ faults' = faults /\ loop.phase = "down")
    BY <1>4 DEF Start
  <2>3. RowIsRecent'
    BY <1>a, <2>1, <2>2 DEF RowIsRecent
  <2>4. ASSUME faults' = 0 PROVE EntryIsLast'
    <3>1. faults = 0 /\ Published = {}
      BY <1>0, <1>4, <2>4, FaultCounts DEF Start, SkipInv, EntryIsLast
    <3> QED
      BY <1>a, <2>1, <2>2, <3>1 DEF EntryIsLast
  <2> QED
    BY <2>3, <2>4 DEF SkipInv
<1>5. CASE Crash
  <2>1. UNCHANGED <<rows, rowAge>> /\ loop'.phase = "down" /\ last'.age = Period /\ faults' # 0
    BY <1>0, <1>5, FaultCounts DEF Crash, tables
  <2> QED
    BY <1>a, <2>1 DEF SkipInv, RowIsRecent
<1>6. CASE InsertPublish
  <2>1. loop.phase = "insert" /\ Published' # {} /\ rowAge' = 0 /\ UNCHANGED <<kv, last, faults>>
    BY <1>6, RowsGrow DEF InsertPublish
  <2>2. loop'.phase = "put" /\ loop'.age = loop.age
    BY <1>0, <1>6 DEF InsertPublish, TypeOK
  <2>3. Latest' = Latest
    BY <2>1 DEF Latest
  <2>4. RowIsRecent'
    BY <1>0, <2>1, <2>2 DEF RowIsRecent
  <2> QED
    BY <2>1, <2>2, <2>3, <2>4 DEF SkipInv, EntryIsLast
<1>7. CASE InsertFails
  <2>1. UNCHANGED last /\ loop'.phase = "idle" /\ faults' # 0 /\ loop.phase = "insert"
    BY <1>0, <1>7, FaultCounts DEF InsertFails
  <2>2. (Published # {} => Published' # {}) /\ rowAge' <= rowAge /\ rowAge' \in Int
    <3>1. CASE UNCHANGED tables
      BY <1>a, <3>1 DEF tables, Published, Version
    <3>2. CASE version < MaxVersions /\ version' = version + 1 /\ (NewRow \/ UNCHANGED <<rows, rowAge>>)
      BY <1>a, <2>1, <3>2, RowsGrow DEF NewRow
    <3> QED
      BY <1>7, <3>1, <3>2 DEF InsertFails
  <2> QED
    BY <1>0, <1>a, <2>1, <2>2 DEF SkipInv, RowIsRecent
<1>8. CASE PutPublish
  <2>1. /\ loop.phase = "put" /\ Store /\ loop.set # {} /\ UNCHANGED <<rows, rowAge, faults>>
        /\ loop'.phase = "idle" /\ last'.age = loop.age /\ last'.set = loop.set
    BY <1>0, <1>8 DEF PutPublish, tables, ListedInserted
  <2>2. Latest'.set = loop.set /\ kv' # <<>>
    <3>1. Len(kv') = Len(kv) + 1 /\ kv'[Len(kv')] = [ver |-> loop.ver, set |-> loop.set]
      BY <1>0, <2>1, StoreStep
    <3>2. Len(kv) \in Nat
      BY <1>0 DEF TypeOK
    <3> QED
      BY <3>1, <3>2 DEF Latest
  <2>3. Published' = Published
    BY <2>1 DEF Published, Version
  <2> QED
    BY <2>1, <2>2, <2>3 DEF SkipInv, RowIsRecent, EntryIsLast
<1>9. CASE PutFails
  <2>1. UNCHANGED <<rows, rowAge, last>> /\ loop'.phase = "idle" /\ faults' # 0
    BY <1>0, <1>9, FaultCounts DEF PutFails, tables
  <2>2. Published' = Published
    BY <2>1 DEF Published, Version
  <2> QED
    BY <2>1, <2>2 DEF SkipInv, RowIsRecent
<1>10. CASE UNCHANGED vars \/ \E c \in Client : Events(c)
  <2>1. UNCHANGED <<rows, rowAge, kv, last, loop>>
    BY <1>10 DEF vars, tables, Events, Connect, Disconnect, Relay, Send
  <2>2. faults' = 0 => faults = 0
    BY <1>0, <1>10, FaultCounts DEF vars, Events, Connect, Disconnect, Relay, Send
  <2> QED
    BY <2>1, <2>2, SkipQuiet
<1> QED
  BY <1>1, <1>2, <1>3, <1>4, <1>5, <1>6, <1>7, <1>8, <1>9, <1>10 DEF Next, Publish, Broken

\* Only Skip passes a tick.
LEMMA PassedIsSkip == ASSUME PubInv, [Next]_vars, Passed PROVE Skip
<1>0. TypeOK
  BY DEF PubInv
<1>1. ~Change /\ ~Minute /\ ~List /\ ~InsertPublish /\ ~PutPublish /\ ~InsertFails /\ ~PutFails
  <2>1. loop.phase = "idle" /\ loop' = loop /\ loop.phase # "down"
    BY DEF Passed
  <2>2. ~Change /\ ~Minute
    BY <2>1, Zenon DEF Passed, Change, Minute
  <2>3. ~InsertPublish /\ ~PutPublish /\ ~InsertFails /\ ~PutFails
    BY <2>1 DEF InsertPublish, PutPublish, InsertFails, PutFails
  <2>4. ~List
    BY <2>1 DEF List
  <2> QED
    BY <2>2, <2>3, <2>4
<1>2. ~Start /\ ~Crash /\ ~ListFails
  BY <1>0, FaultCounts DEF Passed, Start, Crash, ListFails, Fault, TypeOK
<1>3. ~UNCHANGED vars /\ ~ \E c \in Client : Events(c)
  BY DEF Passed, vars, Events, Connect, Disconnect, Relay, Send
<1> QED
  BY <1>1, <1>2, <1>3 DEF Next, Publish, Broken

\* A tick passes without publication only inside the period, and as long as nothing
\* failed only while the newest entry is close to the live nodes (SkipJustified).
THEOREM SkipsAreJustified == Spec => SkipJustified
<1>1. PubInv /\ SkipInv /\ [Next]_vars =>
        (Passed => /\ Published # {} /\ rowAge < Period
                   /\ faults = 0 => ~BigChange(alive, Latest.set))
  <2> SUFFICES ASSUME PubInv, SkipInv, [Next]_vars, Passed
               PROVE  /\ Published # {} /\ rowAge < Period
                      /\ faults = 0 => ~BigChange(alive, Latest.set)
    OBVIOUS
  <2>1. TypeOK
    BY DEF PubInv
  <2>2. ~PeriodDue /\ ~Changed(alive)
    BY PassedIsSkip DEF Skip, Passed
  <2>3. last.age < Period /\ rowAge \in Int /\ last.age \in Int
    BY <2>1, <2>2, LoopFields, Bounds DEF PeriodDue, TypeOK
  <2>4. faults = 0 => last.set # {} /\ Latest.set = last.set
    BY <2>3 DEF SkipInv, EntryIsLast
  <2> QED
    BY <2>2, <2>3, <2>4, Bounds DEF SkipInv, RowIsRecent, Changed
<1>2. PubInv /\ SkipInv /\ [Next]_vars => (PubInv /\ SkipInv)'
  BY SkipStep, TypeStep, EntryStep DEF PubInv
<1>3. Init => PubInv /\ SkipInv
  BY PubInit, SkipInit
<1> QED
  BY <1>1, <1>2, <1>3, PTL DEF Spec, SkipJustified
-----------------------------------------------------------------------------
(***************************************************************************)
(* What a client is told: the safety behind ClientHears.                   *)
(***************************************************************************)
Queued(c)  == {feed[c].queue[i] : i \in 1..Len(feed[c].queue)}
Relayed(c) == {kv[k].ver : k \in 1..(feed[c].next - 1)}

\* The log is read from its start, and what was read is heard, waits or had no room.
ReadOn(c) ==
    /\ feed[c].next - 1 <= Len(kv)
    /\ feed[c].heard \cup feed[c].lost \cup Queued(c) = Relayed(c)

\* No version is both lost and told, and what waits is in order and newer than what
\* the client has heard.
InOrder(c) ==
    /\ feed[c].lost \cap (feed[c].heard \cup Queued(c)) = {}
    /\ \A v \in feed[c].heard : \A w \in Queued(c) : v < w
    /\ \A i, j \in 1..Len(feed[c].queue) : i < j => feed[c].queue[i] < feed[c].queue[j]

LogInOrder == \A j, k \in 1..Len(kv) : j < k => kv[j].ver < kv[k].ver

ToldInOrder == \A c \in Client : ReadOn(c) /\ InOrder(c)

\* The log stays as it is, or grows at its end.
LEMMA LogOrderStep ==
    ASSUME PubInv, LogInOrder, [Next]_vars
    PROVE  /\ LogInOrder' /\ Len(kv) <= Len(kv')
           /\ \A k \in 1..Len(kv) : kv'[k] = kv[k]
<1>1. TypeOK /\ EntriesOld /\ ListedInserted /\ Len(kv) \in Nat
  BY DEF PubInv, TypeOK
<1>2. CASE kv' = kv
  BY <1>1, <1>2 DEF LogInOrder
<1>3. CASE kv' # kv
  <2>1. loop.phase = "put" /\ Store
    BY <1>3 DEF Next, vars, tables, Publish, Broken, Change, Minute, Start, Skip, List, ListFails,
           Crash, InsertPublish, InsertFails, PutPublish, PutFails, Events, Connect, Disconnect,
           Relay, Send
  <2>2. /\ Len(kv') = Len(kv) + 1
        /\ kv'[Len(kv')] = [ver |-> loop.ver, set |-> loop.set]
        /\ \A k \in 1..Len(kv) : kv'[k] = kv[k]
    BY <1>1, <2>1, StoreStep
  <2>3. \A k \in 1..Len(kv) : kv[k].ver < kv'[Len(kv')].ver
    BY <1>1, <2>1, <2>2 DEF EntriesOld
  <2>4. \A j, k \in 1..Len(kv') : j < k => kv'[j].ver < kv'[k].ver
    <3> SUFFICES ASSUME NEW j \in 1..Len(kv'), NEW k \in 1..Len(kv'), j < k
                 PROVE  kv'[j].ver < kv'[k].ver
      OBVIOUS
    <3>1. j \in 1..Len(kv) /\ (k \in 1..Len(kv) \/ k = Len(kv'))
      BY <1>1, <2>2
    <3> QED
      BY <2>2, <2>3, <3>1 DEF LogInOrder
  <2> QED
    BY <1>1, <2>2, <2>4 DEF LogInOrder
<1> QED
  BY <1>2, <1>3

\* A client whose feed is left alone has read what it had read.
LEMMA FeedAlone ==
    ASSUME TypeOK, NEW c \in Client, ReadOn(c), InOrder(c), feed'[c] = feed[c],
           Len(kv) <= Len(kv'), Len(kv') \in Nat, \A k \in 1..Len(kv) : kv'[k] = kv[k]
    PROVE  ReadOn(c)' /\ InOrder(c)'
<1>1. Len(kv) \in Nat /\ feed[c].next \in Nat /\ feed[c].next - 1 <= Len(kv)
  BY DEF TypeOK, FeedRec, ReadOn
<1>2. Queued(c)' = Queued(c)
  BY DEF Queued
<1>3. \A k \in 1..(feed[c].next - 1) : kv'[k] = kv[k]
  BY <1>1
<1>4. Relayed(c)' = Relayed(c)
  BY <1>3 DEF Relayed
<1>5. ReadOn(c)'
  BY <1>1, <1>2, <1>4 DEF ReadOn
<1> QED
  BY <1>2, <1>5 DEF InOrder

\* A client's own events.
LEMMA FeedEvent ==
    ASSUME TypeOK, LogInOrder, NEW c \in Client, ReadOn(c), InOrder(c), Events(c)
    PROVE  ReadOn(c)' /\ InOrder(c)'
<1> DEFINE f == feed[c]
           q == f.queue
           n == Len(q)
<1>1. /\ f \in FeedRec /\ feed \in [Client -> FeedRec] /\ q \in Seq(Version) /\ n \in Nat
      /\ f.next \in Nat \ {0} /\ Len(kv) \in Nat /\ f.next - 1 <= Len(kv)
  BY DEF TypeOK, FeedRec, ReadOn
<1>2. kv' = kv
  BY DEF Events, Connect, Disconnect, Relay, Send
<1>3. CASE Connect(c) \/ Disconnect(c)
  <2>1. feed'[c] = Feed(TRUE) \/ feed'[c] = Feed(FALSE)
    BY <1>1, <1>3 DEF Connect, Disconnect
  <2>2. feed'[c].next = 1 /\ feed'[c].queue = <<>> /\ feed'[c].heard = {} /\ feed'[c].lost = {}
    BY <2>1 DEF Feed
  <2>3. Queued(c)' = {} /\ Relayed(c)' = {}
    BY <2>2 DEF Queued, Relayed
  <2> QED
    BY <1>1, <1>2, <2>2, <2>3 DEF ReadOn, InOrder
<1>4. CASE Relay(c)
  <2> DEFINE v == kv[f.next].ver
  <2>1. f.next \in 1..Len(kv)
    BY <1>1, <1>4 DEF Relay
  <2>2. v \in Version /\ v \in Int
    BY <2>1, EntryTypes
  <2>3. \A w \in Relayed(c) : w < v
    <3> SUFFICES ASSUME NEW k \in 1..(f.next - 1) PROVE kv[k].ver < v
      BY DEF Relayed
    <3>1. k \in 1..Len(kv) /\ k < f.next
      BY <1>1, <2>1
    <3> QED
      BY <2>1, <3>1 DEF LogInOrder
  <2>4. feed'[c].next = f.next + 1 => Relayed(c)' = Relayed(c) \cup {v}
    <3>1. 1..(f.next + 1 - 1) = (1..(f.next - 1)) \cup {f.next}
      BY <1>1
    <3> QED
      BY <1>2, <3>1 DEF Relayed
  <2>5. \A i \in 1..n : q[i] \in Relayed(c) /\ q[i] \in Int
    <3>1. \A i \in 1..n : q[i] \in Version
      BY <1>1
    <3> QED
      BY <1>1, <3>1, Bounds DEF ReadOn, Queued, Version
  <2> HIDE DEF v
  <2>6. CASE n < Buffer
    <3>1. /\ feed'[c].next = f.next + 1 /\ feed'[c].queue = Append(q, v)
          /\ feed'[c].heard = f.heard /\ feed'[c].lost = f.lost
      BY <1>1, <1>4, <2>6 DEF Relay, FeedRec, v
    <3>2. /\ Len(feed'[c].queue) = n + 1 /\ feed'[c].queue[n + 1] = v
          /\ \A i \in 1..n : feed'[c].queue[i] = q[i]
      BY <1>1, <2>2, <3>1
    <3>3. Queued(c)' = Queued(c) \cup {v}
      <4> DEFINE after == feed'[c].queue
      <4>1. 1..(n + 1) = (1..n) \cup {n + 1}
        BY <1>1
      <4>2. Queued(c)' = {after[i] : i \in 1..(n + 1)} /\ Queued(c) = {q[i] : i \in 1..n}
        BY <3>2 DEF Queued
      <4>3. after[n + 1] = v /\ \A i \in 1..n : after[i] = q[i]
        BY <3>2
      <4> HIDE DEF after, q, n
      <4> QED
        BY <4>1, <4>2, <4>3
    <3>4. ReadOn(c)'
      BY <1>1, <1>2, <2>1, <2>4, <3>1, <3>3 DEF ReadOn
    <3>5. v \notin f.lost /\ \A w \in f.heard : w < v
      BY <2>2, <2>3 DEF ReadOn
    <3>6. \A i, j \in 1..(n + 1) : i < j => feed'[c].queue[i] < feed'[c].queue[j]
      <4> SUFFICES ASSUME NEW i \in 1..(n + 1), NEW j \in 1..(n + 1), i < j
                   PROVE  feed'[c].queue[i] < feed'[c].queue[j]
        OBVIOUS
      <4>1. i \in 1..n /\ (j \in 1..n \/ j = n + 1)
        BY <1>1
      <4> QED
        BY <2>3, <2>5, <3>2, <4>1 DEF InOrder
    <3> QED
      BY <3>1, <3>2, <3>3, <3>4, <3>5, <3>6 DEF InOrder
  <2>7. CASE ~(n < Buffer)
    <3>1. /\ feed'[c].next = f.next + 1 /\ feed'[c].queue = q
          /\ feed'[c].heard = f.heard /\ feed'[c].lost = f.lost \cup {v}
      BY <1>1, <1>4, <2>7 DEF Relay, FeedRec, v
    <3>2. Queued(c)' = Queued(c)
      BY <3>1 DEF Queued
    <3>3. ReadOn(c)'
      BY <1>1, <1>2, <2>1, <2>4, <3>1, <3>2 DEF ReadOn
    <3>4. v \notin f.heard \cup Queued(c)
      BY <2>2, <2>3 DEF ReadOn
    <3> QED
      BY <3>1, <3>2, <3>3, <3>4 DEF InOrder
  <2> QED
    BY <2>6, <2>7
<1>5. CASE Send(c)
  <2>1. q # <<>> /\ n >= 1
    BY <1>1, <1>5 DEF Send
  <2>2. /\ feed'[c].queue = Tail(q) /\ feed'[c].heard = f.heard \cup {Head(q)}
        /\ feed'[c].next = f.next /\ feed'[c].lost = f.lost
    BY <1>1, <1>5 DEF Send, FeedRec
  <2>3. /\ Head(q) = q[1] /\ Len(Tail(q)) = n - 1
        /\ \A i \in 1..(n - 1) : Tail(q)[i] = q[i + 1]
    BY <1>1, <2>1
  <2>4. Queued(c)' = {q[i] : i \in 2..n}
    <3>1. Queued(c)' = {q[i + 1] : i \in 1..(n - 1)}
      BY <2>2, <2>3 DEF Queued
    <3>2. \A i \in 1..(n - 1) : i + 1 \in 2..n
      BY <1>1
    <3>3. \A i \in 2..n : i - 1 \in 1..(n - 1) /\ (i - 1) + 1 = i
      BY <1>1
    <3> QED
      BY <3>1, <3>2, <3>3
  <2>5. Queued(c) = Queued(c)' \cup {q[1]}
    <3>1. 1..n = (2..n) \cup {1}
      BY <1>1, <2>1
    <3> QED
      BY <2>4, <3>1 DEF Queued
  <2>6. \A i \in 2..n : q[1] < q[i]
    BY <1>1, <2>1 DEF InOrder
  <2>7. ReadOn(c)'
    <3>1. Relayed(c)' = Relayed(c)
      BY <1>2, <2>2 DEF Relayed
    <3> QED
      BY <1>1, <1>2, <2>2, <2>3, <2>5, <3>1 DEF ReadOn
  <2>8. \A w \in Queued(c)' : q[1] < w /\ \A u \in f.heard : u < w
    BY <2>4, <2>5, <2>6 DEF InOrder
  <2>9. \A i, j \in 1..(n - 1) : i < j => Tail(q)[i] < Tail(q)[j]
    <3> SUFFICES ASSUME NEW i \in 1..(n - 1), NEW j \in 1..(n - 1), i < j
                 PROVE  Tail(q)[i] < Tail(q)[j]
      OBVIOUS
    <3>1. i + 1 \in 1..n /\ j + 1 \in 1..n /\ i + 1 < j + 1
      BY <1>1
    <3> QED
      BY <2>3, <3>1 DEF InOrder
  <2> QED
    BY <2>2, <2>3, <2>5, <2>7, <2>8, <2>9 DEF InOrder
<1> QED
  BY <1>3, <1>4, <1>5 DEF Events

\* A connected client is told every version from the first entry on, but for those its
\* channel had no room for, each once and in the order of the log (handleEvents,
\* WatchPublishes).  That its reading goes on is the other half of ClientHears.
THEOREM ClientsAreToldInOrder == Spec => []ToldInOrder
<1>1. Init => LogInOrder /\ ToldInOrder
  <2> SUFFICES ASSUME Init PROVE LogInOrder /\ ToldInOrder
    OBVIOUS
  <2>1. Len(kv) = 0 /\ \A c \in Client : feed[c] = Feed(FALSE)
    BY DEF Init
  <2>2. \A c \in Client : Queued(c) = {} /\ Relayed(c) = {}
    BY <2>1 DEF Queued, Relayed, Feed
  <2> QED
    BY <2>1, <2>2 DEF LogInOrder, ToldInOrder, ReadOn, InOrder, Feed
<1>2. PubInv /\ LogInOrder /\ ToldInOrder /\ [Next]_vars => (LogInOrder /\ ToldInOrder)'
  <2> SUFFICES ASSUME PubInv, LogInOrder, ToldInOrder, [Next]_vars
               PROVE  LogInOrder' /\ ToldInOrder'
    OBVIOUS
  <2>1. TypeOK /\ TypeOK'
    BY TypeStep DEF PubInv
  <2>2. Len(kv') \in Nat /\ feed \in [Client -> FeedRec]
    BY <2>1 DEF TypeOK
  <2>3. ASSUME NEW c \in Client PROVE ReadOn(c)' /\ InOrder(c)'
    <3>1. ReadOn(c) /\ InOrder(c)
      BY DEF ToldInOrder
    <3>2. CASE Events(c)
      BY <2>1, <3>1, <3>2, FeedEvent
    <3>3. CASE ~Events(c)
      <4>1. feed'[c] = feed[c]
        BY <2>2, <3>3
           DEF Next, vars, tables, Publish, Broken, Change, Minute, Start, Skip, List, ListFails,
               Crash, InsertPublish, InsertFails, PutPublish, PutFails, Events, Connect, Disconnect,
               Relay, Send
      <4> QED
        BY <2>1, <2>2, <3>1, <4>1, FeedAlone, LogOrderStep
    <3> QED
      BY <3>2, <3>3
  <2> QED
    BY <2>3, LogOrderStep DEF ToldInOrder
<1> QED
  BY <1>1, <1>2, PublisherInvariant, PTL DEF Spec
=============================================================================
