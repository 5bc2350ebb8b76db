--------------------------- MODULE RawIngestProofs ---------------------------
(***************************************************************************)
(* What RawIngest guarantees for all nodes, sources, batches and faults:   *)
(* its types, that no node reported as published gets lost unnoticed, and  *)
(* that a node is located at most once.                                    *)
(***************************************************************************)
EXTENDS RawIngest, FiniteSetTheorems, TLAPS

\* Done with in the table: there, or given up for a reason that is known.
Done(n) == row[n] # "absent" \/ n \in Lost

Accounted(n) == Done(n) \/ Waiting(n)

\* A message that is acked has been ingested, and so have the nodes of the message at
\* hand that are not to do.
AckedDone == \A m \in Seqno : raw[m].phase = "acked" => \A n \in raw[m].nodes : Done(n)

TakenDone ==
    coord.phase \in {"nodes", "locate"} =>
        coord.msg \in Seqno /\ \A n \in raw[coord.msg].nodes \ coord.todo : Done(n)

\* What the coordinator holds has arrived.
HeldArrived ==
    /\ \A m \in coord.held : m <= arrived
    /\ coord.phase \in {"nodes", "locate"} => coord.msg <= arrived

\* The fetcher has published of its source what it has not left to do.
SentAccounted ==
    fetcher.phase = "publish" =>
        fetcher.src \in Source /\ \A n \in fetcher.body \ fetcher.todo : Accounted(n)

\* The stream has not used the numbers to come.
Unused == \A m \in Seqno : m > arrived => raw[m].phase = "none" /\ raw[m].nodes = {}

\* The node being located is new; those without a location can be counted.
Locating ==
    /\ coord.phase = "locate" => coord.node \in Node /\ row[coord.node] = "unlocated"
    /\ IsFiniteSet(Unlocated)

\* A message to be delivered has deliveries left.
TurnsLeft == \A m \in Seqno : raw[m].phase = "ready" => raw[m].tries < MaxDeliver

FlowInv == AckedDone /\ TakenDone /\ HeldArrived /\ SentAccounted /\ Unused /\ CountedAccounted
RawInv  == TypeOK /\ TurnsLeft /\ FlowInv /\ Locating /\ RowsLocated

CoordType == [phase: {"down", "gone", "batches", "nodes", "locate"}, live: BOOLEAN,
              held: SUBSET Seqno, msg: Seqno \cup {0}, todo: SUBSET Node, node: Node \cup {None}]
FetcherType == [phase: {"off", "sources", "publish"}, left: SUBSET Source,
                src: Source \cup {None}, body: SUBSET Node, todo: SUBSET Node]

-----------------------------------------------------------------------------
LEMMA Bounds == MaxPasses \in Nat /\ MaxMessages \in Nat /\ MaxFaults \in Nat /\ MaxDeliver \in Nat /\ MaxDeliver > 0
<1>1. MaxPasses \in Nat /\ MaxMessages \in Nat /\ MaxFaults \in Nat /\ MaxDeliver \in Nat \ {0}
  BY RawAssumption
<1> QED
  BY <1>1

LEMMA Fields ==
    ASSUME TypeOK
    PROVE  /\ coord \in CoordType /\ fetcher \in FetcherType
           /\ coord.phase \in {"down", "gone", "batches", "nodes", "locate"} /\ coord.live \in BOOLEAN
           /\ coord.held \subseteq Seqno /\ coord.msg \in Seqno \cup {0} /\ coord.todo \subseteq Node
           /\ coord.node \in Node \cup {None}
           /\ fetcher.left \subseteq Source /\ fetcher.src \in Source \cup {None}
           /\ fetcher.body \subseteq Node /\ fetcher.todo \subseteq Node
           /\ faults \in Nat /\ arrived \in Nat
           /\ \A m \in Seqno : /\ raw[m] \in Message /\ raw[m].nodes \subseteq Node
                               /\ raw[m].tries \in 0..MaxDeliver
BY Bounds DEF TypeOK, CoordType, FetcherType, Message

LEMMA RestTypes == FetcherOff \in FetcherType /\ CoordIdle \in CoordType /\ CoordDown \in CoordType
                   /\ CoordIdle.live = TRUE /\ CoordDown.live = TRUE
                   /\ CoordIdle.phase = "batches" /\ CoordDown.phase = "down"
                   /\ CoordIdle.held = {} /\ CoordDown.held = {}
BY DEF FetcherOff, CoordIdle, CoordDown, FetcherType, CoordType

\* Initially there is nothing to account for.
LEMMA RawInit == Init => RawInv
<1> SUFFICES ASSUME Init PROVE RawInv
  OBVIOUS
<1>1. TypeOK
  <2>1. raw \in [Seqno -> Message]
    BY Bounds DEF Init, Message
  <2>2. lost \in LostRec
    BY DEF Init, LostRec
  <2>3. row \in [Node -> {"absent", "unlocated", "unknown", "located"}]
    BY DEF Init
  <2>4. passes \in 0..MaxPasses /\ faults \in 0..MaxFaults /\ arrived \in 0..MaxMessages
    BY Bounds DEF Init
  <2> QED
    BY <2>1, <2>2, <2>3, <2>4, RestTypes DEF Init, TypeOK, FetcherType, CoordType
<1>2. FlowInv
  BY RestTypes DEF Init, FlowInv, AckedDone, TakenDone, HeldArrived, CoordDown, CoordIdle, SentAccounted, Unused, CountedAccounted, FetcherOff
<1>3. Locating /\ RowsLocated /\ TurnsLeft
  <2>1. Unlocated = {} /\ faults = 0 /\ BeingLocated = 0
    BY RestTypes DEF Init, Unlocated, BeingLocated
  <2>2. Locating /\ RowsLocated
    BY <2>1, FS_EmptySet, RestTypes DEF Init, Locating, RowsLocated
  <2> QED
    BY <2>2 DEF Init, TurnsLeft
<1> QED
  BY <1>1, <1>2, <1>3 DEF RawInv

-----------------------------------------------------------------------------
(***************************************************************************)
(* What a step does to the table and to the stream.                        *)
(***************************************************************************)
RowKept  == \A n \in Node : row[n] # "absent" => row'[n] # "absent"
DoneKept == \A n \in Node : Done(n) => Done(n)'

\* A row that is there stays, whatever is written to it.
LEMMA RowStep ==
    ASSUME TypeOK, Locating, [Next]_vars
    PROVE  row' \in [Node -> {"absent", "unlocated", "unknown", "located"}] /\ RowKept
<1> DEFINE Kept == row' \in [Node -> {"absent", "unlocated", "unknown", "located"}] /\ RowKept
<1> SUFFICES Kept
  OBVIOUS
<1> USE Fields DEF RowKept, TypeOK
<1>1. CASE UNCHANGED row
  BY <1>1
<1>2. ASSUME NEW n \in coord.todo, UpsertNode(n) \/ UpsertFails(n) PROVE Kept
  <2>1. n \in Node /\ (UNCHANGED row \/ row' = [row EXCEPT ![n] = "unlocated"])
    BY <1>2 DEF UpsertNode, UpsertFails
  <2> QED
    BY <2>1
<1>3. CASE LocateNode
  <2>1. coord.node \in Node
    BY <1>3 DEF LocateNode, Locating
  <2>2. UNCHANGED row \/ \E g \in {"unknown", "located"} : row' = [row EXCEPT ![coord.node] = g]
    BY <1>3 DEF LocateNode
  <2> QED
    BY <2>1, <2>2
<1> QED
  BY <1>1, <1>2, <1>3, Zenon
     DEF Next, Publishing, Ingesting, vars, fetching, PassStart, Download, Flush, FlushFails, SourceDone,
         PassEnds, FetcherDies, Second, CoordStart, Shutdown, CoordDies, Fetch, Take, AckRaw, RawAckWait

\* A loss is not forgotten.
LEMMA LostStep ==
    ASSUME TypeOK, [Next]_vars
    PROVE  lost' \in LostRec /\ Lost \subseteq Lost'
<1> DEFINE Kept == lost' \in LostRec /\ Lost \subseteq Lost'
<1> SUFFICES Kept
  OBVIOUS
<1> USE DEF Lost
<1>0. lost \in LostRec
  BY DEF TypeOK
<1>1. CASE UNCHANGED lost
  BY <1>0, <1>1
<1>2. ASSUME NEW S \in SUBSET Node, Accept(S) PROVE Kept
  <2>1. \/ UNCHANGED lost
        \/ lost' = [lost EXCEPT !.duplicate = @ \cup S]
        \/ lost' = [lost EXCEPT !.unheard = @ \cup S]
    BY <1>2 DEF Accept
  <2> QED
    BY <1>0, <2>1 DEF LostRec
<1>3. ASSUME NEW n \in coord.todo, UpsertFails(n) PROVE Kept
  <2>1. n \in Node /\ lost' = [lost EXCEPT !.refused = @ \cup {n}]
    BY <1>3, Fields DEF UpsertFails
  <2> QED
    BY <1>0, <2>1 DEF LostRec
<1>4. CASE Flush \/ FlushFails
  <2>1. UNCHANGED lost \/ \E S \in SUBSET Node : Accept(S)
    BY <1>4, Fields DEF Flush, FlushFails, Portions
  <2> QED
    BY <1>1, <1>2, <2>1
<1> QED
  BY <1>1, <1>3, <1>4, Zenon
     DEF Next, Publishing, Ingesting, vars, fetching, PassStart, Download, SourceDone,
         PassEnds, FetcherDies, Second, CoordStart, Shutdown, CoordDies, Fetch, Take, AckRaw, RawAckWait,
         UpsertNode, LocateNode

LEMMA DoneStep ==
    ASSUME TypeOK, Locating, [Next]_vars
    PROVE  DoneKept
BY RowStep, LostStep DEF DoneKept, RowKept, Done

\* No message arrives, and none is acked.
Relabelled ==
    /\ raw' \in [Seqno -> Message] /\ arrived' = arrived /\ TurnsLeft'
    /\ \A m \in Seqno : /\ raw'[m].nodes = raw[m].nodes
                        /\ raw'[m].phase = "acked" <=> raw[m].phase = "acked"
                        /\ raw'[m].phase = "none" <=> raw[m].phase = "none"

\* The message after the newest arrives, with the nodes S.
Stored(S) ==
    /\ raw' \in [Seqno -> Message] /\ arrived + 1 \in Seqno /\ arrived' = arrived + 1 /\ TurnsLeft'
    /\ raw'[arrived + 1].nodes = S /\ raw'[arrived + 1].phase = "ready"
    /\ \A m \in Seqno : m # arrived + 1 => raw'[m] = raw[m]

\* The message at hand is acked.
Acked ==
    /\ raw' \in [Seqno -> Message] /\ arrived' = arrived /\ TurnsLeft'
    /\ coord.msg \in Seqno /\ coord.msg <= arrived
    /\ raw'[coord.msg].nodes = raw[coord.msg].nodes /\ raw'[coord.msg].phase = "acked"
    /\ \A m \in Seqno : m # coord.msg => raw'[m] = raw[m]

LEMMA SameIsRelabelled == ASSUME TypeOK, TurnsLeft, UNCHANGED <<raw, arrived>> PROVE Relabelled
BY DEF TypeOK, TurnsLeft, Relabelled

LEMMA AcceptStep ==
    ASSUME TypeOK, TurnsLeft, NEW S \in SUBSET Node, Accept(S)
    PROVE  \/ Relabelled /\ S \subseteq Lost'
           \/ Stored(S)
<1>1. CASE fetcher.src \in recent \/ ~durable
  <2>1. UNCHANGED <<raw, arrived>>
    BY <1>1 DEF Accept
  <2>2. \/ lost' = [lost EXCEPT !.duplicate = @ \cup S]
        \/ lost' = [lost EXCEPT !.unheard = @ \cup S]
    BY <1>1 DEF Accept
  <2>3. S \subseteq Lost'
    BY <2>2 DEF TypeOK, LostRec, Lost
  <2> QED
    BY <2>1, <2>3, SameIsRelabelled
<1>2. CASE ~(fetcher.src \in recent \/ ~durable)
  <2> DEFINE new == [nodes |-> S, phase |-> "ready", tries |-> 0]
  <2>1. /\ arrived < MaxMessages /\ arrived' = arrived + 1
        /\ raw' = [raw EXCEPT ![arrived + 1] = new]
    BY <1>2 DEF Accept
  <2>2. arrived + 1 \in Seqno /\ raw \in [Seqno -> Message]
    BY <2>1, Bounds DEF TypeOK, Seqno
  <2>3. new \in Message /\ new.nodes = S /\ new.phase = "ready" /\ new.tries < MaxDeliver
    BY Bounds DEF Message
  <2> HIDE DEF new
  <2>4. raw'[arrived + 1] = new /\ \A m \in Seqno : m # arrived + 1 => raw'[m] = raw[m]
    BY <2>1, <2>2
  <2>5. TurnsLeft'
    BY <2>3, <2>4 DEF TurnsLeft
  <2> QED
    BY <2>1, <2>2, <2>3, <2>4, <2>5 DEF Stored
<1> QED
  BY <1>1, <1>2

LEMMA LeaseStep ==
    ASSUME TypeOK, NEW H \in SUBSET Ready, Lease(H), arrived' = arrived,
           TurnsLeft
    PROVE  Relabelled
<1>1. ASSUME NEW m \in Seqno
      PROVE  /\ raw'[m] \in Message /\ raw'[m].nodes = raw[m].nodes
             /\ raw'[m].phase = "acked" <=> raw[m].phase = "acked"
             /\ raw'[m].phase = "none" <=> raw[m].phase = "none"
             /\ raw'[m].phase = "ready" => raw'[m].tries < MaxDeliver
  <2>1. raw[m] \in Message /\ raw[m].tries \in 0..MaxDeliver
    BY Fields
  <2>2. CASE m \in H
    <3>1. raw'[m] = [raw[m] EXCEPT !.phase = "leased", !.tries = raw[m].tries + 1]
      BY <2>2 DEF Lease
    <3>2. raw[m].phase = "ready" /\ raw[m].tries + 1 \in 0..MaxDeliver
      BY <2>1, <2>2, Bounds DEF Ready, TurnsLeft
    <3> QED
      BY <2>1, <3>1, <3>2 DEF Message
  <2>3. CASE m \notin H
    BY <2>1, <2>3 DEF Lease, TurnsLeft
  <2> QED
    BY <2>2, <2>3
<1>2. raw' = [m \in Seqno |-> raw'[m]]
  BY DEF Lease
<1>3. TurnsLeft'
  BY <1>1 DEF TurnsLeft
<1> QED
  BY <1>1, <1>2, <1>3 DEF Relabelled

LEMMA AckWaitStep ==
    ASSUME TypeOK, TurnsLeft, NEW m \in Seqno, RawAckWait(m)
    PROVE  Relabelled
<1>1. raw[m] \in Message /\ raw[m].phase = "leased" /\ arrived' = arrived
  BY Fields DEF RawAckWait
<1>2. PICK p \in {"ready", "dead"} :
          raw' = [raw EXCEPT ![m].phase = p] /\ (p = "ready" => raw[m].tries < MaxDeliver)
  BY DEF RawAckWait
<1>3. raw'[m] = [raw[m] EXCEPT !.phase = p] /\ \A k \in Seqno : k # m => raw'[k] = raw[k]
  BY <1>2 DEF TypeOK
<1>4. raw'[m] \in Message /\ raw'[m].nodes = raw[m].nodes /\ raw'[m].phase = p
        /\ raw'[m].tries = raw[m].tries
  BY <1>1, <1>3 DEF Message
<1>5. raw' \in [Seqno -> Message]
  BY <1>2, <1>3, <1>4 DEF TypeOK
<1>6. TurnsLeft'
  BY <1>2, <1>3, <1>4 DEF TurnsLeft
<1> QED
  BY <1>1, <1>2, <1>3, <1>4, <1>5, <1>6 DEF Relabelled

\* The coordinator acks the message at hand, or its ack is lost.
LEMMA AckStep ==
    ASSUME TypeOK, TurnsLeft, TakenDone, HeldArrived, AckRaw
    PROVE  (Relabelled \/ Acked) /\ \A n \in raw[coord.msg].nodes : Done(n)
<1>1. coord.msg \in Seqno /\ (\A n \in raw[coord.msg].nodes : Done(n)) /\ arrived' = arrived
      /\ coord.msg <= arrived
  BY DEF AckRaw, TakenDone, HeldArrived
<1>2. CASE UNCHANGED raw
  BY <1>1, <1>2, SameIsRelabelled
<1>3. CASE raw' = [raw EXCEPT ![coord.msg].phase = "acked"]
  <2>1. /\ raw'[coord.msg] = [raw[coord.msg] EXCEPT !.phase = "acked"]
        /\ \A m \in Seqno : m # coord.msg => raw'[m] = raw[m]
    BY <1>1, <1>3 DEF TypeOK
  <2>2. raw'[coord.msg] \in Message /\ raw'[coord.msg].nodes = raw[coord.msg].nodes
        /\ raw'[coord.msg].phase = "acked"
    BY <1>1, <2>1, Fields DEF Message
  <2>3. raw' \in [Seqno -> Message]
    BY <1>3, <2>1, <2>2 DEF TypeOK
  <2>4. TurnsLeft'
    BY <2>1, <2>2 DEF TurnsLeft
  <2> QED
    BY <1>1, <2>1, <2>2, <2>3, <2>4 DEF Acked
<1> QED
  BY <1>1, <1>2, <1>3 DEF AckRaw

\* What the accounting needs of a step that changes the stream.
StreamChange ==
    \/ Relabelled
    \/ \E S \in SUBSET Node : Stored(S)
    \/ Acked /\ \A n \in raw[coord.msg].nodes : Done(n)

AccountedKept == \A n \in Node : Accounted(n) => Accounted(n)'

LEMMA StreamKept ==
    ASSUME TypeOK, AckedDone, Unused, DoneKept, StreamChange
    PROVE  /\ AckedDone' /\ Unused' /\ AccountedKept /\ TurnsLeft'
           /\ raw' \in [Seqno -> Message] /\ arrived' \in 0..MaxMessages /\ arrived <= arrived'
           /\ \A m \in Seqno : m <= arrived => raw'[m].nodes = raw[m].nodes
<1> USE Fields DEF Done
<1>0. \A m \in Seqno : m \in Nat /\ raw[m].nodes \subseteq Node
  BY Bounds DEF Seqno
<1>1. CASE Relabelled
  <2>1. AckedDone'
    BY <1>0, <1>1 DEF Relabelled, AckedDone, DoneKept
  <2>2. Unused'
    BY <1>1 DEF Relabelled, Unused
  <2>3. AccountedKept
    BY <1>1 DEF Relabelled, AccountedKept, Accounted, Waiting, DoneKept
  <2> QED
    BY <1>1, <2>1, <2>2, <2>3 DEF Relabelled, TypeOK
<1>2. ASSUME NEW S \in SUBSET Node, Stored(S)
      PROVE  /\ AckedDone' /\ Unused' /\ AccountedKept /\ TurnsLeft'
             /\ raw' \in [Seqno -> Message] /\ arrived' \in 0..MaxMessages /\ arrived <= arrived'
             /\ \A m \in Seqno : m <= arrived => raw'[m].nodes = raw[m].nodes
  <2>1. AckedDone'
    BY <1>0, <1>2 DEF Stored, AckedDone, DoneKept
  <2>2. Unused'
    BY <1>0, <1>2 DEF Stored, Unused
  <2>3. AccountedKept
    <3>1. \A n \in Node : Waiting(n) => Waiting(n)'
      <4> SUFFICES ASSUME NEW n \in Node, Waiting(n) PROVE Waiting(n)'
        OBVIOUS
      <4>1. PICK m \in Seqno : n \in raw[m].nodes /\ raw[m].phase # "acked"
        BY DEF Waiting
      <4>2. m # arrived + 1
        BY <1>0, <4>1 DEF Unused
      <4> QED
        BY <1>2, <4>1, <4>2 DEF Stored, Waiting
    <3> QED
      BY <3>1 DEF AccountedKept, Accounted, DoneKept
  <2>4. arrived' \in 0..MaxMessages
    BY <1>2, Bounds DEF Stored, Seqno
  <2> QED
    BY <1>0, <1>2, <2>1, <2>2, <2>3, <2>4 DEF Stored
<1>3. CASE Acked /\ \A n \in raw[coord.msg].nodes : Done(n)
  <2>1. AckedDone'
    BY <1>0, <1>3 DEF Acked, AckedDone, DoneKept
  <2>2. Unused'
    <3> SUFFICES ASSUME NEW m \in Seqno, m > arrived PROVE raw'[m].phase = "none" /\ raw'[m].nodes = {}
      BY <1>3 DEF Acked, Unused
    <3>1. CASE m # coord.msg
      BY <1>3, <3>1 DEF Acked, Unused
    <3>2. CASE m = coord.msg
      BY <1>0, <1>3, <3>2 DEF Acked
    <3> QED
      BY <3>1, <3>2
  <2>3. AccountedKept
    <3>1. \A n \in Node : Waiting(n) => Waiting(n)' \/ Done(n)
      BY <1>3 DEF Acked, Waiting
    <3> QED
      BY <3>1 DEF AccountedKept, Accounted, DoneKept
  <2> QED
    BY <1>3, <2>1, <2>2, <2>3 DEF Acked, TypeOK
<1> QED
  BY <1>1, <1>2, <1>3 DEF StreamChange

\* Every step changes the stream in one of these ways.
LEMMA StreamStep ==
    ASSUME TypeOK, TurnsLeft, TakenDone, HeldArrived, [Next]_vars
    PROVE  StreamChange
<1>1. CASE UNCHANGED <<raw, arrived>>
  BY <1>1, SameIsRelabelled DEF StreamChange
<1>2. CASE Flush \/ FlushFails
  <2>1. UNCHANGED <<raw, arrived>> \/ \E S \in SUBSET Node : Accept(S)
    BY <1>2, Fields DEF Flush, FlushFails, Portions
  <2> QED
    BY <1>1, <2>1, AcceptStep DEF StreamChange
<1>3. CASE Fetch
  <2>1. \E H \in SUBSET Ready : Lease(H) /\ arrived' = arrived
    BY <1>3 DEF Fetch, Portions
  <2> QED
    BY <2>1, LeaseStep DEF StreamChange
<1>4. CASE AckRaw
  BY <1>4, AckStep DEF StreamChange
<1>5. ASSUME NEW m \in Seqno, RawAckWait(m) PROVE StreamChange
  BY <1>5, AckWaitStep DEF StreamChange
<1> QED
  BY <1>1, <1>2, <1>3, <1>4, <1>5, Zenon
     DEF Next, Publishing, Ingesting, vars, fetching, PassStart, Download, SourceDone, PassEnds,
         FetcherDies, Second, CoordStart, Shutdown, CoordDies, Take, UpsertNode, UpsertFails, LocateNode

-----------------------------------------------------------------------------
(***************************************************************************)
(* The fetcher and the coordinator.                                        *)
(***************************************************************************)
FetcherSame == UNCHANGED <<fetcher, counted>>

\* What is published, and what is reported as published, stays accounted for.
LEMMA FetcherStep ==
    ASSUME TypeOK, TurnsLeft, FlowInv, DoneKept, AccountedKept, [Next]_vars
    PROVE  /\ fetcher' \in FetcherType /\ counted' \subseteq Node
           /\ SentAccounted' /\ CountedAccounted'
<1> DEFINE Kept == /\ fetcher' \in FetcherType /\ counted' \subseteq Node
                   /\ SentAccounted' /\ CountedAccounted'
<1> SUFFICES Kept
  OBVIOUS
<1>0. /\ fetcher \in FetcherType /\ counted \subseteq Node /\ SentAccounted
      /\ \A n \in counted : Accounted(n)
  BY Fields DEF TypeOK, FlowInv, CountedAccounted, Accounted, Done
<1>c. ASSUME counted' \subseteq Node, \A n \in counted' : Accounted(n) PROVE CountedAccounted'
  BY <1>c DEF CountedAccounted, AccountedKept, Accounted, Done
<1>s. ASSUME fetcher'.phase # "publish" PROVE SentAccounted'
  BY <1>s DEF SentAccounted
<1>n. NextSource \in FetcherType /\ NextSource.phase = "sources"
  BY <1>0 DEF NextSource, FetcherType
<1>1. CASE FetcherSame
  <2>1. SentAccounted'
    BY <1>0, <1>1, Fields DEF FetcherSame, SentAccounted, AccountedKept
  <2> QED
    BY <1>0, <1>1, <1>c, <2>1 DEF FetcherSame
<1>2. CASE PassStart \/ PassEnds \/ FetcherDies
  <2>1. fetcher' \in FetcherType /\ fetcher'.phase # "publish" /\ counted' = counted
    BY <1>2, RestTypes DEF PassStart, PassEnds, FetcherDies, FetcherOff, FetcherType
  <2> QED
    BY <1>0, <1>c, <1>s, <2>1
<1>3. ASSUME NEW s \in Source, Download(s) PROVE Kept
  <2>1. counted' = counted
    BY <1>3 DEF Download
  <2>2. CASE \E nodes \in SUBSET Node :
               fetcher' = [phase |-> "publish", left |-> fetcher.left, src |-> s,
                           body |-> nodes, todo |-> nodes]
    <3>1. fetcher' \in FetcherType /\ fetcher'.body = fetcher'.todo /\ fetcher'.src = s
      BY <1>0, <2>2 DEF FetcherType
    <3> QED
      BY <1>0, <1>c, <2>1, <3>1 DEF SentAccounted
  <2>3. CASE fetcher' = [fetcher EXCEPT !.left = @ \ {s}]
    <3>1. fetcher' \in FetcherType /\ fetcher'.phase # "publish"
      BY <1>0, <1>3, <2>3 DEF FetcherType, Download
    <3> QED
      BY <1>0, <1>c, <1>s, <2>1, <3>1
  <2> QED
    BY <1>3, <2>2, <2>3 DEF Download
<1>4. CASE Flush
  <2>1. PICK S \in SUBSET fetcher.todo : Accept(S) /\ fetcher' = [fetcher EXCEPT !.todo = @ \ S]
    BY <1>4 DEF Flush, Portions
  <2>2. fetcher.phase = "publish" /\ counted' = counted /\ S \in SUBSET Node
    BY <1>4, <2>1, Fields DEF Flush
  <2>3. /\ fetcher' \in FetcherType /\ fetcher'.src = fetcher.src
        /\ fetcher'.body = fetcher.body /\ fetcher'.todo = fetcher.todo \ S
    BY <1>0, <2>1 DEF FetcherType
  <2>4. \A n \in S : Accounted(n)'
    <3>1. CASE S \subseteq Lost'
      BY <3>1 DEF Accounted, Done
    <3>2. CASE Stored(S)
      BY <3>2 DEF Accounted, Waiting, Stored
    <3> QED
      BY <2>1, <2>2, <3>1, <3>2, AcceptStep
  <2>5. SentAccounted'
    BY <1>0, <2>2, <2>3, <2>4, Fields DEF SentAccounted, AccountedKept
  <2> QED
    BY <1>0, <1>c, <2>2, <2>3, <2>5
<1>5. CASE FlushFails
  <2>1. fetcher' = NextSource /\ counted' = counted
    BY <1>5 DEF FlushFails
  <2> QED
    BY <1>0, <1>c, <1>s, <1>n, <2>1
<1>6. CASE SourceDone
  <2>1. fetcher' = NextSource /\ counted' = counted \cup fetcher.body /\ counted' \subseteq Node
    BY <1>0, <1>6, Fields DEF SourceDone
  <2>2. \A n \in fetcher.body : Accounted(n)
    BY <1>0, <1>6 DEF SourceDone, SentAccounted
  <2> QED
    BY <1>0, <1>c, <1>s, <1>n, <2>1, <2>2
<1>7. FetcherSame \/ PassStart \/ PassEnds \/ FetcherDies \/ (\E s \in Source : Download(s))
        \/ Flush \/ FlushFails \/ SourceDone
  BY Zenon DEF Next, Publishing, Ingesting, vars, fetching, Second, CoordStart, Shutdown, CoordDies, Take,
       UpsertNode, UpsertFails, LocateNode, Fetch, AckRaw, RawAckWait, FetcherSame
<1> QED
  BY <1>1, <1>2, <1>3, <1>4, <1>5, <1>6, <1>7

CoordKept == coord' \in CoordType /\ TakenDone' /\ HeldArrived'

\* The coordinator goes through what it holds without leaving a node out.
LEMMA CoordStep ==
    ASSUME TypeOK, TurnsLeft, FlowInv, Locating, DoneKept, StreamChange, [Next]_vars
    PROVE  CoordKept
<1>0. coord \in CoordType /\ TakenDone /\ HeldArrived /\ Unused /\ AckedDone
  BY Fields DEF FlowInv
<1>a. /\ arrived' \in Nat /\ arrived \in Nat /\ arrived <= arrived'
      /\ \A m \in Seqno : m \in Nat /\ (m <= arrived => raw'[m].nodes = raw[m].nodes)
  BY <1>0, StreamKept, Fields, Bounds DEF Seqno
<1>t. coord.phase \in {"nodes", "locate"} =>
         coord.msg \in Seqno /\ coord.msg <= arrived /\ raw'[coord.msg].nodes = raw[coord.msg].nodes
  BY <1>0, <1>a DEF TakenDone, HeldArrived
<1>h. \A m \in coord.held : m <= arrived'
  BY <1>0, <1>a DEF HeldArrived, CoordType
<1>1. CASE UNCHANGED coord
  <2>1. TakenDone'
    BY <1>0, <1>1, <1>t, Fields DEF TakenDone, DoneKept
  <2>2. HeldArrived'
    BY <1>0, <1>1, <1>a, <1>h, <1>t DEF HeldArrived
  <2> QED
    BY <1>0, <1>1, <2>1, <2>2 DEF CoordKept
<1>2. CASE CoordStart \/ CoordDies
  <2>1. coord' \in {CoordIdle, CoordDown, [CoordIdle EXCEPT !.phase = "gone"]}
    BY <1>2 DEF CoordStart, CoordDies
  <2>2. coord' \in CoordType /\ coord'.phase \notin {"nodes", "locate"} /\ coord'.held = {}
    BY <2>1, RestTypes DEF CoordType
  <2> QED
    BY <2>2 DEF CoordKept, TakenDone, HeldArrived
<1>3. CASE Shutdown
  <2>1. /\ coord' \in CoordType /\ coord'.phase = coord.phase /\ coord'.held = coord.held
        /\ coord'.msg = coord.msg /\ coord'.todo = coord.todo
    BY <1>0, <1>3 DEF Shutdown, CoordType
  <2>2. TakenDone'
    BY <1>0, <1>t, <2>1, Fields DEF TakenDone, DoneKept
  <2>3. HeldArrived'
    BY <1>0, <1>a, <1>h, <1>t, <2>1 DEF HeldArrived
  <2> QED
    BY <2>1, <2>2, <2>3 DEF CoordKept
<1>4. CASE Fetch
  <2>1. PICK H \in SUBSET Ready : coord' = [coord EXCEPT !.held = H] \/ UNCHANGED coord
    BY <1>4 DEF Fetch, Portions
  <2>2. CASE coord' = [coord EXCEPT !.held = H]
    <3>1. H \subseteq Seqno /\ \A m \in H : m <= arrived
      BY <1>0, <1>a DEF Ready, Unused
    <3>2. coord' \in CoordType /\ coord'.phase = "batches" /\ coord'.held = H
      BY <1>0, <1>4, <2>2, <3>1 DEF Fetch, CoordType
    <3> QED
      BY <1>a, <3>1, <3>2 DEF CoordKept, TakenDone, HeldArrived
  <2> QED
    BY <1>1, <2>1, <2>2
<1>5. ASSUME NEW m \in coord.held, Take(m) PROVE CoordKept
  <2>1. m \in Seqno /\ m <= arrived /\ raw'[m].nodes = raw[m].nodes /\ raw[m].nodes \subseteq Node
    BY <1>0, <1>a, Fields DEF HeldArrived
  <2>2. /\ coord' \in CoordType /\ coord'.phase = "nodes" /\ coord'.msg = m
        /\ coord'.todo = raw[m].nodes /\ coord'.held = coord.held
    BY <1>0, <1>5, <2>1 DEF Take, CoordType
  <2> QED
    BY <1>a, <1>h, <2>1, <2>2 DEF CoordKept, TakenDone, HeldArrived
<1>6. ASSUME NEW n \in coord.todo, UpsertNode(n) \/ UpsertFails(n) PROVE CoordKept
  <2>1. n \in Node /\ coord.phase = "nodes"
    BY <1>6, Fields DEF UpsertNode, UpsertFails
  <2>2. /\ coord' \in CoordType /\ coord'.phase \in {"nodes", "locate"} /\ coord'.msg = coord.msg
        /\ coord'.todo = coord.todo \ {n} /\ coord'.held = coord.held
    BY <1>0, <1>6, <2>1 DEF UpsertNode, UpsertFails, CoordType
  <2>3. Done(n)'
    <3>1. CASE UpsertNode(n)
      BY <2>1, <3>1 DEF UpsertNode, Done, TypeOK
    <3>2. CASE UpsertFails(n)
      BY <3>2 DEF UpsertFails, Done, Lost, TypeOK, LostRec
    <3> QED
      BY <1>6, <3>1, <3>2
  <2>4. TakenDone'
    BY <1>0, <1>t, <2>1, <2>2, <2>3, Fields DEF TakenDone, DoneKept
  <2>5. HeldArrived'
    BY <1>0, <1>a, <1>h, <1>t, <2>1, <2>2 DEF HeldArrived
  <2> QED
    BY <2>2, <2>4, <2>5 DEF CoordKept
<1>7. CASE LocateNode
  <2>1. /\ coord' \in CoordType /\ coord.phase = "locate" /\ coord'.phase = "nodes"
        /\ coord'.msg = coord.msg /\ coord'.todo = coord.todo /\ coord'.held = coord.held
    BY <1>0, <1>7 DEF LocateNode, CoordType
  <2>2. TakenDone'
    BY <1>0, <1>t, <2>1, Fields DEF TakenDone, DoneKept
  <2>3. HeldArrived'
    BY <1>0, <1>a, <1>h, <1>t, <2>1 DEF HeldArrived
  <2> QED
    BY <2>1, <2>2, <2>3 DEF CoordKept
<1>8. CASE AckRaw
  <2>1. coord' \in CoordType /\ coord'.phase = "batches" /\ coord'.held \subseteq coord.held
    BY <1>0, <1>8 DEF AckRaw, CoordType
  <2> QED
    BY <1>h, <2>1 DEF CoordKept, TakenDone, HeldArrived
<1> QED
  BY <1>1, <1>2, <1>3, <1>4, <1>5, <1>6, <1>7, <1>8, Zenon
     DEF Next, Publishing, Ingesting, vars, fetching, PassStart, Download, Flush, FlushFails, SourceDone,
         PassEnds, FetcherDies, Second, RawAckWait

\* A node that is being located is new; a step that is no fault leaves no other without a
\* location.
LEMMA LocateStep ==
    ASSUME TypeOK, Locating, RowsLocated, [Next]_vars
    PROVE  Locating' /\ RowsLocated'
<1> DEFINE Kept == Locating' /\ RowsLocated'
<1> SUFFICES Kept
  OBVIOUS
<1> USE Fields
<1>f. /\ Fault => faults' = faults + 1
      /\ faults' = faults \/ faults' = faults + 1
  <2>1. Fault => faults' = faults + 1
    BY DEF Fault
  <2> QED
    BY <2>1, Zenon
     DEF Next, Publishing, Ingesting, vars, fetching, PassStart, Download, Flush, FlushFails, SourceDone,
         PassEnds, FetcherDies, Second, CoordStart, Shutdown, CoordDies, Fetch, Take, AckRaw, RawAckWait,
         UpsertNode, UpsertFails, LocateNode
<1>b. /\ BeingLocated \in {0, 1} /\ BeingLocated' \in {0, 1}
      /\ coord.phase # "locate" => BeingLocated = 0
      /\ ~coord.live => BeingLocated = 0
  BY DEF BeingLocated
<1>c. IsFiniteSet(Unlocated) /\ Cardinality(Unlocated) \in Nat
      /\ Cardinality(Unlocated) <= faults + BeingLocated
  BY FS_CardinalityType DEF Locating, RowsLocated
<1>s. ASSUME row' = row, BeingLocated = 0 \/ faults' = faults + 1 \/ UNCHANGED BeingLocated
      PROVE  IsFiniteSet(Unlocated') /\ RowsLocated'
  <2>1. Unlocated' = Unlocated
    BY <1>s DEF Unlocated
  <2> QED
    BY <1>b, <1>c, <1>f, <1>s, <2>1 DEF RowsLocated
<1>1. CASE UNCHANGED <<row, coord>>
  <2>1. UNCHANGED BeingLocated
    BY <1>1 DEF BeingLocated
  <2> QED
    BY <1>1, <1>s, <2>1 DEF Locating
<1>2. CASE CoordStart \/ Shutdown \/ CoordDies \/ Fetch \/ AckRaw \/ \E m \in coord.held : Take(m)
  <2>1. row' = row
    BY <1>2 DEF CoordStart, Shutdown, CoordDies, Fetch, AckRaw, Take
  <2>2. coord'.phase = "locate" => coord.phase = "locate" /\ coord'.node = coord.node
    BY <1>2, RestTypes DEF CoordStart, Shutdown, CoordDies, Fetch, AckRaw, Take, CoordType
  <2>3. BeingLocated = 0 \/ faults' = faults + 1
    <3>1. CASE Shutdown \/ CoordDies
      BY <1>b, <1>f, <3>1 DEF Shutdown, CoordDies
    <3>2. CASE ~(Shutdown \/ CoordDies)
      BY <1>2, <1>b, <3>2 DEF CoordStart, Fetch, AckRaw, Take
    <3> QED
      BY <3>1, <3>2
  <2> QED
    BY <1>s, <2>1, <2>2, <2>3 DEF Locating
<1>3. ASSUME NEW n \in coord.todo, UpsertNode(n) PROVE Kept
  <2>1. n \in Node /\ coord.phase = "nodes" /\ UNCHANGED faults /\ coord.live /\ coord'.live = coord.live
    BY <1>3 DEF UpsertNode, CoordType
  <2>2. CASE row[n] = "absent"
    <3>1. coord'.phase = "locate" /\ coord'.node = n /\ row' = [row EXCEPT ![n] = "unlocated"]
      BY <1>3, <2>2 DEF UpsertNode, CoordType
    <3>2. Unlocated' = Unlocated \cup {n} /\ n \notin Unlocated
      BY <2>1, <2>2, <3>1 DEF Unlocated, TypeOK
    <3>3. IsFiniteSet(Unlocated') /\ Cardinality(Unlocated') = Cardinality(Unlocated) + 1
      BY <1>c, <3>2, FS_AddElement
    <3>4. BeingLocated = 0 /\ BeingLocated' = 1
      BY <1>b, <2>1, <3>1 DEF BeingLocated
    <3>5. RowsLocated'
      BY <1>c, <2>1, <3>3, <3>4 DEF RowsLocated
    <3> QED
      BY <2>1, <3>1, <3>3, <3>5 DEF Locating, TypeOK
  <2>3. CASE row[n] # "absent"
    <3>1. coord'.phase = "nodes" /\ row' = row
      BY <1>3, <2>1, <2>3 DEF UpsertNode, CoordType
    <3> QED
      BY <1>b, <1>s, <2>1, <3>1 DEF Locating
  <2> QED
    BY <2>2, <2>3
<1>4. ASSUME NEW n \in coord.todo, UpsertFails(n) PROVE Kept
  <2>1. n \in Node /\ coord.phase = "nodes" /\ coord'.phase = "nodes"
    BY <1>4 DEF UpsertFails, CoordType
  <2>2. row' = row \/ (Fault /\ row[n] = "absent" /\ row' = [row EXCEPT ![n] = "unlocated"])
    BY <1>4 DEF UpsertFails
  <2>3. CASE row' = row
    BY <1>b, <1>s, <2>1, <2>3 DEF Locating
  <2>4. CASE Fault /\ row[n] = "absent" /\ row' = [row EXCEPT ![n] = "unlocated"]
    <3>1. Unlocated' = Unlocated \cup {n} /\ n \notin Unlocated
      BY <2>1, <2>4 DEF Unlocated, TypeOK
    <3>2. IsFiniteSet(Unlocated') /\ Cardinality(Unlocated') = Cardinality(Unlocated) + 1
      BY <1>c, <3>1, FS_AddElement
    <3>3. RowsLocated'
      BY <1>b, <1>c, <1>f, <2>1, <2>4, <3>2 DEF RowsLocated
    <3> QED
      BY <2>1, <3>2, <3>3 DEF Locating
  <2> QED
    BY <2>2, <2>3, <2>4
<1>5. CASE LocateNode
  <2>1. /\ coord.phase = "locate" /\ coord'.phase = "nodes"
        /\ coord.node \in Node /\ row[coord.node] = "unlocated"
    BY <1>5 DEF LocateNode, CoordType, Locating
  <2>2. CASE row' = row /\ (~coord.live \/ Fault)
    BY <1>b, <1>f, <1>s, <2>1, <2>2 DEF Locating
  <2>3. ASSUME NEW g \in {"unknown", "located"}, row' = [row EXCEPT ![coord.node] = g]
        PROVE  Kept
    <3>1. Unlocated' = Unlocated \ {coord.node} /\ coord.node \in Unlocated
      BY <2>1, <2>3 DEF Unlocated, TypeOK
    <3>2. IsFiniteSet(Unlocated') /\ Cardinality(Unlocated') = Cardinality(Unlocated) - 1
      BY <1>c, <3>1, FS_RemoveElement
    <3>3. RowsLocated'
      BY <1>b, <1>c, <1>f, <3>2 DEF RowsLocated
    <3> QED
      BY <2>1, <3>2, <3>3 DEF Locating
  <2> QED
    BY <1>5, <2>2, <2>3 DEF LocateNode
<1> QED
  BY <1>1, <1>2, <1>3, <1>4, <1>5, Zenon
     DEF Next, Publishing, Ingesting, vars, fetching, PassStart, Download, Flush, FlushFails, SourceDone,
         PassEnds, FetcherDies, Second, RawAckWait

-----------------------------------------------------------------------------
(***************************************************************************)
(* The invariant.                                                          *)
(***************************************************************************)
\* The parts of the type invariant that no lemma above is about.
LEMMA BoundsStep ==
    ASSUME TypeOK, SentAccounted, [Next]_vars
    PROVE  passes' \in 0..MaxPasses /\ faults' \in 0..MaxFaults /\ recent' \subseteq Source /\ durable' \in BOOLEAN
<1>1. passes' \in 0..MaxPasses
  <2>1. UNCHANGED passes \/ PassStart
    BY Zenon DEF Next, Publishing, Ingesting, vars, fetching, Download, Flush, FlushFails, SourceDone, PassEnds,
         FetcherDies, Second, CoordStart, Shutdown, CoordDies, Fetch, Take, AckRaw, RawAckWait,
         UpsertNode, UpsertFails, LocateNode
  <2> QED
    BY <2>1, Bounds DEF PassStart, TypeOK
<1>2. faults' \in 0..MaxFaults
  <2>1. UNCHANGED faults \/ Fault
    BY Zenon DEF Next, Publishing, Ingesting, vars, fetching, PassStart, Download, Flush, FlushFails, SourceDone,
         PassEnds, FetcherDies, Second, CoordStart, Shutdown, CoordDies, Fetch, Take, AckRaw, RawAckWait,
         UpsertNode, UpsertFails, LocateNode
  <2> QED
    BY <2>1, Bounds DEF Fault, TypeOK
<1>3. recent' \subseteq Source
  <2>1. UNCHANGED recent \/ recent' = {} \/ ((Flush \/ FlushFails) /\ recent' = recent \cup {fetcher.src})
    BY DEF Next, Publishing, Ingesting, vars, fetching, PassStart, Download, Flush, FlushFails, SourceDone,
         PassEnds, FetcherDies, Second, CoordStart, Shutdown, CoordDies, Fetch, Take, AckRaw, RawAckWait,
         UpsertNode, UpsertFails, LocateNode, Accept
  <2>2. Flush \/ FlushFails => fetcher.src \in Source
    BY DEF Flush, FlushFails, SentAccounted
  <2> QED
    BY <2>1, <2>2 DEF TypeOK
<1>4. durable' \in BOOLEAN
  <2>1. UNCHANGED durable \/ durable' = TRUE
    BY Zenon DEF Next, Publishing, Ingesting, vars, fetching, PassStart, Download, Flush, FlushFails, SourceDone,
         PassEnds, FetcherDies, Second, CoordStart, Shutdown, CoordDies, Fetch, Take, AckRaw, RawAckWait,
         UpsertNode, UpsertFails, LocateNode
  <2> QED
    BY <2>1 DEF TypeOK
<1> QED
  BY <1>1, <1>2, <1>3, <1>4

LEMMA RawStep == ASSUME RawInv, [Next]_vars PROVE RawInv'
<1>1. /\ TypeOK /\ TurnsLeft /\ Locating /\ RowsLocated /\ FlowInv /\ AckedDone /\ TakenDone
      /\ HeldArrived /\ SentAccounted /\ Unused
  BY DEF RawInv, FlowInv
<1>2. DoneKept
  BY <1>1, DoneStep
<1>3. StreamChange
  BY <1>1, StreamStep
<1>4. /\ AckedDone' /\ Unused' /\ AccountedKept /\ TurnsLeft'
      /\ raw' \in [Seqno -> Message] /\ arrived' \in 0..MaxMessages
  BY <1>1, <1>2, <1>3, StreamKept
<1>5. fetcher' \in FetcherType /\ counted' \subseteq Node /\ SentAccounted' /\ CountedAccounted'
  BY <1>1, <1>2, <1>4, FetcherStep
<1>6. coord' \in CoordType /\ TakenDone' /\ HeldArrived'
  BY <1>1, <1>2, <1>3, CoordStep DEF CoordKept
<1>7. Locating' /\ RowsLocated'
  BY <1>1, LocateStep
<1>8. row' \in [Node -> {"absent", "unlocated", "unknown", "located"}] /\ lost' \in LostRec
  BY <1>1, RowStep, LostStep
<1>9. passes' \in 0..MaxPasses /\ faults' \in 0..MaxFaults /\ recent' \subseteq Source /\ durable' \in BOOLEAN
  BY <1>1, BoundsStep
<1>10. TypeOK'
  BY <1>4, <1>5, <1>6, <1>8, <1>9 DEF TypeOK, FetcherType, CoordType
<1> QED
  BY <1>4, <1>5, <1>6, <1>7, <1>10 DEF RawInv, FlowInv

-----------------------------------------------------------------------------
\* The inductive invariant of the ingestion: what is acked or taken out of a message is
\* done with in the table, what the fetcher has sent of a source is done with or waits in
\* the stream, and the node being located is the one just inserted.
THEOREM RawInvariant == Spec => []RawInv
<1>1. Init => RawInv
  BY RawInit
<1>2. RawInv /\ [Next]_vars => RawInv'
  BY RawStep
<1> QED
  BY <1>1, <1>2, PTL DEF Spec

\* Variables stay in their types; no message of RAW is delivered more than MaxDeliver times.
THEOREM RawTypes == Spec => []TypeOK
<1>1. RawInv => TypeOK
  BY DEF RawInv
<1> QED
  BY <1>1, RawInvariant, PTL

\* No node the fetcher reports as published gets lost but for a reason that is on record:
\* a duplicate id, no consumer yet, a failed insert (fetchSource, consumeRaw).
THEOREM NothingUnaccounted == Spec => []CountedAccounted
<1>1. RawInv => CountedAccounted
  BY DEF RawInv, FlowInv
<1> QED
  BY <1>1, RawInvariant, PTL

\* A fault costs at most one node its location, for any number of nodes, batches, deliveries
\* and faults (ingestBatch, UpsertNode, locateNode).
THEOREM RowsAreLocated == Spec => []RowsLocated
<1>1. RawInv => RowsLocated
  BY DEF RawInv
<1> QED
  BY <1>1, RawInvariant, PTL

\* The location of a node is written at most once, whatever is found or delivered again
\* (ingestBatch, UpsertNode, locateNode).
THEOREM LocatedAtOnce == Spec => LocatedOnce
<1> DEFINE Once == \A n \in Node : row[n] \in {"unknown", "located"} => row'[n] = row[n]
<1>1. RawInv /\ [Next]_vars => [Once]_vars
  <2> SUFFICES ASSUME RawInv, [Next]_vars PROVE Once
    OBVIOUS
  <2>1. TypeOK /\ Locating
    BY DEF RawInv
  <2>2. CASE UNCHANGED row
    BY <2>2
  <2>3. ASSUME NEW n \in coord.todo, UpsertNode(n) \/ UpsertFails(n) PROVE Once
    <3>1. UNCHANGED row \/ (row[n] = "absent" /\ row' = [row EXCEPT ![n] = "unlocated"])
      BY <2>3 DEF UpsertNode, UpsertFails
    <3> QED
      BY <2>1, <3>1 DEF TypeOK
  <2>4. CASE LocateNode
    <3>1. coord.node \in Node /\ row[coord.node] = "unlocated"
      BY <2>1, <2>4 DEF LocateNode, Locating
    <3>2. UNCHANGED row \/ \E g \in {"unknown", "located"} : row' = [row EXCEPT ![coord.node] = g]
      BY <2>4 DEF LocateNode
    <3> QED
      BY <2>1, <3>1, <3>2 DEF TypeOK
  <2> QED
    BY <2>2, <2>3, <2>4, Zenon
       DEF Next, Publishing, Ingesting, vars, fetching, PassStart, Download, Flush, FlushFails, SourceDone,
           PassEnds, FetcherDies, Second, CoordStart, Shutdown, CoordDies, Fetch, Take, AckRaw, RawAckWait
<1> QED
  BY <1>1, RawInvariant, PTL DEF Spec, LocatedOnce
=============================================================================
