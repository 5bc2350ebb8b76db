------------------------------ MODULE RawIngest ------------------------------
(***************************************************************************)
(* How nodes get into the table: the fetcher, the stream RAW and the       *)
(* coordinator's consumeRaw.                                               *)
(*                                                                         *)
(* A pass of the fetcher downloads each source and publishes its nodes in  *)
(* batches, whose message id is made of the source and the second.  RAW    *)
(* keeps a message only while the durable of the coordinator exists, drops *)
(* one whose id it has seen, and delivers the others until they are acked  *)
(* or have been delivered MaxDeliver times.  The coordinator inserts the   *)
(* nodes that are new and locates each of them once.                       *)
(*                                                                         *)
(* The order of the nodes of a source is any order, and so is that of the  *)
(* messages of a fetch.                                                    *)
(***************************************************************************)
EXTENDS Integers, FiniteSets

CONSTANTS
    Node,          \* nodes, by uri_hash
    Source,        \* sources
    Batch,         \* nodes in a message (100)
    FetchSize,     \* messages in a fetch (10)
    MaxDeliver,    \* deliveries of a message (3)
    None,          \* no node, no source
    MaxPasses,     \* bound: passes of the fetcher
    MaxMessages,   \* bound: messages RAW has room for
    MaxFaults      \* bound: crashes, shutdowns, failed and lost calls

ASSUME RawAssumption ==
    /\ {MaxPasses, MaxMessages, MaxFaults} \subseteq Nat
    /\ {Batch, FetchSize, MaxDeliver} \subseteq Nat \ {0}
    /\ None \notin Node \cup Source

VARIABLES
    passes,     \* passes started
    fetcher,    \* pass, fetchSource: where it is
    recent,     \* sources that have published in this second: RAW knows their id
    durable,    \* RAW has the consumer coordinator-raw
    raw,        \* stream RAW: its messages
    arrived,    \* stream RAW: sequence number of the newest
    coord,      \* consumeRaw: where it is
    row,        \* table nodes: whether there, and with a location
    faults,     \* faults so far
    counted,    \* history: nodes the fetcher reported as published
    lost        \* history: nodes of batches RAW did not keep, nodes refused

fetching == <<passes, fetcher, recent, counted>>
vars == <<fetching, durable, raw, arrived, coord, row, faults, lost>>

Seqno   == 1..MaxMessages
Message == [nodes: SUBSET Node, phase: {"none", "ready", "leased", "acked", "dead"},
            tries: 0..MaxDeliver]

\* Why a batch or a node was lost: RAW took it for a duplicate, had no consumer, or
\* the row could not be inserted.
LostRec == [duplicate: SUBSET Node, unheard: SUBSET Node, refused: SUBSET Node]

TypeOK ==
    /\ passes \in 0..MaxPasses /\ faults \in 0..MaxFaults
    /\ fetcher \in [phase: {"off", "sources", "publish"}, left: SUBSET Source,
                   src: Source \cup {None}, body: SUBSET Node, todo: SUBSET Node]
    /\ recent \subseteq Source
    /\ durable \in BOOLEAN
    /\ raw \in [Seqno -> Message] /\ arrived \in 0..MaxMessages
    /\ coord \in [phase: {"down", "gone", "batches", "nodes", "locate"}, live: BOOLEAN,
                 held: SUBSET Seqno, msg: Seqno \cup {0}, todo: SUBSET Node, node: Node \cup {None}]
    /\ row \in [Node -> {"absent", "unlocated", "unknown", "located"}]
    /\ counted \subseteq Node
    /\ lost \in LostRec

FetcherOff == [phase |-> "off", left |-> {}, src |-> None, body |-> {}, todo |-> {}]
CoordIdle  == [phase |-> "batches", live |-> TRUE, held |-> {}, msg |-> 0, todo |-> {}, node |-> None]
CoordDown  == [CoordIdle EXCEPT !.phase = "down"]

Init ==
    /\ passes = 0 /\ fetcher = FetcherOff /\ recent = {} /\ counted = {}
    /\ durable = FALSE
    /\ arrived = 0 /\ raw = [m \in Seqno |-> [nodes |-> {}, phase |-> "none", tries |-> 0]]
    /\ coord = CoordDown
    /\ row = [n \in Node |-> "absent"]
    /\ faults = 0
    /\ lost = [duplicate |-> {}, unheard |-> {}, refused |-> {}]

Fault == faults < MaxFaults /\ faults' = faults + 1

-----------------------------------------------------------------------------
(***************************************************************************)
(* The fetcher and RAW.                                                    *)
(***************************************************************************)
PassStart ==
    /\ fetcher.phase = "off" /\ passes < MaxPasses
    /\ passes' = passes + 1
    /\ fetcher' = [FetcherOff EXCEPT !.phase = "sources", !.left = Source]
    /\ UNCHANGED <<recent, counted, durable, raw, arrived, coord, row, faults, lost>>

NextSource == [phase |-> "sources", left |-> fetcher.left \ {fetcher.src}, src |-> None,
               body |-> {}, todo |-> {}]

\* A source is downloaded, or cannot be, or is not enabled.
Download(s) ==
    /\ fetcher.phase = "sources" /\ s \in fetcher.left
    /\ \/ \E nodes \in SUBSET Node :
             fetcher' = [phase |-> "publish", left |-> fetcher.left, src |-> s,
                         body |-> nodes, todo |-> nodes]
       \/ fetcher' = [fetcher EXCEPT !.left = @ \ {s}]
    /\ UNCHANGED <<passes, recent, counted, durable, raw, arrived, coord, row, faults, lost>>

\* Size of the elements of T, or all of them if they are fewer.
Portions(T, size) ==
    {S \in SUBSET T : S # {} /\ (Cardinality(S) = size \/ (S = T /\ Cardinality(S) < size))}

\* RAW receives a batch of the source; the publisher cannot tell what becomes of it.
Accept(S) ==
    /\ recent' = recent \cup {fetcher.src}
    /\ IF fetcher.src \in recent
       THEN lost' = [lost EXCEPT !.duplicate = @ \cup S] /\ UNCHANGED <<raw, arrived>>
       ELSE IF ~durable
       THEN lost' = [lost EXCEPT !.unheard = @ \cup S] /\ UNCHANGED <<raw, arrived>>
       ELSE /\ arrived < MaxMessages /\ arrived' = arrived + 1
            /\ raw' = [raw EXCEPT ![arrived + 1] = [nodes |-> S, phase |-> "ready", tries |-> 0]]
            /\ UNCHANGED lost

Flush ==
    /\ fetcher.phase = "publish"
    /\ \E S \in Portions(fetcher.todo, Batch) :
          /\ Accept(S)
          /\ fetcher' = [fetcher EXCEPT !.todo = @ \ S]
    /\ UNCHANGED <<passes, counted, durable, coord, row, faults>>

\* The publish fails, or only its answer is lost: the rest of the source is skipped.
FlushFails ==
    /\ fetcher.phase = "publish" /\ Fault
    /\ \E S \in Portions(fetcher.todo, Batch) :
          Accept(S) \/ UNCHANGED <<recent, raw, arrived, lost>>
    /\ fetcher' = NextSource
    /\ UNCHANGED <<passes, counted, durable, coord, row>>

SourceDone ==
    /\ fetcher.phase = "publish" /\ fetcher.todo = {}
    /\ fetcher' = NextSource
    /\ counted' = counted \cup fetcher.body
    /\ UNCHANGED <<passes, recent, durable, raw, arrived, coord, row, faults, lost>>

PassEnds ==
    /\ fetcher.phase = "sources" /\ fetcher.left = {}
    /\ fetcher' = FetcherOff
    /\ UNCHANGED <<passes, recent, counted, durable, raw, arrived, coord, row, faults, lost>>

FetcherDies ==
    /\ fetcher.phase # "off" /\ Fault
    /\ fetcher' = FetcherOff
    /\ UNCHANGED <<passes, recent, counted, durable, raw, arrived, coord, row, lost>>

\* The second is over: message ids are new again.
Second ==
    /\ recent # {} /\ recent' = {}
    /\ UNCHANGED <<passes, fetcher, counted, durable, raw, arrived, coord, row, faults, lost>>

-----------------------------------------------------------------------------
(***************************************************************************)
(* The coordinator.                                                        *)
(***************************************************************************)
\* run ensures the durable, and consumeRaw once more: if that fails it returns, and the
\* process goes on without it.
CoordStart ==
    /\ coord.phase = "down"
    /\ durable' = TRUE
    /\ \/ coord' = CoordIdle /\ UNCHANGED faults
       \/ coord' = [CoordIdle EXCEPT !.phase = "gone"] /\ Fault
    /\ UNCHANGED <<fetching, raw, arrived, row, lost>>

\* SIGTERM: calls with the context fail from now on, acks do not need it.
Shutdown ==
    /\ coord.phase # "down" /\ coord.live /\ Fault
    /\ coord' = [coord EXCEPT !.live = FALSE]
    /\ UNCHANGED <<fetching, durable, raw, arrived, row, lost>>

\* The process ends: half a second after SIGTERM, or at once.
CoordDies ==
    /\ coord.phase # "down"
    /\ IF coord.live THEN Fault ELSE UNCHANGED faults
    /\ coord' = CoordDown
    /\ UNCHANGED <<fetching, durable, raw, arrived, row, lost>>

Ready == {m \in Seqno : raw[m].phase = "ready"}

Lease(H) ==
    raw' = [m \in Seqno |->
               IF m \in H THEN [raw[m] EXCEPT !.phase = "leased", !.tries = @ + 1] ELSE raw[m]]

\* A fetch that ends with an error has had its messages delivered all the same.
Fetch ==
    /\ coord.phase = "batches" /\ coord.live /\ coord.held = {}
    /\ \E H \in Portions(Ready, FetchSize) :
          /\ Lease(H)
          /\ \/ coord' = [coord EXCEPT !.held = H] /\ UNCHANGED faults
             \/ UNCHANGED coord /\ Fault
    /\ UNCHANGED <<fetching, durable, arrived, row, lost>>

\* Mutant: the message is acked before its nodes are inserted.
TakeAcked(m) ==
    /\ coord.phase = "batches" /\ m \in coord.held
    /\ coord' = [coord EXCEPT !.phase = "nodes", !.msg = m, !.todo = raw[m].nodes]
    /\ raw' = [raw EXCEPT ![m].phase = "acked"]
    /\ UNCHANGED <<fetching, durable, arrived, row, faults, lost>>

\* ingestBatch begins with the next message of the fetch.
Take(m) ==
    /\ coord.phase = "batches" /\ m \in coord.held
    /\ coord' = [coord EXCEPT !.phase = "nodes", !.msg = m, !.todo = raw[m].nodes]
    /\ UNCHANGED <<fetching, durable, raw, arrived, row, faults, lost>>

\* Mutant: a node is located whenever it is found.
UpsertLocatesAll(n) ==
    /\ coord.phase = "nodes" /\ coord.live /\ n \in coord.todo
    /\ row' = IF row[n] = "absent" THEN [row EXCEPT ![n] = "unlocated"] ELSE row
    /\ coord' = [coord EXCEPT !.todo = @ \ {n}, !.phase = "locate", !.node = n]
    /\ UNCHANGED <<fetching, durable, raw, arrived, faults, lost>>

\* Mutant: nodes are inserted after SIGTERM too, where nothing can be located.
UpsertDetached(n) ==
    /\ coord.phase = "nodes" /\ n \in coord.todo
    /\ IF row[n] = "absent"
       THEN /\ row' = [row EXCEPT ![n] = "unlocated"]
            /\ coord' = [coord EXCEPT !.todo = @ \ {n}, !.phase = "locate", !.node = n]
       ELSE coord' = [coord EXCEPT !.todo = @ \ {n}] /\ UNCHANGED row
    /\ UNCHANGED <<fetching, durable, raw, arrived, faults, lost>>

UpsertNode(n) ==
    /\ coord.phase = "nodes" /\ coord.live /\ n \in coord.todo
    /\ IF row[n] = "absent"
       THEN /\ row' = [row EXCEPT ![n] = "unlocated"]
            /\ coord' = [coord EXCEPT !.todo = @ \ {n}, !.phase = "locate", !.node = n]
       ELSE coord' = [coord EXCEPT !.todo = @ \ {n}] /\ UNCHANGED row
    /\ UNCHANGED <<fetching, durable, raw, arrived, faults, lost>>

\* The statement fails, or its answer is lost: the node is skipped.
UpsertFails(n) ==
    /\ coord.phase = "nodes" /\ n \in coord.todo
    /\ \/ ~coord.live /\ UNCHANGED <<row, faults>>
       \/ Fault /\ UNCHANGED row
       \/ Fault /\ row[n] = "absent" /\ row' = [row EXCEPT ![n] = "unlocated"]
    /\ coord' = [coord EXCEPT !.todo = @ \ {n}]
    /\ lost' = [lost EXCEPT !.refused = @ \cup {n}]
    /\ UNCHANGED <<fetching, durable, raw, arrived>>

\* The host resolves to a place, or to none; or the row cannot be updated.
LocateNode ==
    /\ coord.phase = "locate"
    /\ \/ /\ coord.live /\ UNCHANGED faults
          /\ \E g \in {"unknown", "located"} : row' = [row EXCEPT ![coord.node] = g]
       \/ ~coord.live /\ UNCHANGED <<row, faults>>
       \/ coord.live /\ Fault /\ UNCHANGED row
    /\ coord' = [coord EXCEPT !.phase = "nodes", !.node = None]
    /\ UNCHANGED <<fetching, durable, raw, arrived, lost>>

\* The message is acked whatever happened to its nodes.
AckRaw ==
    /\ coord.phase = "nodes" /\ coord.todo = {}
    /\ coord' = [coord EXCEPT !.phase = "batches", !.held = @ \ {coord.msg}, !.msg = 0]
    /\ \/ raw' = [raw EXCEPT ![coord.msg].phase = "acked"] /\ UNCHANGED faults
       \/ UNCHANGED raw /\ Fault
    /\ UNCHANGED <<fetching, durable, arrived, row, lost>>

\* Mutant: only a second delivery is timed.
RawAckWaitLater(m) ==
    /\ raw[m].phase = "leased" /\ raw[m].tries > 1
    /\ raw' = [raw EXCEPT ![m].phase = IF raw[m].tries < MaxDeliver THEN "ready" ELSE "dead"]
    /\ UNCHANGED <<fetching, durable, arrived, coord, row, faults, lost>>

\* Mutant: the consumer has no MaxDeliver.
RawAckWaitForever(m) ==
    /\ raw[m].phase = "leased"
    /\ raw' = [raw EXCEPT ![m].phase = "ready"]
    /\ UNCHANGED <<fetching, durable, arrived, coord, row, faults, lost>>

\* Nobody answered for a message within AckWait.
RawAckWait(m) ==
    /\ raw[m].phase = "leased"
    /\ raw' = [raw EXCEPT ![m].phase = IF raw[m].tries < MaxDeliver THEN "ready" ELSE "dead"]
    /\ UNCHANGED <<fetching, durable, arrived, coord, row, faults, lost>>

-----------------------------------------------------------------------------
Publishing == PassStart \/ (\E s \in Source : Download(s)) \/ Flush \/ SourceDone \/ PassEnds

\* consumeRaw between SIGTERM and the end of the process included.
Ingesting ==
    \/ Fetch \/ LocateNode \/ AckRaw
    \/ \E m \in coord.held : Take(m)
    \/ \E n \in coord.todo : UpsertNode(n) \/ UpsertFails(n)

Next ==
    \/ Publishing \/ FlushFails \/ FetcherDies \/ Second
    \/ CoordStart \/ Shutdown \/ CoordDies \/ Ingesting
    \/ \E m \in Seqno : RawAckWait(m)

Spec == Init /\ [][Next]_vars

\* A coordinator that is down or told to stop is replaced, a running one goes on, and
\* the deliveries of RAW time out.
FairSpec ==
    /\ Spec /\ WF_vars(CoordStart) /\ WF_vars(~coord.live /\ CoordDies) /\ WF_vars(Ingesting)
    /\ WF_vars(\E m \in Seqno : RawAckWait(m))

-----------------------------------------------------------------------------
(***************************************************************************)
(* Properties.                                                             *)
(***************************************************************************)
\* In a message that is not acked: to be delivered, or out of deliveries.
Waiting(n) == \E m \in Seqno : n \in raw[m].nodes /\ raw[m].phase # "acked"

Lost == lost.duplicate \cup lost.unheard \cup lost.refused

\* A node the fetcher reports as published is in the table or in the stream, unless
\* its batch came in the second of another of its source, or before the durable was
\* there, or the statement that inserts it failed (fetchSource, consumeRaw).
CountedAccounted ==
    \A n \in counted : row[n] # "absent" \/ Waiting(n) \/ n \in Lost

\* What is found again, in another source, pass or delivery, never changes the location
\* of a node: it is written at most once (ingestBatch, locateNode).
LocatedOnce ==
    [][\A n \in Node : row[n] \in {"unknown", "located"} => row'[n] = row[n]]_vars

Unlocated    == {n \in Node : row[n] = "unlocated"}
BeingLocated == IF coord.phase = "locate" /\ coord.live THEN 1 ELSE 0

\* A fault costs at most one node its location, be it a crash or SIGTERM between the
\* insert and the location, an answer or an update lost: the others in the table have
\* one, or none to be found, but for the one being located (ingestBatch, locateNode).
RowsLocated == Cardinality(Unlocated) <= faults + BeingLocated

\* A message RAW keeps is acked or uses up its deliveries, crashes, shutdowns and lost
\* acks notwithstanding, unless the last process there is gave up reading at its start:
\* a process that did and was replaced has only delayed it (consumeRaw).
RawSettles ==
    \A m \in Seqno :
        <>(m <= arrived) =>
            <>(raw[m].phase \in {"acked", "dead"}) \/ <>[](coord.phase = "gone")
=============================================================================
