-------------------------- MODULE PipelineLossProofs --------------------------
(***************************************************************************)
(* The pipeline keeps its promises, for any number of jobs, deliveries,    *)
(* workers and faults: no result is lost (NoResultLost), and it implements *)
(* the ledger of JobLedger (IsLedger).                                     *)
(*                                                                         *)
(* A job is acked by a delivery that published, or whose publish was a     *)
(* duplicate; either way RESULTS has a message of the job (PublishedStored,*)
(* DedupStored), which covers every node of it (ItemsCover).  The message  *)
(* is not overwritten, since a delivery publishes once (ProbingUnsent,     *)
(* LaterUnsent), and is acked by the coordinator when each of its items is *)
(* in node_checks or refused (Ingesting, AckedSettled).                    *)
(*                                                                         *)
(* For the ledger, results fit the job that asked for them from the probe  *)
(* to the coordinator (OriginInv).  Then every row has an answer and a job *)
(* behind it, and what recomputeNode can make of such rows is little: no   *)
(* node gets the class rf, no validation is ever done, and the newest row  *)
(* of the cloud alone decides whether a node is alive.                     *)
(***************************************************************************)
EXTENDS PipelineProofs

\* RESULTS has, or had, a message of job j.
Stored(j) == \E d \in Delivery : d[1] = j /\ inbox[d].phase # "none"

\* The check is in node_checks or was refused.
Settled(c) == Recorded(checks, c) \/ c \in dropped

AckedStored     == \A j \in Job : jobs[j].phase = "acked" => Stored(j)
PublishedStored == \A d \in Delivery : exec[d].phase = "published" => Stored(d[1])
DedupStored     == \A m \in dedup : Stored(m[1])

\* Deliveries of a job are counted, and a delivery that probes has not published.
FreeUntried   == \A j \in Job : jobs[j].phase = "free" => jobs[j].tries = 0
TriesCounted  == \A d \in Delivery : exec[d].phase \in {"probing", "published"} => d[2] <= jobs[d[1]].tries
LaterUnsent   == \A d \in Delivery : d[2] > jobs[d[1]].tries => inbox[d].phase = "none"
ProbingUnsent == \A d \in Delivery : exec[d].phase = "probing" => inbox[d].phase = "none"

\* A message has a result of each node of its job.
ItemsCover ==
    \A d \in Delivery : inbox[d].phase # "none" =>
        \A n \in jobs[d[1]].nodes : \E c \in inbox[d].items : c.node = n

\* The coordinator has settled what it no longer has to do.
AckedSettled == \A d \in Delivery : inbox[d].phase = "acked" => \A c \in inbox[d].items : Settled(c)
Ingesting ==
    coord.phase \in {"items", "recompute", "enqueue"} =>
        /\ coord.msg \in Delivery /\ inbox[coord.msg].phase # "none"
        /\ \A c \in inbox[coord.msg].items : c \in coord.todo \/ Settled(c)

SentInv == AckedStored /\ PublishedStored /\ DedupStored
CountInv == FreeUntried /\ TriesCounted /\ LaterUnsent /\ ProbingUnsent
SettleInv == AckedSettled /\ Ingesting

LossInv == TypeInv /\ SentInv /\ CountInv /\ ItemsCover /\ SettleInv

-----------------------------------------------------------------------------
\* At first there is no message and no delivery.
LEMMA LossInit == Init => LossInv
<1> SUFFICES ASSUME Init PROVE LossInv
  OBVIOUS
<1>1. SentInv
  BY DEF Init, SentInv, AckedStored, PublishedStored, DedupStored, FreeJob, NotRun
<1>2. CountInv
  BY DEF Init, CountInv, FreeUntried, TriesCounted, LaterUnsent, ProbingUnsent, FreeJob, NotRun
<1>3. ItemsCover /\ SettleInv
  BY DEF Init, ItemsCover, SettleInv, AckedSettled, Ingesting, IdleCoord
<1> QED
  BY <1>1, <1>2, <1>3, TypeInit DEF LossInv

\* Whatever is settled stays settled: nothing deletes a check.
LEMMA SettledStays ==
    ASSUME checks \subseteq checks', dropped \subseteq dropped', NEW c, Settled(c)
    PROVE  Settled(c)'
  BY DEF Settled, Recorded

\* Nothing happens to the messages.
LEMMA SameInbox ==
    ASSUME UNCHANGED inbox PROVE \A j : Stored(j)' <=> Stored(j)
  BY DEF Stored

\* The ingest is not touched, or only what it has settled grows.
LEMMA SettleFrame ==
    ASSUME SettleInv, UNCHANGED <<inbox, coord>>, checks \subseteq checks', dropped \subseteq dropped'
    PROVE  SettleInv'
  BY SettledStays DEF SettleInv, AckedSettled, Ingesting

\* Jobs and messages are not touched.
LEMMA CountFrame ==
    ASSUME CountInv, UNCHANGED <<jobs, inbox, exec>> PROVE CountInv'
  BY DEF CountInv, FreeUntried, TriesCounted, LaterUnsent, ProbingUnsent

LEMMA SentFrame ==
    ASSUME SentInv, UNCHANGED <<jobs, inbox, exec, dedup>> PROVE SentInv'
  BY DEF SentInv, AckedStored, PublishedStored, DedupStored, Stored

LEMMA CoverFrame == ASSUME ItemsCover, UNCHANGED <<jobs, inbox>> PROVE ItemsCover'
  BY DEF ItemsCover

-----------------------------------------------------------------------------
\* A job is posted under an id nobody has used.
LEMMA PostLoss ==
    ASSUME LossInv, NEW j \in Job, jobs[j].phase = "free",
           NEW s, NEW v, NEW S, NEW cause, Post(j, s, v, S, cause),
           UNCHANGED <<exec, inbox, dedup>>
    PROVE  SentInv' /\ CountInv' /\ ItemsCover'
<1> DEFINE r == [phase |-> "ready", stage |-> s, vantage |-> v, nodes |-> S,
                 tries |-> 0, cause |-> cause]
<1>1. jobs' = [jobs EXCEPT ![j] = r] /\ jobs \in [Job -> JobRec]
  BY DEF Post, LossInv, TypeInv, JobsOK
<1>2. r.phase = "ready" /\ r.tries = 0
  OBVIOUS
<1> HIDE DEF r
<1>3. \A d \in Delivery : d[1] \in Job /\ d[2] > 0
  BY DEF Delivery, Attempt
<1>4. \A d \in Delivery : d[1] = j => inbox[d].phase = "none" /\ exec[d].phase \notin {"probing", "published"}
  BY <1>3 DEF LossInv, CountInv, FreeUntried, TriesCounted, LaterUnsent, Delivery, Attempt
<1>5. SentInv'
  BY <1>1, <1>2, SameInbox DEF LossInv, SentInv, AckedStored, PublishedStored, DedupStored
<1>6. CountInv'
  BY <1>1, <1>2, <1>3, <1>4
     DEF LossInv, CountInv, FreeUntried, TriesCounted, LaterUnsent, ProbingUnsent
<1>7. ItemsCover'
  BY <1>1, <1>3, <1>4 DEF LossInv, ItemsCover
<1> QED
  BY <1>5, <1>6, <1>7

\* A job that is not free changes its phase, and no message changes.
LEMMA JobPhaseLoss ==
    ASSUME LossInv, NEW j \in Job, NEW ph \in {"free", "ready", "leased", "acked", "dead"},
           jobs' = [jobs EXCEPT ![j].phase = ph], ph # "free", ph = "acked" => Stored(j),
           UNCHANGED <<inbox, dedup>>
    PROVE  /\ AckedStored' /\ DedupStored' /\ FreeUntried' /\ LaterUnsent' /\ ItemsCover'
           /\ \A i \in Job : jobs'[i].tries = jobs[i].tries
<1> DEFINE r == [jobs[j] EXCEPT !.phase = ph]
<1>1. jobs' = [jobs EXCEPT ![j] = r] /\ jobs[j] \in JobRec /\ jobs \in [Job -> JobRec]
  BY DEF LossInv, TypeInv, JobsOK
<1>2. r.phase = ph /\ r.tries = jobs[j].tries /\ r.nodes = jobs[j].nodes
  BY <1>1, JobPhase
<1> HIDE DEF r
<1>3. \A i \in Job : jobs'[i].tries = jobs[i].tries /\ jobs'[i].nodes = jobs[i].nodes
  BY <1>1, <1>2
<1>4. \A d \in Delivery : d[1] \in Job
  BY DEF Delivery
<1>5. AckedStored' /\ DedupStored'
  BY <1>1, <1>2, SameInbox DEF LossInv, SentInv, AckedStored, DedupStored
<1>6. FreeUntried' /\ LaterUnsent'
  BY <1>1, <1>2, <1>3, <1>4 DEF LossInv, CountInv, FreeUntried, LaterUnsent
<1>7. ItemsCover'
  BY <1>3, <1>4 DEF LossInv, ItemsCover
<1> QED
  BY <1>3, <1>5, <1>6, <1>7

\* The record of a delivery changes to one that does not probe.
LEMMA ExecStops ==
    ASSUME LossInv, NEW d \in Delivery, NEW x, exec' = [exec EXCEPT ![d] = x],
           exec[d].phase \in {"probing", "published"},
           x.phase \notin {"none", "probing"}, UNCHANGED inbox,
           \A i \in Job : jobs'[i].tries = jobs[i].tries
    PROVE  TriesCounted' /\ ProbingUnsent'
<1>1. \A e \in Delivery : e[1] \in Job
  BY DEF Delivery
<1>2. exec \in [Delivery -> ExecRec]
  BY DEF LossInv, TypeInv, ExecOK
<1> QED
  BY <1>1, <1>2 DEF LossInv, CountInv, TriesCounted, ProbingUnsent

\* JetStream delivers a job, under a number it has not used yet.
LEMMA FetchLoss ==
    ASSUME LossInv, NEW w \in Worker, NEW j \in Job, Fetch(w, j) PROVE LossInv'
<1> DEFINE r == [jobs[j] EXCEPT !.phase = "leased", !.tries = @ + 1]
           d == <<j, jobs[j].tries + 1>>
           x == [phase |-> "probing", worker |-> w, out |-> {}]
<1>0. TypeInv'
  BY TypeStep DEF LossInv, Next, Broker
<1>1. /\ jobs \in [Job -> JobRec] /\ jobs[j] \in JobRec /\ jobs[j].tries < MaxDeliver
      /\ exec \in [Delivery -> ExecRec]
  BY DEF Fetch, LossInv, TypeInv, JobsOK, ExecOK
<1>2. /\ r.phase = "leased" /\ r.nodes = jobs[j].nodes /\ r.tries = jobs[j].tries + 1
      /\ jobs[j].tries \in Nat
  <2>1. jobs[j].tries \in 0..MaxDeliver
    BY <1>1 DEF JobRec
  <2>2. r.phase = "leased" /\ r.nodes = jobs[j].nodes /\ r.tries = jobs[j].tries + 1
    BY <1>1, JobFetched
  <2> QED
    BY <2>1, <2>2, Bounds
<1>3. jobs' = [jobs EXCEPT ![j] = r] /\ exec' = [exec EXCEPT ![d] = x]
  BY <1>1 DEF Fetch
<1>4. x.phase = "probing"
  OBVIOUS
<1>5. d \in Delivery /\ d[1] = j /\ d[2] = jobs[j].tries + 1
  BY <1>1, <1>2, Bounds DEF Delivery, Attempt
<1>6. \A e \in Delivery : e[1] \in Job /\ e[2] \in Nat
  BY DEF Delivery, Attempt
<1>7. UNCHANGED <<inbox, dedup, coord, checks, dropped>>
  BY DEF Fetch, history
<1> HIDE DEF r, d, x
<1>8. SentInv'
  BY <1>1, <1>2, <1>3, <1>4, <1>5, <1>6, <1>7, SameInbox
     DEF LossInv, SentInv, AckedStored, PublishedStored, DedupStored
<1>9. FreeUntried' /\ LaterUnsent'
  BY <1>1, <1>2, <1>3, <1>6, <1>7 DEF LossInv, CountInv, FreeUntried, LaterUnsent
<1>10. TriesCounted'
  BY <1>1, <1>2, <1>3, <1>5, <1>6 DEF LossInv, CountInv, TriesCounted
<1>11. ProbingUnsent'
  BY <1>1, <1>2, <1>3, <1>5, <1>7 DEF LossInv, CountInv, LaterUnsent, ProbingUnsent
<1>12. ItemsCover'
  BY <1>1, <1>2, <1>3, <1>6, <1>7 DEF LossInv, ItemsCover
<1>13. SettleInv'
  BY <1>7, SettleFrame DEF LossInv
<1> QED
  BY <1>0, <1>8, <1>9, <1>10, <1>11, <1>12, <1>13 DEF LossInv, CountInv

\* A probe ends: the delivery still probes.
LEMMA ProbeLoss ==
    ASSUME LossInv, NEW d \in Delivery, NEW n \in Node, NEW ok \in BOOLEAN, Probe(d, n, ok)
    PROVE  LossInv'
<1>0. TypeInv'
  BY TypeStep DEF LossInv, Next, Work
<1>1. /\ exec \in [Delivery -> ExecRec] /\ exec' \in [Delivery -> ExecRec]
      /\ exec[d].phase = "probing"
  BY <1>0 DEF Probe, LossInv, TypeInv, ExecOK
<1>2. \A e \in Delivery : exec'[e].phase = exec[e].phase
  BY <1>1 DEF Probe, ExecRec
<1>3. UNCHANGED <<jobs, inbox, dedup, coord, checks, dropped>>
  BY DEF Probe, history
<1>4. SentInv'
  BY <1>2, <1>3, SameInbox DEF LossInv, SentInv, AckedStored, PublishedStored, DedupStored
<1>5. CountInv'
  BY <1>2, <1>3 DEF LossInv, CountInv, FreeUntried, TriesCounted, LaterUnsent, ProbingUnsent
<1> QED
  BY <1>0, <1>3, <1>4, <1>5, CoverFrame, SettleFrame DEF LossInv

\* A message that RESULTS takes was not there, covers its job and is not acked; one
\* that is ignored has a predecessor.
LEMMA AcceptLoss ==
    ASSUME LossInv, NEW d \in Delivery, AllProbed(d), Accept(d), UNCHANGED <<coord, checks, dropped>>
    PROVE  /\ \A j : Stored(j) => Stored(j)'
           /\ Stored(d[1])'
           /\ DedupStored' /\ SettleInv'
           /\ \A e \in Delivery \ {d} : inbox'[e] = inbox[e]
           /\ inbox'[d].phase # "none" =>
                 \A n \in jobs[d[1]].nodes : \E c \in inbox'[d].items : c.node = n
<1> DEFINE r == [phase |-> "ready", items |-> exec[d].out, tries |-> 0]
<1>1. /\ inbox \in [Delivery -> InboxRec] /\ inbox[d].phase = "none"
      /\ MsgId(d)[1] = d[1]
  BY DEF LossInv, TypeInv, InboxOK, CountInv, ProbingUnsent, AllProbed, MsgId
<1>2. CASE MsgId(d) \in dedup
  <2>1. UNCHANGED <<inbox, dedup>>
    BY <1>2 DEF Accept
  <2>2. Stored(d[1])
    BY <1>1, <1>2 DEF LossInv, SentInv, DedupStored
  <2>3. DedupStored' /\ SettleInv'
    BY <2>1, SameInbox, SettleFrame DEF LossInv, SentInv, DedupStored
  <2> QED
    BY <1>1, <2>1, <2>2, <2>3, SameInbox
<1>3. CASE MsgId(d) \notin dedup
  <2>1. inbox' = [inbox EXCEPT ![d] = r] /\ dedup' = dedup \cup {MsgId(d)}
    BY <1>3 DEF Accept
  <2>2. r.phase = "ready" /\ r.items = exec[d].out
    OBVIOUS
  <2>3. \A n \in jobs[d[1]].nodes : \E c \in r.items : c.node = n
    BY <2>2 DEF AllProbed, Probed
  <2> HIDE DEF r
  <2>4. \A j : Stored(j) => Stored(j)'
    BY <1>1, <2>1, <2>2 DEF Stored
  <2>5. Stored(d[1])'
    BY <1>1, <2>1, <2>2 DEF Stored
  <2>6. DedupStored'
    BY <1>1, <2>1, <2>4, <2>5 DEF LossInv, SentInv, DedupStored
  <2>7. SettleInv'
    <3>1. \A c : Settled(c) => Settled(c)'
      BY SettledStays
    <3>2. AckedSettled'
      BY <1>1, <2>1, <2>2, <3>1 DEF LossInv, SettleInv, AckedSettled
    <3>3. Ingesting'
      BY <1>1, <2>1, <2>2, <3>1 DEF LossInv, SettleInv, Ingesting
    <3> QED
      BY <3>2, <3>3 DEF SettleInv
  <2> QED
    BY <1>1, <2>1, <2>2, <2>3, <2>4, <2>5, <2>6, <2>7
<1> QED
  BY <1>2, <1>3

\* What taking or ignoring a message leaves to show: the job of the delivery may
\* only have changed its phase, and the delivery ends with a phase of its own.
LEMMA PublishLoss ==
    ASSUME LossInv, NEW d \in Delivery, AllProbed(d), Accept(d), UNCHANGED <<coord, checks, dropped>>,
           NEW x, exec' = [exec EXCEPT ![d] = x], x.phase \in {"published", "gone"},
           \A j \in Job : /\ jobs'[j].tries = jobs[j].tries /\ jobs'[j].nodes = jobs[j].nodes
                          /\ jobs'[j].phase \in {"free", "acked"} => jobs'[j].phase = jobs[j].phase,
           TypeInv'
    PROVE  LossInv'
<1>1. /\ exec \in [Delivery -> ExecRec] /\ exec[d].phase = "probing"
      /\ \A e \in Delivery : e[1] \in Job /\ e[2] \in Nat
  BY DEF LossInv, TypeInv, ExecOK, AllProbed, Delivery, Attempt
<1>2. SentInv'
  <2>1. AckedStored'
    BY AcceptLoss DEF LossInv, SentInv, AckedStored
  <2>2. PublishedStored'
    BY <1>1, AcceptLoss DEF LossInv, SentInv, PublishedStored
  <2> QED
    BY <2>1, <2>2, AcceptLoss DEF SentInv
<1>3. CountInv'
  <2>1. FreeUntried'
    BY DEF LossInv, CountInv, FreeUntried
  <2>2. TriesCounted'
    BY <1>1 DEF LossInv, CountInv, TriesCounted
  <2>3. LaterUnsent'
    <3>1. d[2] <= jobs[d[1]].tries /\ jobs[d[1]].tries \in Nat
      BY <1>1, Bounds DEF LossInv, CountInv, TriesCounted, TypeInv, JobsOK, JobRec
    <3> QED
      BY <1>1, <3>1, AcceptLoss DEF LossInv, CountInv, LaterUnsent
  <2>4. ProbingUnsent'
    BY <1>1, AcceptLoss DEF LossInv, CountInv, ProbingUnsent
  <2> QED
    BY <2>1, <2>2, <2>3, <2>4 DEF CountInv
<1>4. ItemsCover'
  <2> SUFFICES ASSUME NEW e \in Delivery, inbox'[e].phase # "none", NEW n \in jobs'[e[1]].nodes
               PROVE  \E c \in inbox'[e].items : c.node = n
    BY DEF ItemsCover
  <2>1. n \in jobs[e[1]].nodes
    BY <1>1
  <2>2. CASE e = d
    BY <2>1, <2>2, AcceptLoss
  <2>3. CASE e # d
    <3>1. inbox'[e] = inbox[e]
      BY <2>3, AcceptLoss
    <3> QED
      BY <2>1, <3>1 DEF LossInv, ItemsCover
  <2> QED
    BY <2>2, <2>3
<1> QED
  BY <1>2, <1>3, <1>4, AcceptLoss DEF LossInv

\* The steps at the end of a delivery.
LEMMA DeliveryEnds ==
    ASSUME LossInv, NEW d \in Delivery, PublishResults(d) \/ PublishFails(d) \/ AckJob(d) \/ LoseAck(d)
    PROVE  LossInv'
<1>0. TypeInv'
  BY TypeStep DEF LossInv, Next, Work, Broken
<1>1. d[1] \in Job /\ jobs \in [Job -> JobRec] /\ jobs[d[1]] \in JobRec
      /\ exec \in [Delivery -> ExecRec] /\ exec[d] \in ExecRec
  BY DEF LossInv, TypeInv, JobsOK, ExecOK, Delivery
<1>2. Gone.phase = "gone"
  BY DEF Gone
<1>3. CASE PublishResults(d)
  <2> DEFINE x == [exec[d] EXCEPT !.phase = "published"]
  <2>1. exec' = [exec EXCEPT ![d] = x]
    BY <1>1, <1>3 DEF PublishResults
  <2>2. x.phase = "published"
    BY <1>1, ExecPhase
  <2> HIDE DEF x
  <2> QED
    BY <1>0, <1>3, <2>1, <2>2, PublishLoss DEF PublishResults, history
<1>4. CASE PublishFails(d)
  <2>1. \A j \in Job : /\ jobs'[j].tries = jobs[j].tries /\ jobs'[j].nodes = jobs[j].nodes
                       /\ jobs'[j].phase \in {"free", "acked"} => jobs'[j].phase = jobs[j].phase
    <3>1. CASE UNCHANGED jobs
      BY <3>1
    <3>2. CASE jobs' = [jobs EXCEPT ![d[1]].phase = Redeliverable(jobs, d[1])]
      <4> DEFINE r == [jobs[d[1]] EXCEPT !.phase = Redeliverable(jobs, d[1])]
      <4>1. Redeliverable(jobs, d[1]) \in {"ready", "dead"}
        BY DEF Redeliverable
      <4>2. jobs' = [jobs EXCEPT ![d[1]] = r]
        BY <1>1, <3>2
      <4>3. r.phase \in {"ready", "dead"} /\ r.tries = jobs[d[1]].tries /\ r.nodes = jobs[d[1]].nodes
        BY <1>1, <4>1, JobPhase
      <4> HIDE DEF r
      <4> QED
        BY <1>1, <4>2, <4>3
    <3> QED
      BY <1>4, <3>1, <3>2 DEF PublishFails
  <2>2. CASE Accept(d)
    BY <1>0, <1>2, <1>4, <2>1, <2>2, PublishLoss DEF PublishFails, history
  <2>3. CASE UNCHANGED <<inbox, dedup>>
    <3>1. exec' = [exec EXCEPT ![d] = Gone] /\ exec[d].phase = "probing"
          /\ UNCHANGED <<coord, checks, dropped>>
      BY <1>4 DEF PublishFails, AllProbed, history
    <3>2. \A e \in Delivery : e[1] \in Job
      BY DEF Delivery
    <3>3. TriesCounted' /\ ProbingUnsent'
      BY <1>2, <2>1, <2>3, <3>1, ExecStops
    <3>4. SentInv'
      BY <1>1, <1>2, <2>1, <2>3, <3>1, SameInbox
         DEF LossInv, SentInv, AckedStored, PublishedStored, DedupStored
    <3>5. FreeUntried' /\ LaterUnsent' /\ ItemsCover'
      BY <2>1, <2>3, <3>2 DEF LossInv, CountInv, FreeUntried, LaterUnsent, ItemsCover
    <3> QED
      BY <1>0, <2>3, <3>1, <3>3, <3>4, <3>5, SettleFrame DEF LossInv, CountInv
  <2> QED
    BY <1>4, <2>2, <2>3 DEF PublishFails
<1>5. CASE AckJob(d)
  <2>1. /\ jobs' = [jobs EXCEPT ![d[1]].phase = "acked"] /\ exec' = [exec EXCEPT ![d] = Gone]
        /\ exec[d].phase = "published" /\ UNCHANGED <<inbox, dedup, coord, checks, dropped>>
    BY <1>5 DEF AckJob, history
  <2>2. Stored(d[1])
    BY <2>1 DEF LossInv, SentInv, PublishedStored
  <2>3. /\ AckedStored' /\ DedupStored' /\ FreeUntried' /\ LaterUnsent' /\ ItemsCover'
        /\ \A i \in Job : jobs'[i].tries = jobs[i].tries
    BY <1>1, <2>1, <2>2, JobPhaseLoss
  <2>4. TriesCounted' /\ ProbingUnsent'
    BY <1>2, <2>1, <2>3, ExecStops
  <2>5. PublishedStored'
    BY <1>1, <1>2, <2>1, SameInbox DEF LossInv, SentInv, PublishedStored
  <2>6. SettleInv'
    BY <2>1, SettleFrame DEF LossInv
  <2> QED
    BY <1>0, <2>3, <2>4, <2>5, <2>6 DEF LossInv, SentInv, CountInv
<1>6. CASE LoseAck(d)
  <2>1. /\ exec' = [exec EXCEPT ![d] = Gone] /\ exec[d].phase = "published"
        /\ UNCHANGED <<jobs, inbox, dedup, coord, checks, dropped>>
    BY <1>6 DEF LoseAck, history
  <2>2. TriesCounted' /\ ProbingUnsent'
    BY <1>2, <2>1, ExecStops
  <2>3. SentInv'
    BY <1>1, <1>2, <2>1, SameInbox DEF LossInv, SentInv, AckedStored, PublishedStored, DedupStored
  <2>4. FreeUntried' /\ LaterUnsent'
    BY <2>1 DEF LossInv, CountInv, FreeUntried, LaterUnsent
  <2> QED
    BY <1>0, <2>1, <2>2, <2>3, <2>4, CoverFrame, SettleFrame DEF LossInv, CountInv
<1> QED
  BY <1>3, <1>4, <1>5, <1>6

\* A worker dies, and no delivery of it probes or has published any more.
LEMMA CrashLoss == ASSUME LossInv, NEW w \in Worker, WorkerCrash(w) PROVE LossInv'
<1>0. TypeInv'
  BY TypeStep DEF LossInv, Next, Broken
<1>1. /\ exec' = [d \in Delivery |-> IF exec[d].worker = w THEN Gone ELSE exec[d]]
      /\ UNCHANGED <<jobs, inbox, dedup, coord, checks, dropped>>
  BY DEF WorkerCrash, history
<1>2. NotRun.phase = "none" /\ Gone.phase = "gone"
  BY DEF NotRun, Gone
<1>3. PublishedStored' /\ ProbingUnsent'
  BY <1>1, <1>2, SameInbox DEF LossInv, SentInv, CountInv, PublishedStored, ProbingUnsent
<1>4. AckedStored' /\ DedupStored' /\ FreeUntried' /\ LaterUnsent'
  BY <1>1, SameInbox DEF LossInv, SentInv, CountInv, AckedStored, DedupStored, FreeUntried, LaterUnsent
<1>5. TriesCounted'
  BY <1>1, <1>2 DEF LossInv, CountInv, TriesCounted
<1> QED
  BY <1>0, <1>1, <1>3, <1>4, <1>5, CoverFrame, SettleFrame DEF LossInv, SentInv, CountInv

\* A message that is there changes its phase, and stays there with its items.
LEMMA InboxPhaseLoss ==
    ASSUME LossInv, NEW d \in Delivery, inbox[d].phase # "none", NEW r,
           inbox' = [inbox EXCEPT ![d] = r], r.phase # "none", r.items = inbox[d].items,
           UNCHANGED <<jobs, exec, dedup>>
    PROVE  SentInv' /\ CountInv' /\ ItemsCover'
<1>1. /\ \A e \in Delivery : /\ inbox'[e].phase = "none" <=> inbox[e].phase = "none"
                             /\ inbox'[e].items = inbox[e].items
  BY DEF LossInv, TypeInv, InboxOK
<1>2. \A j : Stored(j)' <=> Stored(j)
  BY <1>1 DEF Stored
<1>3. SentInv'
  BY <1>2 DEF LossInv, SentInv, AckedStored, PublishedStored, DedupStored
<1>4. CountInv'
  BY <1>1 DEF LossInv, CountInv, FreeUntried, TriesCounted, LaterUnsent, ProbingUnsent
<1>5. ItemsCover'
  BY <1>1 DEF LossInv, ItemsCover
<1> QED
  BY <1>3, <1>4, <1>5

\* A step of JetStream.
LEMMA BrokerLoss == ASSUME LossInv, Broker PROVE LossInv'
<1>0. TypeInv'
  BY TypeStep DEF LossInv, Next
<1>1. ASSUME NEW j \in Job, JobAckWait(j) PROVE LossInv'
  <2>1. /\ jobs' = [jobs EXCEPT ![j].phase = Redeliverable(jobs, j)]
        /\ UNCHANGED <<exec, inbox, dedup, coord, checks, dropped>>
    BY <1>1 DEF JobAckWait, history
  <2>2. Redeliverable(jobs, j) \in {"ready", "dead"}
    BY DEF Redeliverable
  <2>3. /\ AckedStored' /\ DedupStored' /\ FreeUntried' /\ LaterUnsent' /\ ItemsCover'
        /\ \A i \in Job : jobs'[i].tries = jobs[i].tries
    BY <2>1, <2>2, JobPhaseLoss
  <2>4. PublishedStored' /\ ProbingUnsent'
    BY <2>1, SameInbox DEF LossInv, SentInv, CountInv, PublishedStored, ProbingUnsent
  <2>5. TriesCounted'
    BY <2>1, <2>3 DEF LossInv, CountInv, TriesCounted, Delivery
  <2> QED
    BY <1>0, <2>1, <2>3, <2>4, <2>5, SettleFrame DEF LossInv, SentInv, CountInv
<1>2. ASSUME NEW d \in Delivery, ResultsAckWait(d) PROVE LossInv'
  <2> DEFINE ph == Redeliverable(inbox, d)
             r == [inbox[d] EXCEPT !.phase = ph]
  <2>1. /\ inbox \in [Delivery -> InboxRec] /\ inbox[d] \in InboxRec /\ inbox[d].phase = "leased"
        /\ ph \in {"ready", "dead"}
    BY <1>2 DEF ResultsAckWait, Redeliverable, LossInv, TypeInv, InboxOK
  <2>2. inbox' = [inbox EXCEPT ![d] = r] /\ UNCHANGED <<jobs, exec, dedup, coord, checks, dropped>>
    BY <1>2, <2>1 DEF ResultsAckWait, history
  <2> HIDE DEF ph
  <2>3. r.phase \in {"ready", "dead"} /\ r.items = inbox[d].items
    BY <2>1, InboxPhase
  <2> HIDE DEF r
  <2>4. SentInv' /\ CountInv' /\ ItemsCover'
    BY <2>1, <2>2, <2>3, InboxPhaseLoss
  <2>5. \A c : Settled(c) => Settled(c)'
    BY <2>2, SettledStays
  <2>6. AckedSettled'
    BY <2>1, <2>2, <2>3, <2>5 DEF LossInv, SettleInv, AckedSettled
  <2>7. Ingesting'
    BY <2>1, <2>2, <2>3, <2>5 DEF LossInv, SettleInv, Ingesting
  <2> QED
    BY <1>0, <2>4, <2>6, <2>7 DEF LossInv, SettleInv
<1>3. ASSUME NEW m \in dedup, WindowEnds(m) PROVE LossInv'
  <2>1. dedup' = dedup \ {m} /\ UNCHANGED <<jobs, exec, inbox, coord, checks, dropped>>
    BY <1>3 DEF WindowEnds, history
  <2>2. SentInv'
    BY <2>1, SameInbox DEF LossInv, SentInv, AckedStored, PublishedStored, DedupStored
  <2> QED
    BY <1>0, <2>1, <2>2, CountFrame, CoverFrame, SettleFrame DEF LossInv
<1> QED
  BY <1>1, <1>2, <1>3, FetchLoss DEF Broker

\* A step of the planner, the clock or nobody.
LEMMA PlanLoss == ASSUME LossInv, Plan \/ PlanFail \/ Tick \/ UNCHANGED vars PROVE LossInv'
<1>0. TypeInv'
  BY TypeStep DEF LossInv, Next, Broken
<1>1. CASE PlanPublish
  <2>1. PICK j \in Job : /\ jobs[j].phase = "free"
                         /\ \E S : Post(j, planner.stage, planner.vantage, S, {})
    BY <1>1 DEF PlanPublish, IsNew
  <2>2. UNCHANGED <<exec, inbox, dedup, coord, checks, dropped>>
    BY <1>1 DEF PlanPublish, history
  <2>3. SentInv' /\ CountInv' /\ ItemsCover'
    BY <2>1, <2>2, PostLoss
  <2> QED
    BY <1>0, <2>2, <2>3, SettleFrame DEF LossInv
<1>2. ASSUME UNCHANGED <<jobs, exec, inbox, dedup, coord, checks, dropped>> PROVE LossInv'
  BY <1>0, <1>2, CountFrame, SentFrame, CoverFrame, SettleFrame DEF LossInv
<1> QED
  BY <1>1, <1>2 DEF Plan, PlanQuery, PlanFail, Tick, vars, history

-----------------------------------------------------------------------------
\* A step of the ingest that leaves the messages alone and either stops or keeps
\* to its message, with what it leaves behind settled.
LEMMA IngestFrame ==
    ASSUME LossInv, TypeInv', UNCHANGED <<jobs, exec, inbox, dedup>>,
           checks \subseteq checks', dropped \subseteq dropped',
           \/ coord'.phase \in {"idle", "down"}
           \/ /\ coord.phase \in {"items", "recompute", "enqueue"} /\ coord'.msg = coord.msg
              /\ \A c \in coord.todo : c \in coord'.todo \/ Settled(c)'
    PROVE  LossInv'
<1>1. SentInv' /\ CountInv' /\ ItemsCover'
  BY SentFrame, CountFrame, CoverFrame DEF LossInv
<1>2. \A c : Settled(c) => Settled(c)'
  BY SettledStays
<1>3. AckedSettled'
  BY <1>2 DEF LossInv, SettleInv, AckedSettled
<1>4. Ingesting'
  BY <1>2 DEF LossInv, SettleInv, Ingesting
<1> QED
  BY <1>1, <1>3, <1>4 DEF LossInv, SettleInv

\* The ways the coordinator's own state changes, message and items to do.
LEMMA CoordFields ==
    ASSUME CoordOK
    PROVE  /\ AfterRecompute.msg = coord.msg /\ AfterRecompute.todo = coord.todo
           /\ [coord EXCEPT !.phase = "items", !.item = None].msg = coord.msg
           /\ [coord EXCEPT !.phase = "items", !.item = None].todo = coord.todo
           /\ IdleCoord.phase = "idle" /\ [IdleCoord EXCEPT !.phase = "down"].phase = "down"
  BY DEF CoordOK, CoordRec, AfterRecompute, IdleCoord

LEMMA IngestLoss ==
    ASSUME LossInv, Ingest \/ (\E c \in coord.todo : InsertFails(c)) \/ RecomputeFails \/ EnqueueFails
                    \/ LoseResultsAck \/ CoordCrash \/ CoordRestart
    PROVE  LossInv'
<1>0. TypeInv' /\ CoordOK /\ coord \in CoordRec
  BY TypeStep DEF LossInv, Next, Broken, TypeInv, CoordOK
<1>1. ASSUME NEW d \in Delivery, FetchResults(d) PROVE LossInv'
  <2> DEFINE r == [inbox[d] EXCEPT !.phase = "leased", !.tries = @ + 1]
             x == [phase |-> "items", msg |-> d, todo |-> inbox[d].items, item |-> None]
  <2>1. /\ inbox \in [Delivery -> InboxRec] /\ inbox[d] \in InboxRec
        /\ inbox[d].phase = "ready" /\ inbox[d].tries < MaxDeliver
    BY <1>1 DEF FetchResults, LossInv, TypeInv, InboxOK
  <2>2. r.phase = "leased" /\ r.items = inbox[d].items
    BY <2>1, InboxFetched
  <2>3. inbox' = [inbox EXCEPT ![d] = r] /\ coord' = x
        /\ UNCHANGED <<jobs, exec, dedup, checks, dropped>>
    BY <1>1, <2>1 DEF FetchResults, history
  <2>4. x.msg = d /\ x.todo = inbox[d].items
    OBVIOUS
  <2> HIDE DEF r, x
  <2>5. SentInv' /\ CountInv' /\ ItemsCover'
    BY <2>1, <2>2, <2>3, InboxPhaseLoss
  <2>6. \A c : Settled(c) => Settled(c)'
    BY <2>3, SettledStays
  <2>7. AckedSettled'
    BY <2>1, <2>2, <2>3, <2>6 DEF LossInv, SettleInv, AckedSettled
  <2>8. Ingesting'
    BY <2>1, <2>2, <2>3, <2>4 DEF Ingesting
  <2> QED
    BY <1>0, <2>5, <2>7, <2>8 DEF LossInv, SettleInv
<1>2. ASSUME NEW c \in coord.todo, InsertCheck(c) \/ SkipDuplicate(c) \/ InsertFails(c) PROVE LossInv'
  <2>1. coord.phase = "items" /\ UNCHANGED <<jobs, exec, inbox, dedup>>
    BY <1>2 DEF InsertCheck, SkipDuplicate, InsertFails
  <2>2. checks \subseteq checks' /\ dropped \subseteq dropped'
    BY <1>2 DEF InsertCheck, SkipDuplicate, InsertFails, history
  <2>3. coord'.msg = coord.msg /\ coord'.todo = coord.todo \ {c}
    BY <1>0, <1>2 DEF InsertCheck, SkipDuplicate, InsertFails, CoordRec
  <2>4. Settled(c)'
    BY <1>2 DEF InsertCheck, SkipDuplicate, InsertFails, Settled, Recorded, history
  <2> QED
    BY <1>0, <2>1, <2>2, <2>3, <2>4, IngestFrame
<1>3. CASE Recompute \/ RecomputeFails \/ EnqueueFails
  <2>1. /\ coord.phase \in {"recompute", "enqueue"} /\ UNCHANGED <<jobs, exec, inbox, dedup>>
        /\ UNCHANGED <<checks, dropped>>
    BY <1>3 DEF Recompute, RecomputeFails, EnqueueFails, history
  <2>2. coord'.msg = coord.msg /\ coord'.todo = coord.todo
    BY <1>0, <1>3, CoordFields DEF Recompute, RecomputeFails, EnqueueFails
  <2> QED
    BY <1>0, <2>1, <2>2, IngestFrame
<1>4. CASE EnqueueL1
  <2>1. PICK j \in Job : /\ jobs[j].phase = "free"
                         /\ Post(j, "L1", Cloud, {coord.item.node}, {coord.item})
    BY <1>4 DEF EnqueueL1, IsNew
  <2>2. /\ coord.phase = "enqueue" /\ coord' = [coord EXCEPT !.phase = "items", !.item = None]
        /\ UNCHANGED <<exec, inbox, dedup, checks, dropped>>
    BY <1>4 DEF EnqueueL1
  <2>3. SentInv' /\ CountInv' /\ ItemsCover'
    BY <2>1, <2>2, PostLoss
  <2>4. coord'.msg = coord.msg /\ coord'.todo = coord.todo
    BY <1>0, <2>2, CoordFields
  <2>5. \A c : Settled(c) => Settled(c)'
    BY <2>2, SettledStays
  <2>6. SettleInv'
    BY <2>2, <2>4, <2>5 DEF LossInv, SettleInv, AckedSettled, Ingesting
  <2> QED
    BY <1>0, <2>3, <2>6 DEF LossInv
<1>5. CASE AckResults
  <2> DEFINE d == coord.msg
             r == [inbox[d] EXCEPT !.phase = "acked"]
  <2>1. /\ coord.phase = "items" /\ coord.todo = {} /\ coord' = IdleCoord
        /\ UNCHANGED <<jobs, exec, dedup, checks, dropped>>
    BY <1>5 DEF AckResults, history
  <2>2. /\ d \in Delivery /\ inbox[d].phase # "none" /\ \A c \in inbox[d].items : Settled(c)
        /\ inbox \in [Delivery -> InboxRec] /\ inbox[d] \in InboxRec
    BY <2>1 DEF LossInv, SettleInv, Ingesting, TypeInv, InboxOK
  <2>3. inbox' = [inbox EXCEPT ![d] = r]
    BY <1>5, <2>2 DEF AckResults
  <2>4. r.phase = "acked" /\ r.items = inbox[d].items
    BY <2>2, InboxPhase
  <2> HIDE DEF d, r
  <2>5. SentInv' /\ CountInv' /\ ItemsCover'
    BY <2>1, <2>2, <2>3, <2>4, InboxPhaseLoss
  <2>6. \A c : Settled(c) => Settled(c)'
    BY <2>1, SettledStays
  <2>7. AckedSettled'
    BY <2>2, <2>3, <2>4, <2>6 DEF LossInv, SettleInv, AckedSettled
  <2>8. Ingesting'
    BY <1>0, <2>1, CoordFields DEF Ingesting
  <2> QED
    BY <1>0, <2>5, <2>7, <2>8 DEF LossInv, SettleInv
<1>6. CASE LoseResultsAck \/ CoordCrash \/ CoordRestart
  <2>1. UNCHANGED <<jobs, exec, inbox, dedup, checks, dropped>>
    BY <1>6 DEF LoseResultsAck, CoordCrash, CoordRestart, history
  <2>2. coord'.phase \in {"idle", "down"}
    BY <1>0, <1>6, CoordFields DEF LoseResultsAck, CoordCrash, CoordRestart
  <2> QED
    BY <1>0, <2>1, <2>2, IngestFrame
<1> QED
  BY <1>1, <1>2, <1>3, <1>4, <1>5, <1>6 DEF Ingest

-----------------------------------------------------------------------------
\* The invariant holds in every execution.
THEOREM LossInvariant == Spec => []LossInv
<1>1. LossInv /\ [Next]_vars => LossInv'
  <2> SUFFICES ASSUME LossInv, [Next]_vars PROVE LossInv'
    OBVIOUS
  <2>1. CASE \E d \in Delivery : Work(d)
    BY <2>1, ProbeLoss, DeliveryEnds DEF Work
  <2>2. CASE Broken
    BY <2>2, PlanLoss, DeliveryEnds, CrashLoss, IngestLoss DEF Broken
  <2> QED
    BY <2>1, <2>2, PlanLoss, BrokerLoss, IngestLoss DEF Next
<1> QED
  BY <1>1, LossInit, PTL DEF Spec

\* A job leaves its stream only when each of its nodes is accounted for (NoResultLost).
THEOREM NothingLost == Spec => []NoResultLost
<1>1. LossInv => NoResultLost
  <2> SUFFICES ASSUME LossInv, NEW j \in Job, jobs[j].phase = "acked", NEW n \in jobs[j].nodes
               PROVE  Accounted(j, n)
    BY DEF NoResultLost
  <2>1. PICK d \in Delivery : d[1] = j /\ inbox[d].phase # "none"
    BY DEF LossInv, SentInv, AckedStored, Stored
  <2>2. PICK c \in inbox[d].items : c.node = n
    BY <2>1 DEF LossInv, ItemsCover
  <2>3. inbox[d].phase \in {"ready", "leased", "dead"} \/ Settled(c)
    BY <2>1 DEF LossInv, TypeInv, InboxOK, InboxRec, SettleInv, AckedSettled
  <2>4. d[2] \in Attempt /\ d = <<j, d[2]>>
    BY <2>1 DEF Delivery
  <2> QED
    BY <2>2, <2>3, <2>4 DEF Accounted, Settled
<1> QED
  BY <1>1, LossInvariant, PTL

-----------------------------------------------------------------------------
(***************************************************************************)
(* The pipeline keeps the ledger of JobLedger: the property IsLedger.      *)
(* What a delivery has found fits its job, since nothing changes what a    *)
(* job asks once it is posted; so does the message made of it, and what    *)
(* the coordinator takes out of the message.                               *)
(***************************************************************************)
\* The results of B are of nodes of j, under its stage and its vantage, one for a node.
Fits(j, B) ==
    /\ \A c \in B : c.node \in jobs[j].nodes /\ c.stage = jobs[j].stage /\ c.vantage = CountsFor(j)
    /\ \A b, c \in B : b.node = c.node => b = c

OutFits ==
    \A d \in Delivery : exec[d].phase = "probing" =>
        Fits(d[1], exec[d].out) /\ VantageOf(exec[d].worker) = CountsFor(d[1])
InboxFits == \A d \in Delivery : inbox[d].phase # "none" => Fits(d[1], inbox[d].items)

\* What the coordinator has yet to do is in its message, and it follows up passed L0s.
TodoFits ==
    /\ coord.phase \in {"items", "recompute", "enqueue"} => coord.todo \subseteq inbox[coord.msg].items
    /\ coord.phase = "enqueue" => PassedL0(coord.item)

\* The planner has no L1 job in hand for a node of the TCP family.
DialledFirst == planner.stage = "L1" => planner.todo \cap TcpFamily = {}

\* Only validations count for a vantage other than the cloud.
RowsCloud == \A c \in checks : c.stage # "VAL" => c.vantage = Cloud

OriginInv == OutFits /\ InboxFits /\ TodoFits /\ DialledFirst /\ RowsCloud

LedgerInv == LossInv /\ PlanInv /\ FollowInv /\ OriginInv

-----------------------------------------------------------------------------
\* Jobs that are asked go on to ask the same.
JobsKeep ==
    \A j \in Job : jobs[j].phase # "free" =>
        /\ jobs'[j].stage = jobs[j].stage /\ jobs'[j].vantage = jobs[j].vantage
        /\ jobs'[j].nodes = jobs[j].nodes

\* No job is posted.
JobsSame ==
    \A j \in Job :
        /\ jobs'[j].stage = jobs[j].stage /\ jobs'[j].vantage = jobs[j].vantage
        /\ jobs'[j].nodes = jobs[j].nodes /\ jobs'[j].cause = jobs[j].cause
        /\ jobs'[j].phase = "free" <=> jobs[j].phase = "free"

\* No message is added and none changes what it holds.
InboxSame ==
    \A d \in Delivery :
        /\ inbox'[d].phase = "none" <=> inbox[d].phase = "none"
        /\ inbox'[d].items = inbox[d].items

LEMMA OriginInit == Init => OriginInv
  BY DEF Init, OriginInv, OutFits, InboxFits, TodoFits, DialledFirst, RowsCloud,
         NotRun, IdleCoord, IdlePlan

\* A delivery and a message belong to a job that was posted.
LEMMA OfPosted ==
    ASSUME LossInv, NEW d \in Delivery
    PROVE  /\ d[1] \in Job
           /\ exec[d].phase \in {"probing", "published"} => jobs[d[1]].phase # "free"
           /\ inbox[d].phase # "none" => jobs[d[1]].phase # "free"
<1>1. d[1] \in Job /\ d[2] \in Nat /\ d[2] > 0
  BY DEF Delivery, Attempt
<1> QED
  BY <1>1 DEF LossInv, CountInv, FreeUntried, TriesCounted, LaterUnsent

\* Results that fit go on to fit.
LEMMA FitFrame ==
    ASSUME LossInv, OutFits, InboxFits, JobsKeep,
           \A d \in Delivery : exec'[d].phase = "probing" => exec'[d] = exec[d],
           \A d \in Delivery : inbox'[d].phase # "none" =>
                inbox[d].phase # "none" /\ inbox'[d].items = inbox[d].items
    PROVE  OutFits' /\ InboxFits'
<1>1. ASSUME NEW d \in Delivery, exec'[d].phase = "probing"
      PROVE  Fits(d[1], exec[d].out)' /\ VantageOf(exec[d].worker)' = CountsFor(d[1])'
  BY <1>1, OfPosted DEF OutFits, Fits, CountsFor, JobsKeep, VantageOf
<1>2. ASSUME NEW d \in Delivery, inbox'[d].phase # "none"
      PROVE  Fits(d[1], inbox[d].items)'
  BY <1>2, OfPosted DEF InboxFits, Fits, CountsFor, JobsKeep
<1> QED
  BY <1>1, <1>2 DEF OutFits, InboxFits

LEMMA SameKeep == ASSUME JobsSame PROVE JobsKeep
  BY DEF JobsSame, JobsKeep

\* The ledger is what it was when nothing was posted, published or acked.
LEMMA AskedSame == ASSUME JobsSame PROVE Asked' = Asked
  BY DEF JobsSame, Asked, Asking, CountsFor

LEMMA AnsweredSame == ASSUME InboxSame PROVE Answered' = Answered
  BY DEF InboxSame, Answered

\* The step of the ledger that a step of the pipeline is.
LedgerStep == [Ledger!Next]_(Ledger!ledger)

LEMMA QuietLedger ==
    ASSUME JobsSame, Closed' = Closed, InboxSame, UNCHANGED checks PROVE LedgerStep
  BY AskedSame, AnsweredSame DEF LedgerStep, Ledger!ledger

LEMMA NoJobs == ASSUME UNCHANGED jobs PROVE JobsSame /\ Closed' = Closed
  BY DEF JobsSame, Closed

LEMMA NoInbox == ASSUME UNCHANGED inbox PROVE InboxSame
  BY DEF InboxSame

\* A posted job changes its phase.
LEMMA PhaseSame ==
    ASSUME TypeInv, NEW j \in Job, jobs[j].phase # "free",
           NEW ph \in {"ready", "leased", "acked", "dead"},
           jobs' = [jobs EXCEPT ![j].phase = ph]
    PROVE  /\ JobsSame
           /\ ph = "acked" => Closed' = Closed \cup {j}
           /\ ph # "acked" /\ jobs[j].phase # "acked" => Closed' = Closed
<1> DEFINE r == [jobs[j] EXCEPT !.phase = ph]
<1>1. jobs' = [jobs EXCEPT ![j] = r] /\ jobs[j] \in JobRec /\ jobs \in [Job -> JobRec]
  BY DEF TypeInv, JobsOK
<1>2. /\ r.phase = ph /\ r.stage = jobs[j].stage /\ r.vantage = jobs[j].vantage
      /\ r.nodes = jobs[j].nodes /\ r.cause = jobs[j].cause
  BY <1>1 DEF JobRec
<1> HIDE DEF r
<1> QED
  BY <1>1, <1>2 DEF JobsSame, Closed

\* A message that is there changes its phase.
LEMMA MessagePhase ==
    ASSUME TypeInv, NEW d \in Delivery, inbox[d].phase # "none",
           NEW ph \in {"ready", "leased", "acked", "dead"},
           inbox' = [inbox EXCEPT ![d].phase = ph]
    PROVE  InboxSame
<1> DEFINE r == [inbox[d] EXCEPT !.phase = ph]
<1>1. inbox' = [inbox EXCEPT ![d] = r] /\ inbox[d] \in InboxRec /\ inbox \in [Delivery -> InboxRec]
  BY DEF TypeInv, InboxOK
<1>2. r.phase = ph /\ r.items = inbox[d].items
  BY <1>1, InboxPhase
<1> HIDE DEF r
<1> QED
  BY <1>1, <1>2 DEF InboxSame

\* The coordinator stays at its message, which stays as it is.
LEMMA TodoFrame ==
    ASSUME LossInv, TodoFits, UNCHANGED coord,
           \A d \in Delivery : inbox[d].phase # "none" => inbox'[d].items = inbox[d].items
    PROVE  TodoFits'
<1>1. coord.phase \in {"items", "recompute", "enqueue"} =>
         coord.msg \in Delivery /\ inbox[coord.msg].phase # "none"
  BY DEF LossInv, SettleInv, Ingesting
<1>2. PassedL0(coord.item)' <=> PassedL0(coord.item)
  BY Zenon DEF PassedL0
<1> QED
  BY <1>1, <1>2 DEF TodoFits

\* The coordinator goes on with its message, or leaves it.
LEMMA TodoGoesOn ==
    ASSUME LossInv, TodoFits, UNCHANGED inbox,
           \/ coord'.phase \in {"idle", "down"}
           \/ /\ coord.phase \in {"items", "recompute", "enqueue"}
              /\ coord'.msg = coord.msg /\ coord'.todo \subseteq coord.todo
              /\ coord'.phase = "enqueue" => PassedL0(coord.item)'
    PROVE  TodoFits'
<1>1. coord'.phase \in {"items", "recompute", "enqueue"} => coord'.todo \subseteq inbox'[coord'.msg].items
  BY DEF TodoFits
<1>2. coord'.phase = "enqueue" => PassedL0(coord.item)'
  OBVIOUS
<1> QED
  BY <1>1, <1>2 DEF TodoFits

\* Steps that neither post, publish nor insert.
LEMMA OriginFrame ==
    ASSUME LossInv, OriginInv, JobsSame, InboxSame, TodoFits', DialledFirst', UNCHANGED checks,
           \A d \in Delivery : exec'[d].phase = "probing" => exec'[d] = exec[d]
    PROVE  OriginInv'
<1>1. OutFits' /\ InboxFits'
  BY SameKeep, FitFrame DEF OriginInv, InboxSame
<1>2. RowsCloud'
  BY DEF OriginInv, RowsCloud
<1> QED
  BY <1>1, <1>2 DEF OriginInv

-----------------------------------------------------------------------------
\* The planner takes L1 nodes from outside the TCP family only.
LEMMA PlanDialled ==
    ASSUME TypeInv, DialledFirst, Plan \/ PlanFail \/ CoordCrash \/ UNCHANGED planner
    PROVE  DialledFirst'
<1>0. planner \in PlanRec
  BY DEF TypeInv, PlannerOK
<1>1. ASSUME NEW s \in Stage, NEW v \in Vantage, PlanQuery(s, v) PROVE DialledFirst'
  <2> DEFINE found == Selected(s, v)
  <2>1. PICK top : planner' = [stage |-> s, vantage |-> v, todo |-> found, top |-> top]
    BY <1>1 DEF PlanQuery
  <2>2. s = "L1" => found \cap TcpFamily = {}
    BY DEF Selected
  <2> HIDE DEF found
  <2> QED
    BY <2>1, <2>2 DEF DialledFirst
<1>2. ASSUME NEW T, T \subseteq planner.todo, planner' = PlanAfter(T) PROVE DialledFirst'
  <2>1. CASE planner' = [stage |-> "L2", vantage |-> planner.vantage, todo |-> planner.top, top |-> {}]
    BY <2>1 DEF DialledFirst
  <2>2. CASE planner' = IdlePlan
    BY <2>2 DEF DialledFirst, IdlePlan
  <2>3. CASE planner' = [planner EXCEPT !.todo = T]
    <3>1. planner'.stage = planner.stage /\ planner'.todo = T
      BY <1>0, <2>3 DEF PlanRec
    <3> QED
      BY <1>2, <3>1 DEF DialledFirst
  <2> QED
    BY <1>2, <2>1, <2>2, <2>3 DEF PlanAfter
<1>3. CASE CoordCrash
  BY <1>3 DEF CoordCrash, DialledFirst, IdlePlan
<1>4. CASE PlanPublish
  BY <1>2, <1>4 DEF PlanPublish
<1>5. CASE PlanFail
  BY <1>2, <1>5 DEF PlanFail
<1>6. CASE UNCHANGED planner
  BY <1>6 DEF DialledFirst
<1> QED
  BY <1>1, <1>3, <1>4, <1>5, <1>6 DEF Plan

-----------------------------------------------------------------------------
\* A new job is entered in the ledger when it is earned.
LEMMA PostLedger ==
    ASSUME LedgerInv, NEW j \in Job, IsNew(j), NEW s, NEW v, NEW S, NEW cause,
           Post(j, s, v, S, cause), UNCHANGED <<inbox, exec, checks>>,
           s = "L1" => \A n \in S \cap TcpFamily : \E c \in cause : c.node = n,
           s \in {"L2", "VAL"} => \A n \in S : Earned(n),
           \A c \in cause : /\ c \in checks /\ PassedL0(c) /\ ~Caused(c)
                            /\ s = "L1" /\ S = {c.node}
    PROVE  OutFits' /\ InboxFits' /\ RowsCloud' /\ LedgerStep
<1> DEFINE p == [phase |-> "ready", stage |-> s, vantage |-> v, nodes |-> S,
                 tries |-> 0, cause |-> cause]
           r == [job |-> j, stage |-> s, vantage |-> IF s = "VAL" THEN v ELSE Cloud,
                 nodes |-> S, cause |-> cause]
<1>1. /\ jobs' = [jobs EXCEPT ![j] = p] /\ jobs \in [Job -> JobRec] /\ jobs[j].phase = "free"
  BY DEF Post, IsNew, LedgerInv, LossInv, TypeInv, JobsOK
<1>2. p.phase = "ready" /\ p.stage = s /\ p.vantage = v /\ p.nodes = S /\ p.cause = cause
  OBVIOUS
<1>3. r.job = j /\ r.stage = s /\ r.nodes = S /\ r.cause = cause
  OBVIOUS
<1>4. Asking(j)' = r
  BY <1>1 DEF Asking, CountsFor
<1> HIDE DEF p, r
<1>5. \A i \in Job : i # j => jobs'[i] = jobs[i]
  BY <1>1
<1>6. jobs'[j].phase = "ready" /\ jobs'[j] = p
  BY <1>1, <1>2
<1>7. JobsKeep
  BY <1>1, <1>5 DEF JobsKeep
<1>8. OutFits' /\ InboxFits'
  BY <1>7, FitFrame DEF LedgerInv, OriginInv
<1>9. RowsCloud'
  BY DEF LedgerInv, OriginInv, RowsCloud
<1>10. Asked' = Asked \cup {r}
  <2>1. Asked' = {Asking(i)' : i \in {i \in Job : jobs'[i].phase # "free"}}
    BY DEF Asked
  <2>2. \A i \in Job : i # j => Asking(i)' = Asking(i)
    BY <1>5 DEF Asking, CountsFor
  <2> QED
    BY <1>1, <1>4, <1>5, <1>6, <2>1, <2>2 DEF Asked
<1>11. \A q \in Asked : q.job # j
  BY <1>1 DEF Asked, Asking
<1>12. Ledger!CauseFits(r)
  <2> SUFFICES ASSUME NEW c \in r.cause
               PROVE  /\ c \in checks /\ c.stage = "L0" /\ c.ok
                      /\ r.stage = "L1" /\ r.nodes = {c.node}
                      /\ \A q \in Asked : c \notin q.cause
    BY DEF Ledger!CauseFits
  <2>1. c \in checks /\ PassedL0(c) /\ ~Caused(c) /\ r.stage = "L1" /\ r.nodes = {c.node}
    BY <1>3
  <2>2. \A q \in Asked : c \notin q.cause
    BY <2>1 DEF Asked, Asking, Caused
  <2> QED
    BY <2>1, <2>2, Zenon DEF PassedL0
<1>13. Ledger!Earned(r)
  <2>1. r.stage = "L1" => \A n \in r.nodes \cap TcpFamily : \E c \in r.cause : c.node = n
    BY <1>3
  <2>2. ASSUME r.stage \in {"L2", "VAL"}, NEW n \in r.nodes
        PROVE  \E c \in checks : c.node = n /\ c.stage = "L1" /\ c.ok
    <3>1. Earned(n)
      BY <1>3, <2>2
    <3> QED
      BY <3>1, Zenon DEF Earned, L1Passes, OfNode
  <2> QED
    BY <2>1, <2>2 DEF Ledger!Earned
<1>14. UNCHANGED <<Answered, Closed, checks>>
  <2>1. Closed' = Closed
    BY <1>1, <1>5, <1>6 DEF Closed
  <2>2. Answered' = Answered
    BY NoInbox, AnsweredSame
  <2> QED
    BY <2>1, <2>2
<1>15. Ledger!Ask
  BY <1>3, <1>10, <1>11, <1>12, <1>13, <1>14 DEF Ledger!Ask
<1> QED
  BY <1>8, <1>9, <1>15 DEF LedgerStep, Ledger!Next

\* The planner's jobs are earned and have no cause.
LEMMA PlanLedger ==
    ASSUME LedgerInv, Plan \/ PlanFail PROVE OriginInv' /\ LedgerStep
<1>0. TypeInv /\ LossInv /\ OriginInv
  BY DEF LedgerInv, LossInv
<1>1. DialledFirst'
  BY <1>0, PlanDialled DEF OriginInv
<1>2. TodoFits'
  BY <1>0, TodoFrame DEF OriginInv, Plan, PlanQuery, PlanPublish, PlanFail
<1>3. CASE PlanPublish
  <2>1. PICK j \in Job, S \in SUBSET planner.todo :
           IsNew(j) /\ Post(j, planner.stage, planner.vantage, S, {})
    BY <1>3 DEF PlanPublish
  <2>2. UNCHANGED <<inbox, exec, checks>>
    BY <1>3 DEF PlanPublish
  <2>3. planner.stage = "L1" => S \cap TcpFamily = {}
    BY <1>0 DEF OriginInv, DialledFirst
  <2>4. planner.stage \in {"L2", "VAL"} => \A n \in S : Earned(n)
    BY DEF LedgerInv, PlanInv, PlannedEarned
  <2>5. OutFits' /\ InboxFits' /\ RowsCloud' /\ LedgerStep
    BY <2>1, <2>2, <2>3, <2>4, PostLedger
  <2> QED
    BY <1>1, <1>2, <2>5 DEF OriginInv
<1>4. CASE UNCHANGED jobs /\ (PlanFail \/ \E s \in Stage, v \in Vantage : PlanQuery(s, v))
  <2>1. UNCHANGED <<jobs, inbox, exec, checks>>
    BY <1>4 DEF PlanFail, PlanQuery
  <2>2. JobsSame /\ Closed' = Closed /\ InboxSame
    BY <2>1, NoJobs, NoInbox
  <2> QED
    BY <1>0, <1>1, <1>2, <2>1, <2>2, OriginFrame, QuietLedger
<1> QED
  BY <1>3, <1>4 DEF Plan, PlanFail, PlanQuery

\* JetStream changes phases only, and hands a job to a worker of its vantage.
LEMMA BrokerLedger == ASSUME LedgerInv, Broker PROVE OriginInv' /\ LedgerStep
<1>0. TypeInv /\ LossInv /\ OriginInv /\ UNCHANGED <<planner, checks>>
  BY DEF LedgerInv, LossInv, Broker, Fetch, JobAckWait, ResultsAckWait, WindowEnds
<1>1. DialledFirst'
  BY <1>0, PlanDialled DEF OriginInv
<1>2. ASSUME NEW w \in Worker, NEW j \in Job, Fetch(w, j) PROVE OriginInv' /\ LedgerStep
  <2> DEFINE r == [jobs[j] EXCEPT !.phase = "leased", !.tries = @ + 1]
             d == <<j, jobs[j].tries + 1>>
             x == [phase |-> "probing", worker |-> w, out |-> {}]
  <2>1. /\ jobs \in [Job -> JobRec] /\ jobs[j] \in JobRec /\ jobs[j].phase = "ready"
        /\ exec \in [Delivery -> ExecRec] /\ jobs' = [jobs EXCEPT ![j] = r]
        /\ exec' = [exec EXCEPT ![d] = x] /\ UNCHANGED <<inbox, coord>> /\ Serves(w, j)
    BY <1>0, <1>2 DEF Fetch, TypeInv, JobsOK, ExecOK
  <2>2. /\ r.phase = "leased" /\ r.stage = jobs[j].stage /\ r.vantage = jobs[j].vantage
        /\ r.nodes = jobs[j].nodes /\ r.cause = jobs[j].cause
    BY <2>1 DEF JobRec
  <2>3. x.phase = "probing" /\ x.out = {} /\ x.worker = w /\ d[1] = j
    OBVIOUS
  <2> HIDE DEF r, x, d
  <2>4. JobsSame /\ Closed' = Closed /\ InboxSame
    BY <2>1, <2>2, NoInbox DEF JobsSame, Closed
  <2>5. VantageOf(w) = CountsFor(j)
    BY <2>1 DEF Serves, VantageOf, CountsFor
  <2>6. CountsFor(j)' = CountsFor(j)
    BY <2>4 DEF JobsSame, CountsFor
  <2>7. \A e \in Delivery : exec'[e] = IF e = d THEN x ELSE exec[e]
    BY <2>1
  <2>8. InboxFits'
    BY <1>0, <2>1, <2>4, OfPosted DEF OriginInv, InboxFits, Fits, CountsFor, JobsSame
  <2>9. OutFits'
    <3> SUFFICES ASSUME NEW e \in Delivery, exec'[e].phase = "probing"
                 PROVE  Fits(e[1], exec[e].out)' /\ VantageOf(exec[e].worker)' = CountsFor(e[1])'
      BY DEF OutFits
    <3>1. CASE e = d
      BY <2>3, <2>5, <2>6, <2>7, <3>1 DEF Fits, VantageOf
    <3>2. CASE e # d
      <4>1. exec'[e] = exec[e]
        BY <2>7, <3>2
      <4> QED
        BY <1>0, <2>4, <4>1, OfPosted DEF OriginInv, OutFits, Fits, CountsFor, JobsSame, VantageOf
    <3> QED
      BY <3>1, <3>2
  <2>10. TodoFits' /\ RowsCloud'
    BY <1>0, <2>1, TodoFrame DEF OriginInv, RowsCloud
  <2> QED
    BY <1>0, <1>1, <2>4, <2>8, <2>9, <2>10, QuietLedger DEF OriginInv
<1>3. ASSUME NEW j \in Job, JobAckWait(j) PROVE OriginInv' /\ LedgerStep
  <2>1. /\ jobs' = [jobs EXCEPT ![j].phase = Redeliverable(jobs, j)] /\ jobs[j].phase = "leased"
        /\ UNCHANGED <<inbox, exec, coord>> /\ Redeliverable(jobs, j) \in {"ready", "dead"}
    BY <1>3 DEF JobAckWait, Redeliverable
  <2>2. JobsSame /\ Closed' = Closed /\ InboxSame
    BY <1>0, <2>1, PhaseSame, NoInbox
  <2> QED
    BY <1>0, <1>1, <2>1, <2>2, OriginFrame, QuietLedger, TodoFrame DEF OriginInv
<1>4. ASSUME NEW d \in Delivery, ResultsAckWait(d) PROVE OriginInv' /\ LedgerStep
  <2>1. /\ inbox' = [inbox EXCEPT ![d].phase = Redeliverable(inbox, d)] /\ inbox[d].phase = "leased"
        /\ UNCHANGED <<jobs, exec, coord>> /\ Redeliverable(inbox, d) \in {"ready", "dead"}
    BY <1>4 DEF ResultsAckWait, Redeliverable
  <2>2. InboxSame
    BY <1>0, <2>1, MessagePhase
  <2>3. JobsSame /\ Closed' = Closed
    BY <2>1, NoJobs
  <2> QED
    BY <1>0, <1>1, <2>1, <2>2, <2>3, OriginFrame, QuietLedger, TodoFrame DEF OriginInv, InboxSame
<1>5. ASSUME NEW m \in dedup, WindowEnds(m) PROVE OriginInv' /\ LedgerStep
  <2>1. UNCHANGED <<jobs, inbox, exec, coord>>
    BY <1>5 DEF WindowEnds
  <2> QED
    BY <1>0, <1>1, <2>1, NoJobs, NoInbox, OriginFrame, QuietLedger, TodoFrame DEF OriginInv
<1> QED
  BY <1>2, <1>3, <1>4, <1>5 DEF Broker

-----------------------------------------------------------------------------
\* A probe adds the result of a node that had none.
LEMMA ProbeLedger ==
    ASSUME LedgerInv, NEW d \in Delivery, NEW n \in Node, NEW ok \in BOOLEAN, Probe(d, n, ok)
    PROVE  OriginInv' /\ LedgerStep
<1> DEFINE c == [node |-> n, vantage |-> VantageOf(exec[d].worker),
                 stage |-> jobs[d[1]].stage, ok |-> ok, ts |-> now]
           x == [exec[d] EXCEPT !.out = @ \cup {c}]
<1>1. /\ exec \in [Delivery -> ExecRec] /\ exec[d] \in ExecRec /\ exec[d].phase = "probing"
      /\ n \in jobs[d[1]].nodes \ Probed(d) /\ UNCHANGED <<jobs, inbox, coord, planner, checks>>
      /\ LossInv /\ OriginInv /\ TypeInv
  BY DEF Probe, LedgerInv, LossInv, TypeInv, ExecOK
<1>2. exec' = [exec EXCEPT ![d] = x]
  BY <1>1 DEF Probe
<1>3. x.phase = "probing" /\ x.worker = exec[d].worker /\ x.out = exec[d].out \cup {c}
  BY <1>1 DEF ExecRec
<1>4. c.node = n /\ c.vantage = VantageOf(exec[d].worker) /\ c.stage = jobs[d[1]].stage
  OBVIOUS
<1> HIDE DEF c, x
<1>5. Fits(d[1], exec[d].out) /\ VantageOf(exec[d].worker) = CountsFor(d[1])
  BY <1>1 DEF OriginInv, OutFits
<1>6. Fits(d[1], x.out)
  BY <1>1, <1>3, <1>4, <1>5 DEF Fits, Probed
<1>7. OutFits'
  <2> SUFFICES ASSUME NEW e \in Delivery, exec'[e].phase = "probing"
               PROVE  Fits(e[1], exec[e].out)' /\ VantageOf(exec[e].worker)' = CountsFor(e[1])'
    BY DEF OutFits
  <2>1. CASE e = d
    BY <1>1, <1>2, <1>3, <1>5, <1>6, <2>1 DEF Fits, CountsFor, VantageOf
  <2>2. CASE e # d
    BY <1>1, <1>2, <2>2 DEF OriginInv, OutFits, Fits, CountsFor, VantageOf
  <2> QED
    BY <2>1, <2>2
<1>8. InboxFits' /\ RowsCloud' /\ DialledFirst'
  BY <1>1 DEF OriginInv, InboxFits, Fits, CountsFor, RowsCloud, DialledFirst
<1>9. TodoFits'
  BY <1>1, TodoFrame DEF OriginInv
<1> QED
  BY <1>1, <1>7, <1>8, <1>9, NoJobs, NoInbox, QuietLedger DEF OriginInv

\* RESULTS takes the message: it answers its job.
LEMMA AnswerLedger ==
    ASSUME LedgerInv, NEW d \in Delivery, AllProbed(d), Accept(d), MsgId(d) \notin dedup,
           JobsSame, Closed' = Closed, UNCHANGED checks
    PROVE  InboxFits' /\ LedgerStep
<1> DEFINE m == [phase |-> "ready", items |-> exec[d].out, tries |-> 0]
           a == [job |-> d[1], batch |-> exec[d].out]
           r == Asking(d[1])
<1>1. /\ LossInv /\ OriginInv /\ exec[d].phase = "probing" /\ inbox[d].phase = "none"
      /\ inbox \in [Delivery -> InboxRec] /\ exec[d].out \in SUBSET Check
  BY DEF LedgerInv, LossInv, TypeInv, InboxOK, ExecOK, ExecRec, CountInv, ProbingUnsent, AllProbed
<1>2. inbox' = [inbox EXCEPT ![d] = m] /\ m.phase = "ready" /\ m.items = exec[d].out
  BY DEF Accept
<1>3. r.job = d[1] /\ r.stage = jobs[d[1]].stage /\ r.vantage = CountsFor(d[1]) /\ r.nodes = jobs[d[1]].nodes
  BY DEF Asking
<1>4. a.job = d[1] /\ a.batch = exec[d].out
  OBVIOUS
<1>5. d[1] \in Job /\ jobs[d[1]].phase # "free"
  BY <1>1, OfPosted
<1>6. r \in Asked
  BY <1>5 DEF Asked
<1> HIDE DEF m, r
<1>7. \A e \in Delivery : inbox'[e] = IF e = d THEN m ELSE inbox[e]
  BY <1>1, <1>2
<1>8. Fits(d[1], exec[d].out)
  BY <1>1 DEF OriginInv, OutFits
<1>9. InboxFits'
  <2> SUFFICES ASSUME NEW e \in Delivery, inbox'[e].phase # "none" PROVE Fits(e[1], inbox[e].items)'
    BY DEF InboxFits
  <2>1. Fits(e[1], inbox'[e].items)
    BY <1>1, <1>2, <1>7, <1>8 DEF OriginInv, InboxFits
  <2>2. e[1] \in Job
    BY <1>1, OfPosted
  <2> QED
    BY <2>1, <2>2 DEF Fits, JobsSame, CountsFor
<1>10. Answered' = Answered \cup {a}
  <2>1. Answered' = {[job |-> e[1], batch |-> inbox'[e].items] : e \in {e \in Delivery : inbox'[e].phase # "none"}}
    BY DEF Answered
  <2>2. \A e \in Delivery : inbox'[e].phase # "none" <=> (e = d \/ inbox[e].phase # "none")
    BY <1>2, <1>7
  <2>3. \A e \in Delivery : e # d => inbox'[e].items = inbox[e].items
    BY <1>7
  <2>4. inbox'[d].items = exec[d].out
    BY <1>2, <1>7
  <2> QED
    BY <1>1, <2>1, <2>2, <2>3, <2>4 DEF Answered
<1>11. Ledger!Answers(r, a.batch)
  <2>1. {c.node : c \in exec[d].out} = r.nodes
    BY <1>3 DEF AllProbed, Probed
  <2> QED
    BY <1>1, <1>3, <1>4, <1>8, <2>1 DEF Ledger!Answers, Fits
<1>12. Ledger!Answer
  BY <1>3, <1>4, <1>6, <1>10, <1>11, AskedSame DEF Ledger!Answer
<1> QED
  BY <1>9, <1>12 DEF LedgerStep, Ledger!Next

\* What a publish does to the ledger, whether RESULTS takes the message or not.
LEMMA PublishLedger ==
    ASSUME LedgerInv, NEW d \in Delivery, AllProbed(d), Accept(d) \/ UNCHANGED <<inbox, dedup>>,
           JobsSame, Closed' = Closed, UNCHANGED <<checks, coord, planner>>,
           NEW x, exec' = [exec EXCEPT ![d] = x], x.phase # "probing"
    PROVE  OriginInv' /\ LedgerStep
<1>1. LossInv /\ OriginInv /\ TypeInv /\ exec \in [Delivery -> ExecRec]
  BY DEF LedgerInv, LossInv, TypeInv, ExecOK
<1>2. \A e \in Delivery : exec'[e].phase = "probing" => exec'[e] = exec[e]
  BY <1>1
<1>3. DialledFirst' /\ RowsCloud'
  BY <1>1 DEF OriginInv, DialledFirst, RowsCloud
<1>4. CASE Accept(d) /\ MsgId(d) \notin dedup
  <2>1. InboxFits' /\ LedgerStep
    BY <1>4, AnswerLedger
  <2>2. OutFits'
    <3>1. ASSUME NEW e \in Delivery, exec'[e].phase = "probing"
          PROVE  Fits(e[1], exec[e].out)' /\ VantageOf(exec[e].worker)' = CountsFor(e[1])'
      BY <1>1, <1>2, <3>1, OfPosted DEF OriginInv, OutFits, Fits, CountsFor, JobsSame, VantageOf
    <3> QED
      BY <3>1 DEF OutFits
  <2>3. inbox[d].phase = "none" /\ \A e \in Delivery \ {d} : inbox'[e] = inbox[e]
    BY <1>1, AcceptLoss DEF LossInv, CountInv, ProbingUnsent, AllProbed, Accept, TypeInv, InboxOK
  <2>4. TodoFits'
    BY <1>1, <2>3, TodoFrame DEF OriginInv
  <2> QED
    BY <1>3, <2>1, <2>2, <2>4 DEF OriginInv
<1>5. CASE UNCHANGED <<inbox, dedup>>
  <2>1. TodoFits' /\ InboxSame
    BY <1>1, <1>5, TodoFrame, NoInbox DEF OriginInv
  <2> QED
    BY <1>1, <1>2, <1>3, <2>1, OriginFrame, QuietLedger
<1> QED
  BY <1>4, <1>5 DEF Accept

\* The end of a delivery: it publishes, acks or is cut short.
LEMMA EndLedger ==
    ASSUME LedgerInv, NEW d \in Delivery, PublishResults(d) \/ PublishFails(d) \/ AckJob(d) \/ LoseAck(d)
    PROVE  OriginInv' /\ LedgerStep
<1>1. /\ LossInv /\ OriginInv /\ TypeInv /\ UNCHANGED <<checks, coord, planner>>
      /\ d[1] \in Job /\ exec \in [Delivery -> ExecRec] /\ exec[d] \in ExecRec
  BY DEF LedgerInv, LossInv, TypeInv, ExecOK, Delivery, PublishResults, PublishFails, AckJob, LoseAck
<1>2. Gone.phase = "gone"
  BY DEF Gone
<1>3. CASE PublishResults(d)
  <2> DEFINE x == [exec[d] EXCEPT !.phase = "published"]
  <2>1. /\ exec' = [exec EXCEPT ![d] = x] /\ AllProbed(d) /\ Accept(d) /\ JobsSame /\ Closed' = Closed
    BY <1>1, <1>3, NoJobs DEF PublishResults
  <2>2. x.phase = "published"
    BY <1>1, ExecPhase
  <2> HIDE DEF x
  <2> QED
    BY <1>1, <2>1, <2>2, PublishLedger
<1>4. CASE PublishFails(d)
  <2>1. /\ exec' = [exec EXCEPT ![d] = Gone] /\ AllProbed(d) /\ (Accept(d) \/ UNCHANGED <<inbox, dedup>>)
    BY <1>4 DEF PublishFails
  <2>2. JobsSame /\ Closed' = Closed
    <3>1. CASE UNCHANGED jobs
      BY <3>1, NoJobs
    <3>2. CASE jobs[d[1]].phase = "leased" /\ jobs' = [jobs EXCEPT ![d[1]].phase = Redeliverable(jobs, d[1])]
      <4>1. Redeliverable(jobs, d[1]) \in {"ready", "dead"}
        BY DEF Redeliverable
      <4> QED
        BY <1>1, <3>2, <4>1, PhaseSame
    <3> QED
      BY <1>4, <3>1, <3>2 DEF PublishFails
  <2> QED
    BY <1>1, <1>2, <2>1, <2>2, PublishLedger
<1>5. CASE AckJob(d) \/ LoseAck(d)
  <2>1. exec' = [exec EXCEPT ![d] = Gone] /\ exec[d].phase = "published" /\ UNCHANGED inbox
    BY <1>5 DEF AckJob, LoseAck
  <2>2. \A e \in Delivery : exec'[e].phase = "probing" => exec'[e] = exec[e]
    BY <1>1, <1>2, <2>1
  <2>3. TodoFits' /\ InboxSame /\ DialledFirst'
    BY <1>1, <2>1, TodoFrame, NoInbox DEF OriginInv, DialledFirst
  <2>4. JobsSame /\ (Closed' = Closed \/ Closed' = Closed \cup {d[1]})
    <3>1. CASE LoseAck(d)
      BY <3>1, NoJobs DEF LoseAck
    <3>2. CASE AckJob(d)
      BY <1>1, <2>1, <3>2, OfPosted, PhaseSame DEF AckJob
    <3> QED
      BY <1>5, <3>1, <3>2
  <2>5. OriginInv'
    BY <1>1, <2>2, <2>3, <2>4, OriginFrame
  <2>6. CASE Closed' = Closed
    BY <1>1, <2>3, <2>4, <2>5, <2>6, QuietLedger
  <2>7. CASE Closed' = Closed \cup {d[1]}
    <3>1. PICK e \in Delivery : e[1] = d[1] /\ inbox[e].phase # "none"
      BY <1>1, <2>1 DEF LossInv, SentInv, PublishedStored, Stored
    <3> DEFINE a == [job |-> e[1], batch |-> inbox[e].items]
    <3>2. a \in Answered /\ a.job = d[1]
      BY <3>1 DEF Answered
    <3> HIDE DEF a
    <3>3. Ledger!Close
      BY <1>1, <2>3, <2>4, <2>7, <3>2, AskedSame, AnsweredSame DEF Ledger!Close
    <3> QED
      BY <2>5, <3>3 DEF LedgerStep, Ledger!Next
  <2> QED
    BY <2>4, <2>6, <2>7
<1> QED
  BY <1>3, <1>4, <1>5

\* A worker dies: what it had not published is gone.
LEMMA CrashLedger == ASSUME LedgerInv, NEW w \in Worker, WorkerCrash(w) PROVE OriginInv' /\ LedgerStep
<1>1. /\ LossInv /\ OriginInv /\ UNCHANGED <<jobs, inbox, checks, coord, planner>>
      /\ exec' = [d \in Delivery |-> IF exec[d].worker = w THEN Gone ELSE exec[d]] /\ Gone.phase = "gone"
  BY DEF LedgerInv, WorkerCrash, Gone
<1>2. \A e \in Delivery : exec'[e].phase = "probing" => exec'[e] = exec[e]
  BY <1>1
<1>3. TodoFits' /\ InboxSame /\ DialledFirst' /\ JobsSame /\ Closed' = Closed
  BY <1>1, TodoFrame, NoInbox, NoJobs DEF OriginInv, DialledFirst
<1> QED
  BY <1>1, <1>2, <1>3, OriginFrame, QuietLedger

-----------------------------------------------------------------------------
\* The coordinator is done with an item, or with its message, and inserts nothing.
LEMMA QuietIngest ==
    ASSUME LedgerInv, UNCHANGED <<jobs, exec, inbox, checks>>, DialledFirst',
           \/ coord'.phase \in {"idle", "down"}
           \/ /\ coord.phase \in {"items", "recompute", "enqueue"}
              /\ coord'.msg = coord.msg /\ coord'.todo \subseteq coord.todo
              /\ coord'.phase = "enqueue" => PassedL0(coord.item)'
    PROVE  OriginInv' /\ LedgerStep
<1>1. LossInv /\ OriginInv
  BY DEF LedgerInv
<1>2. TodoFits' /\ JobsSame /\ Closed' = Closed /\ InboxSame
  BY <1>1, TodoGoesOn, NoJobs, NoInbox DEF OriginInv
<1> QED
  BY <1>1, <1>2, OriginFrame, QuietLedger

\* After a recompute only a passed L0 is followed up.
LEMMA AfterRecomputeTodo ==
    ASSUME CoordOK, coord' = AfterRecompute
    PROVE  /\ coord'.msg = coord.msg /\ coord'.todo = coord.todo
           /\ coord'.phase = "enqueue" => PassedL0(coord.item)'
<1>1. coord \in CoordRec
  BY DEF CoordOK
<1>2. CASE PassedL0(coord.item) /\ coord' = [coord EXCEPT !.phase = "enqueue"]
  <2>1. coord'.item = coord.item /\ coord'.msg = coord.msg /\ coord'.todo = coord.todo
    BY <1>1, <1>2, CoordEnqueue
  <2> QED
    BY <1>2, <2>1, Zenon DEF PassedL0
<1>3. CASE ~PassedL0(coord.item) /\ coord' = [coord EXCEPT !.phase = "items", !.item = None]
  BY <1>1, <1>3, CoordNextItem
<1> QED
  BY <1>2, <1>3, Zenon DEF AfterRecompute, PassedL0

\* An inserted row is of a message, and new under its key.
LEMMA InsertLedger ==
    ASSUME LedgerInv, NEW c \in coord.todo, InsertCheck(c) PROVE OriginInv' /\ LedgerStep
<1>1. /\ LossInv /\ OriginInv /\ coord \in CoordRec /\ coord.todo \in SUBSET Check /\ c \in Check
      /\ coord.phase = "items" /\ UNCHANGED <<jobs, exec, inbox, planner>> /\ checks' = checks \cup {c}
  BY DEF LedgerInv, LossInv, TypeInv, CoordOK, CoordRec, InsertCheck
<1>2. /\ coord.msg \in Delivery /\ inbox[coord.msg].phase # "none"
      /\ c \in inbox[coord.msg].items
  BY <1>1 DEF LossInv, SettleInv, Ingesting, OriginInv, TodoFits
<1>3. JobsSame /\ Closed' = Closed /\ InboxSame /\ Asked' = Asked /\ Answered' = Answered
  BY <1>1, NoJobs, NoInbox, AskedSame, AnsweredSame
<1>4. OutFits' /\ InboxFits' /\ DialledFirst'
  BY <1>1, <1>3, SameKeep, FitFrame DEF OriginInv, DialledFirst
<1>5. TodoFits'
  <2> DEFINE T == coord.todo \ {c}
  <2>1. coord' = [coord EXCEPT !.phase = "recompute", !.todo = T, !.item = c] /\ T \in SUBSET Check
    BY <1>1 DEF InsertCheck
  <2> HIDE DEF T
  <2>2. coord'.phase = "recompute" /\ coord'.todo = T /\ coord'.msg = coord.msg
    BY <1>1, <2>1 DEF CoordRec
  <2> QED
    BY <1>1, <2>2 DEF OriginInv, TodoFits, T
<1>6. RowsCloud'
  <2>1. c.stage # "VAL" => c.vantage = Cloud
    BY <1>1, <1>2 DEF OriginInv, InboxFits, Fits, CountsFor
  <2> QED
    BY <1>1, <2>1 DEF OriginInv, RowsCloud
<1>7. \A d \in checks : ~Ledger!SameKey(c, d)
  BY DEF InsertCheck, Recorded, KeyOf, Ledger!SameKey
<1>8. \E a \in Answered : c \in a.batch
  <2> DEFINE a == [job |-> coord.msg[1], batch |-> inbox[coord.msg].items]
  <2>1. a \in Answered /\ c \in a.batch
    BY <1>2 DEF Answered
  <2> HIDE DEF a
  <2> QED
    BY <2>1
<1>9. Ledger!Record
  BY <1>1, <1>3, <1>7, <1>8 DEF Ledger!Record
<1> QED
  BY <1>4, <1>5, <1>6, <1>9 DEF OriginInv, LedgerStep, Ledger!Next

\* The L1 job after a passed L0 is caused by a row that caused none.
LEMMA FollowLedger == ASSUME LedgerInv, EnqueueL1 PROVE OriginInv' /\ LedgerStep
<1>1. /\ LossInv /\ OriginInv /\ coord \in CoordRec /\ coord.phase = "enqueue"
      /\ coord' = [coord EXCEPT !.phase = "items", !.item = None]
      /\ UNCHANGED <<inbox, exec, checks, planner>>
  BY DEF LedgerInv, LossInv, TypeInv, CoordOK, EnqueueL1
<1> DEFINE c == coord.item
<1>2. c \in checks /\ PassedL0(c) /\ ~Caused(c)
  BY <1>1 DEF LedgerInv, OriginInv, TodoFits, FollowInv, CauseInv, ItemNew, Busy
<1>3. PICK j \in Job : IsNew(j) /\ Post(j, "L1", Cloud, {c.node}, {c})
  BY DEF EnqueueL1
<1>4. OutFits' /\ InboxFits' /\ RowsCloud' /\ LedgerStep
  BY <1>1, <1>2, <1>3, PostLedger
<1>5. DialledFirst'
  BY <1>1 DEF OriginInv, DialledFirst
<1>6. TodoFits'
  <2>1. coord'.phase = "items" /\ coord'.msg = coord.msg /\ coord'.todo = coord.todo
    BY <1>1, CoordNextItem
  <2> QED
    BY <1>1, <2>1, TodoGoesOn DEF OriginInv
<1> QED
  BY <1>4, <1>5, <1>6 DEF OriginInv

\* The rest of the ingest: messages change their phase, items are done with.
LEMMA IngestLedger ==
    ASSUME LedgerInv, Ingest \/ (\E c \in coord.todo : InsertFails(c)) \/ RecomputeFails \/ EnqueueFails
                      \/ LoseResultsAck \/ CoordCrash \/ CoordRestart
    PROVE  OriginInv' /\ LedgerStep
<1>0. LossInv /\ OriginInv /\ TypeInv /\ CoordOK /\ coord \in CoordRec
  BY DEF LedgerInv, LossInv, TypeInv, CoordOK
<1>1. ASSUME NEW d \in Delivery, FetchResults(d) PROVE OriginInv' /\ LedgerStep
  <2> DEFINE r == [inbox[d] EXCEPT !.phase = "leased", !.tries = @ + 1]
             x == [phase |-> "items", msg |-> d, todo |-> inbox[d].items, item |-> None]
  <2>1. /\ inbox \in [Delivery -> InboxRec] /\ inbox[d] \in InboxRec
        /\ inbox[d].phase = "ready" /\ inbox[d].tries < MaxDeliver
    BY <1>0, <1>1 DEF FetchResults, TypeInv, InboxOK
  <2>2. r.phase = "leased" /\ r.items = inbox[d].items
    BY <2>1, InboxFetched
  <2>3. inbox' = [inbox EXCEPT ![d] = r] /\ coord' = x /\ UNCHANGED <<jobs, exec, checks, planner>>
    BY <1>1, <2>1 DEF FetchResults
  <2>4. x.phase = "items" /\ x.msg = d /\ x.todo = inbox[d].items
    OBVIOUS
  <2> HIDE DEF r, x
  <2>5. InboxSame
    BY <2>1, <2>2, <2>3 DEF InboxSame
  <2>6. TodoFits'
    BY <2>1, <2>2, <2>3, <2>4 DEF TodoFits
  <2>7. DialledFirst' /\ JobsSame /\ Closed' = Closed
    BY <1>0, <2>3, NoJobs DEF OriginInv, DialledFirst
  <2> QED
    BY <1>0, <2>3, <2>5, <2>6, <2>7, OriginFrame, QuietLedger
<1>2. ASSUME NEW c \in coord.todo, SkipDuplicate(c) \/ InsertFails(c) PROVE OriginInv' /\ LedgerStep
  <2> DEFINE T == coord.todo \ {c}
  <2>1. /\ coord.phase = "items" /\ UNCHANGED <<jobs, exec, inbox, checks, planner>>
        /\ coord' = [coord EXCEPT !.todo = T] /\ T \in SUBSET Check /\ T \subseteq coord.todo
    BY <1>0, <1>2 DEF SkipDuplicate, InsertFails, CoordRec
  <2> HIDE DEF T
  <2>2. coord'.phase = "items" /\ coord'.msg = coord.msg /\ coord'.todo = T
    BY <1>0, <2>1, CoordTodo
  <2>3. DialledFirst'
    BY <1>0, <2>1 DEF OriginInv, DialledFirst
  <2> QED
    BY <2>1, <2>2, <2>3, QuietIngest
<1>3. CASE Recompute \/ RecomputeFails
  <2>1. /\ coord.phase = "recompute" /\ UNCHANGED <<jobs, exec, inbox, checks, planner>>
        /\ coord' = AfterRecompute
    BY <1>3 DEF Recompute, RecomputeFails
  <2>2. DialledFirst'
    BY <1>0, <2>1 DEF OriginInv, DialledFirst
  <2> QED
    BY <1>0, <2>1, <2>2, AfterRecomputeTodo, QuietIngest
<1>4. CASE EnqueueFails
  <2>1. /\ coord.phase = "enqueue" /\ UNCHANGED <<jobs, exec, inbox, checks, planner>>
        /\ coord' = [coord EXCEPT !.phase = "items", !.item = None]
    BY <1>4 DEF EnqueueFails
  <2>2. coord'.phase = "items" /\ coord'.msg = coord.msg /\ coord'.todo = coord.todo
    BY <1>0, <2>1, CoordNextItem
  <2>3. DialledFirst'
    BY <1>0, <2>1 DEF OriginInv, DialledFirst
  <2> QED
    BY <2>1, <2>2, <2>3, QuietIngest
<1>5. CASE AckResults
  <2>1. /\ coord.phase = "items" /\ coord' = IdleCoord /\ UNCHANGED <<jobs, exec, checks, planner>>
        /\ inbox' = [inbox EXCEPT ![coord.msg].phase = "acked"]
        /\ coord.msg \in Delivery /\ inbox[coord.msg].phase # "none"
    BY <1>0, <1>5 DEF AckResults, LossInv, SettleInv, Ingesting
  <2>2. InboxSame
    BY <1>0, <2>1, MessagePhase
  <2>3. TodoFits'
    BY <1>0, <2>1, CoordFields DEF TodoFits
  <2>4. DialledFirst' /\ JobsSame /\ Closed' = Closed
    BY <1>0, <2>1, NoJobs DEF OriginInv, DialledFirst
  <2> QED
    BY <1>0, <2>1, <2>2, <2>3, <2>4, OriginFrame, QuietLedger
<1>6. CASE LoseResultsAck \/ CoordCrash \/ CoordRestart
  <2>1. UNCHANGED <<jobs, exec, inbox, checks>>
    BY <1>6 DEF LoseResultsAck, CoordCrash, CoordRestart
  <2>2. coord'.phase \in {"idle", "down"}
    BY <1>0, <1>6, CoordFields DEF LoseResultsAck, CoordCrash, CoordRestart
  <2>3. DialledFirst'
    BY <1>0, <1>6, PlanDialled DEF OriginInv, LoseResultsAck, CoordRestart
  <2> QED
    BY <2>1, <2>2, <2>3, QuietIngest
<1> QED
  BY <1>1, <1>2, <1>3, <1>4, <1>5, <1>6, InsertLedger, FollowLedger DEF Ingest

-----------------------------------------------------------------------------
\* Every step is a step of the ledger, or none of its business.
LEMMA LedgerNext == LedgerInv /\ [Next]_vars => OriginInv' /\ LedgerStep
<1> SUFFICES ASSUME LedgerInv, [Next]_vars PROVE OriginInv' /\ LedgerStep
  OBVIOUS
<1>1. CASE Tick \/ UNCHANGED vars
  <2>1. UNCHANGED <<jobs, exec, inbox, coord, checks, planner>>
    BY <1>1 DEF Tick, vars
  <2>2. LossInv /\ OriginInv /\ TypeInv
    BY DEF LedgerInv, LossInv
  <2>3. TodoFits' /\ DialledFirst'
    BY <2>1, <2>2, TodoFrame DEF OriginInv, DialledFirst
  <2>4. JobsSame /\ Closed' = Closed /\ InboxSame
    BY <2>1, NoJobs, NoInbox
  <2> QED
    BY <2>1, <2>2, <2>3, <2>4, OriginFrame, QuietLedger
<1>2. CASE \E d \in Delivery : Work(d)
  BY <1>2, ProbeLedger, EndLedger DEF Work
<1>3. CASE Broken
  BY <1>3, PlanLedger, EndLedger, CrashLedger, IngestLedger DEF Broken
<1> QED
  BY <1>1, <1>2, <1>3, PlanLedger, BrokerLedger, IngestLedger DEF Next

\* The invariant of the refinement holds in every execution.
THEOREM LedgerInvariant == Spec => []LedgerInv
<1>1. Init => PlanInv /\ FollowInv /\ OriginInv
  BY PlanInit, FollowInit, OriginInit
<1>2. LedgerInv /\ [Next]_vars => OriginInv'
  BY LedgerNext
<1>3. Spec => [](PlanInv /\ FollowInv)
  <2>1. Init => PlanInv /\ FollowInv
    BY PlanInit, FollowInit
  <2>2. (PlanInv /\ FollowInv) /\ [Next]_vars => (PlanInv /\ FollowInv)'
    BY PlanStep, FollowStep
  <2> QED
    BY <2>1, <2>2, PTL DEF Spec
<1>4. LossInv /\ PlanInv /\ FollowInv /\ OriginInv => LedgerInv
  BY DEF LedgerInv
<1> QED
  BY <1>1, <1>2, <1>3, <1>4, LossInvariant, PTL DEF Spec

\* The pipeline implements the ledger: each of its executions, faults included, is one
\* of JobLedger when only what is asked, answered, closed and recorded is looked at.
THEOREM PipelineIsLedger == Spec => IsLedger
<1>1. Init => Ledger!Init
  BY DEF Init, Ledger!Init, Asked, Answered, Closed, FreeJob
<1>2. LedgerInv /\ [Next]_vars => [Ledger!Next]_(Ledger!ledger)
  BY LedgerNext DEF LedgerStep
<1> QED
  BY <1>1, <1>2, LedgerInvariant, PTL DEF Spec, IsLedger, Ledger!Spec

-----------------------------------------------------------------------------
(***************************************************************************)
(* What the ledger implies about node_checks, by an argument about the     *)
(* ledger alone: nothing below looks into the pipeline's own state.        *)
(***************************************************************************)
HasPassed(n, s) == \E d \in checks : d.node = n /\ d.stage = s /\ d.ok

KeysDistinct == \A c, d \in checks : KeyOf(c) = KeyOf(d) => c = d

\* The row is of an answer to a job that asked for it.
RowsAsked ==
    \A c \in checks : \E r \in Asked : \E a \in Answered :
        /\ a.job = r.job /\ c \in a.batch
        /\ c.node \in r.nodes /\ c.stage = r.stage /\ c.vantage = r.vantage

\* The dearer a probe, the more its node has shown before.
RowsEarned ==
    \A c \in checks :
        /\ (c.stage = "L1" /\ c.node \in TcpFamily) => HasPassed(c.node, "L0")
        /\ c.stage \in {"L2", "VAL"} => HasPassed(c.node, "L1")

Evidence == KeysDistinct /\ RowsAsked /\ RowsEarned

\* The same one step earlier: of what is asked, and of what is answered.
Backed(r) ==
    /\ r.stage = "L1" => \A n \in r.nodes \cap TcpFamily : HasPassed(n, "L0")
    /\ r.stage \in {"L2", "VAL"} => \A n \in r.nodes : HasPassed(n, "L1")
AskedBacked   == \A r \in Asked : Backed(r)
AnsweredAsked == \A a \in Answered : \E r \in Asked : r.job = a.job /\ Ledger!Answers(r, a.batch)
RowsAnswered  == \A c \in checks : \E a \in Answered : c \in a.batch

EvidenceInv == KeysDistinct /\ AskedBacked /\ AnsweredAsked /\ RowsAnswered

\* What a node has passed is not taken back.
LEMMA BackedStays ==
    ASSUME checks \subseteq checks', NEW r, Backed(r) PROVE Backed(r)'
<1>1. \A n, s : HasPassed(n, s) => HasPassed(n, s)'
  BY Zenon DEF HasPassed
<1> QED
  BY <1>1 DEF Backed

LEMMA EvidenceStep ==
    ASSUME EvidenceInv, [Ledger!Next]_(Ledger!ledger) PROVE EvidenceInv'
<1>1. CASE Ledger!Ask
  <2>1. PICK r : Asked' = Asked \cup {r} /\ Ledger!CauseFits(r) /\ Ledger!Earned(r)
    BY <1>1 DEF Ledger!Ask
  <2>2. UNCHANGED <<Answered, checks>>
    BY <1>1 DEF Ledger!Ask
  <2>3. Backed(r)
    <3>1. ASSUME r.stage = "L1", NEW n \in r.nodes \cap TcpFamily PROVE HasPassed(n, "L0")
      <4>1. PICK c \in r.cause : c.node = n
        BY <2>1, <3>1 DEF Ledger!Earned
      <4> QED
        BY <2>1, <4>1, Zenon DEF Ledger!CauseFits, HasPassed
    <3>2. ASSUME r.stage \in {"L2", "VAL"}, NEW n \in r.nodes PROVE HasPassed(n, "L1")
      BY <2>1, <3>2, Zenon DEF Ledger!Earned, HasPassed
    <3> QED
      BY <3>1, <3>2 DEF Backed
  <2>4. AskedBacked'
    <3>1. \A q \in Asked' : Backed(q)
      BY <2>1, <2>3 DEF EvidenceInv, AskedBacked
    <3> QED
      BY <2>2, <3>1, BackedStays DEF AskedBacked
  <2> QED
    BY <2>1, <2>2, <2>4 DEF EvidenceInv, KeysDistinct, AnsweredAsked, RowsAnswered
<1>2. CASE Ledger!Answer
  <2>1. PICK a : /\ Answered' = Answered \cup {a}
                 /\ \E r \in Asked : r.job = a.job /\ Ledger!Answers(r, a.batch)
    BY <1>2 DEF Ledger!Answer
  <2>2. UNCHANGED <<Asked, checks>>
    BY <1>2 DEF Ledger!Answer
  <2>3. AskedBacked'
    BY <2>2, BackedStays DEF EvidenceInv, AskedBacked
  <2> QED
    BY <2>1, <2>2, <2>3 DEF EvidenceInv, KeysDistinct, AnsweredAsked, RowsAnswered
<1>3. CASE Ledger!Record
  <2>1. PICK c : /\ \E a \in Answered : c \in a.batch
                 /\ \A d \in checks : ~Ledger!SameKey(c, d)
                 /\ checks' = checks \cup {c}
    BY <1>3 DEF Ledger!Record
  <2>2. UNCHANGED <<Asked, Answered>>
    BY <1>3 DEF Ledger!Record
  <2>3. AskedBacked'
    BY <2>1, <2>2, BackedStays DEF EvidenceInv, AskedBacked
  <2>4. KeysDistinct'
    BY <2>1 DEF EvidenceInv, KeysDistinct, KeyOf, Ledger!SameKey
  <2> QED
    BY <2>1, <2>2, <2>3, <2>4 DEF EvidenceInv, AnsweredAsked, RowsAnswered
<1>4. CASE Ledger!Close \/ UNCHANGED Ledger!ledger
  <2>1. UNCHANGED <<Asked, Answered, checks>>
    BY <1>4 DEF Ledger!Close, Ledger!ledger
  <2>2. AskedBacked'
    BY <2>1, BackedStays DEF EvidenceInv, AskedBacked
  <2> QED
    BY <2>1, <2>2 DEF EvidenceInv, KeysDistinct, AnsweredAsked, RowsAnswered
<1> QED
  BY <1>1, <1>2, <1>3, <1>4 DEF Ledger!Next

\* Whatever keeps the ledger has node_checks without duplicate keys, each row of a job
\* that asked for it, and no L1 of the TCP family, L2 or validation unearned.
THEOREM LedgerEvidence == IsLedger => []Evidence
<1>1. Ledger!Init => EvidenceInv
  BY DEF Ledger!Init, EvidenceInv, KeysDistinct, AskedBacked, AnsweredAsked, RowsAnswered
<1>2. EvidenceInv /\ [Ledger!Next]_(Ledger!ledger) => EvidenceInv'
  BY EvidenceStep
<1>3. EvidenceInv => Evidence
  <2> SUFFICES ASSUME EvidenceInv PROVE RowsAsked /\ RowsEarned
    BY DEF EvidenceInv, Evidence
  <2>1. RowsAsked
    <3> SUFFICES ASSUME NEW c \in checks
                 PROVE  \E r \in Asked : \E a \in Answered :
                           /\ a.job = r.job /\ c \in a.batch
                           /\ c.node \in r.nodes /\ c.stage = r.stage /\ c.vantage = r.vantage
      BY DEF RowsAsked
    <3>1. PICK a \in Answered : c \in a.batch
      BY DEF EvidenceInv, RowsAnswered
    <3>2. PICK r \in Asked : r.job = a.job /\ Ledger!Answers(r, a.batch)
      BY DEF EvidenceInv, AnsweredAsked
    <3> QED
      BY <3>1, <3>2 DEF Ledger!Answers
  <2>2. RowsEarned
    BY <2>1 DEF RowsAsked, EvidenceInv, AskedBacked, Backed, RowsEarned
  <2> QED
    BY <2>1, <2>2
<1> QED
  BY <1>1, <1>2, <1>3, PTL DEF IsLedger, Ledger!Spec

\* So it is with the pipeline (InsertCheck's ON CONFLICT, planJobs, ingestResults).
THEOREM PipelineEvidence == Spec => []Evidence
  BY PipelineIsLedger, LedgerEvidence, PTL

-----------------------------------------------------------------------------
(***************************************************************************)
(* What recomputeNode can make of the rows the pipeline writes.            *)
(***************************************************************************)
NotRf == \A n \in Node : row[n].class # "rf"

\* Only rows of the cloud are of stage L1.
LEMMA PassesCloud ==
    ASSUME RowsCloud, NEW n, NEW L \in LatestByVantage(checks, n), NEW c \in L1Passes(L)
    PROVE  c \in NewestOf(checks, n, Cloud) /\ c.vantage = Cloud
<1>1. c \in L /\ c.stage = "L1"
  BY DEF L1Passes
<1>2. PICK v \in Vantage : c \in NewestOf(checks, n, v)
  BY <1>1 DEF LatestByVantage
<1>3. c \in checks /\ c.vantage = v
  BY <1>2 DEF NewestOf
<1>4. c.vantage = Cloud
  BY <1>1, <1>3 DEF RowsCloud
<1> QED
  BY <1>2, <1>3, <1>4

\* No node ever gets the class rf, whatever its validators report (recomputeNode,
\* processJob): the disagreement of run PipelineRf, for every instance.
THEOREM NobodyIsRf == Spec => []NotRf
<1>1. Init => NotRf
  BY DEF Init, NotRf, NewRow
<1>2. LedgerInv /\ NotRf /\ [Next]_vars => NotRf'
  <2> SUFFICES ASSUME LedgerInv, NotRf, [Next]_vars PROVE NotRf'
    OBVIOUS
  <2>1. CASE Recompute
    <3>1. PICK L \in LatestByVantage(checks, coord.item.node) :
             row' = [row EXCEPT ![coord.item.node] = Aggregate(L)]
      BY <2>1 DEF Recompute, Aggregates
    <3>2. ~ \E c \in L1Passes(L) : c.vantage \in Edge
      BY PassesCloud, Bounds DEF LedgerInv, OriginInv
    <3>3. Aggregate(L).class # "rf"
      BY <3>2 DEF Aggregate
    <3>4. row \in [Node -> Row]
      BY DEF LedgerInv, LossInv, TypeInv, TablesOK
    <3> QED
      BY <3>1, <3>3, <3>4 DEF NotRf
  <2>2. CASE UNCHANGED row
    BY <2>2 DEF NotRf
  <2> QED
    BY <2>1, <2>2
       DEF Next, Tick, Plan, PlanQuery, PlanPublish, PlanFail, Broker, Fetch, JobAckWait,
           ResultsAckWait, WindowEnds, Work, Probe, PublishResults, AckJob, Ingest, FetchResults,
           InsertCheck, SkipDuplicate, EnqueueL1, AckResults, Broken, PublishFails, LoseAck,
           WorkerCrash, InsertFails, RecomputeFails, EnqueueFails, LoseResultsAck, CoordCrash,
           CoordRestart, vars
<1> QED
  BY <1>1, <1>2, LedgerInvariant, PTL DEF Spec

\* A row that agrees with its history is alive only by the newest rows of the cloud.
NewestDecides ==
    \A n \in Node : row[n] \in Aggregates(checks, n) =>
        LET newest == NewestOf(checks, n, Cloud)
            passed == {c \in newest : c.stage = "L1" /\ c.ok}
        IN  /\ row[n].status = "alive" => passed # {}
            /\ (newest # {} /\ newest = passed) => row[n].status = "alive"

\* Whether a node is alive is decided by its newest row from the cloud, of whatever
\* stage: a validator's rows never count, and one row of the cloud that is newer than
\* the passed L1 makes it dead (LatestByVantage, recomputeNode; cf. run PipelineL2).
THEOREM NewestCloudRowDecides == Spec => []NewestDecides
<1>1. LedgerInv => NewestDecides
  <2> SUFFICES ASSUME LedgerInv, NEW n \in Node, row[n] \in Aggregates(checks, n)
               PROVE  LET newest == NewestOf(checks, n, Cloud)
                          passed == {c \in newest : c.stage = "L1" /\ c.ok}
                      IN  /\ row[n].status = "alive" => passed # {}
                          /\ (newest # {} /\ newest = passed) => row[n].status = "alive"
    BY DEF NewestDecides
  <2> DEFINE newest == NewestOf(checks, n, Cloud)
             passed == {c \in newest : c.stage = "L1" /\ c.ok}
  <2>1. PICK L \in LatestByVantage(checks, n) : row[n] = Aggregate(L)
    BY DEF Aggregates
  <2>2. row[n].status = IF L1Passes(L) = {} THEN "dead" ELSE "alive"
    BY <2>1 DEF Aggregate
  <2>3. L1Passes(L) \subseteq passed
    <3>1. L1Passes(L) \subseteq newest
      BY PassesCloud DEF LedgerInv, OriginInv
    <3> QED
      BY <3>1, Zenon DEF L1Passes
  <2>4. (newest # {} /\ newest = passed) => L1Passes(L) # {}
    <3>1. ASSUME newest # {}, newest = passed PROVE \E c \in L : c \in passed
      BY <3>1 DEF LatestByVantage, Vantage
    <3> QED
      BY <3>1, Zenon DEF L1Passes
  <2> HIDE DEF newest, passed
  <2>5. /\ row[n].status = "alive" => passed # {}
        /\ (newest # {} /\ newest = passed) => row[n].status = "alive"
    BY <2>2, <2>3, <2>4
  <2> QED
    BY <2>5 DEF newest, passed
<1> QED
  BY <1>1, LedgerInvariant, PTL

\* Every alive node is up for validation from everywhere.
ValidationNeverDone ==
    \A v \in Edge : Selected("VAL", v) = {n \in Node : row[n].status = "alive"}

\* NodesForValidation's condition on earlier validations excludes nobody: it asks for a
\* passed row of stage L1 from the validator, which no validator ever writes, so that an
\* answered validation is asked for again with the next tick (planJobs, processJob).
THEOREM ValidatedAgain == Spec => []ValidationNeverDone
<1>1. LedgerInv => ValidationNeverDone
  <2> SUFFICES ASSUME LedgerInv, NEW v \in Edge
               PROVE  Selected("VAL", v) = {n \in Node : row[n].status = "alive"}
    BY DEF ValidationNeverDone
  <2>1. v # Cloud
    BY VantageAssumption
  <2>2. ASSUME NEW c \in checks, c.stage = "L1" PROVE c.vantage # v
    BY <2>1, <2>2 DEF LedgerInv, OriginInv, RowsCloud
  <2>3. \A n \in Node : WantsValidation(row[n], checks, n, v, now) <=> row[n].status = "alive"
    BY <2>2, Zenon DEF WantsValidation, OfNode
  <2>4. Selected("VAL", v) = {n \in Node : WantsValidation(row[n], checks, n, v, now)}
    BY DEF Selected
  <2> QED
    BY <2>3, <2>4
<1> QED
  BY <1>1, LedgerInvariant, PTL
=============================================================================
