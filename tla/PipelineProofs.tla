---------------------------- MODULE PipelineProofs ----------------------------
(***************************************************************************)
(* Proofs about Pipeline, for any number of nodes, workers, vantages,      *)
(* jobs, deliveries and faults: its types, that costly probes are earned,  *)
(* that rows follow their checks, and that each passed L0 is followed up.  *)
(***************************************************************************)
EXTENDS Pipeline, FiniteSetTheorems, TLAPS

\* The type invariant in parts, each with what it takes to be preserved: a message
\* that waits has a delivery left, and after an insert the check is remembered.
JobsOK ==
    /\ jobs \in [Job -> JobRec]
    /\ \A j \in Job : jobs[j].phase = "ready" => jobs[j].tries < MaxDeliver
ExecOK == exec \in [Delivery -> ExecRec]
InboxOK ==
    /\ inbox \in [Delivery -> InboxRec]
    /\ \A d \in Delivery : inbox[d].phase = "ready" => inbox[d].tries < MaxDeliver
PlannerOK == planner \in PlanRec
CoordOK ==
    /\ coord \in CoordRec
    /\ coord.phase \in {"recompute", "enqueue"} => coord.item \in Check
TablesOK ==
    /\ now \in Instant /\ faults \in Nat
    /\ dedup \subseteq Job \X Vantage
    /\ checks \subseteq Check /\ row \in [Node -> Row]
    /\ dropped \subseteq Check /\ stale \subseteq Node /\ missed \subseteq Check

TypeInv == JobsOK /\ ExecOK /\ InboxOK /\ PlannerOK /\ CoordOK /\ TablesOK

\* The assumptions one by one.
LEMMA Bounds ==
    MaxDeliver \in Nat \ {0} /\ TcpFamily \subseteq Node /\ Cloud \notin Edge
  BY PipelineAssumption, VantageAssumption, Zenon

-----------------------------------------------------------------------------
(***************************************************************************)
(* Records with a field or two changed.                                    *)
(***************************************************************************)
LEMMA JobPhase ==
    ASSUME NEW r \in JobRec, NEW ph \in {"free", "ready", "leased", "acked", "dead"}
    PROVE  /\ [r EXCEPT !.phase = ph] \in JobRec
           /\ [r EXCEPT !.phase = ph].phase = ph
           /\ [r EXCEPT !.phase = ph].nodes = r.nodes
           /\ [r EXCEPT !.phase = ph].tries = r.tries
           /\ [r EXCEPT !.phase = ph].stage = r.stage
  BY DEF JobRec

LEMMA JobFetched ==
    ASSUME NEW r \in JobRec, r.tries < MaxDeliver
    PROVE  LET f == [r EXCEPT !.phase = "leased", !.tries = @ + 1]
           IN  /\ f \in JobRec
               /\ f.phase = "leased" /\ f.tries = r.tries + 1
               /\ f.nodes = r.nodes /\ f.stage = r.stage
<1>1. r.tries \in 0..MaxDeliver
  BY DEF JobRec
<1>2. r.tries + 1 \in 0..MaxDeliver
  BY <1>1, Bounds
<1> QED
  BY <1>2 DEF JobRec

LEMMA ExecPhase ==
    ASSUME NEW r \in ExecRec, NEW ph \in {"none", "probing", "published", "gone"}
    PROVE  /\ [r EXCEPT !.phase = ph] \in ExecRec
           /\ [r EXCEPT !.phase = ph].phase = ph
  BY DEF ExecRec

LEMMA ExecOut ==
    ASSUME NEW r \in ExecRec, NEW S \in SUBSET Check
    PROVE  /\ [r EXCEPT !.out = S] \in ExecRec
           /\ [r EXCEPT !.out = S].phase = r.phase
           /\ [r EXCEPT !.out = S].out = S
  BY DEF ExecRec

LEMMA InboxPhase ==
    ASSUME NEW r \in InboxRec, NEW ph \in {"none", "ready", "leased", "acked", "dead"}
    PROVE  /\ [r EXCEPT !.phase = ph] \in InboxRec
           /\ [r EXCEPT !.phase = ph].phase = ph
           /\ [r EXCEPT !.phase = ph].items = r.items
           /\ [r EXCEPT !.phase = ph].tries = r.tries
  BY DEF InboxRec

LEMMA InboxFetched ==
    ASSUME NEW r \in InboxRec, r.tries < MaxDeliver
    PROVE  LET f == [r EXCEPT !.phase = "leased", !.tries = @ + 1]
           IN  /\ f \in InboxRec
               /\ f.phase = "leased" /\ f.items = r.items
<1>1. r.tries \in 0..MaxDeliver
  BY DEF InboxRec
<1>2. r.tries + 1 \in 0..MaxDeliver
  BY <1>1, Bounds
<1> QED
  BY <1>2 DEF InboxRec

LEMMA PlanTodo ==
    ASSUME NEW r \in PlanRec, NEW T \in SUBSET Node
    PROVE  [r EXCEPT !.todo = T] \in PlanRec
  BY DEF PlanRec

LEMMA CoordTodo ==
    ASSUME NEW r \in CoordRec, NEW T \in SUBSET Check
    PROVE  LET f == [r EXCEPT !.todo = T]
           IN  /\ f \in CoordRec
               /\ f.todo = T /\ f.phase = r.phase /\ f.msg = r.msg /\ f.item = r.item
  BY DEF CoordRec

LEMMA CoordInserted ==
    ASSUME NEW r \in CoordRec, NEW T \in SUBSET Check, NEW c \in Check
    PROVE  LET f == [r EXCEPT !.phase = "recompute", !.todo = T, !.item = c]
           IN  /\ f \in CoordRec
               /\ f.todo = T /\ f.phase = "recompute" /\ f.msg = r.msg /\ f.item = c
  BY DEF CoordRec

LEMMA CoordNextItem ==
    ASSUME NEW r \in CoordRec
    PROVE  LET f == [r EXCEPT !.phase = "items", !.item = None]
           IN  /\ f \in CoordRec
               /\ f.todo = r.todo /\ f.phase = "items" /\ f.msg = r.msg
  BY DEF CoordRec

LEMMA CoordEnqueue ==
    ASSUME NEW r \in CoordRec
    PROVE  LET f == [r EXCEPT !.phase = "enqueue"]
           IN  /\ f \in CoordRec
               /\ f.todo = r.todo /\ f.phase = "enqueue" /\ f.msg = r.msg /\ f.item = r.item
  BY DEF CoordRec

\* The records that start or end something.
LEMMA Blanks ==
    /\ FreeJob \in JobRec /\ NotRun \in ExecRec /\ Gone \in ExecRec
    /\ IdlePlan \in PlanRec /\ IdleCoord \in CoordRec
    /\ [IdleCoord EXCEPT !.phase = "down"] \in CoordRec
    /\ NewRow \in Row
<1>1. FreeJob \in JobRec
  <2>1. 0 \in 0..MaxDeliver
    BY Bounds
  <2> QED
    BY <2>1 DEF FreeJob, JobRec, Stage, Vantage
<1>2. NotRun \in ExecRec /\ Gone \in ExecRec
  BY DEF NotRun, Gone, ExecRec
<1>3. IdlePlan \in PlanRec
  BY DEF IdlePlan, PlanRec, Stage, Vantage
<1>4. IdleCoord \in CoordRec /\ [IdleCoord EXCEPT !.phase = "down"] \in CoordRec
  BY DEF IdleCoord, CoordRec
<1>5. NewRow \in Row
  BY DEF NewRow, Row, Never
<1> QED
  BY <1>1, <1>2, <1>3, <1>4, <1>5

-----------------------------------------------------------------------------
(***************************************************************************)
(* Type correctness.                                                       *)
(***************************************************************************)

\* The initial states are of the right types.
LEMMA TypeInit == Init => TypeInv
<1> SUFFICES ASSUME Init PROVE TypeInv
  OBVIOUS
<1>1. JobsOK
  BY Blanks DEF Init, JobsOK, FreeJob
<1>2. ExecOK
  BY Blanks DEF Init, ExecOK
<1>3. InboxOK
  <2>1. [phase |-> "none", items |-> {}, tries |-> 0] \in InboxRec
    <3>1. 0 \in 0..MaxDeliver
      BY Bounds
    <3> QED
      BY <3>1 DEF InboxRec
  <2> QED
    BY <2>1 DEF Init, InboxOK
<1>4. PlannerOK
  BY Blanks DEF Init, PlannerOK
<1>5. CoordOK
  BY Blanks DEF Init, CoordOK, IdleCoord
<1>6. TablesOK
  BY Blanks DEF Init, TablesOK, Instant, Never
<1> QED
  BY <1>1, <1>2, <1>3, <1>4, <1>5, <1>6 DEF TypeInv

\* A query finds nodes; the newest time of some checks is a time or Never; so an
\* aggregate is a row.
LEMMA SelectedType == ASSUME NEW s \in Stage, NEW v PROVE Selected(s, v) \subseteq Node
  BY Bounds DEF Selected, Stage

LEMMA NewestTimeType == ASSUME NEW S \in SUBSET Check PROVE NewestTime(S) \in Nat
<1>1. ASSUME NEW c \in S PROVE c.ts \in Nat
  BY DEF Check, Instant
<1> QED
  BY <1>1 DEF NewestTime, Never

LEMMA AggregateType ==
    ASSUME checks \subseteq Check, NEW n, NEW r \in Aggregates(checks, n)
    PROVE  r \in Row
<1>1. PICK L \in LatestByVantage(checks, n) : r = Aggregate(L)
  BY DEF Aggregates
<1>2. L \subseteq checks
  BY DEF LatestByVantage, NewestOf
<1>3. NewestTime(L1Passes(L)) \in Nat
  BY <1>2, NewestTimeType DEF L1Passes
<1> QED
  BY <1>1, <1>3 DEF Aggregate, Row

\* Posting a job.
LEMMA PostType ==
    ASSUME JobsOK, NEW j \in Job, NEW s \in Stage, NEW v \in Vantage, NEW S \in SUBSET Node,
           NEW cause \in SUBSET Check, Post(j, s, v, S, cause)
    PROVE  JobsOK'
<1> DEFINE r == [phase |-> "ready", stage |-> s, vantage |-> v, nodes |-> S,
                 tries |-> 0, cause |-> cause]
<1>1. r \in JobRec /\ r.tries < MaxDeliver
  <2>1. 0 \in 0..MaxDeliver /\ 0 < MaxDeliver
    BY Bounds
  <2> QED
    BY <2>1 DEF JobRec
<1>2. jobs' = [jobs EXCEPT ![j] = r]
  BY DEF Post
<1> HIDE DEF r
<1> QED
  BY <1>1, <1>2 DEF JobsOK

\* A change of the phase of a job or a results message.
LEMMA JobPhaseType ==
    ASSUME JobsOK, NEW j \in Job, NEW ph \in {"free", "ready", "leased", "acked", "dead"},
           ph = "ready" => jobs[j].tries < MaxDeliver,
           jobs' = [jobs EXCEPT ![j].phase = ph]
    PROVE  JobsOK'
<1> DEFINE r == [jobs[j] EXCEPT !.phase = ph]
<1>1. jobs' = [jobs EXCEPT ![j] = r]
  BY DEF JobsOK
<1>2. jobs[j] \in JobRec
  BY DEF JobsOK
<1>3. r \in JobRec /\ r.phase = ph /\ r.tries = jobs[j].tries
  BY <1>2, JobPhase
<1> HIDE DEF r
<1> QED
  BY <1>1, <1>3 DEF JobsOK

LEMMA InboxPhaseType ==
    ASSUME InboxOK, NEW d \in Delivery, NEW ph \in {"none", "ready", "leased", "acked", "dead"},
           ph = "ready" => inbox[d].tries < MaxDeliver,
           inbox' = [inbox EXCEPT ![d].phase = ph]
    PROVE  InboxOK'
<1> DEFINE r == [inbox[d] EXCEPT !.phase = ph]
<1>1. inbox' = [inbox EXCEPT ![d] = r]
  BY DEF InboxOK
<1>2. inbox[d] \in InboxRec
  BY DEF InboxOK
<1>3. r \in InboxRec /\ r.phase = ph /\ r.tries = inbox[d].tries
  BY <1>2, InboxPhase
<1> HIDE DEF r
<1> QED
  BY <1>1, <1>3 DEF InboxOK

\* A results message that JetStream takes or ignores.
LEMMA AcceptType ==
    ASSUME InboxOK, ExecOK, TablesOK, NEW d \in Delivery, Accept(d)
    PROVE  InboxOK' /\ dedup' \subseteq Job \X Vantage
<1> DEFINE r == [phase |-> "ready", items |-> exec[d].out, tries |-> 0]
<1>1. r \in InboxRec /\ r.tries < MaxDeliver
  <2>1. 0 \in 0..MaxDeliver /\ 0 < MaxDeliver
    BY Bounds
  <2>2. exec[d].out \in SUBSET Check
    BY DEF ExecOK, ExecRec
  <2> QED
    BY <2>1, <2>2 DEF InboxRec
<1>2. MsgId(d) \in Job \X Vantage
  BY DEF MsgId, VantageOf, Vantage, Delivery
<1>3. CASE MsgId(d) \in dedup
  BY <1>3 DEF Accept, InboxOK, TablesOK
<1>4. CASE inbox' = [inbox EXCEPT ![d] = r] /\ dedup' = dedup \cup {MsgId(d)}
  <2> HIDE DEF r
  <2> QED
    BY <1>1, <1>2, <1>4 DEF InboxOK, TablesOK
<1> QED
  BY <1>3, <1>4 DEF Accept

\* What follows a publish of the planner.
LEMMA PlanAfterType ==
    ASSUME PlannerOK, NEW T \in SUBSET Node PROVE PlanAfter(T) \in PlanRec
<1>1. [planner EXCEPT !.todo = T] \in PlanRec
  BY PlanTodo DEF PlannerOK
<1>2. [stage |-> "L2", vantage |-> planner.vantage, todo |-> planner.top, top |-> {}] \in PlanRec
  BY DEF PlannerOK, PlanRec, Stage
<1> QED
  BY <1>1, <1>2, Blanks DEF PlanAfter

\* A step that leaves a part alone leaves it typed.
LEMMA Untouched ==
    /\ JobsOK /\ UNCHANGED jobs => JobsOK'
    /\ ExecOK /\ UNCHANGED exec => ExecOK'
    /\ InboxOK /\ UNCHANGED inbox => InboxOK'
    /\ PlannerOK /\ UNCHANGED planner => PlannerOK'
    /\ CoordOK /\ UNCHANGED coord => CoordOK'
  BY DEF JobsOK, ExecOK, InboxOK, PlannerOK, CoordOK

\* A step of the planner.
LEMMA PlanType ==
    ASSUME TypeInv, Plan \/ PlanFail PROVE TypeInv'
<1> USE DEF TypeInv
<1>1. ASSUME NEW s \in Stage, NEW v \in Vantage, PlanQuery(s, v) PROVE TypeInv'
  <2>1. PICK top \in SUBSET Selected(s, v) :
           planner' = [stage |-> s, vantage |-> v, todo |-> Selected(s, v), top |-> top]
    BY <1>1 DEF PlanQuery
  <2>2. PlannerOK'
    BY <2>1, SelectedType DEF PlannerOK, PlanRec
  <2>3. TablesOK'
    BY <1>1 DEF PlanQuery, TablesOK, history
  <2> QED
    BY <1>1, <2>2, <2>3, Untouched DEF PlanQuery
<1>2. CASE PlanPublish
  <2>1. PICK j \in Job, S \in SUBSET planner.todo :
           /\ Post(j, planner.stage, planner.vantage, S, {})
           /\ planner' = PlanAfter(planner.todo \ S)
    BY <1>2 DEF PlanPublish
  <2>2. planner.stage \in Stage /\ planner.vantage \in Vantage /\ planner.todo \in SUBSET Node
    BY DEF PlannerOK, PlanRec
  <2>3. JobsOK'
    BY <2>1, <2>2, PostType
  <2>4. PlannerOK'
    BY <2>1, <2>2, PlanAfterType DEF PlannerOK
  <2>5. TablesOK'
    BY <1>2 DEF PlanPublish, TablesOK, history
  <2> QED
    BY <1>2, <2>3, <2>4, <2>5, Untouched DEF PlanPublish
<1>3. CASE PlanFail
  <2>1. PlannerOK'
    BY <1>3, PlanAfterType DEF PlanFail, PlannerOK
  <2>2. TablesOK'
    BY <1>3 DEF PlanFail, Fault, TablesOK, history
  <2> QED
    BY <1>3, <2>1, <2>2, Untouched DEF PlanFail
<1> QED
  BY <1>1, <1>2, <1>3 DEF Plan

\* A step of JetStream.
LEMMA BrokerType ==
    ASSUME TypeInv, Broker PROVE TypeInv'
<1> USE DEF TypeInv
<1>1. ASSUME NEW w \in Worker, NEW j \in Job, Fetch(w, j) PROVE TypeInv'
  <2> DEFINE r == [jobs[j] EXCEPT !.phase = "leased", !.tries = @ + 1]
             x == [phase |-> "probing", worker |-> w, out |-> {}]
  <2>1. jobs[j] \in JobRec /\ jobs[j].tries < MaxDeliver
    BY <1>1 DEF Fetch, JobsOK
  <2>2. r \in JobRec /\ r.phase = "leased"
    BY <2>1, JobFetched
  <2>3. jobs' = [jobs EXCEPT ![j] = r] /\ exec' = [exec EXCEPT ![<<j, jobs[j].tries + 1>>] = x]
    BY <1>1 DEF Fetch, JobsOK
  <2>4. x \in ExecRec
    BY DEF ExecRec
  <2> HIDE DEF r, x
  <2>5. JobsOK' /\ ExecOK'
    BY <2>2, <2>3, <2>4 DEF JobsOK, ExecOK
  <2>6. TablesOK'
    BY <1>1 DEF Fetch, TablesOK, history
  <2> QED
    BY <1>1, <2>5, <2>6, Untouched DEF Fetch
<1>2. ASSUME NEW j \in Job, JobAckWait(j) PROVE TypeInv'
  <2>1. JobsOK'
    BY <1>2, JobPhaseType DEF JobAckWait, Redeliverable
  <2>2. TablesOK'
    BY <1>2 DEF JobAckWait, TablesOK, history
  <2> QED
    BY <1>2, <2>1, <2>2, Untouched DEF JobAckWait
<1>3. ASSUME NEW d \in Delivery, ResultsAckWait(d) PROVE TypeInv'
  <2>1. InboxOK'
    BY <1>3, InboxPhaseType DEF ResultsAckWait, Redeliverable
  <2>2. TablesOK'
    BY <1>3 DEF ResultsAckWait, TablesOK, history
  <2> QED
    BY <1>3, <2>1, <2>2, Untouched DEF ResultsAckWait
<1>4. ASSUME NEW m \in dedup, WindowEnds(m) PROVE TypeInv'
  <2>1. TablesOK'
    BY <1>4 DEF WindowEnds, TablesOK, history
  <2> QED
    BY <1>4, <2>1, Untouched DEF WindowEnds
<1> QED
  BY <1>1, <1>2, <1>3, <1>4 DEF Broker

\* A step of a worker.
LEMMA ExecPhaseType ==
    ASSUME ExecOK, NEW d \in Delivery, NEW ph \in {"none", "probing", "published", "gone"},
           exec' = [exec EXCEPT ![d].phase = ph]
    PROVE  ExecOK'
<1> DEFINE r == [exec[d] EXCEPT !.phase = ph]
<1>1. exec' = [exec EXCEPT ![d] = r]
  BY DEF ExecOK
<1>2. exec[d] \in ExecRec
  BY DEF ExecOK
<1>3. r \in ExecRec
  BY <1>2, ExecPhase
<1> HIDE DEF r
<1> QED
  BY <1>1, <1>3 DEF ExecOK

LEMMA ProbeType ==
    ASSUME TypeInv, NEW d \in Delivery, NEW n \in Node, NEW ok \in BOOLEAN, Probe(d, n, ok)
    PROVE  ExecOK'
<1> DEFINE c == [node |-> n, vantage |-> VantageOf(exec[d].worker),
                 stage |-> jobs[d[1]].stage, ok |-> ok, ts |-> now]
           S == exec[d].out \cup {c}
           r == [exec[d] EXCEPT !.out = S]
<1>1. exec[d] \in ExecRec /\ exec[d].out \in SUBSET Check
  BY DEF TypeInv, ExecOK, ExecRec
<1>2. c \in Check
  <2>1. VantageOf(exec[d].worker) \in Vantage
    BY DEF VantageOf, Vantage
  <2>2. jobs[d[1]].stage \in Stage /\ now \in Instant
    BY DEF TypeInv, JobsOK, JobRec, TablesOK, Delivery
  <2> QED
    BY <2>1, <2>2 DEF Check
<1>3. exec' = [exec EXCEPT ![d] = r]
  BY DEF Probe, TypeInv, ExecOK
<1> HIDE DEF c
<1>4. S \in SUBSET Check
  BY <1>1, <1>2
<1> HIDE DEF S
<1>5. r \in ExecRec
  BY <1>1, <1>4, ExecOut
<1> HIDE DEF r
<1> QED
  BY <1>3, <1>5 DEF TypeInv, ExecOK

LEMMA WorkerType ==
    ASSUME TypeInv, NEW d \in Delivery,
           Work(d) \/ PublishFails(d) \/ LoseAck(d)
    PROVE  TypeInv'
<1> USE DEF TypeInv
<1>1. ASSUME NEW n \in Node, NEW ok \in BOOLEAN, Probe(d, n, ok) PROVE TypeInv'
  <2>1. ExecOK'
    BY <1>1, ProbeType
  <2>2. TablesOK'
    BY <1>1 DEF Probe, TablesOK, history
  <2> QED
    BY <1>1, <2>1, <2>2, Untouched DEF Probe
<1>2. CASE PublishResults(d)
  <2>1. InboxOK' /\ dedup' \subseteq Job \X Vantage
    BY <1>2, AcceptType DEF PublishResults
  <2>2. ExecOK'
    BY <1>2, ExecPhaseType DEF PublishResults
  <2>3. TablesOK'
    BY <1>2, <2>1 DEF PublishResults, TablesOK, history
  <2> QED
    BY <1>2, <2>1, <2>2, <2>3, Untouched DEF PublishResults
<1>3. CASE PublishFails(d)
  <2>1. InboxOK' /\ dedup' \subseteq Job \X Vantage
    BY <1>3, AcceptType DEF PublishFails, InboxOK, TablesOK
  <2>2. ExecOK'
    BY <1>3, Blanks DEF PublishFails, ExecOK
  <2>3. JobsOK'
    <3>1. d[1] \in Job
      BY DEF Delivery
    <3> QED
      BY <1>3, <3>1, JobPhaseType, Untouched DEF PublishFails, Redeliverable
  <2>4. TablesOK'
    BY <1>3, <2>1 DEF PublishFails, Fault, TablesOK, history
  <2> QED
    BY <1>3, <2>1, <2>2, <2>3, <2>4, Untouched DEF PublishFails
<1>4. CASE AckJob(d)
  <2>1. JobsOK'
    <3>1. d[1] \in Job
      BY DEF Delivery
    <3> QED
      BY <1>4, <3>1, JobPhaseType DEF AckJob
  <2>2. ExecOK' /\ TablesOK'
    BY <1>4, Blanks DEF AckJob, ExecOK, TablesOK, history
  <2> QED
    BY <1>4, <2>1, <2>2, Untouched DEF AckJob
<1>5. CASE LoseAck(d)
  <2>1. ExecOK' /\ TablesOK'
    BY <1>5, Blanks DEF LoseAck, Fault, ExecOK, TablesOK, history
  <2> QED
    BY <1>5, <2>1, Untouched DEF LoseAck
<1> QED
  BY <1>1, <1>2, <1>3, <1>4, <1>5 DEF Work

LEMMA CrashType == ASSUME TypeInv, NEW w \in Worker, WorkerCrash(w) PROVE TypeInv'
<1>1. ExecOK'
  <2>1. exec' = [d \in Delivery |-> IF exec[d].worker = w THEN Gone ELSE exec[d]]
    BY DEF WorkerCrash
  <2> QED
    BY <2>1, Blanks DEF TypeInv, ExecOK
<1>2. TablesOK'
  BY DEF WorkerCrash, Fault, TypeInv, TablesOK, history
<1> QED
  BY <1>1, <1>2, Untouched DEF WorkerCrash, TypeInv

\* The ways the coordinator's own state changes.
LEMMA CoordTodoType ==
    ASSUME CoordOK, NEW T \in SUBSET Check, coord' = [coord EXCEPT !.todo = T] PROVE CoordOK'
  BY CoordTodo DEF CoordOK

LEMMA CoordNextType ==
    ASSUME CoordOK, coord' = [coord EXCEPT !.phase = "items", !.item = None] PROVE CoordOK'
  BY CoordNextItem DEF CoordOK

LEMMA AfterRecomputeType ==
    ASSUME CoordOK, coord.phase = "recompute", coord' = AfterRecompute PROVE CoordOK'
<1>1. CASE coord' = [coord EXCEPT !.phase = "enqueue"]
  BY <1>1, CoordEnqueue DEF CoordOK
<1> QED
  BY <1>1, CoordNextType DEF AfterRecompute

LEMMA CoordIdleType ==
    ASSUME coord' \in {IdleCoord, [IdleCoord EXCEPT !.phase = "down"]} PROVE CoordOK'
  BY Blanks DEF CoordOK, IdleCoord

\* A step of the coordinator's ingest.
LEMMA IngestType ==
    ASSUME TypeInv, Ingest PROVE TypeInv'
<1> USE DEF TypeInv
<1>0. coord.todo \in SUBSET Check
  BY DEF CoordOK, CoordRec
<1>1. ASSUME NEW d \in Delivery, FetchResults(d) PROVE TypeInv'
  <2> DEFINE r == [inbox[d] EXCEPT !.phase = "leased", !.tries = @ + 1]
             x == [phase |-> "items", msg |-> d, todo |-> inbox[d].items, item |-> None]
  <2>1. inbox[d] \in InboxRec /\ inbox[d].tries < MaxDeliver
    BY <1>1 DEF FetchResults, InboxOK
  <2>2. r \in InboxRec /\ r.phase = "leased"
    BY <2>1, InboxFetched
  <2>3. inbox' = [inbox EXCEPT ![d] = r] /\ coord' = x
    BY <1>1 DEF FetchResults, InboxOK
  <2>4. x \in CoordRec /\ x.phase = "items"
    BY <2>1 DEF CoordRec, InboxRec
  <2> HIDE DEF r, x
  <2>5. InboxOK' /\ CoordOK'
    BY <2>2, <2>3, <2>4 DEF InboxOK, CoordOK
  <2>6. TablesOK'
    BY <1>1 DEF FetchResults, TablesOK, history
  <2> QED
    BY <1>1, <2>5, <2>6, Untouched DEF FetchResults
<1>2. ASSUME NEW c \in coord.todo, InsertCheck(c) PROVE TypeInv'
  <2>1. c \in Check /\ c.node \in Node
    BY <1>0 DEF Check
  <2>2. CoordOK'
    <3> DEFINE T == coord.todo \ {c}
               r == [coord EXCEPT !.phase = "recompute", !.todo = T, !.item = c]
    <3>1. coord' = r
      BY <1>2 DEF InsertCheck
    <3>2. coord \in CoordRec /\ T \in SUBSET Check
      BY <1>0 DEF CoordOK
    <3> HIDE DEF T
    <3>3. r \in CoordRec /\ r.item = c
      BY <2>1, <3>2 DEF CoordRec
    <3> HIDE DEF r
    <3> QED
      BY <2>1, <3>1, <3>3 DEF CoordOK
  <2>3. TablesOK'
    BY <1>2, <2>1 DEF InsertCheck, TablesOK
  <2> QED
    BY <1>2, <2>2, <2>3, Untouched DEF InsertCheck
<1>3. ASSUME NEW c \in coord.todo, SkipDuplicate(c) PROVE TypeInv'
  <2>1. CoordOK'
    BY <1>0, <1>3, CoordTodoType DEF SkipDuplicate
  <2>2. TablesOK'
    BY <1>3 DEF SkipDuplicate, TablesOK, history
  <2> QED
    BY <1>3, <2>1, <2>2, Untouched DEF SkipDuplicate
<1>4. CASE Recompute
  <2>1. coord.item \in Check
    BY <1>4 DEF Recompute, CoordOK
  <2>2. CoordOK'
    BY <1>4, AfterRecomputeType DEF Recompute
  <2>3. row' \in [Node -> Row]
    <3>1. PICK r \in Aggregates(checks, coord.item.node) :
             row' = [row EXCEPT ![coord.item.node] = r]
      BY <1>4 DEF Recompute
    <3>2. r \in Row
      BY AggregateType DEF TablesOK
    <3> QED
      BY <3>1, <3>2 DEF TablesOK
  <2>4. TablesOK'
    BY <1>4, <2>3 DEF Recompute, TablesOK
  <2> QED
    BY <1>4, <2>2, <2>4, Untouched DEF Recompute
<1>5. CASE EnqueueL1
  <2>1. coord.item \in Check /\ coord.item.node \in Node
    BY <1>5 DEF EnqueueL1, CoordOK, Check
  <2>2. JobsOK'
    <3>1. PICK j \in Job : Post(j, "L1", Cloud, {coord.item.node}, {coord.item})
      BY <1>5 DEF EnqueueL1
    <3>2. "L1" \in Stage /\ Cloud \in Vantage
      BY DEF Stage, Vantage
    <3> QED
      BY <2>1, <3>1, <3>2, PostType
  <2>3. CoordOK'
    BY <1>5, CoordNextType DEF EnqueueL1
  <2>4. TablesOK'
    BY <1>5 DEF EnqueueL1, TablesOK
  <2> QED
    BY <1>5, <2>2, <2>3, <2>4, Untouched DEF EnqueueL1
<1>6. CASE AckResults
  <2>1. InboxOK'
    <3>1. CASE coord.msg \in Delivery
      BY <1>6, <3>1, InboxPhaseType DEF AckResults
    <3>2. CASE coord.msg \notin Delivery
      BY <1>6, <3>2 DEF AckResults, InboxOK
    <3> QED
      BY <3>1, <3>2
  <2>2. CoordOK' /\ TablesOK'
    BY <1>6, CoordIdleType DEF AckResults, TablesOK, history
  <2> QED
    BY <1>6, <2>1, <2>2, Untouched DEF AckResults
<1> QED
  BY <1>1, <1>2, <1>3, <1>4, <1>5, <1>6 DEF Ingest

\* A step of the ingest that goes wrong.
LEMMA IngestFailsType ==
    ASSUME TypeInv,
           \/ \E c \in coord.todo : InsertFails(c)
           \/ RecomputeFails \/ EnqueueFails \/ LoseResultsAck \/ CoordCrash \/ CoordRestart
    PROVE  TypeInv'
<1> USE DEF TypeInv
<1>1. ASSUME NEW c \in coord.todo, InsertFails(c) PROVE TypeInv'
  <2>1. coord.todo \in SUBSET Check
    BY DEF CoordOK, CoordRec
  <2>2. CoordOK'
    BY <1>1, <2>1, CoordTodoType DEF InsertFails
  <2>3. TablesOK'
    BY <1>1, <2>1 DEF InsertFails, Fault, TablesOK
  <2> QED
    BY <1>1, <2>2, <2>3, Untouched DEF InsertFails
<1>2. CASE RecomputeFails
  <2>1. CoordOK' /\ TablesOK'
    BY <1>2, AfterRecomputeType DEF RecomputeFails, Fault, TablesOK, history
  <2> QED
    BY <1>2, <2>1, Untouched DEF RecomputeFails
<1>3. CASE EnqueueFails
  <2>1. CoordOK' /\ TablesOK'
    BY <1>3, CoordNextType DEF EnqueueFails, Fault, TablesOK, history
  <2> QED
    BY <1>3, <2>1, Untouched DEF EnqueueFails
<1>4. CASE LoseResultsAck
  <2>1. CoordOK' /\ TablesOK'
    BY <1>4, CoordIdleType DEF LoseResultsAck, Fault, TablesOK, history
  <2> QED
    BY <1>4, <2>1, Untouched DEF LoseResultsAck
<1>5. CASE CoordCrash
  <2>1. CoordOK' /\ PlannerOK'
    BY <1>5, CoordIdleType, Blanks DEF CoordCrash, PlannerOK
  <2>2. TablesOK'
    BY <1>5 DEF CoordCrash, Fault, TablesOK, history
  <2> QED
    BY <1>5, <2>1, <2>2, Untouched DEF CoordCrash
<1>6. CASE CoordRestart
  <2>1. CoordOK' /\ TablesOK'
    BY <1>6, CoordIdleType DEF CoordRestart, TablesOK, history
  <2> QED
    BY <1>6, <2>1, Untouched DEF CoordRestart
<1> QED
  BY <1>1, <1>2, <1>3, <1>4, <1>5, <1>6

\* Every step keeps the types.
LEMMA TypeStep == TypeInv /\ [Next]_vars => TypeInv'
<1> SUFFICES ASSUME TypeInv, [Next]_vars PROVE TypeInv'
  OBVIOUS
<1>1. CASE Tick
  BY <1>1, Untouched DEF Tick, TypeInv, TablesOK, Instant, Never, history
<1>2. CASE UNCHANGED vars
  BY <1>2, Untouched DEF vars, TypeInv, TablesOK, history
<1>3. CASE Broken
  BY <1>3, PlanType, WorkerType, CrashType, IngestFailsType DEF Broken
<1> QED
  BY <1>1, <1>2, <1>3, PlanType, BrokerType, WorkerType, IngestType, IngestFailsType DEF Next

\* Every value of the state is of its type in every execution (the property TypeOK).
THEOREM TypeCorrect == Spec => []TypeOK
<1>1. TypeInv => TypeOK
  BY DEF TypeInv, TypeOK, JobsOK, ExecOK, InboxOK, PlannerOK, CoordOK, TablesOK
<1> QED
  BY <1>1, TypeInit, TypeStep, PTL DEF Spec

-----------------------------------------------------------------------------
(***************************************************************************)
(* The costly probes are earned: the property CostlyProbesEarned.  A node  *)
(* is alive only if a passed L1 check of it is in node_checks, checks are  *)
(* never deleted, and the planner's queries for L2 and for validators ask  *)
(* for nodes that are alive.                                               *)
(***************************************************************************)
\* A passed L1 probe of n is in node_checks.
Earned(n) == L1Passes(OfNode(checks, n)) # {}

AliveEarned == \A n \in Node : row[n].status = "alive" => Earned(n)

\* What the planner has yet to publish is earned if it is for L2 or a validator.
PlannedEarned ==
    /\ planner.stage \in {"L2", "VAL"} => \A n \in planner.todo : Earned(n)
    /\ \A n \in planner.top : Earned(n)

PlanInv == TypeInv /\ AliveEarned /\ PlannedEarned /\ CostlyProbesEarned

-----------------------------------------------------------------------------
\* At first no node is alive and no job is queued.
LEMMA PlanInit == Init => PlanInv
<1> SUFFICES ASSUME Init PROVE PlanInv
  OBVIOUS
<1>1. AliveEarned
  BY DEF Init, AliveEarned, NewRow
<1>2. PlannedEarned /\ CostlyProbesEarned
  BY DEF Init, PlannedEarned, CostlyProbesEarned, IdlePlan, FreeJob
<1> QED
  BY <1>1, <1>2, TypeInit DEF PlanInv

\* What is earned stays earned.
LEMMA EarnedStays == ASSUME checks \subseteq checks', NEW n, Earned(n) PROVE Earned(n)'
  BY DEF Earned, L1Passes, OfNode

\* An aggregate says alive only on a passed L1 check.
LEMMA AggregateEarned ==
    ASSUME NEW n, NEW r \in Aggregates(checks, n), r.status = "alive" PROVE Earned(n)
<1>1. PICK L \in LatestByVantage(checks, n) : r = Aggregate(L)
  BY DEF Aggregates
<1>2. L \subseteq OfNode(checks, n)
  BY DEF LatestByVantage, NewestOf, OfNode
<1>3. L1Passes(L) # {}
  BY <1>1 DEF Aggregate
<1> QED
  BY <1>2, <1>3 DEF Earned, L1Passes

\* No step but a publish of jobs touches the stage or the nodes of a job.
LEMMA JobsKept ==
    ASSUME TypeInv, NEW j \in Job, NEW r \in JobRec, jobs' = [jobs EXCEPT ![j] = r],
           r.stage = jobs[j].stage, r.nodes = jobs[j].nodes
    PROVE  \A i \in Job : jobs'[i].stage = jobs[i].stage /\ jobs'[i].nodes = jobs[i].nodes
  BY DEF TypeInv, JobsOK

LEMMA PhaseKept ==
    ASSUME TypeInv, NEW j \in Job, NEW ph \in {"free", "ready", "leased", "acked", "dead"},
           jobs' = [jobs EXCEPT ![j].phase = ph]
    PROVE  \A i \in Job : jobs'[i].stage = jobs[i].stage /\ jobs'[i].nodes = jobs[i].nodes
<1> DEFINE r == [jobs[j] EXCEPT !.phase = ph]
<1>1. jobs' = [jobs EXCEPT ![j] = r] /\ jobs[j] \in JobRec
  BY DEF TypeInv, JobsOK
<1>2. r \in JobRec /\ r.stage = jobs[j].stage /\ r.nodes = jobs[j].nodes
  BY <1>1, JobPhase
<1> HIDE DEF r
<1> QED
  BY <1>1, <1>2, JobsKept

\* A posted job of earned nodes, or of a cheap stage, keeps the property.
LEMMA PostEarned ==
    ASSUME PlanInv, NEW j \in Job, NEW s, NEW v, NEW S, NEW cause, Post(j, s, v, S, cause),
           checks \subseteq checks', s \in {"L2", "VAL"} => \A n \in S : Earned(n)
    PROVE  CostlyProbesEarned'
<1> DEFINE r == [phase |-> "ready", stage |-> s, vantage |-> v, nodes |-> S,
                 tries |-> 0, cause |-> cause]
<1>1. jobs' = [jobs EXCEPT ![j] = r] /\ jobs \in [Job -> JobRec]
  BY DEF Post, PlanInv, TypeInv, JobsOK
<1>2. r.stage = s /\ r.nodes = S
  OBVIOUS
<1> HIDE DEF r
<1>3. \A n : Earned(n) => Earned(n)'
  BY EarnedStays
<1> QED
  BY <1>1, <1>2, <1>3 DEF PlanInv, CostlyProbesEarned, Earned

\* Jobs keep their stage and nodes, rows their status or an earned one, the planner its plan.
LEMMA PlanFrame ==
    ASSUME PlanInv, TypeInv', checks \subseteq checks',
           \A i \in Job : jobs'[i].stage = jobs[i].stage /\ jobs'[i].nodes = jobs[i].nodes,
           UNCHANGED <<row, planner>>
    PROVE  PlanInv'
<1>1. \A n : Earned(n) => Earned(n)'
  BY EarnedStays
<1>2. AliveEarned' /\ PlannedEarned' /\ CostlyProbesEarned'
  BY <1>1 DEF PlanInv, AliveEarned, PlannedEarned, CostlyProbesEarned, Earned
<1> QED
  BY <1>2 DEF PlanInv

-----------------------------------------------------------------------------
\* A step of the planner.
LEMMA AfterEarned ==
    ASSUME PlanInv, NEW T, T \subseteq planner.todo, planner' = PlanAfter(T), UNCHANGED checks
    PROVE  PlannedEarned'
<1>1. \A n : Earned(n) => Earned(n)'
  BY EarnedStays
<1>2. planner \in PlanRec
  BY DEF PlanInv, TypeInv, PlannerOK
<1>3. CASE planner' = [stage |-> "L2", vantage |-> planner.vantage, todo |-> planner.top, top |-> {}]
  BY <1>1, <1>3 DEF PlanInv, PlannedEarned
<1>4. CASE planner' = IdlePlan
  BY <1>4 DEF PlannedEarned, IdlePlan
<1>5. CASE planner' = [planner EXCEPT !.todo = T]
  <2>1. planner'.stage = planner.stage /\ planner'.todo = T /\ planner'.top = planner.top
    BY <1>2, <1>5 DEF PlanRec
  <2> QED
    BY <1>1, <2>1 DEF PlanInv, PlannedEarned
<1> QED
  BY <1>3, <1>4, <1>5 DEF PlanAfter

LEMMA PlannerEarned == ASSUME PlanInv, TypeInv', Plan \/ PlanFail PROVE PlanInv'
<1>1. ASSUME NEW s \in Stage, NEW v \in Vantage, PlanQuery(s, v) PROVE PlanInv'
  <2> DEFINE found == Selected(s, v)
  <2>1. PICK top \in SUBSET found :
           /\ planner' = [stage |-> s, vantage |-> v, todo |-> found, top |-> top]
           /\ s # "VAL" => top = {}
    BY <1>1 DEF PlanQuery
  <2>2. UNCHANGED <<jobs, checks, row>>
    BY <1>1 DEF PlanQuery
  <2>3. s \in {"L2", "VAL"} => \A n \in found : Earned(n)
    BY DEF Selected, WantsL2, WantsValidation, PlanInv, AliveEarned
  <2> HIDE DEF found
  <2>4. \A n : Earned(n) => Earned(n)'
    BY <2>2, EarnedStays
  <2>5. AliveEarned' /\ CostlyProbesEarned'
    BY <2>2, <2>4 DEF PlanInv, AliveEarned, CostlyProbesEarned, Earned
  <2>6. PlannedEarned'
    BY <2>1, <2>3, <2>4 DEF PlannedEarned
  <2> QED
    BY <2>5, <2>6 DEF PlanInv
<1>2. CASE PlanPublish
  <2>1. PICK j \in Job, S \in SUBSET planner.todo :
           /\ Post(j, planner.stage, planner.vantage, S, {})
           /\ planner' = PlanAfter(planner.todo \ S)
    BY <1>2 DEF PlanPublish
  <2>2. UNCHANGED <<checks, row>>
    BY <1>2 DEF PlanPublish
  <2>3. CostlyProbesEarned'
    BY <2>1, <2>2, PostEarned DEF PlanInv, PlannedEarned
  <2>4. PlannedEarned'
    BY <2>1, <2>2, AfterEarned
  <2>5. AliveEarned'
    BY <2>2 DEF PlanInv, AliveEarned, Earned
  <2> QED
    BY <2>3, <2>4, <2>5 DEF PlanInv
<1>3. CASE PlanFail
  <2>1. planner' = PlanAfter({}) /\ UNCHANGED <<jobs, checks, row>>
    BY <1>3 DEF PlanFail
  <2>2. PlannedEarned'
    BY <2>1, AfterEarned
  <2>3. AliveEarned' /\ CostlyProbesEarned'
    BY <2>1 DEF PlanInv, AliveEarned, CostlyProbesEarned, Earned
  <2> QED
    BY <2>2, <2>3 DEF PlanInv
<1> QED
  BY <1>1, <1>2, <1>3 DEF Plan

\* The steps that change the phase of a job at most.
LEMMA BrokerEarned == ASSUME PlanInv, TypeInv', Broker PROVE PlanInv'
<1>1. ASSUME NEW w \in Worker, NEW j \in Job, Fetch(w, j) PROVE PlanInv'
  <2> DEFINE r == [jobs[j] EXCEPT !.phase = "leased", !.tries = @ + 1]
  <2>1. jobs[j] \in JobRec /\ jobs[j].tries < MaxDeliver
    BY <1>1 DEF Fetch, PlanInv, TypeInv, JobsOK
  <2>2. r \in JobRec /\ r.nodes = jobs[j].nodes /\ r.stage = jobs[j].stage
    BY <2>1, JobFetched
  <2>3. jobs' = [jobs EXCEPT ![j] = r] /\ UNCHANGED <<checks, row, planner>>
    BY <1>1 DEF Fetch, PlanInv, TypeInv, JobsOK
  <2> HIDE DEF r
  <2>4. \A i \in Job : jobs'[i].stage = jobs[i].stage /\ jobs'[i].nodes = jobs[i].nodes
    BY <2>2, <2>3, JobsKept DEF PlanInv
  <2> QED
    BY <2>3, <2>4, PlanFrame
<1>2. ASSUME NEW j \in Job, JobAckWait(j) PROVE PlanInv'
  <2>1. \A i \in Job : jobs'[i].stage = jobs[i].stage /\ jobs'[i].nodes = jobs[i].nodes
    BY <1>2, PhaseKept DEF JobAckWait, Redeliverable, PlanInv
  <2> QED
    BY <1>2, <2>1, PlanFrame DEF JobAckWait
<1>3. ASSUME UNCHANGED <<jobs, checks, row, planner>> PROVE PlanInv'
  BY <1>3, PlanFrame
<1> QED
  BY <1>1, <1>2, <1>3 DEF Broker, ResultsAckWait, WindowEnds

LEMMA WorkerEarned ==
    ASSUME PlanInv, TypeInv', NEW d \in Delivery,
           Work(d) \/ PublishFails(d) \/ LoseAck(d)
    PROVE  PlanInv'
<1>0. d[1] \in Job
  BY DEF Delivery
<1>1. UNCHANGED <<checks, row, planner>>
  BY DEF Work, Probe, PublishResults, AckJob, PublishFails, LoseAck
<1>2. \A i \in Job : jobs'[i].stage = jobs[i].stage /\ jobs'[i].nodes = jobs[i].nodes
  <2>1. CASE UNCHANGED jobs
    BY <2>1
  <2>2. ASSUME NEW ph \in {"free", "ready", "leased", "acked", "dead"},
               jobs' = [jobs EXCEPT ![d[1]].phase = ph]
        PROVE  \A i \in Job : jobs'[i].stage = jobs[i].stage /\ jobs'[i].nodes = jobs[i].nodes
    BY <1>0, <2>2, PhaseKept DEF PlanInv
  <2> QED
    BY <2>1, <2>2 DEF Work, Probe, PublishResults, AckJob, PublishFails, LoseAck, Redeliverable
<1> QED
  BY <1>1, <1>2, PlanFrame

\* A recompute makes a node alive only on a passed L1 check; a follow-up is an L1 job.
LEMMA IngestEarned ==
    ASSUME PlanInv, TypeInv', Ingest PROVE PlanInv'
<1>1. CASE Recompute
  <2>1. PICK r \in Aggregates(checks, coord.item.node) :
           row' = [row EXCEPT ![coord.item.node] = r]
    BY <1>1 DEF Recompute
  <2>2. UNCHANGED <<jobs, checks, planner>>
    BY <1>1 DEF Recompute
  <2>3. row \in [Node -> Row]
    BY DEF PlanInv, TypeInv, TablesOK
  <2>4. r.status = "alive" => Earned(coord.item.node)
    BY AggregateEarned
  <2>5. AliveEarned'
    BY <2>1, <2>2, <2>3, <2>4 DEF PlanInv, AliveEarned, Earned
  <2>6. PlannedEarned' /\ CostlyProbesEarned'
    BY <2>2 DEF PlanInv, PlannedEarned, CostlyProbesEarned, Earned
  <2> QED
    BY <2>5, <2>6 DEF PlanInv
<1>2. CASE EnqueueL1
  <2>1. PICK j \in Job : Post(j, "L1", Cloud, {coord.item.node}, {coord.item})
    BY <1>2 DEF EnqueueL1
  <2>2. UNCHANGED <<checks, row, planner>>
    BY <1>2 DEF EnqueueL1
  <2>3. CostlyProbesEarned'
    BY <2>1, <2>2, PostEarned
  <2>4. AliveEarned' /\ PlannedEarned'
    BY <2>2 DEF PlanInv, AliveEarned, PlannedEarned, Earned
  <2> QED
    BY <2>3, <2>4 DEF PlanInv
<1>3. ASSUME NEW c \in coord.todo, InsertCheck(c) PROVE PlanInv'
  <2>1. checks \subseteq checks' /\ UNCHANGED <<jobs, row, planner>>
    BY <1>3 DEF InsertCheck
  <2> QED
    BY <2>1, PlanFrame
<1>4. ASSUME UNCHANGED <<jobs, checks, row, planner>> PROVE PlanInv'
  BY <1>4, PlanFrame
<1> QED
  BY <1>1, <1>2, <1>3, <1>4 DEF Ingest, FetchResults, SkipDuplicate, AckResults

-----------------------------------------------------------------------------
LEMMA PlanStep == PlanInv /\ [Next]_vars => PlanInv'
<1> SUFFICES ASSUME PlanInv, [Next]_vars PROVE PlanInv'
  OBVIOUS
<1>0. TypeInv'
  BY TypeStep DEF PlanInv
<1>1. ASSUME UNCHANGED <<jobs, checks, row, planner>> PROVE PlanInv'
  BY <1>0, <1>1, PlanFrame
<1>2. CASE CoordCrash
  <2>1. planner' = IdlePlan /\ UNCHANGED <<jobs, checks, row>>
    BY <1>2 DEF CoordCrash
  <2>2. PlannedEarned'
    BY <2>1 DEF PlannedEarned, IdlePlan
  <2>3. AliveEarned' /\ CostlyProbesEarned'
    BY <2>1 DEF PlanInv, AliveEarned, CostlyProbesEarned, Earned
  <2> QED
    BY <1>0, <2>2, <2>3 DEF PlanInv
<1>3. CASE Broken
  BY <1>0, <1>1, <1>2, <1>3, PlannerEarned, WorkerEarned
     DEF Broken, WorkerCrash, InsertFails, RecomputeFails, EnqueueFails, LoseResultsAck
<1>4. CASE Tick \/ CoordRestart \/ UNCHANGED vars
  BY <1>1, <1>4 DEF Tick, CoordRestart, vars
<1> QED
  BY <1>0, <1>3, <1>4, PlannerEarned, BrokerEarned, WorkerEarned, IngestEarned DEF Next

\* No L2 or validator job for a node that never passed L1 (CostlyProbesEarned).
THEOREM ProbesEarned == Spec => []CostlyProbesEarned
<1>1. PlanInv => CostlyProbesEarned
  BY DEF PlanInv
<1> QED
  BY <1>1, PlanInit, PlanStep, PTL DEF Spec
-----------------------------------------------------------------------------
(***************************************************************************)
(* What follows an insert: the properties AggregateFresh and OneL1PerPass. *)
(* The coordinator works at one row at a time, which the table did not     *)
(* have before, so that no other job can have been queued for it; when it  *)
(* leaves a row without recompute or L1 job, a fault has been counted.     *)
(***************************************************************************)
Busy == coord.phase \in {"recompute", "enqueue"}

FreshOrStale ==
    \A n \in Node : OfNode(checks, n) # {} => row[n] \in Aggregates(checks, n) \/ n \in stale

StaleWhy == \A n \in stale : faults > 0 \/ (coord.phase = "recompute" /\ coord.item.node = n)

PassedL0(c) == c.stage = "L0" /\ c.ok
Caused(c)   == \E j \in Job : c \in jobs[j].cause

CausesDistinct == \A i, j \in Job : i # j => jobs[i].cause \cap jobs[j].cause = {}
CausesRecorded == \A j \in Job : jobs[j].cause \subseteq checks
FreeUncaused   == \A j \in Job : jobs[j].phase = "free" => jobs[j].cause = {}

\* The row at hand is in the table and has no job yet.
ItemNew == Busy => coord.item \in checks /\ ~Caused(coord.item)

PassFollowed ==
    \A c \in checks : PassedL0(c) =>
        Caused(c) \/ (c \in missed /\ (faults > 0 \/ (Busy /\ c = coord.item)))

CauseInv  == CausesDistinct /\ CausesRecorded /\ FreeUncaused /\ ItemNew
FollowInv == TypeInv /\ FreshOrStale /\ StaleWhy /\ CauseInv /\ PassFollowed

LEMMA FollowInit == Init => FollowInv
<1> SUFFICES ASSUME Init PROVE FollowInv
  OBVIOUS
<1>1. FreshOrStale /\ StaleWhy /\ PassFollowed
  BY DEF Init, FreshOrStale, StaleWhy, PassFollowed, OfNode
<1>2. \A j \in Job : jobs[j].cause = {}
  BY DEF Init, FreeJob
<1>3. ~Busy
  BY DEF Init, Busy, IdleCoord
<1>4. CauseInv
  BY <1>2, <1>3 DEF CauseInv, CausesDistinct, CausesRecorded, FreeUncaused, ItemNew
<1> QED
  BY <1>1, <1>4, TypeInit DEF FollowInv

-----------------------------------------------------------------------------
\* Jobs keep their cause, and none is given back.
CausesKept ==
    \A i \in Job : jobs'[i].cause = jobs[i].cause /\ (jobs'[i].phase = "free" => jobs[i].phase = "free")

\* A step that neither inserts, recomputes nor queues, and counts a fault if it leaves a
\* row behind.
Quiet ==
    /\ UNCHANGED <<checks, row, stale, missed>>
    /\ CausesKept
    /\ Busy' => Busy /\ coord'.item = coord.item
    /\ faults' > 0 \/ (faults' = faults /\ (coord' = coord \/ ~Busy))

LEMMA QuietFollow == ASSUME FollowInv, TypeInv', Quiet PROVE FollowInv'
<1>1. FreshOrStale'
  BY DEF FollowInv, FreshOrStale, Quiet
<1>2. StaleWhy'
  BY DEF FollowInv, StaleWhy, Quiet, Busy
<1>3. \A c : Caused(c)' <=> Caused(c)
  BY DEF Quiet, CausesKept, Caused
<1>4. CauseInv'
  BY <1>3 DEF FollowInv, CauseInv, CausesDistinct, CausesRecorded, FreeUncaused, ItemNew, Quiet, CausesKept
<1>5. PassFollowed'
  BY <1>3 DEF FollowInv, PassFollowed, Quiet, Busy, PassedL0
<1> QED
  BY <1>1, <1>2, <1>4, <1>5 DEF FollowInv

LEMMA CauseOfPhase ==
    ASSUME TypeInv, NEW j \in Job, NEW ph \in {"ready", "leased", "acked", "dead"},
           jobs' = [jobs EXCEPT ![j].phase = ph]
    PROVE  CausesKept
<1> DEFINE r == [jobs[j] EXCEPT !.phase = ph]
<1>1. jobs' = [jobs EXCEPT ![j] = r] /\ jobs[j] \in JobRec /\ jobs \in [Job -> JobRec]
  BY DEF TypeInv, JobsOK
<1>2. r.cause = jobs[j].cause /\ r.phase = ph
  BY <1>1 DEF JobRec
<1> HIDE DEF r
<1> QED
  BY <1>1, <1>2 DEF CausesKept

LEMMA NothingPosted == ASSUME UNCHANGED jobs PROVE CausesKept
  BY DEF CausesKept

\* A posted job is new, so its cause is all that comes to the causes.
LEMMA PostedCauses ==
    ASSUME FollowInv, NEW j \in Job, IsNew(j), NEW s, NEW v, NEW S, NEW cause, Post(j, s, v, S, cause)
    PROVE  /\ jobs'[j].cause = cause /\ jobs'[j].phase = "ready" /\ jobs[j].cause = {}
           /\ \A i \in Job : i # j => jobs'[i] = jobs[i]
<1> DEFINE r == [phase |-> "ready", stage |-> s, vantage |-> v, nodes |-> S,
                 tries |-> 0, cause |-> cause]
<1>1. jobs' = [jobs EXCEPT ![j] = r] /\ jobs \in [Job -> JobRec]
  BY DEF Post, FollowInv, TypeInv, JobsOK
<1>2. r.cause = cause /\ r.phase = "ready"
  OBVIOUS
<1> HIDE DEF r
<1>3. jobs'[j] = r /\ \A i \in Job : i # j => jobs'[i] = jobs[i]
  BY <1>1
<1>4. jobs[j].cause = {}
  BY DEF IsNew, FollowInv, CauseInv, FreeUncaused
<1> QED
  BY <1>2, <1>3, <1>4

\* A fault is counted.
LEMMA FaultCounted == ASSUME TypeInv, NEW kind, Fault(kind) PROVE faults' > 0
<1>1. faults \in Nat
  BY DEF TypeInv, TablesOK
<1> QED
  BY <1>1 DEF Fault

-----------------------------------------------------------------------------
\* The planner's jobs have no cause.
LEMMA PlanFollow == ASSUME FollowInv, TypeInv', Plan \/ PlanFail PROVE FollowInv'
<1>0. TypeInv
  BY DEF FollowInv
<1>1. UNCHANGED <<checks, row, stale, missed, coord>> /\ (faults' = faults \/ faults' > 0)
  BY <1>0, FaultCounted DEF Plan, PlanQuery, PlanPublish, PlanFail, history
<1>2. CausesKept
  <2>1. CASE PlanPublish
    <3>1. PICK j \in Job, S \in SUBSET planner.todo :
             IsNew(j) /\ Post(j, planner.stage, planner.vantage, S, {})
      BY <2>1 DEF PlanPublish
    <3> QED
      BY <3>1, PostedCauses DEF CausesKept
  <2>2. CASE UNCHANGED jobs
    BY <2>2, NothingPosted
  <2> QED
    BY <2>1, <2>2 DEF Plan, PlanQuery, PlanFail
<1> QED
  BY <1>1, <1>2, QuietFollow DEF Quiet, Busy

\* Deliveries and workers change no more than the phase of a job.
LEMMA BrokerFollow == ASSUME FollowInv, TypeInv', Broker PROVE FollowInv'
<1>0. TypeInv
  BY DEF FollowInv
<1>1. UNCHANGED <<checks, row, stale, missed, coord, faults>>
  BY DEF Broker, Fetch, JobAckWait, ResultsAckWait, WindowEnds, history
<1>2. ASSUME NEW w \in Worker, NEW j \in Job, Fetch(w, j) PROVE CausesKept
  <2> DEFINE r == [jobs[j] EXCEPT !.phase = "leased", !.tries = @ + 1]
  <2>1. jobs' = [jobs EXCEPT ![j] = r] /\ jobs[j] \in JobRec /\ jobs \in [Job -> JobRec]
    BY <1>0, <1>2 DEF Fetch, TypeInv, JobsOK
  <2>2. r.cause = jobs[j].cause /\ r.phase = "leased"
    BY <2>1 DEF JobRec
  <2> HIDE DEF r
  <2> QED
    BY <2>1, <2>2 DEF CausesKept
<1>3. ASSUME NEW j \in Job, JobAckWait(j) PROVE CausesKept
  BY <1>0, <1>3, CauseOfPhase DEF JobAckWait, Redeliverable
<1>4. UNCHANGED jobs => CausesKept
  BY NothingPosted
<1>5. CausesKept
  BY <1>2, <1>3, <1>4 DEF Broker, ResultsAckWait, WindowEnds
<1> QED
  BY <1>1, <1>5, QuietFollow DEF Quiet, Busy

LEMMA WorkerFollow ==
    ASSUME FollowInv, TypeInv', NEW d \in Delivery, Work(d) \/ PublishFails(d) \/ LoseAck(d)
    PROVE  FollowInv'
<1>0. TypeInv /\ d[1] \in Job
  BY DEF FollowInv, Delivery
<1>1. UNCHANGED <<checks, row, stale, missed, coord>>
  BY DEF Work, Probe, PublishResults, AckJob, PublishFails, LoseAck, history
<1>2. faults' = faults \/ faults' > 0
  BY <1>0, FaultCounted DEF Work, Probe, PublishResults, AckJob, PublishFails, LoseAck
<1>3. CausesKept
  <2>1. CASE UNCHANGED jobs
    BY <2>1, NothingPosted
  <2>2. ASSUME NEW ph \in {"ready", "leased", "acked", "dead"}, jobs' = [jobs EXCEPT ![d[1]].phase = ph]
        PROVE  CausesKept
    BY <1>0, <2>2, CauseOfPhase
  <2> QED
    BY <2>1, <2>2 DEF Work, Probe, PublishResults, AckJob, PublishFails, LoseAck, Redeliverable
<1> QED
  BY <1>1, <1>2, <1>3, QuietFollow DEF Quiet, Busy
-----------------------------------------------------------------------------
\* The aggregate of a node depends on its own rows only.
LEMMA AggregatesLocal ==
    ASSUME NEW H, NEW c, NEW n, c.node # n
    PROVE  OfNode(H \cup {c}, n) = OfNode(H, n) /\ Aggregates(H \cup {c}, n) = Aggregates(H, n)
<1>1. \A v : NewestOf(H \cup {c}, n, v) = NewestOf(H, n, v)
  BY DEF NewestOf
<1>2. LatestByVantage(H \cup {c}, n) = LatestByVantage(H, n)
  BY <1>1, Zenon DEF LatestByVantage
<1> QED
  BY <1>2 DEF OfNode, Aggregates

\* A row that is new has caused no job, and no other row waits for its follow-up.
LEMMA InsertFollow ==
    ASSUME FollowInv, TypeInv', NEW c \in coord.todo, InsertCheck(c) PROVE FollowInv'
<1>0. /\ TypeInv /\ coord \in CoordRec /\ c \in Check /\ ~Busy /\ coord.phase # "recompute"
  BY DEF FollowInv, TypeInv, CoordOK, CoordRec, InsertCheck, Busy
<1>1. /\ checks' = checks \cup {c} /\ stale' = stale \cup {c.node} /\ UNCHANGED <<jobs, row, faults>>
      /\ missed' = IF PassedL0(c) THEN missed \cup {c} ELSE missed
      /\ c \notin checks
  BY DEF InsertCheck, Recorded, PassedL0
<1>2. coord'.phase = "recompute" /\ coord'.item = c
  BY <1>0, CoordInserted DEF InsertCheck, CoordRec
<1>3. FreshOrStale'
  <2> SUFFICES ASSUME NEW n \in Node, OfNode(checks', n) # {}
               PROVE  row'[n] \in Aggregates(checks', n) \/ n \in stale'
    BY DEF FreshOrStale
  <2>1. CASE n = c.node
    BY <1>1, <2>1
  <2>2. CASE n # c.node
    BY <1>1, <2>2, AggregatesLocal DEF FollowInv, FreshOrStale
  <2> QED
    BY <2>1, <2>2
<1>4. StaleWhy'
  BY <1>0, <1>1, <1>2 DEF FollowInv, StaleWhy
<1>5. ~Caused(c) /\ (\A b : Caused(b)' <=> Caused(b))
  BY <1>1 DEF FollowInv, CauseInv, CausesRecorded, Caused
<1>6. CauseInv'
  BY <1>1, <1>2, <1>5 DEF FollowInv, CauseInv, CausesDistinct, CausesRecorded, FreeUncaused, ItemNew
<1>7. PassFollowed'
  <2> SUFFICES ASSUME NEW b \in checks', PassedL0(b)
               PROVE  Caused(b)' \/ (b \in missed' /\ (faults' > 0 \/ (Busy' /\ b = coord'.item)))
    BY DEF PassFollowed, PassedL0
  <2>1. CASE b = c
    BY <1>1, <1>2, <2>1 DEF Busy
  <2>2. CASE b # c
    BY <1>0, <1>1, <1>5, <2>2 DEF FollowInv, PassFollowed
  <2> QED
    BY <2>1, <2>2
<1> QED
  BY <1>3, <1>4, <1>6, <1>7 DEF FollowInv

\* Where the coordinator goes after a recompute, done or failed.
LEMMA AfterRecomputeBusy ==
    ASSUME TypeInv, coord.phase = "recompute", coord' = AfterRecompute
    PROVE  /\ Busy /\ coord'.phase # "recompute"
           /\ Busy' => coord'.item = coord.item
           /\ PassedL0(coord.item) => Busy'
<1>1. coord \in CoordRec
  BY DEF TypeInv, CoordOK
<1>2. CASE PassedL0(coord.item) /\ coord' = [coord EXCEPT !.phase = "enqueue"]
  <2>1. coord'.phase = "enqueue" /\ coord'.item = coord.item
    BY <1>1, <1>2, CoordEnqueue
  <2> QED
    BY <2>1 DEF Busy
<1>3. CASE ~PassedL0(coord.item) /\ coord' = [coord EXCEPT !.phase = "items", !.item = None]
  <2>1. coord'.phase = "items"
    BY <1>1, <1>3, CoordNextItem
  <2> QED
    BY <1>3, <2>1 DEF Busy
<1> QED
  BY <1>2, <1>3, Zenon DEF AfterRecompute, PassedL0

\* A recompute leaves the row of its node fresh, and a passed L0 to be followed up.
LEMMA RecomputeFollow == ASSUME FollowInv, TypeInv', Recompute PROVE FollowInv'
<1>0. TypeInv /\ row \in [Node -> Row] /\ coord.item \in Check /\ coord.item.node \in Node
  BY DEF FollowInv, TypeInv, TablesOK, CoordOK, Recompute, Check
<1>1. PICK r \in Aggregates(checks, coord.item.node) : row' = [row EXCEPT ![coord.item.node] = r]
  BY DEF Recompute
<1>2. /\ coord.phase = "recompute" /\ coord' = AfterRecompute
      /\ stale' = stale \ {coord.item.node} /\ UNCHANGED <<jobs, checks, faults, missed>>
  BY DEF Recompute
<1>3. /\ Busy /\ coord'.phase # "recompute"
      /\ Busy' => coord'.item = coord.item
      /\ PassedL0(coord.item) => Busy'
  BY <1>0, <1>2, AfterRecomputeBusy
<1>4. FreshOrStale'
  BY <1>0, <1>1, <1>2 DEF FollowInv, FreshOrStale
<1>5. StaleWhy'
  BY <1>2 DEF FollowInv, StaleWhy
<1>6. \A b : Caused(b)' <=> Caused(b)
  BY <1>2 DEF Caused
<1>7. CauseInv'
  BY <1>2, <1>3, <1>6 DEF FollowInv, CauseInv, CausesDistinct, CausesRecorded, FreeUncaused, ItemNew
<1>8. PassFollowed'
  <2> SUFFICES ASSUME NEW b \in checks', PassedL0(b)
               PROVE  Caused(b)' \/ (b \in missed' /\ (faults' > 0 \/ (Busy' /\ b = coord'.item)))
    BY DEF PassFollowed, PassedL0
  <2>1. Caused(b) \/ (b \in missed /\ (faults > 0 \/ b = coord.item))
    BY <1>2 DEF FollowInv, PassFollowed
  <2> QED
    BY <1>2, <1>3, <1>6, <2>1
<1> QED
  BY <1>4, <1>5, <1>7, <1>8 DEF FollowInv

\* The L1 job is the first for its row.
LEMMA EnqueueFollow == ASSUME FollowInv, TypeInv', EnqueueL1 PROVE FollowInv'
<1>0. TypeInv /\ Busy /\ coord \in CoordRec /\ coord.item \in checks /\ ~Caused(coord.item)
  BY DEF FollowInv, TypeInv, CoordOK, EnqueueL1, Busy, CauseInv, ItemNew
<1>1. PICK j \in Job : IsNew(j) /\ Post(j, "L1", Cloud, {coord.item.node}, {coord.item})
  BY DEF EnqueueL1
<1>2. /\ jobs'[j].cause = {coord.item} /\ jobs'[j].phase = "ready" /\ jobs[j].cause = {}
      /\ \A i \in Job : i # j => jobs'[i] = jobs[i]
  BY <1>1, PostedCauses
<1>3. missed' = missed \ {coord.item} /\ UNCHANGED <<checks, row, faults, stale>> /\ coord.phase = "enqueue"
  BY DEF EnqueueL1
<1>4. ~Busy'
  BY <1>0, CoordNextItem DEF EnqueueL1, Busy
<1>5. \A b : Caused(b)' <=> (Caused(b) \/ b = coord.item)
  BY <1>2 DEF Caused
<1>6. FreshOrStale' /\ StaleWhy'
  BY <1>3 DEF FollowInv, FreshOrStale, StaleWhy
<1>7. CausesDistinct'
  BY <1>0, <1>2 DEF FollowInv, CauseInv, CausesDistinct, Caused
<1>8. CausesRecorded' /\ FreeUncaused' /\ ItemNew'
  BY <1>0, <1>2, <1>3, <1>4 DEF FollowInv, CauseInv, CausesRecorded, FreeUncaused, ItemNew
<1>9. PassFollowed'
  <2> SUFFICES ASSUME NEW b \in checks', PassedL0(b), b # coord.item
               PROVE  Caused(b)' \/ (b \in missed' /\ faults' > 0)
    BY <1>5 DEF PassFollowed, PassedL0
  <2> QED
    BY <1>3, <1>5 DEF FollowInv, PassFollowed
<1> QED
  BY <1>6, <1>7, <1>8, <1>9 DEF FollowInv, CauseInv

-----------------------------------------------------------------------------
\* The rest of the coordinator's work on a batch.
LEMMA BatchFollow ==
    ASSUME FollowInv, TypeInv', UNCHANGED <<jobs, checks, row, stale, missed, faults>>, ~Busy, ~Busy'
    PROVE  FollowInv'
  BY QuietFollow, NothingPosted DEF Quiet

LEMMA IngestFollow == ASSUME FollowInv, TypeInv', Ingest PROVE FollowInv'
<1>0. coord \in CoordRec /\ coord.todo \in SUBSET Check
  BY DEF FollowInv, TypeInv, CoordOK, CoordRec
<1>1. ASSUME NEW d \in Delivery, FetchResults(d) PROVE FollowInv'
  BY <1>1, BatchFollow DEF FetchResults, Busy, history
<1>2. ASSUME NEW c \in coord.todo, SkipDuplicate(c) PROVE FollowInv'
  <2>1. coord'.phase = "items" /\ coord.phase = "items"
    BY <1>0, <1>2, CoordTodo DEF SkipDuplicate
  <2> QED
    BY <1>2, <2>1, BatchFollow DEF SkipDuplicate, Busy, history
<1>3. CASE AckResults
  BY <1>3, BatchFollow DEF AckResults, Busy, IdleCoord, history
<1> QED
  BY <1>1, <1>2, <1>3, InsertFollow, RecomputeFollow, EnqueueFollow DEF Ingest

\* A step that counts a fault may leave the row at hand.
LEMMA FaultFollow ==
    ASSUME FollowInv, TypeInv', UNCHANGED <<jobs, checks, row, stale, missed>>, faults' > 0,
           Busy' => Busy /\ coord'.item = coord.item
    PROVE  FollowInv'
  BY QuietFollow, NothingPosted DEF Quiet

LEMMA BrokenFollow == ASSUME FollowInv, TypeInv', Broken PROVE FollowInv'
<1>0. TypeInv /\ coord \in CoordRec /\ coord.todo \in SUBSET Check
  BY DEF FollowInv, TypeInv, CoordOK, CoordRec
<1>1. ASSUME NEW w \in Worker, WorkerCrash(w) PROVE FollowInv'
  BY <1>0, <1>1, FaultCounted, FaultFollow DEF WorkerCrash, Busy, history
<1>2. ASSUME NEW c \in coord.todo, InsertFails(c) PROVE FollowInv'
  <2>1. coord'.phase = "items"
    BY <1>0, <1>2, CoordTodo DEF InsertFails
  <2> QED
    BY <1>0, <1>2, <2>1, FaultCounted, FaultFollow DEF InsertFails, Busy
<1>3. CASE RecomputeFails
  <2>1. Busy /\ (Busy' => coord'.item = coord.item)
    BY <1>0, <1>3, AfterRecomputeBusy DEF RecomputeFails
  <2> QED
    BY <1>0, <1>3, <2>1, FaultCounted, FaultFollow DEF RecomputeFails, history
<1>4. CASE EnqueueFails
  <2>1. coord'.phase = "items"
    BY <1>0, <1>4, CoordNextItem DEF EnqueueFails
  <2> QED
    BY <1>0, <1>4, <2>1, FaultCounted, FaultFollow DEF EnqueueFails, Busy, history
<1>5. CASE LoseResultsAck \/ CoordCrash
  <2>1. ~Busy'
    BY <1>5 DEF LoseResultsAck, CoordCrash, Busy, IdleCoord
  <2> QED
    BY <1>0, <1>5, <2>1, FaultCounted, FaultFollow DEF LoseResultsAck, CoordCrash, history
<1> QED
  BY <1>1, <1>2, <1>3, <1>4, <1>5, PlanFollow, WorkerFollow DEF Broken

LEMMA FollowStep == FollowInv /\ [Next]_vars => FollowInv'
<1> SUFFICES ASSUME FollowInv, [Next]_vars PROVE FollowInv'
  OBVIOUS
<1>0. TypeInv'
  BY TypeStep DEF FollowInv
<1>1. CASE Tick \/ UNCHANGED vars
  BY <1>0, <1>1, QuietFollow, NothingPosted DEF Tick, vars, history, Quiet, Busy
<1>2. CASE CoordRestart
  BY <1>0, <1>2, BatchFollow DEF CoordRestart, Busy, IdleCoord, history
<1> QED
  BY <1>0, <1>1, <1>2, PlanFollow, BrokerFollow, WorkerFollow, IngestFollow, BrokenFollow DEF Next

\* Rows agree with the history but for the one at hand, or after a fault (AggregateFresh).
THEOREM RowsAreFresh == Spec => []AggregateFresh
<1>1. FollowInv => AggregateFresh
  BY DEF FollowInv, FreshOrStale, StaleWhy, AggregateFresh
<1> QED
  BY <1>1, FollowInit, FollowStep, PTL DEF Spec

\* A passed L0 queues one L1 job, and none only when a fault intervened (OneL1PerPass).
THEOREM OneFollowUp == Spec => []OneL1PerPass
<1>1. FollowInv => OneL1PerPass
  <2> SUFFICES ASSUME FollowInv PROVE OneL1PerPass
    OBVIOUS
  <2>1. \A i, j \in Job : i # j => jobs[i].cause \cap jobs[j].cause = {}
    BY DEF FollowInv, CauseInv, CausesDistinct
  <2>2. \A c \in checks : PassedL0(c) => Caused(c) \/ (c \in missed /\ (c = coord.item \/ faults > 0))
    BY DEF FollowInv, PassFollowed
  <2> QED
    BY <2>1, <2>2, Zenon DEF OneL1PerPass, PassedL0, Caused
<1> QED
  BY <1>1, FollowInit, FollowStep, PTL DEF Spec

-----------------------------------------------------------------------------
(***************************************************************************)
(* The order of arrival, and the retest policy, for every history.         *)
(***************************************************************************)
\* A result that arrives after a newer one of its node and vantage changes no row,
\* whatever the two say (LatestByVantage, recomputeNode).
THEOREM LateResultIgnored ==
    ASSUME NEW H \in SUBSET Check, NEW c \in Check, NEW d \in H,
           d.node = c.node, d.vantage = c.vantage, c.ts < d.ts
    PROVE  \A n \in Node : Aggregates(H \cup {c}, n) = Aggregates(H, n)
<1> SUFFICES ASSUME NEW n \in Node PROVE Aggregates(H \cup {c}, n) = Aggregates(H, n)
  OBVIOUS
<1>0. \A e \in H \cup {c} : e.ts \in Int
  BY DEF Check, Instant
<1>1. \A v \in Vantage : NewestOf(H \cup {c}, n, v) = NewestOf(H, n, v)
  BY <1>0 DEF NewestOf
<1>2. LatestByVantage(H \cup {c}, n) = LatestByVantage(H, n)
  BY <1>1, Zenon DEF LatestByVantage
<1> QED
  BY <1>2 DEF Aggregates

\* The rows that recomputeNode looks at when no two of a vantage share a second.
NewestRows(H, n) == UNION {NewestOf(H, n, v) : v \in Vantage}

OnePerSecond(H, n) ==
    \A c, d \in OfNode(H, n) : (c.vantage = d.vantage /\ c.ts = d.ts) => c = d

\* DISTINCT ON leaves a choice only between rows of the same second.
LEMMA OneLatest ==
    ASSUME NEW H \in SUBSET Check, NEW n, OnePerSecond(H, n)
    PROVE  LatestByVantage(H, n) = {NewestRows(H, n)}
<1> DEFINE All == NewestRows(H, n)
<1>1. ASSUME NEW v \in Vantage, NEW c \in NewestOf(H, n, v), NEW d \in NewestOf(H, n, v) PROVE c = d
  <2>1. c.ts \in Int /\ d.ts \in Int /\ c.ts <= d.ts /\ d.ts <= c.ts
    BY <1>1 DEF NewestOf, Check, Instant
  <2>2. c \in OfNode(H, n) /\ d \in OfNode(H, n) /\ c.vantage = d.vantage
    BY <1>1 DEF NewestOf, OfNode
  <2> QED
    BY <2>1, <2>2 DEF OnePerSecond
<1>2. All \in LatestByVantage(H, n)
  <2>1. ASSUME NEW v \in Vantage, NewestOf(H, n, v) # {}
        PROVE  \E c \in NewestOf(H, n, v) : All \cap NewestOf(H, n, v) = {c}
    <3>1. PICK c \in NewestOf(H, n, v) : TRUE
      BY <2>1
    <3>2. NewestOf(H, n, v) \subseteq All
      BY DEF NewestRows
    <3>3. \A d \in NewestOf(H, n, v) : d = c
      BY <1>1, <3>1
    <3> HIDE DEF All
    <3>4. All \cap NewestOf(H, n, v) = {c}
      BY <3>1, <3>2, <3>3
    <3> QED
      BY <3>1, <3>4
  <2> QED
    BY <2>1 DEF LatestByVantage, NewestRows
<1>3. ASSUME NEW L \in LatestByVantage(H, n) PROVE L = All
  <2>1. L \subseteq All
    BY DEF LatestByVantage, NewestRows
  <2>2. ASSUME NEW c \in All PROVE c \in L
    <3>1. PICK v \in Vantage : c \in NewestOf(H, n, v)
      BY <2>2 DEF NewestRows
    <3>2. PICK d \in NewestOf(H, n, v) : L \cap NewestOf(H, n, v) = {d}
      BY <3>1 DEF LatestByVantage
    <3>3. c = d
      BY <1>1, <3>1, <3>2
    <3> QED
      BY <3>2, <3>3
  <2> QED
    BY <2>1, <2>2
<1> QED
  BY <1>2, <1>3

RowIsFunction ==
    \A n \in Node : (OfNode(checks, n) # {} /\ OnePerSecond(checks, n) /\ n \notin stale) =>
        row[n] = Aggregate(NewestRows(checks, n))

\* The row of a node is a function of its history, for which the order in which the
\* results were taken, their redeliveries and the coordinator's restarts do not count:
\* unless two results of a vantage share a second, or the row is still to be computed
\* (ingestResults, recomputeNode).
THEOREM OrderDoesNotMatter == Spec => []RowIsFunction
<1>1. FollowInv => RowIsFunction
  <2> SUFFICES ASSUME FollowInv, NEW n \in Node,
                      OfNode(checks, n) # {}, OnePerSecond(checks, n), n \notin stale
               PROVE  row[n] = Aggregate(NewestRows(checks, n))
    BY DEF RowIsFunction
  <2>1. row[n] \in Aggregates(checks, n)
    BY DEF FollowInv, FreshOrStale
  <2>2. checks \in SUBSET Check
    BY DEF FollowInv, TypeInv, TablesOK
  <2> QED
    BY <2>1, <2>2, OneLatest DEF Aggregates
<1> QED
  BY <1>1, FollowInit, FollowStep, PTL DEF Spec

\* node_checks is finite in every state.
ChecksFinite == IsFiniteSet(checks)

LEMMA FiniteChecks == Spec => []ChecksFinite
<1>1. Init => ChecksFinite
  BY FS_EmptySet DEF Init, ChecksFinite
<1>2. ChecksFinite /\ [Next]_vars => ChecksFinite'
  <2> SUFFICES ASSUME IsFiniteSet(checks), [Next]_vars PROVE IsFiniteSet(checks')
    BY DEF ChecksFinite
  <2>1. CASE \E c \in coord.todo : InsertCheck(c)
    BY <2>1, FS_AddElement DEF InsertCheck
  <2>2. CASE UNCHANGED checks
    BY <2>2
  <2> QED
    BY <2>1, <2>2
       DEF Next, Tick, Plan, PlanQuery, PlanPublish, PlanFail, Broker, Fetch, JobAckWait,
           ResultsAckWait, WindowEnds, Work, Probe, PublishResults, AckJob, Ingest, FetchResults,
           SkipDuplicate, Recompute, EnqueueL1, AckResults, Broken, PublishFails, LoseAck,
           WorkerCrash, InsertFails, RecomputeFails, EnqueueFails, LoseResultsAck, CoordCrash,
           CoordRestart, vars
<1> QED
  BY <1>1, <1>2, PTL DEF Spec

\* A dead node rests for at most BackoffCap, however often it failed.
LEMMA BackoffBounded ==
    ASSUME NEW f \in Nat PROVE Backoff(f) \in Int /\ Backoff(f) <= BackoffCap
<1> DEFINE shift == IF f = 0 THEN 0 ELSE Least(f - 1, 6)
<1>1. shift \in Nat
  BY DEF Least
<1>2. \A k \in Nat : 2^k \in Int
  OBVIOUS
<1>3. BackoffCap \in Nat /\ BackoffUnit \in Nat
  BY PolicyAssumption
<1>4. BackoffUnit * 2^shift \in Int
  BY <1>1, <1>2, <1>3
<1> QED
  BY <1>3, <1>4 DEF Backoff, Least

\* No interval of the retest policy is longer than m.
RestsWithin(m) == FreshRetest <= m /\ StaleRetest <= m /\ BackoffCap <= m

LEMMA RestBounded ==
    ASSUME NEW r \in Row, NEW H, IsFiniteSet(H), NEW n, NEW t \in Nat, NEW m \in Nat, RestsWithin(m)
    PROVE  RestOf(r, H, n, t) \in Int /\ RestOf(r, H, n, t) <= m
<1>1. FreshRetest \in Nat /\ StaleRetest \in Nat /\ BackoffCap \in Nat /\ FreshWindow \in Nat
  BY PolicyAssumption
<1>2. RecentFails(H, n) \in Nat
  <2> DEFINE l1 == {c \in OfNode(H, n) : c.stage = "L1"}
             F == {c \in l1 : ~c.ok /\ Cardinality({d \in l1 : d.ts > c.ts}) < 8}
  <2>1. F \in SUBSET H
    BY DEF OfNode
  <2>2. Cardinality(F) \in Nat
    BY <2>1, FS_Subset, FS_CardinalityType
  <2> QED
    BY <2>2 DEF RecentFails
<1>3. Backoff(RecentFails(H, n)) \in Int /\ Backoff(RecentFails(H, n)) <= m
  BY <1>1, <1>2, BackoffBounded DEF RestsWithin
<1>4. r.status \in {"unknown", "alive", "dead"}
  BY DEF Row
<1> QED
  BY <1>1, <1>3, <1>4 DEF RestOf, RestsWithin

\* A node whose newest row is older than every interval of the policy is found by the
\* query for L0 or by the one for L1.
NobodyForgotten ==
    \A n \in Node, m \in Nat : \A v \in Vantage :
        RestsWithin(m) /\ NewestTime(OfNode(checks, n)) < now - m
            => n \in Selected("L0", v) \cup Selected("L1", v)

\* The planner's queries together leave out no node for ever, whatever the backoff of
\* a node, its transport or its status (dueNodes, NodesDueL0, NodesDueL1).
THEOREM NobodyIsForgotten == Spec => []NobodyForgotten
<1>1. TypeInv /\ ChecksFinite => NobodyForgotten
  <2> SUFFICES ASSUME TypeInv, IsFiniteSet(checks), NEW n \in Node, NEW m \in Nat, NEW v \in Vantage,
                      RestsWithin(m), NewestTime(OfNode(checks, n)) < now - m
               PROVE  n \in Selected("L0", v) \cup Selected("L1", v)
    BY DEF NobodyForgotten, ChecksFinite
  <2>1. row[n] \in Row /\ now \in Nat /\ OfNode(checks, n) \in SUBSET Check
    BY DEF TypeInv, TablesOK, OfNode, Instant
  <2>2. RestOf(row[n], checks, n, now) \in Int /\ RestOf(row[n], checks, n, now) <= m
    BY <2>1, RestBounded
  <2>3. NewestTime(OfNode(checks, n)) \in Nat
    BY <2>1, NewestTimeType
  <2>4. Due(row[n], checks, n, now)
    BY <2>1, <2>2, <2>3 DEF Due
  <2>5. Selected("L0", v) = {k \in TcpFamily : Due(row[k], checks, k, now)}
    BY DEF Selected
  <2>6. Selected("L1", v) = {k \in Node \ TcpFamily : Due(row[k], checks, k, now)}
    BY DEF Selected
  <2> QED
    BY <2>4, <2>5, <2>6
<1>2. Spec => []TypeInv
  BY TypeInit, TypeStep, PTL DEF Spec
<1> QED
  BY <1>1, <1>2, FiniteChecks, PTL
=============================================================================
