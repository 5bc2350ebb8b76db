------------------------------ MODULE Pipeline ------------------------------
(***************************************************************************)
(* The check pipeline: the coordinator plans probe jobs, JetStream carries *)
(* them to workers, workers probe and publish results, and the coordinator *)
(* ingests the results into node_checks, recomputes the aggregate of the   *)
(* node and queues the L1 probe that follows a passed L0.                  *)
(*                                                                         *)
(* Both streams deliver at least once: a message whose ack does not arrive *)
(* within AckWait is delivered again, MaxDeliver times in all, and stays   *)
(* in the stream ("dead") after that.  A delivery of a job is the pair     *)
(* <<job, attempt>>; it publishes its results at most once, so the pair    *)
(* also names the message in RESULTS.                                      *)
(*                                                                         *)
(* One coordinator runs at a time (module Lease is about when that holds). *)
(***************************************************************************)
EXTENDS CheckHistory

CONSTANTS
    TcpFamily,     \* the nodes whose transport is dialled (L0) before L1
    Tester,        \* tester workers; they share the vantage Cloud
    BatchSize,     \* nodes per job
    ValL2Top,      \* how many of the nodes sent to a validator get an L2 job
    MaxDeliver,    \* deliveries of a message (3)
    None,          \* a model value: no worker, no message, no check
    MaxJobs,       \* bound: jobs ever published
    MaxPlanned,    \* bound: jobs published by the planner
    MaxRuns,       \* bound: deliveries of jobs in all
    MaxTime,       \* bound: the clock
    MaxFaults,     \* bound: faults of the kinds in FaultKinds
    FaultKinds     \* the kinds of fault considered

ASSUME PipelineAssumption ==
    /\ TcpFamily \subseteq Node
    /\ Tester \cap Edge = {}
    /\ BatchSize \in Nat \ {0} /\ ValL2Top \in Nat
    /\ MaxDeliver \in Nat \ {0}
    /\ {MaxJobs, MaxPlanned, MaxRuns, MaxTime, MaxFaults} \subseteq Nat
    /\ FaultKinds \subseteq {"worker", "coordinator", "db", "net"}
    /\ None \notin Tester \cup Edge
    /\ None \notin (1..MaxJobs) \X (1..MaxDeliver)
    /\ None \notin Check

\* A validator is named by its vantage.
Worker   == Tester \cup Edge
Job      == 1..MaxJobs
Attempt  == 1..MaxDeliver
Delivery == Job \X Attempt

VARIABLES
    now,        \* the clock, in seconds
    jobs,       \* the JOBS_* streams: each job and where it is
    exec,       \* the workers: each delivery of a job and how far it is
    inbox,      \* the RESULTS stream, by the delivery that published
    dedup,      \* message ids in JetStream's duplicate window
    planner,    \* planLoop: nodes the last query returned, not yet published
    coord,      \* consumeResults
    checks,     \* table node_checks
    row,        \* table nodes, the aggregate columns
    faults,     \* faults so far
    dropped,    \* history: results whose INSERT failed
    stale,      \* history: nodes with a row inserted but no recompute since
    missed      \* history: ok L0 rows whose L1 job was not queued

history == <<dropped, stale, missed>>
vars == <<now, jobs, exec, inbox, dedup, planner, coord, checks, row, faults, history>>

JobRec ==
    [phase: {"free", "ready", "leased", "acked", "dead"},
     stage: Stage, vantage: Vantage, nodes: SUBSET Node, tries: 0..MaxDeliver,
     cause: SUBSET Check]     \* history: the ok L0 row that made enqueueL1 publish it
ExecRec ==
    [phase: {"none", "probing", "published", "gone"},
     worker: Worker \cup {None}, out: SUBSET Check]
InboxRec ==
    [phase: {"none", "ready", "leased", "acked", "dead"},
     items: SUBSET Check, tries: 0..MaxDeliver]
PlanRec  == [stage: Stage, vantage: Vantage, todo: SUBSET Node, top: SUBSET Node]
CoordRec ==
    [phase: {"down", "idle", "items", "recompute", "enqueue"},
     msg: Delivery \cup {None}, todo: SUBSET Check, item: Check \cup {None}]

TypeOK ==
    /\ now \in Instant
    /\ jobs \in [Job -> JobRec]
    /\ exec \in [Delivery -> ExecRec]
    /\ inbox \in [Delivery -> InboxRec]
    /\ dedup \subseteq Job \X Vantage
    /\ planner \in PlanRec
    /\ coord \in CoordRec
    /\ checks \subseteq Check
    /\ row \in [Node -> Row]
    /\ faults \in Nat
    /\ dropped \subseteq Check /\ stale \subseteq Node /\ missed \subseteq Check

FreeJob  == [phase |-> "free", stage |-> "L0", vantage |-> Cloud, nodes |-> {},
             tries |-> 0, cause |-> {}]
IdlePlan == [stage |-> "L0", vantage |-> Cloud, todo |-> {}, top |-> {}]
IdleCoord == [phase |-> "idle", msg |-> None, todo |-> {}, item |-> None]
NotRun   == [phase |-> "none", worker |-> None, out |-> {}]
Gone     == [phase |-> "gone", worker |-> None, out |-> {}]

Init ==
    /\ now = 1
    /\ jobs = [j \in Job |-> FreeJob]
    /\ exec = [d \in Delivery |-> NotRun]
    /\ inbox = [d \in Delivery |-> [phase |-> "none", items |-> {}, tries |-> 0]]
    /\ dedup = {}
    /\ planner = IdlePlan
    /\ coord = IdleCoord
    /\ checks = {}
    /\ row = [n \in Node |-> NewRow]
    /\ faults = 0
    /\ dropped = {} /\ stale = {} /\ missed = {}

Fault(kind) ==
    /\ kind \in FaultKinds
    /\ faults < MaxFaults
    /\ faults' = faults + 1

Tick ==
    /\ now < MaxTime
    /\ now' = now + 1
    /\ UNCHANGED <<jobs, exec, inbox, dedup, planner, coord, checks, row, faults, history>>

-----------------------------------------------------------------------------
(***************************************************************************)
(* Publishing jobs.  newUUID is the first id not used yet.                 *)
(***************************************************************************)
IsNew(j) == /\ jobs[j].phase = "free"
            /\ \A i \in Job : i < j => jobs[i].phase # "free"

Post(j, s, v, S, cause) ==
    jobs' = [jobs EXCEPT ![j] = [phase |-> "ready", stage |-> s, vantage |-> v,
                                 nodes |-> S, tries |-> 0, cause |-> cause]]

Planned == {j \in Job : jobs[j].phase # "free" /\ jobs[j].cause = {}}

\* Mutant: the query for L1 has lost its condition on the family.
SelectedAnyFamily(s, v) ==
    CASE s = "L0"  -> {n \in TcpFamily : Due(row[n], checks, n, now)}
      [] s = "L1"  -> {n \in Node : Due(row[n], checks, n, now)}
      [] s = "L2"  -> {n \in Node : WantsL2(row[n], checks, n, now)}
      [] s = "VAL" -> {n \in Node : WantsValidation(row[n], checks, n, v, now)}

\* The nodes one of planJobs' queries selects (before its LIMIT).
Selected(s, v) ==
    CASE s = "L0"  -> {n \in TcpFamily : Due(row[n], checks, n, now)}
      [] s = "L1"  -> {n \in Node \ TcpFamily : Due(row[n], checks, n, now)}
      [] s = "L2"  -> {n \in Node : WantsL2(row[n], checks, n, now)}
      [] s = "VAL" -> {n \in Node : WantsValidation(row[n], checks, n, v, now)}

\* A tick of planLoop queries each stage in turn and publishes what it found
\* before the next query.  Any stage may come next, since any query may find
\* nothing.  The best few sent to a validator are also put up for an L2 job.
PlanQuery(s, v) ==
    /\ coord.phase # "down"
    /\ planner.todo = {}
    /\ Cardinality(Planned) < MaxPlanned
    /\ (s = "VAL") = (v \in Edge)
    /\ LET found == Selected(s, v)
       IN  /\ found # {}
           /\ \E top \in SUBSET found :
                /\ s # "VAL" => top = {}
                /\ s = "VAL" => Cardinality(top) = Least(ValL2Top, Cardinality(found))
                /\ planner' = [stage |-> s, vantage |-> v, todo |-> found, top |-> top]
    /\ UNCHANGED <<now, jobs, exec, inbox, dedup, coord, checks, row, faults, history>>

\* After S the batch is over, or the L2 batch of a validator comes next.
PlanAfter(rest) ==
    IF rest = {} /\ planner.top # {}
    THEN [stage |-> "L2", vantage |-> planner.vantage, todo |-> planner.top, top |-> {}]
    ELSE IF rest = {} THEN IdlePlan ELSE [planner EXCEPT !.todo = rest]

\* publishBatched: one job of at most BatchSize of the nodes found.
PlanPublish ==
    /\ planner.todo # {}
    /\ Cardinality(Planned) < MaxPlanned
    /\ \E j \in Job, S \in SUBSET planner.todo :
        /\ IsNew(j)
        /\ Cardinality(S) = Least(BatchSize, Cardinality(planner.todo))
        /\ Post(j, planner.stage, planner.vantage, S, {})
        /\ planner' = PlanAfter(planner.todo \ S)
    /\ UNCHANGED <<now, exec, inbox, dedup, coord, checks, row, faults, history>>

\* A publish fails: the rest of that stage's nodes wait for a later tick.
PlanFail ==
    /\ planner.todo # {}
    /\ Fault("net")
    /\ planner' = PlanAfter({})
    /\ UNCHANGED <<now, jobs, exec, inbox, dedup, coord, checks, row, history>>

-----------------------------------------------------------------------------
(***************************************************************************)
(* JetStream delivers jobs, workers run them.                              *)
(***************************************************************************)
VantageOf(w) == IF w \in Edge THEN w ELSE Cloud

\* What the durable consumer of w is bound to.
Serves(w, j) ==
    IF w \in Edge THEN jobs[j].stage = "VAL" /\ jobs[j].vantage = w
                  ELSE jobs[j].stage # "VAL"

\* A worker fetches a job and starts on it.  It runs the jobs of one fetch one
\* after the other; that order is left out, so any delivery may be the slow one.
Fetch(w, j) ==
    /\ jobs[j].phase = "ready" /\ Serves(w, j)
    /\ Cardinality({d \in Delivery : exec[d].phase # "none"}) < MaxRuns
    /\ jobs' = [jobs EXCEPT ![j].phase = "leased", ![j].tries = @ + 1]
    /\ exec' = [exec EXCEPT ![<<j, jobs[j].tries + 1>>] =
                   [phase |-> "probing", worker |-> w, out |-> {}]]
    /\ UNCHANGED <<now, inbox, dedup, planner, coord, checks, row, faults, history>>

Probed(d) == {c.node : c \in exec[d].out}

\* One probe goroutine ends; the result bears the time of its end.
Probe(d, n, ok) ==
    /\ exec[d].phase = "probing"
    /\ n \in jobs[d[1]].nodes \ Probed(d)
    /\ exec' = [exec EXCEPT ![d].out = @ \cup
                   {[node |-> n, vantage |-> VantageOf(exec[d].worker),
                     stage |-> jobs[d[1]].stage, ok |-> ok, ts |-> now]}]
    /\ UNCHANGED <<now, jobs, inbox, dedup, planner, coord, checks, row, faults, history>>

\* JetStream stores a results message unless its id is in the duplicate window.
MsgId(d) == <<d[1], VantageOf(exec[d].worker)>>

Accept(d) ==
    IF MsgId(d) \in dedup THEN UNCHANGED <<inbox, dedup>>
    ELSE /\ inbox' = [inbox EXCEPT ![d] = [phase |-> "ready", items |-> exec[d].out, tries |-> 0]]
         /\ dedup' = dedup \cup {MsgId(d)}

\* Mutant: the batch is published without waiting for every probe.
SomeProbed(d) == exec[d].phase = "probing" /\ Probed(d) # {}

AllProbed(d) == exec[d].phase = "probing" /\ Probed(d) = jobs[d[1]].nodes

PublishResults(d) ==
    /\ AllProbed(d)
    /\ Accept(d)
    /\ exec' = [exec EXCEPT ![d].phase = "published"]
    /\ UNCHANGED <<now, jobs, planner, coord, checks, row, faults, history>>

\* Mutant: a consumer without MaxDeliver.
RedeliverForever(q, m) == "ready"

\* Where an unanswered message goes: it is delivered again, or has had its turns.
Redeliverable(q, m) == IF q[m].tries < MaxDeliver THEN "ready" ELSE "dead"

\* Mutant: an error of the publish is only logged, and the job is acked.
PublishFailsAcked(d) ==
    /\ AllProbed(d)
    /\ Fault("net")
    /\ Accept(d) \/ UNCHANGED <<inbox, dedup>>
    /\ exec' = [exec EXCEPT ![d].phase = "published"]
    /\ UNCHANGED <<now, jobs, planner, coord, checks, row, history>>

\* The publish returns an error: nothing was stored, or only its ack was lost.
\* The job is NAKed, and the NAK may not arrive either.
PublishFails(d) ==
    /\ AllProbed(d)
    /\ Fault("net")
    /\ Accept(d) \/ UNCHANGED <<inbox, dedup>>
    /\ exec' = [exec EXCEPT ![d] = Gone]
    /\ \/ /\ jobs[d[1]].phase = "leased"
          /\ jobs' = [jobs EXCEPT ![d[1]].phase = Redeliverable(jobs, d[1])]
       \/ UNCHANGED jobs
    /\ UNCHANGED <<now, planner, coord, checks, row, history>>

\* The ack takes the job off the stream, whichever delivery it answers.
AckJob(d) ==
    /\ exec[d].phase = "published"
    /\ jobs' = [jobs EXCEPT ![d[1]].phase = "acked"]
    /\ exec' = [exec EXCEPT ![d] = Gone]
    /\ UNCHANGED <<now, inbox, dedup, planner, coord, checks, row, faults, history>>

LoseAck(d) ==
    /\ exec[d].phase = "published"
    /\ Fault("net")
    /\ exec' = [exec EXCEPT ![d] = Gone]
    /\ UNCHANGED <<now, jobs, inbox, dedup, planner, coord, checks, row, history>>

\* Mutant: a consumer whose AckWait never runs out.
NoAckWait(j) == FALSE /\ UNCHANGED vars

\* AckWait runs out, whether the worker is gone or only slow.
JobAckWait(j) ==
    /\ jobs[j].phase = "leased"
    /\ jobs' = [jobs EXCEPT ![j].phase = Redeliverable(jobs, j)]
    /\ UNCHANGED <<now, exec, inbox, dedup, planner, coord, checks, row, faults, history>>

\* The process of w dies with everything it holds.
WorkerCrash(w) ==
    /\ Fault("worker")
    /\ \E d \in Delivery : exec[d].worker = w
    /\ exec' = [d \in Delivery |-> IF exec[d].worker = w THEN Gone ELSE exec[d]]
    /\ UNCHANGED <<now, jobs, inbox, dedup, planner, coord, checks, row, history>>

\* The two-minute duplicate window of an id ends.  When no delivery is left that
\* could publish under the id again, its end has no effect and is no step.
WindowEnds(m) ==
    /\ m \in dedup
    /\ \E d \in Delivery : exec[d].phase = "probing" /\ MsgId(d) = m
    /\ dedup' = dedup \ {m}
    /\ UNCHANGED <<now, jobs, exec, inbox, planner, coord, checks, row, faults, history>>

-----------------------------------------------------------------------------
(***************************************************************************)
(* The coordinator ingests results: for each item of a batch, INSERT, then *)
(* recompute, then the follow-up L1 job; then the ack, always.             *)
(***************************************************************************)
FetchResults(d) ==
    /\ coord.phase = "idle"
    /\ inbox[d].phase = "ready"
    /\ inbox' = [inbox EXCEPT ![d].phase = "leased", ![d].tries = @ + 1]
    /\ coord' = [phase |-> "items", msg |-> d, todo |-> inbox[d].items, item |-> None]
    /\ UNCHANGED <<now, jobs, exec, dedup, planner, checks, row, faults, history>>

InsertCheck(c) ==
    /\ coord.phase = "items" /\ c \in coord.todo
    /\ ~Recorded(checks, c)
    /\ checks' = checks \cup {c}
    /\ stale' = stale \cup {c.node}
    /\ missed' = IF c.stage = "L0" /\ c.ok THEN missed \cup {c} ELSE missed
    /\ coord' = [coord EXCEPT !.phase = "recompute", !.todo = @ \ {c}, !.item = c]
    /\ UNCHANGED <<now, jobs, exec, inbox, dedup, planner, row, faults, dropped>>

\* Mutant: what the INSERT reports is not looked at.
FollowUpDuplicate(c) ==
    /\ coord.phase = "items" /\ c \in coord.todo
    /\ Recorded(checks, c)
    /\ coord' = [coord EXCEPT !.phase = "recompute", !.todo = @ \ {c}, !.item = c]
    /\ UNCHANGED <<now, jobs, exec, inbox, dedup, planner, checks, row, faults, history>>

\* ON CONFLICT DO NOTHING: the item is skipped, follow-up and all.
SkipDuplicate(c) ==
    /\ coord.phase = "items" /\ c \in coord.todo
    /\ Recorded(checks, c)
    /\ coord' = [coord EXCEPT !.todo = @ \ {c}]
    /\ UNCHANGED <<now, jobs, exec, inbox, dedup, planner, checks, row, faults, history>>

InsertFails(c) ==
    /\ coord.phase = "items" /\ c \in coord.todo
    /\ Fault("db")
    /\ coord' = [coord EXCEPT !.todo = @ \ {c}]
    /\ dropped' = dropped \cup {c}
    /\ UNCHANGED <<now, jobs, exec, inbox, dedup, planner, checks, row, stale, missed>>

AfterRecompute ==
    IF coord.item.stage = "L0" /\ coord.item.ok
    THEN [coord EXCEPT !.phase = "enqueue"]
    ELSE [coord EXCEPT !.phase = "items", !.item = None]

\* Mutant: the aggregate is updated from the row just inserted.
RecomputeFromItem ==
    /\ coord.phase = "recompute"
    /\ row' = [row EXCEPT ![coord.item.node] = Aggregate({coord.item})]
    /\ stale' = stale \ {coord.item.node}
    /\ coord' = AfterRecompute
    /\ UNCHANGED <<now, jobs, exec, inbox, dedup, planner, checks, faults, dropped, missed>>

Recompute ==
    /\ coord.phase = "recompute"
    /\ \E r \in Aggregates(checks, coord.item.node) :
            row' = [row EXCEPT ![coord.item.node] = r]
    /\ stale' = stale \ {coord.item.node}
    /\ coord' = AfterRecompute
    /\ UNCHANGED <<now, jobs, exec, inbox, dedup, planner, checks, faults, dropped, missed>>

RecomputeFails ==
    /\ coord.phase = "recompute"
    /\ Fault("db")
    /\ coord' = AfterRecompute
    /\ UNCHANGED <<now, jobs, exec, inbox, dedup, planner, checks, row, history>>

EnqueueL1 ==
    /\ coord.phase = "enqueue"
    /\ \E j \in Job : IsNew(j) /\ Post(j, "L1", Cloud, {coord.item.node}, {coord.item})
    /\ missed' = missed \ {coord.item}
    /\ coord' = [coord EXCEPT !.phase = "items", !.item = None]
    /\ UNCHANGED <<now, exec, inbox, dedup, planner, checks, row, faults, dropped, stale>>

EnqueueFails ==
    /\ coord.phase = "enqueue"
    /\ Fault("db") \/ Fault("net")
    /\ coord' = [coord EXCEPT !.phase = "items", !.item = None]
    /\ UNCHANGED <<now, jobs, exec, inbox, dedup, planner, checks, row, history>>

AckResults ==
    /\ coord.phase = "items" /\ coord.todo = {}
    /\ inbox' = [inbox EXCEPT ![coord.msg].phase = "acked"]
    /\ coord' = IdleCoord
    /\ UNCHANGED <<now, jobs, exec, dedup, planner, checks, row, faults, history>>

LoseResultsAck ==
    /\ coord.phase = "items" /\ coord.todo = {}
    /\ Fault("net")
    /\ coord' = IdleCoord
    /\ UNCHANGED <<now, jobs, exec, inbox, dedup, planner, checks, row, history>>

ResultsAckWait(d) ==
    /\ inbox[d].phase = "leased"
    /\ inbox' = [inbox EXCEPT ![d].phase = Redeliverable(inbox, d)]
    /\ UNCHANGED <<now, jobs, exec, dedup, planner, coord, checks, row, faults, history>>

CoordCrash ==
    /\ coord.phase # "down"
    /\ Fault("coordinator")
    /\ coord' = [IdleCoord EXCEPT !.phase = "down"]
    /\ planner' = IdlePlan
    /\ UNCHANGED <<now, jobs, exec, inbox, dedup, checks, row, history>>

CoordRestart ==
    /\ coord.phase = "down"
    /\ coord' = IdleCoord
    /\ UNCHANGED <<now, jobs, exec, inbox, dedup, planner, checks, row, faults, history>>

-----------------------------------------------------------------------------
Work(d)   == \/ \E n \in Node, ok \in BOOLEAN : Probe(d, n, ok)
             \/ PublishResults(d) \/ AckJob(d)
Ingest    == \/ \E d \in Delivery : FetchResults(d)
             \/ \E c \in coord.todo : InsertCheck(c)
             \/ \E c \in coord.todo : SkipDuplicate(c)
             \/ Recompute \/ EnqueueL1 \/ AckResults
Plan      == \/ \E s \in Stage, v \in Vantage : PlanQuery(s, v)
             \/ PlanPublish
Broken    == \/ PlanFail
             \/ \E d \in Delivery : PublishFails(d)
             \/ \E d \in Delivery : LoseAck(d)
             \/ \E w \in Worker : WorkerCrash(w)
             \/ \E c \in coord.todo : InsertFails(c)
             \/ RecomputeFails \/ EnqueueFails \/ LoseResultsAck \/ CoordCrash
Broker    == \/ \E w \in Worker, j \in Job : Fetch(w, j)
             \/ \E j \in Job : JobAckWait(j)
             \/ \E d \in Delivery : ResultsAckWait(d)
             \/ \E m \in dedup : WindowEnds(m)

Next == Tick \/ Plan \/ Broker \/ (\E d \in Delivery : Work(d)) \/ Ingest \/ Broken \/ CoordRestart

Spec == Init /\ [][Next]_vars

\* Running processes keep running, a crashed coordinator is restarted by its
\* Deployment, and an AckWait that is not answered runs out.
Fairness ==
    /\ \A d \in Delivery : WF_vars(Work(d)) /\ WF_vars(ResultsAckWait(d))
    /\ \A j \in Job : WF_vars(JobAckWait(j)) /\ WF_vars(\E w \in Worker : Fetch(w, j))
    /\ WF_vars(Ingest) /\ WF_vars(CoordRestart)

FairSpec == Spec /\ Fairness

-----------------------------------------------------------------------------
(***************************************************************************)
(* Properties.                                                             *)
(***************************************************************************)

\* A result of node n from job j is past the point where it could be lost: it
\* waits in RESULTS, it is in node_checks, or the database refused it.
Accounted(j, n) ==
    \E k \in Attempt : \E c \in inbox[<<j, k>>].items :
        /\ c.node = n
        /\ \/ inbox[<<j, k>>].phase \in {"ready", "leased", "dead"}
           \/ Recorded(checks, c)
           \/ c \in dropped

\* A job leaves its stream only when every node of it has a result that is
\* accounted for: the results are confirmed before the job is acked, and a batch
\* of results is acked only when each item was inserted, known or refused
\* (worker processJob, coordinator consumeResults).
NoResultLost ==
    \A j \in Job : jobs[j].phase = "acked" => \A n \in jobs[j].nodes : Accounted(j, n)

\* Each passed L0 in node_checks queues exactly one L1 job, however often its
\* result is delivered; it queues none only while the coordinator is at it, or
\* when a fault cut the follow-up short (ingestResults, enqueueL1).
OneL1PerPass ==
    /\ \A i, j \in Job : i # j => jobs[i].cause \cap jobs[j].cause = {}
    /\ \A c \in checks : (c.stage = "L0" /\ c.ok) =>
          \/ \E j \in Job : c \in jobs[j].cause
          \/ c \in missed /\ (c = coord.item \/ faults > 0)

\* The row of a node agrees with its check history, in whatever order results
\* arrive, unless the coordinator is at it or a fault kept recomputeNode from
\* finishing after the last insert (ingestResults, recomputeNode).
AggregateFresh ==
    \A n \in Node : OfNode(checks, n) # {} =>
        \/ row[n] \in Aggregates(checks, n)
        \/ n \in stale /\ (coord.phase = "recompute" \/ faults > 0)

\* An L2 or validator job is only planned for nodes with a passed L1 probe in
\* node_checks, stale as the planner's query may be when it publishes
\* (planJobs, NodesForL2, NodesForValidation, recomputeNode).
CostlyProbesEarned ==
    \A j \in Job : jobs[j].stage \in {"L2", "VAL"} =>
        \A n \in jobs[j].nodes : L1Passes(OfNode(checks, n)) # {}

\* Every planned job ends: its nodes' results reach node_checks or are refused
\* by the database, or a message used up its deliveries.
JobSettles ==
    \A j \in Job : jobs[j].phase # "free" ~>
        \/ jobs[j].phase = "dead"
        \/ \E k \in Attempt : inbox[<<j, k>>].phase = "dead"
        \/ \A n \in jobs[j].nodes : \E k \in Attempt : \E c \in inbox[<<j, k>>].items :
              c.node = n /\ (Recorded(checks, c) \/ c \in dropped)

\* The vantage the results of j count for: an L2 job planned for a validator is served
\* by the testers all the same.
CountsFor(j) == IF jobs[j].stage = "VAL" THEN jobs[j].vantage ELSE Cloud

Asking(j) == [job |-> j, stage |-> jobs[j].stage, vantage |-> CountsFor(j),
              nodes |-> jobs[j].nodes, cause |-> jobs[j].cause]
Asked == {Asking(j) : j \in {i \in Job : jobs[i].phase # "free"}}
Answered == {[job |-> d[1], batch |-> inbox[d].items] :
                d \in {e \in Delivery : inbox[e].phase # "none"}}
Closed == {j \in Job : jobs[j].phase = "acked"}

Ledger == INSTANCE JobLedger WITH
    asked <- Asked, answers <- Answered, closed <- Closed, recorded <- checks

\* Whatever is lost, delivered again or crashes, the pipeline keeps the ledger: a job
\* is asked once and when it is earned, a batch answers exactly what its job asked, a
\* job is done with only when answered, and each row of node_checks is from an answer,
\* once under its key (planJobs, processJob, ingestResults).
IsLedger == Ledger!Spec

\* ARCHITECTURE section 4: L2 is for the ranking, not for aliveness.  Ingesting a
\* passed speed test never turns an alive node dead (recomputeNode).
SpeedTestKeepsAlive ==
    [][\A n \in Node : (row[n].status = "alive" /\ row'[n].status = "dead") =>
            ~(coord.item.stage = "L2" /\ coord.item.ok)]_vars

\* ARCHITECTURE.md:97: a validator checks nodes that are alive, and those that pass get
\* the class rf.  Ingesting a passed validation leaves its node with that class
\* (ingestResults, recomputeNode).
ValidatedIsRf ==
    [][(coord.phase = "recompute" /\ coord.item.stage = "VAL" /\ coord.item.ok /\ coord'.phase = "items")
            => row'[coord.item.node].class = "rf"]_vars
=============================================================================
