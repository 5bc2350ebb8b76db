------------------------------- MODULE Vantages -------------------------------
(***************************************************************************)
(* The registry of vantages: how a worker becomes known to the coordinator *)
(* and gets its jobs.                                                      *)
(*                                                                         *)
(* A worker writes a heartbeat into the bucket REGISTRY every 30 s, whose  *)
(* entries live two hours.  The coordinator watches the bucket, writes     *)
(* each heartbeat into the table vantages and, for a validator, makes the  *)
(* durable through which it reads JOBS_VAL; a validator that finds no      *)
(* durable makes it too.  The planner publishes a job for every vantage    *)
(* that the table calls enabled and edge.  An administrator adds and       *)
(* deletes vantages in the same table, through the API.                    *)
(*                                                                         *)
(* The workers of one vantage count as one.  What a job holds, how it is   *)
(* acked and probed is the matter of Pipeline; region and time of the last *)
(* heartbeat, which nothing reads but the administrator, are left out.     *)
(***************************************************************************)
EXTENDS Integers

CONSTANTS
    Vantage,       \* vantage ids
    Role,          \* [Vantage -> role]: the --role of the workers at a vantage
    MaxEdits,      \* bound: requests of the administrator
    MaxFaults      \* bound: crashes, failed calls, calls whose answer is lost

ASSUME VantagesAssumption ==
    /\ Role \in [Vantage -> {"tester", "validator"}]
    /\ {MaxEdits, MaxFaults} \subseteq Nat

VARIABLES
    worker,     \* the worker of each vantage: where its consume is
    entry,      \* REGISTRY: the vantages that have an entry
    watch,      \* watchVantages: where it is
    updates,    \* vantages whose entry the watch has been sent and not yet read
    ensuring,   \* the vantages (one at most) whose durable it makes next
    row,        \* table vantages
    filter,     \* JOBS_VAL: the filter of each vantage's durable
    plan,       \* planJobs: vantages it read and has not come to yet
    waiting,    \* JOBS_VAL: the vantages for which jobs wait
    edits,      \* requests of the administrator so far
    faults,     \* faults so far
    quiet,      \* history: vantages without a heartbeat for the last two hours
    retired,    \* history: quiet vantages deleted by the administrator
    banned,     \* history: vantages the administrator added as disabled
    misnamed    \* history: vantages to which the administrator gave a wrong kind

history == <<quiet, retired, banned, misnamed>>
coordinator == <<watch, updates, ensuring, plan>>
vars == <<worker, entry, coordinator, row, filter, waiting, edits, faults, history>>

NoRow == [kind |-> "none", enabled |-> FALSE]

TypeOK ==
    /\ worker \in [Vantage -> {"down", "lookup", "create", "serve", "idle"}]
    /\ watch \in {"down", "watch", "off"}
    /\ row \in [Vantage -> [kind: {"cloud", "edge"}, enabled: BOOLEAN] \cup {NoRow}]
    /\ filter \in [Vantage -> {"none", "subject", "below"}]
    /\ \A S \in {entry, updates, ensuring, plan, waiting, quiet, retired, banned, misnamed} :
            S \subseteq Vantage
    /\ ensuring \in {{}} \cup {{v} : v \in Vantage}
    /\ edits \in 0..MaxEdits /\ faults \in 0..MaxFaults

Init ==
    /\ worker = [v \in Vantage |-> "down"] /\ entry = {}
    /\ watch = "down" /\ updates = {} /\ ensuring = {} /\ plan = {}
    /\ row = [v \in Vantage |-> NoRow] /\ filter = [v \in Vantage |-> "none"]
    /\ waiting = {} /\ edits = 0 /\ faults = 0
    /\ quiet = Vantage /\ retired = {} /\ banned = {} /\ misnamed = {}

Fault == faults < MaxFaults /\ faults' = faults + 1

-----------------------------------------------------------------------------
(***************************************************************************)
(* The worker.                                                             *)
(***************************************************************************)

\* A tester reads through durables that all testers share.
WorkerStart(v) ==
    /\ worker[v] = "down"
    /\ worker' = [worker EXCEPT ![v] = IF Role[v] = "validator" THEN "lookup" ELSE "serve"]
    /\ UNCHANGED <<entry, coordinator, row, filter, waiting, edits, faults, history>>

WorkerStop(v) ==
    /\ worker[v] # "down" /\ Fault
    /\ worker' = [worker EXCEPT ![v] = "down"]
    /\ UNCHANGED <<entry, coordinator, row, filter, waiting, edits, history>>

\* Put of the entry; a coordinator that watches is sent it.  A heartbeat that
\* fails is followed by the next.
Heartbeat(v) ==
    /\ worker[v] # "down"
    /\ entry' = entry \cup {v}
    /\ updates' = IF watch = "watch" THEN updates \cup {v} ELSE updates
    /\ quiet' = quiet \ {v} /\ retired' = retired \ {v}
    /\ UNCHANGED <<worker, watch, ensuring, row, filter, plan, waiting, edits, faults,
                   banned, misnamed>>

\* Mutant: a bucket without TTL.
KeepsEntry(v) == entry

\* The entries that are left when v has been silent for the TTL of the bucket.
AfterTTL(v) == entry \ {v}

\* Two hours pass without a heartbeat: the worker is down, or cannot reach NATS.
FallSilent(v) ==
    /\ v \notin quiet
    /\ IF worker[v] = "down" THEN UNCHANGED faults ELSE Fault
    /\ quiet' = quiet \cup {v} /\ entry' = AfterTTL(v)
    /\ UNCHANGED <<worker, coordinator, row, filter, waiting, edits, retired, banned, misnamed>>

\* Mutant: the worker leaves the making of its durable to the coordinator.
LookupOnly(v) ==
    /\ worker[v] = "lookup" /\ filter[v] # "none"
    /\ worker' = [worker EXCEPT ![v] = "serve"]
    /\ UNCHANGED <<entry, coordinator, row, filter, waiting, edits, faults, history>>

\* attach: a durable that exists is used as it is; any error of the lookup is taken
\* for its absence.
Lookup(v) ==
    /\ worker[v] = "lookup"
    /\ \/ /\ worker' = [worker EXCEPT ![v] = IF filter[v] = "none" THEN "create" ELSE "serve"]
          /\ UNCHANGED faults
       \/ worker' = [worker EXCEPT ![v] = "create"] /\ Fault
    /\ UNCHANGED <<entry, coordinator, row, filter, waiting, edits, history>>

\* attach: EnsureConsumer creates the durable, or gives the existing one this filter.
Create(v) ==
    /\ worker[v] = "create"
    /\ worker' = [worker EXCEPT ![v] = "serve"]
    /\ filter' = [filter EXCEPT ![v] = "subject"]
    /\ UNCHANGED <<entry, coordinator, row, waiting, edits, faults, history>>

\* It fails, or its answer is lost: consume tries again, or has used up its 60
\* attempts and ends, while the process and its heartbeats go on.
CreateFails(v) ==
    /\ worker[v] = "create" /\ Fault
    /\ \E next \in {"lookup", "idle"} : worker' = [worker EXCEPT ![v] = next]
    /\ \/ UNCHANGED filter
       \/ filter' = [filter EXCEPT ![v] = "subject"]
    /\ UNCHANGED <<entry, coordinator, row, waiting, edits, history>>

\* A job has the subject jobs.validator.<v>, which jobs.validator.<v>.> does not match.
Take(v) ==
    /\ worker[v] = "serve" /\ v \in waiting /\ filter[v] = "subject"
    /\ waiting' = waiting \ {v}
    /\ UNCHANGED <<worker, entry, coordinator, row, filter, edits, faults, history>>

-----------------------------------------------------------------------------
(***************************************************************************)
(* The coordinator: watchVantages.                                         *)
(***************************************************************************)
\* Mutant: the role of the heartbeat for its kind.
RoleAsKind(v) == Role[v]

KindOf(v) == IF Role[v] = "validator" THEN "edge" ELSE "cloud"

\* Mutants: an existing row is left as it is; it is enabled again.
UpsertedOnce(v, kind, enabled) ==
    [row EXCEPT ![v] = IF @ = NoRow THEN [kind |-> kind, enabled |-> enabled] ELSE @]
UpsertedAnew(v, kind, enabled) ==
    [row EXCEPT ![v] = [kind |-> kind, enabled |-> enabled]]

\* UpsertVantage: an existing row keeps its enabled.
Upserted(v, kind, enabled) ==
    [row EXCEPT ![v] = [kind |-> kind,
                        enabled |-> IF @ = NoRow THEN enabled ELSE @.enabled]]

\* WatchAll sends what the bucket holds before what comes next.  When it cannot be
\* had, watchVantages returns, and the rest of the coordinator goes on.
CoordStart ==
    /\ watch = "down"
    /\ \/ watch' = "watch" /\ updates' = entry /\ UNCHANGED faults
       \/ watch' = "off" /\ UNCHANGED updates /\ Fault
    /\ UNCHANGED <<worker, entry, ensuring, row, filter, plan, waiting, edits, history>>

\* The process dies, or is told to end when it is replaced.
CoordStop ==
    /\ watch # "down" /\ Fault
    /\ watch' = "down" /\ updates' = {} /\ ensuring' = {} /\ plan' = {}
    /\ UNCHANGED <<worker, entry, row, filter, waiting, edits, history>>

\* The channel of the watch is closed: watchVantages returns.
WatchEnds ==
    /\ watch = "watch" /\ ensuring = {} /\ Fault
    /\ watch' = "off" /\ updates' = {}
    /\ UNCHANGED <<worker, entry, ensuring, row, filter, plan, waiting, edits, history>>

\* A heartbeat reaches the table; the durable of a validator is next.
Register(v) ==
    /\ watch = "watch" /\ ensuring = {} /\ v \in updates
    /\ updates' = updates \ {v}
    /\ row' = Upserted(v, KindOf(v), TRUE)
    /\ ensuring' = {w \in {v} : KindOf(w) = "edge"}
    /\ UNCHANGED <<worker, entry, watch, filter, plan, waiting, edits, faults, history>>

\* The upsert fails, or its answer is lost: the heartbeat is left at that.
RegisterFails(v) ==
    /\ watch = "watch" /\ ensuring = {} /\ v \in updates /\ Fault
    /\ updates' = updates \ {v}
    /\ row' \in {row, Upserted(v, KindOf(v), TRUE)}
    /\ UNCHANGED <<worker, entry, watch, ensuring, filter, plan, waiting, edits, history>>

\* EnsureConsumer with the filter jobs.validator.<v>.>, whatever the filter was.
EnsureDurable(v) ==
    /\ v \in ensuring
    /\ ensuring' = {}
    /\ \/ filter' = [filter EXCEPT ![v] = "below"] /\ UNCHANGED faults
       \/ UNCHANGED filter /\ Fault
    /\ UNCHANGED <<worker, entry, watch, updates, row, plan, waiting, edits, history>>

-----------------------------------------------------------------------------
(***************************************************************************)
(* The coordinator: planJobs, as far as the validators are concerned.      *)
(***************************************************************************)
PlanRead ==
    /\ watch # "down" /\ plan = {}
    /\ plan' = {v \in Vantage : row[v].enabled /\ row[v].kind = "edge"}
    /\ UNCHANGED <<worker, entry, watch, updates, ensuring, row, filter, waiting, edits,
                   faults, history>>

\* The next vantage of the list gets a job, unless no node is to be validated from
\* there or the publish fails.
Publish(v) ==
    /\ v \in plan
    /\ plan' = plan \ {v}
    /\ \/ waiting' = waiting \cup {v}
       \/ UNCHANGED waiting
    /\ UNCHANGED <<worker, entry, watch, updates, ensuring, row, filter, edits, faults, history>>

-----------------------------------------------------------------------------
(***************************************************************************)
(* The administrator.                                                      *)
(***************************************************************************)
Edit == edits < MaxEdits /\ edits' = edits + 1

\* POST: adds the vantage, or changes the kind of one that is there.
AdminPost(v, kind, enabled) ==
    /\ Edit
    /\ row' = Upserted(v, kind, enabled)
    /\ banned' = IF row[v] = NoRow /\ ~enabled /\ v \notin plan THEN banned \cup {v} ELSE banned
    /\ misnamed' = IF kind = KindOf(v) THEN misnamed ELSE misnamed \cup {v}
    /\ retired' = retired \ {v}
    /\ UNCHANGED <<worker, entry, coordinator, filter, waiting, faults, quiet>>

\* DELETE: only the row; entry, durable and jobs stay.
AdminDelete(v) ==
    /\ row[v] # NoRow /\ Edit
    /\ row' = [row EXCEPT ![v] = NoRow]
    /\ banned' = banned \ {v}
    /\ retired' = IF v \in quiet \ updates THEN retired \cup {v} ELSE retired
    /\ UNCHANGED <<worker, entry, coordinator, filter, waiting, faults, quiet, misnamed>>

-----------------------------------------------------------------------------
Attach(v) == Lookup(v) \/ Create(v)

Next ==
    \/ \E v \in Vantage :
        \/ WorkerStart(v) \/ WorkerStop(v) \/ Heartbeat(v) \/ FallSilent(v)
        \/ Attach(v) \/ CreateFails(v) \/ Take(v)
        \/ Register(v) \/ RegisterFails(v) \/ EnsureDurable(v) \/ Publish(v)
        \/ AdminDelete(v)
        \/ \E kind \in {"cloud", "edge"}, enabled \in BOOLEAN : AdminPost(v, kind, enabled)
    \/ CoordStart \/ CoordStop \/ WatchEnds \/ PlanRead

Spec == Init /\ [][Next]_vars

\* The coordinator is restarted and a running one goes on, and so do the workers that
\* run; a worker that is down may stay down.  The channel of the watch is a queue, so
\* the heartbeats of one vantage do not keep it from those of another.
FairSpec ==
    /\ Spec /\ WF_vars(CoordStart)
    /\ \A v \in Vantage :
        /\ WF_vars(Heartbeat(v)) /\ WF_vars(Attach(v)) /\ WF_vars(Take(v))
        /\ SF_vars(Register(v)) /\ WF_vars(EnsureDurable(v))

-----------------------------------------------------------------------------
(***************************************************************************)
(* Properties.                                                             *)
(***************************************************************************)
\* Who waits for a job that did not wait before is a validator, or was called one by
\* the administrator, and is not one the administrator added as disabled: neither
\* heartbeats nor restarts enable it (UpsertVantage, watchVantages, planJobs).
JobsWhereWanted ==
    [][\A v \in waiting' \ waiting :
            v \notin banned /\ (Role[v] = "tester" => v \in misnamed)]_vars

\* A vantage deleted after two hours of silence stays deleted until its worker or the
\* administrator brings it back; no restart of the coordinator does (watchVantages).
RetiredStay == \A v \in retired : row[v] = NoRow

\* A worker that goes on running ends up in the table with the kind of its role,
\* whatever the administrator, crashes and failed statements do to the row meanwhile,
\* if the watch has not ended (Heartbeat, watchVantages).
Registered ==
    \A v \in Vantage :
        <>[](worker[v] # "down" /\ watch # "off") => <>[](row[v].kind = KindOf(v))

\* A validator gets at its jobs without any help of the coordinator, or gives up after
\* its attempts, or is stopped (consume, attach).
AttachEnds ==
    \A v \in Vantage :
        worker[v] = "lookup" ~> worker[v] \in {"serve", "idle", "down"}

\* ARCHITECTURE.md:122: JOBS_VAL goes from the coordinator to the validator. A job for
\* a validator that goes on serving is read by it (EnsureConsumer in watchVantages).
ValidatorServed ==
    \A v \in Vantage :
        (Role[v] = "validator" /\ v \in waiting /\ worker[v] = "serve")
            ~> (v \notin waiting \/ worker[v] # "serve")
=============================================================================
