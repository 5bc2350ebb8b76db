---------------------------- MODULE CheckHistory ----------------------------
(***************************************************************************)
(* What the coordinator reads out of the node_checks table: the rows a     *)
(* query selects, the aggregate that recomputeNode derives from them, and  *)
(* the policy by which a node is due for its next probe.                   *)
(*                                                                         *)
(* Times are instants counted in ticks; Never stands for SQL's NULL.       *)
(* Latency, speed and score are left out: they rank nodes that are alive,  *)
(* and the queries that use the rank are modelled as any choice of nodes.  *)
(***************************************************************************)
EXTENDS Integers, FiniteSets

CONSTANTS
    Node,          \* nodes: the ids of the proxies
    Cloud,         \* the vantage of the tester workers ("cloud-eu-1")
    Edge,          \* the vantages whose id starts with "rf-"
    FreshRetest,   \* an alive node that passed L1 lately is due after this (3h)
    StaleRetest,   \* any other alive node is due after this (6h)
    FreshWindow,   \* what "lately" means (24h); also the L2 interval
    BackoffUnit,   \* first retest interval of a dead node (1h)
    BackoffCap     \* longest retest interval of a dead node (48h)

ASSUME VantageAssumption == Cloud \notin Edge
ASSUME PolicyAssumption ==
    /\ {FreshRetest, StaleRetest, FreshWindow, BackoffUnit, BackoffCap} \subseteq Nat

Vantage == Edge \cup {Cloud}
Stage   == {"L0", "L1", "L2", "VAL"}
Never   == 0
Instant == Nat \ {Never}

\* model.Check, as far as the control of the pipeline depends on it.
Check == [node: Node, vantage: Vantage, stage: Stage, ok: BOOLEAN, ts: Instant]

\* The columns of nodes that UpdateNodeAggregate writes (without score).
Row == [status: {"unknown", "alive", "dead"},
        class:  {"none", "cloud", "rf"},
        lastL1: Nat]

NewRow == [status |-> "unknown", class |-> "none", lastL1 |-> Never]

\* The UNIQUE key of node_checks; ts_bucket is a function of ts.
KeyOf(c) == <<c.node, c.vantage, c.stage, c.ts>>

Recorded(H, c) == \E d \in H : KeyOf(d) = KeyOf(c)

-----------------------------------------------------------------------------
(***************************************************************************)
(* The aggregate.                                                          *)
(***************************************************************************)

\* Rows that DISTINCT ON (vantage) ... ORDER BY vantage, ts DESC may return for
\* vantage v: the newest, whichever of them when several bear the same second.
NewestOf(H, n, v) ==
    {c \in H : /\ c.node = n /\ c.vantage = v
               /\ \A d \in H : (d.node = n /\ d.vantage = v) => d.ts <= c.ts}

\* The possible results of LatestByVantage: one newest row for each vantage.
LatestByVantage(H, n) ==
    {L \in SUBSET UNION {NewestOf(H, n, v) : v \in Vantage} :
        \A v \in Vantage :
            NewestOf(H, n, v) # {} =>
                \E c \in NewestOf(H, n, v) : L \cap NewestOf(H, n, v) = {c}}

\* The time of the newest row of S, Never when S has none.
NewestTime(S) ==
    IF \E c \in S : \A d \in S : d.ts <= c.ts
    THEN (CHOOSE c \in S : \A d \in S : d.ts <= c.ts).ts
    ELSE Never

L1Passes(L) == {c \in L : c.stage = "L1" /\ c.ok}

\* Mutant: an ok of any stage makes the node alive.
AggregateAnyStage(L) ==
    LET passes == {c \in L : c.ok}
    IN  [status |-> IF passes = {} THEN "dead" ELSE "alive",
         class  |-> IF \E c \in passes : c.vantage \in Edge THEN "rf"
                    ELSE IF passes # {} THEN "cloud" ELSE "none",
         lastL1 |-> NewestTime(passes)]

\* recomputeNode's loop over the latest row of each vantage.
Aggregate(L) ==
    LET passes == L1Passes(L)
    IN  [status |-> IF passes = {} THEN "dead" ELSE "alive",
         class  |-> IF \E c \in passes : c.vantage \in Edge THEN "rf"
                    ELSE IF passes # {} THEN "cloud" ELSE "none",
         lastL1 |-> NewestTime(passes)]

Aggregates(H, n) == {Aggregate(L) : L \in LatestByVantage(H, n)}

-----------------------------------------------------------------------------
(***************************************************************************)
(* The retest policy.                                                      *)
(***************************************************************************)

OfNode(H, n) == {c \in H : c.node = n}

\* Failed L1 rows among the last 8 of the node.
RecentFails(H, n) ==
    LET l1 == {c \in OfNode(H, n) : c.stage = "L1"}
    IN  Cardinality({c \in l1 : ~c.ok /\ Cardinality({d \in l1 : d.ts > c.ts}) < 8})

Least(a, b) == IF a <= b THEN a ELSE b

\* least(48, 1 << least(greatest(fails - 1, 0), 6)) hours.
Backoff(fails) ==
    LET shift == IF fails = 0 THEN 0 ELSE Least(fails - 1, 6)
    IN  Least(BackoffCap, BackoffUnit * 2^shift)

\* How long a node with this row rests after its newest check.
RestOf(r, H, n, now) ==
    CASE r.status = "alive" ->
            IF r.lastL1 # Never /\ r.lastL1 > now - FreshWindow THEN FreshRetest ELSE StaleRetest
      [] r.status = "dead" -> Backoff(RecentFails(H, n))
      [] OTHER -> 0

\* dueNodes' WHERE clause: the newest check of any stage and vantage counts.
Due(r, H, n, now) ==
    \/ r.status = "unknown"
    \/ OfNode(H, n) = {}
    \/ NewestTime(OfNode(H, n)) < now - RestOf(r, H, n, now)

\* NodesForL2: alive, and no ok L2 within 24h.
WantsL2(r, H, n, now) ==
    /\ r.status = "alive"
    /\ ~ \E c \in OfNode(H, n) : c.stage = "L2" /\ c.ok /\ c.ts > now - FreshWindow

\* NodesForValidation: alive, and no ok row of stage L1 from v within 3h.
WantsValidation(r, H, n, v, now) ==
    /\ r.status = "alive"
    /\ ~ \E c \in OfNode(H, n) :
            c.vantage = v /\ c.stage = "L1" /\ c.ok /\ c.ts > now - FreshRetest
=============================================================================
