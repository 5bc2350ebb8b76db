------------------------------ MODULE JobLedger ------------------------------
(***************************************************************************)
(* What the check pipeline promises, without streams, workers, crashes or  *)
(* redelivery: a ledger to which entries are added and from which nothing  *)
(* is ever taken back.  A job is asked once, and only when its probes are  *)
(* earned.  Each answer to it has one result for each of its nodes, under  *)
(* its stage and its vantage.  Only an answered job is closed.  What is    *)
(* recorded comes from an answer, and no key is recorded twice.            *)
(***************************************************************************)
CONSTANTS
    Job,        \* ids of jobs
    Check,      \* results, as node_checks keeps them
    TcpFamily   \* nodes that are dialled before anything dearer is tried

VARIABLES
    asked,      \* what each job asks: its stage, vantage, nodes and cause
    answers,    \* the batches of results that answered a job
    closed,     \* the jobs that are done with
    recorded    \* the rows of node_checks

ledger == <<asked, answers, closed, recorded>>

Init == asked = {} /\ answers = {} /\ closed = {} /\ recorded = {}

\* A row causes one job, the L1 of its own node after a passed L0.
CauseFits(r) ==
    \A c \in r.cause :
        /\ c \in recorded /\ c.stage = "L0" /\ c.ok
        /\ r.stage = "L1" /\ r.nodes = {c.node}
        /\ \A q \in asked : c \notin q.cause

\* L1 of a node of the TCP family follows a passed L0 of it; L2 and validation follow
\* a passed L1.
Earned(r) ==
    /\ r.stage = "L1" => \A n \in r.nodes \cap TcpFamily : \E c \in r.cause : c.node = n
    /\ r.stage \in {"L2", "VAL"} =>
          \A n \in r.nodes : \E c \in recorded : c.node = n /\ c.stage = "L1" /\ c.ok

\* A job id is used once, and what it asks never changes.
Ask ==
    /\ \E r \in asked' :
        /\ r.job \in Job /\ \A q \in asked : q.job # r.job
        /\ CauseFits(r) /\ Earned(r)
        /\ asked' = asked \cup {r}
    /\ UNCHANGED <<answers, closed, recorded>>

\* One result for each node that r asks for, and no other.
Answers(r, batch) ==
    /\ batch \subseteq Check
    /\ {c.node : c \in batch} = r.nodes
    /\ \A c \in batch : c.stage = r.stage /\ c.vantage = r.vantage
    /\ \A c, d \in batch : c.node = d.node => c = d

Answer ==
    /\ \E a \in answers' :
        /\ answers' = answers \cup {a}
        /\ \E r \in asked : r.job = a.job /\ Answers(r, a.batch)
    /\ UNCHANGED <<asked, closed, recorded>>

Close ==
    /\ \E a \in answers : closed' = closed \cup {a.job}
    /\ UNCHANGED <<asked, answers, recorded>>

SameKey(c, d) == /\ c.node = d.node /\ c.vantage = d.vantage
                 /\ c.stage = d.stage /\ c.ts = d.ts

Record ==
    /\ \E a \in answers : \E c \in a.batch :
        /\ \A d \in recorded : ~SameKey(c, d)
        /\ recorded' = recorded \cup {c}
    /\ UNCHANGED <<asked, answers, closed>>

Next == Ask \/ Answer \/ Close \/ Record

Spec == Init /\ [][Next]_ledger
==============================================================================
