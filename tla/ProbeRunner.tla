----------------------------- MODULE ProbeRunner -----------------------------
(***************************************************************************)
(* One worker process running L1 and L2 probes: a semaphore bounds the     *)
(* calls, each call runs the probe in a goroutine of its own (its body)    *)
(* and gives up on it when the stage timeout ends the context; the body    *)
(* takes a port, starts a sing-box that listens on it, sends curl through  *)
(* it, kills the sing-box and gives the port back.  A body may therefore   *)
(* outlive its call and the semaphore slot the call held.                  *)
(***************************************************************************)
EXTENDS Integers, FiniteSets

CONSTANTS
    Probe,         \* the calls of ProbeL1 and ProbeL2 in the life of the process
    SpeedTest,     \* those that are calls of ProbeL2
    Port,          \* the range the allocator hands out (20000-20999)
    Concurrency,   \* slots of the semaphore (PROBE_CONCURRENCY, 32)
    Targets,       \* how many URLs an L1 probe may try (3)
    None,          \* a model value: no port
    MaxHangs       \* bound: bodies stuck in a system call for ever

ASSUME RunnerAssumption ==
    /\ SpeedTest \subseteq Probe /\ None \notin Port
    /\ Concurrency \in Nat \ {0} /\ Targets \in Nat \ {0} /\ MaxHangs \in Nat

VARIABLES
    call,       \* where each call of ProbeL1/ProbeL2 is
    expired,    \* calls whose context is done: timeout, cancel or shutdown
    phase,      \* where the goroutine of each call is (runOnce, attempt)
    port,       \* the port it holds
    try,        \* its attempt, the URL that attempt is at, what the attempt returned
    free,       \* ports in the allocator's channel
    proc,       \* the port each live sing-box was told to listen on, by call
    bound,      \* those of them that do listen
    hung        \* bodies that are stuck

vars == <<call, expired, phase, port, try, free, proc, bound, hung>>

\* The code attempt returns beside the result: E_INTERNAL asks for a second attempt,
\* and "" stands for any other.
Code == {"", "E_INTERNAL"}

TryRec == [attempt: 1..2, target: 1..Targets, code: Code]
Phase  == {"none", "acquire", "spawn", "wait", "curl", "kill", "release", "done"}

TypeOK ==
    /\ call \in [Probe -> {"queued", "running", "returned", "timedout"}]
    /\ expired \subseteq Probe
    /\ phase \in [Probe -> Phase]
    /\ port \in [Probe -> Port \cup {None}]
    /\ try \in [Probe -> TryRec]
    /\ free \subseteq Port
    /\ proc \in [Probe -> Port \cup {None}]
    /\ bound \subseteq Probe
    /\ hung \subseteq Probe

\* The start of an attempt.
Try(a) == [attempt |-> a, target |-> 1, code |-> ""]

Init ==
    /\ call = [p \in Probe |-> "queued"]
    /\ expired = {}
    /\ phase = [p \in Probe |-> "none"]
    /\ port = [p \in Probe |-> None]
    /\ try = [p \in Probe |-> Try(1)]
    /\ free = Port
    /\ proc = [p \in Probe |-> None]
    /\ bound = {}
    /\ hung = {}

-----------------------------------------------------------------------------
(***************************************************************************)
(* The call.                                                               *)
(***************************************************************************)
Holders == {p \in Probe : call[p] = "running"}

\* Mutant: ProbeL2 does not pass the semaphore.
EnterUnlessSpeedTest(p) ==
    /\ call[p] = "queued"
    /\ p \in SpeedTest \/ Cardinality(Holders) < Concurrency
    /\ call' = [call EXCEPT ![p] = "running"]
    /\ phase' = [phase EXCEPT ![p] = "acquire"]
    /\ UNCHANGED <<expired, port, try, free, proc, bound, hung>>

\* The semaphore is passed, the timeout starts, the body starts.
Enter(p) ==
    /\ call[p] = "queued"
    /\ Cardinality(Holders) < Concurrency
    /\ call' = [call EXCEPT ![p] = "running"]
    /\ phase' = [phase EXCEPT ![p] = "acquire"]
    /\ UNCHANGED <<expired, port, try, free, proc, bound, hung>>

\* The stage timeout, or the context of the worker, ends the context.
Expire(p) ==
    /\ call[p] = "running" /\ p \notin expired
    /\ expired' = expired \cup {p}
    /\ UNCHANGED <<call, phase, port, try, free, proc, bound, hung>>

\* run's select takes the body's result.
Return(p) ==
    /\ call[p] = "running" /\ phase[p] = "done"
    /\ call' = [call EXCEPT ![p] = "returned"]
    /\ expired' = expired \cup {p}
    /\ UNCHANGED <<phase, port, try, free, proc, bound, hung>>

\* Mutant: a call waits for its body, expired or not.
GiveUpWhenDone(p) ==
    /\ call[p] = "running" /\ p \in expired /\ phase[p] = "done"
    /\ call' = [call EXCEPT ![p] = "timedout"]
    /\ UNCHANGED <<expired, phase, port, try, free, proc, bound, hung>>

\* run's select finds the context done, the body done or not.
GiveUp(p) ==
    /\ call[p] = "running" /\ p \in expired
    /\ call' = [call EXCEPT ![p] = "timedout"]
    /\ UNCHANGED <<expired, phase, port, try, free, proc, bound, hung>>

-----------------------------------------------------------------------------
(***************************************************************************)
(* The body.                                                               *)
(***************************************************************************)
At(p, here) == phase[p] = here /\ p \notin hung

Acquire(p) ==
    /\ At(p, "acquire")
    /\ \E x \in free :
        /\ free' = free \ {x}
        /\ port' = [port EXCEPT ![p] = x]
        /\ phase' = [phase EXCEPT ![p] = "spawn"]
    /\ UNCHANGED <<call, expired, try, proc, bound, hung>>

\* The attempt of p returns this code, after what the phase still has to do.
Ends(p, next, code) ==
    /\ phase' = [phase EXCEPT ![p] = next]
    /\ try' = [try EXCEPT ![p].code = code]

Spawn(p) ==
    /\ At(p, "spawn")
    /\ proc' = [proc EXCEPT ![p] = port[p]]
    /\ phase' = [phase EXCEPT ![p] = "wait"]
    /\ UNCHANGED <<call, expired, port, try, free, bound, hung>>

\* Mutant: the port of a sing-box that did not start is not given back.
SpawnFailsKeepsPort(p) ==
    /\ At(p, "spawn")
    /\ \E code \in Code : Ends(p, "done", code)
    /\ UNCHANGED <<call, expired, port, free, proc, bound, hung>>

\* No directory, no file or no process (Start refuses once the context is done);
\* or no config from this outbound, which is not tried again.
SpawnFails(p) ==
    /\ At(p, "spawn")
    /\ \E code \in Code : Ends(p, "release", code)
    /\ UNCHANGED <<call, expired, port, free, proc, bound, hung>>

\* The dial reaches whatever listens on the port.
Answering(x) == \E q \in bound : proc[q] = x

SockReady(p) ==
    /\ At(p, "wait") /\ Answering(port[p])
    /\ phase' = [phase EXCEPT ![p] = "curl"]
    /\ UNCHANGED <<call, expired, port, try, free, proc, bound, hung>>

\* ReadyWait is over, or the context is done.
NotReady(p) ==
    /\ At(p, "wait")
    /\ Ends(p, "kill", IF p \in expired THEN "" ELSE "E_INTERNAL")
    /\ UNCHANGED <<call, expired, port, free, proc, bound, hung>>

\* The target answers with the wrong status or content: L1 tries the next URL.
NextTarget(p) ==
    /\ At(p, "curl") /\ Answering(port[p])
    /\ p \notin SpeedTest /\ try[p].target < Targets
    /\ try' = [try EXCEPT ![p].target = @ + 1]
    /\ UNCHANGED <<call, expired, phase, port, free, proc, bound, hung>>

\* Any other exit of curl, a kill by the context included, is the probe's result.
CurlEnds(p) ==
    /\ At(p, "curl")
    /\ Ends(p, "kill", "")
    /\ UNCHANGED <<call, expired, port, free, proc, bound, hung>>

\* Mutant: the sing-box is left to the context to kill.
LeaveRunning(p) ==
    /\ At(p, "kill")
    /\ phase' = [phase EXCEPT ![p] = "release"]
    /\ UNCHANGED <<call, expired, port, try, free, proc, bound, hung>>

\* The deferred kill of the process group, and the Wait for its end.
KillAndReap(p) ==
    /\ At(p, "kill")
    /\ proc' = [proc EXCEPT ![p] = None]
    /\ bound' = bound \ {p}
    /\ phase' = [phase EXCEPT ![p] = "release"]
    /\ UNCHANGED <<call, expired, port, try, free, hung>>

\* The next attempt, from the start.
Again(p, attempt) ==
    /\ phase' = [phase EXCEPT ![p] = "acquire"]
    /\ try' = [try EXCEPT ![p] = Try(attempt)]

\* Mutant: an attempt that failed inside is repeated until it does not.
ReleaseAndRepeat(p) ==
    /\ At(p, "release")
    /\ free' = free \cup {port[p]}
    /\ port' = [port EXCEPT ![p] = None]
    /\ IF try[p].code = "E_INTERNAL"
       THEN Again(p, try[p].attempt + 1)
       ELSE /\ phase' = [phase EXCEPT ![p] = "done"]
            /\ try' = [try EXCEPT ![p] = Try(1)]
    /\ UNCHANGED <<call, expired, proc, bound, hung>>

\* The port goes back; the first attempt may ask for a second.
Release(p) ==
    /\ At(p, "release")
    /\ free' = free \cup {port[p]}
    /\ port' = [port EXCEPT ![p] = None]
    /\ IF try[p].code = "E_INTERNAL" /\ try[p].attempt = 1
       THEN Again(p, 2)
       ELSE /\ phase' = [phase EXCEPT ![p] = "done"]
            /\ try' = [try EXCEPT ![p] = Try(1)]
    /\ UNCHANGED <<call, expired, proc, bound, hung>>

\* A system call that no context ends: mkdir, write, fork, wait.
Hang(p) ==
    /\ At(p, "spawn") \/ At(p, "kill")
    /\ Cardinality(hung) < MaxHangs
    /\ hung' = hung \cup {p}
    /\ UNCHANGED <<call, expired, phase, port, try, free, proc, bound>>

-----------------------------------------------------------------------------
(***************************************************************************)
(* The sing-box processes.                                                 *)
(***************************************************************************)
\* It listens, if the port is not taken.
Bind(p) ==
    /\ proc[p] # None /\ p \notin bound
    /\ ~Answering(proc[p])
    /\ bound' = bound \cup {p}
    /\ UNCHANGED <<call, expired, phase, port, try, free, proc, hung>>

\* It exits by itself, or exec.CommandContext kills it when the context is done.
Exit(p) ==
    /\ proc[p] # None
    /\ proc' = [proc EXCEPT ![p] = None]
    /\ bound' = bound \ {p}
    /\ UNCHANGED <<call, expired, phase, port, try, free, hung>>

-----------------------------------------------------------------------------
Call(p) == Enter(p) \/ Expire(p) \/ Return(p) \/ GiveUp(p)
Body(p) ==
    \/ Acquire(p) \/ Spawn(p) \/ SpawnFails(p) \/ SockReady(p) \/ NotReady(p)
    \/ NextTarget(p) \/ CurlEnds(p) \/ KillAndReap(p) \/ Release(p)

Next == \E p \in Probe : Call(p) \/ Body(p) \/ Hang(p) \/ Bind(p) \/ Exit(p)

Spec == Init /\ [][Next]_vars

\* Goroutines run on, and timers fire.
FairSpec ==
    /\ Spec
    /\ \A p \in Probe : /\ WF_vars(Enter(p)) /\ WF_vars(Expire(p))
                        /\ WF_vars(Return(p) \/ GiveUp(p)) /\ WF_vars(Body(p))

-----------------------------------------------------------------------------
(***************************************************************************)
(* Properties.                                                             *)
(***************************************************************************)

\* No two sing-box processes are told to listen on one port, even while bodies
\* outlive their calls and retry (PortAllocator, the order of the defers in attempt).
PortsExclusive ==
    \A p, q \in Probe : (p # q /\ proc[p] # None) => proc[p] # proc[q]

\* A probe that gets an answer through its port got it from its own sing-box:
\* the socket waitSockReady and curl dial is never another probe's tunnel.
OwnTunnel ==
    \A p, q \in Probe : (phase[p] \in {"wait", "curl"} /\ q \in bound /\ p # q) =>
        proc[q] # port[p]

\* The ports in the channel and the ports of bodies at work are the whole range:
\* none is lost on any way out of attempt, none is in the channel while a body or
\* a sing-box still has it.
Working == {"spawn", "wait", "curl", "kill", "release"}

PortsConserved ==
    /\ \A x \in Port : x \in free \/ \E p \in Probe : port[p] = x /\ phase[p] \in Working
    /\ \A p \in Probe : port[p] \notin free /\ proc[p] \notin free

\* Only bodies whose context is done live beyond the semaphore's bound
\* (PROBE_CONCURRENCY bounds calls; run leaves its body behind).
ProcessBound ==
    Cardinality({p \in Probe : proc[p] # None /\ p \notin expired}) <= Concurrency

\* Every call returns, whatever its body is stuck in and whoever is ahead of it
\* (run's select, the deferred release of the semaphore).
CallReturns ==
    \A p \in Probe : call[p] = "queued" ~> call[p] \in {"returned", "timedout"}

\* A port a body holds comes back, unless the body is stuck in a system call.
PortReturns ==
    \A p \in Probe : port[p] # None ~> (port[p] = None \/ p \in hung)
=============================================================================
