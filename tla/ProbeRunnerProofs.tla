-------------------------- MODULE ProbeRunnerProofs --------------------------
(***************************************************************************)
(* Proofs about ProbeRunner: whatever the number of calls, ports and       *)
(* slots, no port is shared or lost and no tunnel is mistaken for another, *)
(* and only expired probes run beyond the semaphore's bound.               *)
(***************************************************************************)
EXTENDS ProbeRunner, FiniteSetTheorems, TLAPS

\* A body has a port exactly while it is at work.
PortWhileWorking ==
    \A p \in Probe : port[p] # None <=> phase[p] \in Working

\* Bodies hold different ports, none of which is in the channel.
PortsHeldOnce ==
    \A p \in Probe : port[p] # None =>
        port[p] \notin free /\ \A q \in Probe \ {p} : port[q] # port[p]

\* A sing-box lives on the port of its body, between Start and the kill.
ProcOfBody ==
    /\ \A p \in Probe : proc[p] # None =>
           proc[p] = port[p] /\ phase[p] \in {"wait", "curl", "kill"}
    /\ \A p \in bound : proc[p] # None

\* A port that is not in the channel is some body's.
PortsCovered == \A x \in Port : x \notin free => \E p \in Probe : port[p] = x

\* A call in the queue has no body yet.
QueuedIdle == \A p \in Probe : call[p] = "queued" => phase[p] = "none"

\* The invariant of the ports.
PortInv ==
    TypeOK /\ PortsCovered /\ PortWhileWorking /\ PortsHeldOnce /\ ProcOfBody /\ QueuedIdle

\* A call that has not expired covers its body.
CallCoversBody ==
    \A p \in Probe : (phase[p] \in Working \cup {"acquire"} /\ p \notin expired) => call[p] = "running"

\* The invariant of the semaphore.
SlotInv == IsFiniteSet(Holders) /\ Cardinality(Holders) <= Concurrency

-----------------------------------------------------------------------------
\* The initial states are of the right types, and so is what each step leads to.
LEMMA FreshTries == Try(1) \in TryRec /\ Try(2) \in TryRec
<1>1. 1 \in 1..2 /\ 2 \in 1..2 /\ 1 \in 1..Targets /\ "" \in Code
  BY RunnerAssumption DEF Code
<1> QED
  BY <1>1 DEF Try, TryRec

LEMMA TypeInit == Init => TypeOK
  BY FreshTries, RunnerAssumption DEF Init, TypeOK, Phase

LEMMA TypeStep == TypeOK /\ PortWhileWorking /\ [Next]_vars => TypeOK'
<1> SUFFICES ASSUME TypeOK, PortWhileWorking, [Next]_vars PROVE TypeOK'
  OBVIOUS
<1> USE RunnerAssumption DEF TypeOK, Phase
<1>1. ASSUME NEW p \in Probe, Call(p) PROVE TypeOK'
  BY <1>1 DEF Call, Enter, Expire, Return, GiveUp
<1>2. ASSUME NEW p \in Probe, Body(p) PROVE TypeOK'
  <2>1. CASE Acquire(p) \/ Spawn(p) \/ SockReady(p) \/ KillAndReap(p)
    BY <2>1 DEF Acquire, Spawn, SockReady, KillAndReap
  <2>2. CASE SpawnFails(p) \/ NotReady(p) \/ CurlEnds(p)
    <3>1. PICK next \in {"release", "kill"}, code \in Code : Ends(p, next, code)
      BY <2>2 DEF SpawnFails, NotReady, CurlEnds, Code
    <3>2. [try[p] EXCEPT !.code = code] \in TryRec
      BY <3>1 DEF TryRec
    <3>3. UNCHANGED <<call, expired, port, free, proc, bound, hung>>
      BY <2>2 DEF SpawnFails, NotReady, CurlEnds
    <3> QED
      BY <3>1, <3>2, <3>3 DEF Ends
  <2>3. CASE NextTarget(p)
    BY <2>3 DEF NextTarget, TryRec
  <2>4. CASE Release(p)
    <3>1. PICK next \in {"acquire", "done"}, t \in {Try(1), Try(2)} :
             phase' = [phase EXCEPT ![p] = next] /\ try' = [try EXCEPT ![p] = t]
      BY <2>4 DEF Release, Again
    <3>2. t \in TryRec
      BY <3>1, FreshTries
    <3>3. /\ free' = free \cup {port[p]} /\ port' = [port EXCEPT ![p] = None]
          /\ UNCHANGED <<call, expired, proc, bound, hung>>
      BY <2>4 DEF Release
    <3>4. free' \subseteq Port
      BY <2>4, <3>3, PortWhileWorking DEF Release, At, Working, PortWhileWorking
    <3> QED
      BY <3>1, <3>2, <3>3, <3>4
  <2> QED
    BY <1>2, <2>1, <2>2, <2>3, <2>4 DEF Body
<1>3. ASSUME NEW p \in Probe, Hang(p) \/ Bind(p) \/ Exit(p) PROVE TypeOK'
  BY <1>3 DEF Hang, Bind, Exit
<1>4. CASE UNCHANGED vars
  BY <1>4 DEF vars
<1> QED
  BY <1>1, <1>2, <1>3, <1>4 DEF Next

-----------------------------------------------------------------------------
\* The initial states satisfy the invariant of the ports.
LEMMA PortInit == Init => PortInv
  BY TypeInit, RunnerAssumption
     DEF Init, PortInv, PortsCovered, Working, PortWhileWorking, PortsHeldOnce, ProcOfBody, QueuedIdle

\* Every step preserves it.
LEMMA PortStep == PortInv /\ [Next]_vars => PortInv'
<1> SUFFICES ASSUME PortInv, [Next]_vars PROVE PortInv'
  OBVIOUS
<1>0. TypeOK /\ TypeOK'
  BY TypeStep DEF PortInv
<1> USE <1>0, RunnerAssumption
    DEF PortInv, TypeOK, Phase, PortsCovered, Working, PortWhileWorking, PortsHeldOnce, ProcOfBody, QueuedIdle
<1>1. ASSUME NEW p \in Probe, Call(p) PROVE PortInv'
  <2>1. CASE Enter(p)
    BY <2>1 DEF Enter
  <2>2. CASE Expire(p) \/ Return(p) \/ GiveUp(p)
    BY <2>2 DEF Expire, Return, GiveUp
  <2> QED
    BY <1>1, <2>1, <2>2 DEF Call
<1>2. ASSUME NEW p \in Probe, Body(p) PROVE PortInv'
  <2>1. CASE Acquire(p)
    BY <2>1 DEF Acquire, At
  <2>2. CASE Spawn(p)
    BY <2>2 DEF Spawn, At
  <2>3. CASE SpawnFails(p) \/ NotReady(p) \/ CurlEnds(p)
    <3>1. PICK next \in {"release", "kill"} :
             /\ phase' = [phase EXCEPT ![p] = next]
             /\ next = "release" => phase[p] = "spawn"
      BY <2>3 DEF SpawnFails, NotReady, CurlEnds, Ends, At
    <3>2. phase[p] \in {"spawn", "wait", "curl"} /\ UNCHANGED <<call, expired, port, free, proc, bound, hung>>
      BY <2>3 DEF SpawnFails, NotReady, CurlEnds, At
    <3> QED
      BY <3>1, <3>2
  <2>4. CASE SockReady(p) \/ NextTarget(p)
    BY <2>4 DEF SockReady, NextTarget, At
  <2>5. CASE KillAndReap(p)
    BY <2>5 DEF KillAndReap, At
  <2>6. CASE Release(p)
    BY <2>6 DEF Release, Again, At
  <2> QED
    BY <1>2, <2>1, <2>2, <2>3, <2>4, <2>5, <2>6 DEF Body
<1>3. ASSUME NEW p \in Probe, Hang(p) PROVE PortInv'
  BY <1>3 DEF Hang
<1>4. ASSUME NEW p \in Probe, Bind(p) PROVE PortInv'
  BY <1>4 DEF Bind
<1>5. ASSUME NEW p \in Probe, Exit(p) PROVE PortInv'
  BY <1>5 DEF Exit
<1>6. CASE UNCHANGED vars
  BY <1>6 DEF vars
<1> QED
  BY <1>1, <1>2, <1>3, <1>4, <1>5, <1>6 DEF Next

\* The invariant of the ports holds in every state of every execution.
THEOREM PortInvariant == Spec => []PortInv
  BY PortInit, PortStep, PTL DEF Spec

\* Calls, bodies, ports and processes are always what TypeOK says.
THEOREM TypeCorrect == Spec => []TypeOK
<1>1. PortInv => TypeOK
  BY DEF PortInv
<1> QED
  BY <1>1, PortInvariant, PTL

\* No two sing-box processes ever have one port (the property PortsExclusive).
THEOREM PortIsExclusive == Spec => []PortsExclusive
<1>1. PortInv => PortsExclusive
  BY DEF PortInv, PortsHeldOnce, ProcOfBody, PortsExclusive
<1> QED
  BY <1>1, PortInvariant, PTL

\* No probe ever talks to another probe's tunnel (the property OwnTunnel).
THEOREM TunnelIsOwn == Spec => []OwnTunnel
<1>1. PortInv => OwnTunnel
  BY DEF PortInv, PortsHeldOnce, PortWhileWorking, ProcOfBody, Working, OwnTunnel
<1> QED
  BY <1>1, PortInvariant, PTL

\* No port is lost, or back in the channel too early (the property PortsConserved).
THEOREM PortsAreConserved == Spec => []PortsConserved
<1>1. PortInv => PortsConserved
  <2> SUFFICES ASSUME PortInv PROVE PortsConserved
    OBVIOUS
  <2>1. \A x \in Port : x \in free \/ \E p \in Probe : port[p] = x /\ phase[p] \in Working
    BY RunnerAssumption DEF PortInv, PortsCovered, PortWhileWorking
  <2>2. \A p \in Probe : port[p] \notin free
    BY RunnerAssumption DEF PortInv, TypeOK, PortsHeldOnce
  <2>3. \A p \in Probe : proc[p] \notin free
    BY <2>2, RunnerAssumption DEF PortInv, TypeOK, ProcOfBody
  <2> QED
    BY <2>1, <2>2, <2>3 DEF PortsConserved
<1> QED
  BY <1>1, PortInvariant, PTL

-----------------------------------------------------------------------------
(***************************************************************************)
(* The semaphore.  Probe may be infinite: what is counted never is.        *)
(***************************************************************************)

SemInv == PortInv /\ CallCoversBody /\ SlotInv

\* At first nobody holds a slot.
LEMMA SemInit == Init => SemInv
<1> SUFFICES ASSUME Init PROVE SemInv
  OBVIOUS
<1>1. Holders = {}
  BY DEF Init, Holders
<1>2. SlotInv
  BY <1>1, FS_EmptySet, RunnerAssumption DEF SlotInv
<1>3. CallCoversBody
  BY DEF Init, CallCoversBody, Working
<1> QED
  BY <1>2, <1>3, PortInit DEF SemInv

\* A slot is taken when one is free; a call leaves its slot when it is done or expired.
LEMMA SemStep == SemInv /\ [Next]_vars => SemInv'
<1> SUFFICES ASSUME SemInv, [Next]_vars PROVE SemInv'
  OBVIOUS
<1>0. PortInv /\ PortInv'
  BY PortStep DEF SemInv
<1>1. CallCoversBody'
  <2> USE <1>0 DEF SemInv, PortInv, TypeOK, Phase, Working, PortWhileWorking, CallCoversBody
  <2>1. ASSUME NEW p \in Probe, Call(p) PROVE CallCoversBody'
    BY <2>1 DEF Call, Enter, Expire, Return, GiveUp
  <2>2. ASSUME NEW p \in Probe, Body(p) PROVE CallCoversBody'
    <3>1. \A q \in Probe \ {p} : phase'[q] = phase[q]
      <4>1. CASE SpawnFails(p) \/ NotReady(p) \/ CurlEnds(p)
        BY <4>1 DEF SpawnFails, NotReady, CurlEnds, Ends
      <4>2. CASE Release(p)
        BY <4>2 DEF Release, Again
      <4>3. CASE Acquire(p) \/ Spawn(p) \/ SockReady(p) \/ NextTarget(p) \/ KillAndReap(p)
        BY <4>3 DEF Acquire, Spawn, SockReady, NextTarget, KillAndReap
      <4> QED
        BY <2>2, <4>1, <4>2, <4>3 DEF Body
    <3>2. phase[p] \in Working \cup {"acquire"} /\ UNCHANGED <<call, expired>>
      BY <2>2 DEF Body, At, Acquire, Spawn, SpawnFails, SockReady, NotReady, NextTarget,
                  CurlEnds, KillAndReap, Release
    <3> QED
      BY <3>1, <3>2
  <2>3. ASSUME NEW p \in Probe, Hang(p) \/ Bind(p) \/ Exit(p) PROVE CallCoversBody'
    BY <2>3 DEF Hang, Bind, Exit
  <2> QED
    BY <2>1, <2>2, <2>3 DEF Next, vars
<1>2. SlotInv'
  <2>1. CASE call' = call
    BY <2>1 DEF SemInv, SlotInv, Holders
  <2>2. ASSUME NEW p \in Probe, Enter(p) PROVE SlotInv'
    <3>1. Holders' = Holders \cup {p} /\ p \notin Holders /\ Cardinality(Holders) < Concurrency
      BY <1>0, <2>2 DEF Enter, Holders, PortInv, TypeOK
    <3> QED
      <4>1. IsFiniteSet(Holders) /\ Cardinality(Holders) \in Nat
        BY FS_CardinalityType DEF SemInv, SlotInv
      <4>2. IsFiniteSet(Holders') /\ Cardinality(Holders') = Cardinality(Holders) + 1
        BY <3>1, <4>1, FS_AddElement
      <4> QED
        BY <3>1, <4>1, <4>2, RunnerAssumption DEF SlotInv
  <2>3. ASSUME NEW p \in Probe, Return(p) \/ GiveUp(p) PROVE SlotInv'
    <3>1. Holders' \subseteq Holders
      BY <1>0, <2>3 DEF Return, GiveUp, Holders, PortInv, TypeOK
    <3> QED
      BY <3>1, FS_Subset, FS_CardinalityType, RunnerAssumption DEF SemInv, SlotInv
  <2>4. call' = call \/ \E p \in Probe : Enter(p) \/ Return(p) \/ GiveUp(p)
    BY DEF Next, vars, Call, Body, Expire, Hang, Bind, Exit, Acquire, Spawn, SpawnFails, SockReady,
           NotReady, NextTarget, CurlEnds, KillAndReap, Release
  <2> QED
    BY <2>1, <2>2, <2>3, <2>4
<1> QED
  BY <1>0, <1>1, <1>2 DEF SemInv

\* Beyond the semaphore's bound only expired probes have a sing-box (ProcessBound).
THEOREM ProcessesBounded == Spec => []ProcessBound
<1>1. SemInv => ProcessBound
  <2> SUFFICES ASSUME SemInv PROVE ProcessBound
    OBVIOUS
  <2> DEFINE Live == {p \in Probe : proc[p] # None /\ p \notin expired}
  <2>1. Live \subseteq Holders
    BY DEF SemInv, PortInv, ProcOfBody, CallCoversBody, Working, Holders
  <2>2. Cardinality(Live) <= Concurrency
    BY <2>1, FS_Subset, FS_CardinalityType, RunnerAssumption DEF SemInv, SlotInv
  <2> QED
    BY <2>2 DEF ProcessBound
<1> QED
  BY <1>1, SemInit, SemStep, PTL DEF Spec
=============================================================================
