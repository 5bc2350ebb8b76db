----------------------------- MODULE LeaseProofs -----------------------------
(***************************************************************************)
(* What the lease guarantees for every set of instances and every timing   *)
(* that satisfies LeaseAssumption.                                         *)
(***************************************************************************)
EXTENDS Lease, TLAPS

\* The strengthening: a leader's entry, or whatever replaced it, is at most Lag
\* older than the leader's last write, and a leader that is not late wrote within
\* RenewGap.
AgeBound ==
    \A i \in Instance : phase[i] = "leader" =>
        /\ holder # None
        /\ since[i] <= RenewGap => age <= since[i] + Lag
        /\ i \notin late => since[i] <= RenewGap

Inv == TypeOK /\ AgeBound

\* A capped count stays in its range and grows by at most one.
LEMMA CappedRange ==
    ASSUME NEW cap \in Nat, NEW x \in 0..cap
    PROVE  Capped(x, cap) \in 0..cap /\ Capped(x, cap) <= x + 1
           /\ (x < cap => Capped(x, cap) = x + 1)
BY DEF Capped

\* The variables keep their types (all of Lease's actions).
LEMMA TypeStep == TypeOK /\ [Next]_vars => TypeOK'
<1> SUFFICES ASSUME TypeOK, [Next]_vars PROVE TypeOK'
    OBVIOUS
<1> USE LeaseAssumption DEF TypeOK
<1>1. CASE Tick
  <2>1. age' \in 0..TTL
    BY <1>1, CappedRange DEF Tick
  <2>2. ClaimTimeout + 1 \in Nat /\ RenewGap + 1 \in Nat
    OBVIOUS
  <2>3. spent' \in [Instance -> 0..(ClaimTimeout + 1)]
    BY <1>1, <2>2, CappedRange DEF Tick
  <2>4. since' \in [Instance -> 0..(RenewGap + 1)]
    BY <1>1, <2>2, CappedRange DEF Tick
  <2>5. QED
    BY <1>1, <2>1, <2>3, <2>4 DEF Tick, LeadersDue, Fault
<1>2. ASSUME NEW i \in Instance, Start(i) PROVE TypeOK'
  BY <1>2 DEF Start
<1>3. ASSUME NEW i \in Instance, Read(i) PROVE TypeOK'
  BY <1>3 DEF Read
<1>4. ASSUME NEW i \in Instance, ReadFails(i) PROVE TypeOK'
  BY <1>4 DEF ReadFails, Fault
<1>5. ASSUME NEW i \in Instance, ClaimPut(i) PROVE TypeOK'
  BY <1>5 DEF ClaimPut, Store
<1>6. ASSUME NEW i \in Instance, ClaimPutFails(i) PROVE TypeOK'
  BY <1>6 DEF ClaimPutFails, Store, Fault
<1>7. ASSUME NEW i \in Instance, Renew(i) PROVE TypeOK'
  BY <1>7 DEF Renew, Store
<1>8. ASSUME NEW i \in Instance, Stop(i) PROVE TypeOK'
  BY <1>8 DEF Stop, Fault
<1>9. CASE UNCHANGED vars
  BY <1>9 DEF vars
<1>10. QED
  BY <1>1, <1>2, <1>3, <1>4, <1>5, <1>6, <1>7, <1>8, <1>9 DEF Next

\* A write of any instance resets the entry's age to at most Lag.
LEMMA AgeStep == Inv /\ [Next]_vars => AgeBound'
<1> SUFFICES ASSUME TypeOK, AgeBound, [Next]_vars,
                    NEW k \in Instance, phase'[k] = "leader"
             PROVE  /\ holder' # None
                    /\ since'[k] <= RenewGap => age' <= since'[k] + Lag
                    /\ k \notin late' => since'[k] <= RenewGap
    BY DEF Inv, AgeBound
<1> USE LeaseAssumption DEF TypeOK, AgeBound
<1>1. CASE Tick
  <2>1. phase[k] = "leader" /\ holder' # None
    BY <1>1 DEF Tick
  <2>2. /\ since[k] \in 0..(RenewGap + 1)
        /\ since'[k] = IF since[k] < RenewGap + 1 THEN since[k] + 1 ELSE RenewGap + 1
    BY <1>1 DEF Tick, Capped
  <2>3. age' \in 0..TTL /\ age' <= age + 1
    BY <1>1, CappedRange DEF Tick
  <2>4. since'[k] <= RenewGap => age' <= since'[k] + Lag
    BY <2>1, <2>2, <2>3
  <2>5. k \notin late' => since'[k] <= RenewGap
    BY <1>1, <2>1, <2>2 DEF Tick, LeadersDue
  <2>6. QED
    BY <2>1, <2>4, <2>5
<1>2. ASSUME NEW i \in Instance, Start(i) \/ Read(i) \/ ReadFails(i) \/ Stop(i)
      PROVE  /\ holder' # None
             /\ since'[k] <= RenewGap => age' <= since'[k] + Lag
             /\ k \notin late' => since'[k] <= RenewGap
  BY <1>2 DEF Start, Read, ReadFails, Stop
<1>3. ASSUME NEW i \in Instance, ClaimPut(i) \/ Renew(i)
      PROVE  /\ holder' # None
             /\ since'[k] <= RenewGap => age' <= since'[k] + Lag
             /\ k \notin late' => since'[k] <= RenewGap
  <2>1. holder' = i /\ age' \in 0..Lag /\ late' = late
    BY <1>3 DEF ClaimPut, Renew, Store
  <2>2. CASE k = i
    BY <1>3, <2>1, <2>2 DEF ClaimPut, Renew
  <2>3. CASE k # i
    <3>1. phase[k] = "leader" /\ since'[k] = since[k] /\ since[k] \in Nat
      BY <1>3, <2>3 DEF ClaimPut, Renew
    <3>2. QED
      BY <2>1, <3>1
  <2>4. QED
    BY <2>2, <2>3
<1>4. ASSUME NEW i \in Instance, ClaimPutFails(i)
      PROVE  /\ holder' # None
             /\ since'[k] <= RenewGap => age' <= since'[k] + Lag
             /\ k \notin late' => since'[k] <= RenewGap
  <2>1. phase[k] = "leader" /\ since' = since /\ late' = late /\ since[k] \in Nat
    BY <1>4 DEF ClaimPutFails
  <2>2. \/ holder' = i /\ age' \in 0..Lag
        \/ UNCHANGED <<holder, age>>
    BY <1>4 DEF ClaimPutFails, Store
  <2>3. QED
    BY <2>1, <2>2
<1>5. CASE UNCHANGED vars
  BY <1>5 DEF vars
<1>6. QED
  BY <1>1, <1>2, <1>3, <1>4, <1>5 DEF Next

\* Type correctness and the bound on the entry's age hold throughout.
THEOREM LeaseInvariant == Spec => []Inv
<1>1. Init => Inv
  BY LeaseAssumption DEF Init, Inv, TypeOK, AgeBound
<1>2. Inv /\ [Next]_vars => Inv'
  BY TypeStep, AgeStep DEF Inv
<1>3. QED
  BY <1>1, <1>2, PTL DEF Spec

\* While a leader writes in time its lease looks unexpired to everybody, also when
\* several instances write the entry (Healthy is what claim() tests).
THEOREM TimelyLease == Spec => []TimelyLeaseHealthy
<1>1. Inv => TimelyLeaseHealthy
  BY LeaseAssumption DEF Inv, TypeOK, AgeBound, TimelyLeaseHealthy
<1>2. QED
  BY <1>1, LeaseInvariant, PTL

\* A sole leader that holds the entry and writes in time is not joined by another
\* (every step of TryAcquireLease, by any instance).
THEOREM SoleLeader == Spec => SoleLeaderStays
<1> DEFINE Kept(i) == \/ Sole(i)' \/ phase'[i] = "down" \/ i \in late'
                      \/ \E j \in Instance : j \in blind' /\ phase'[j] = "claim"
<1>1. Inv /\ [Next]_vars => [\A i \in Instance : Sole(i) => Kept(i)]_vars
  <2> SUFFICES ASSUME Inv, [Next]_vars, NEW i \in Instance, Sole(i)
               PROVE  Kept(i)
      BY Zenon
  <2> USE DEF Inv, TypeOK
  <2>1. age < TTL /\ holder = i /\ i # None /\ phase[i] = "leader" /\ i \notin late
    BY LeaseAssumption DEF Sole, AgeBound
  <2>2. CASE Tick
    BY <2>1, <2>2 DEF Tick, Sole
  <2>3. ASSUME NEW j \in Instance, Start(j) PROVE Kept(i)
    BY <2>1, <2>3 DEF Start, Sole
  <2>4. ASSUME NEW j \in Instance, Read(j) PROVE Kept(i)
    BY <2>1, <2>4 DEF Read, Sole, Healthy
  <2>5. ASSUME NEW j \in Instance, ReadFails(j) PROVE Kept(i)
    BY <2>1, <2>5 DEF ReadFails
  <2>6. ASSUME NEW j \in Instance, ClaimPut(j) \/ ClaimPutFails(j) PROVE Kept(i)
    BY <2>1, <2>6 DEF ClaimPut, ClaimPutFails, Sole
  <2>7. ASSUME NEW j \in Instance, Renew(j) PROVE Kept(i)
    BY <2>1, <2>7 DEF Renew, Store, Sole
  <2>8. ASSUME NEW j \in Instance, Stop(j) PROVE Kept(i)
    BY <2>1, <2>8 DEF Stop, Sole
  <2>9. CASE UNCHANGED vars
    BY <2>1, <2>9 DEF vars, Sole
  <2>10. QED
    BY <2>2, <2>3, <2>4, <2>5, <2>6, <2>7, <2>8, <2>9 DEF Next
<1>2. QED
  BY <1>1, LeaseInvariant, PTL DEF Spec, SoleLeaderStays

-----------------------------------------------------------------------------
\* In an orderly execution whoever leads is the sole leader.
LedAlone == \A i \in Instance : phase[i] = "leader" => Sole(i)

\* While there is a sole leader nobody claims; the only claimer becomes a sole leader.
LEMMA AloneStep ==
    ASSUME Inv, LedAlone, Orderly, Orderly', [Next]_vars PROVE LedAlone'
<1> USE DEF Inv, TypeOK
<1>1. \A i \in Instance : phase[i] = "leader" =>
         /\ age < TTL /\ holder = i /\ i # None
         /\ \A j \in Instance \ {i} : phase[j] \in {"down", "standby"}
  BY LeaseAssumption DEF LedAlone, Sole, AgeBound
<1>2. ASSUME NEW i \in Instance, phase'[i] = "leader", phase[i] = "leader", holder' = holder,
             \A j \in Instance \ {i} : phase'[j] \in {"down", "standby"}
      PROVE  Sole(i)'
  BY <1>1, <1>2 DEF Sole, Orderly
<1>3. CASE Tick \/ UNCHANGED vars
  BY <1>1, <1>2, <1>3 DEF Tick, vars, LedAlone
<1>4. ASSUME NEW j \in Instance, Start(j) \/ Stop(j) PROVE LedAlone'
  BY <1>1, <1>2, <1>4 DEF Start, Stop, LedAlone
<1>5. ASSUME NEW j \in Instance, Read(j) PROVE LedAlone'
  BY <1>1, <1>2, <1>5 DEF Read, Healthy, LedAlone
<1>6. ASSUME NEW j \in Instance, ReadFails(j) PROVE LedAlone'
  BY <1>6 DEF ReadFails, Orderly
<1>7. ASSUME NEW j \in Instance, ClaimPut(j) PROVE LedAlone'
  <2>1. \A i \in Instance : phase[i] # "leader"
    BY <1>1, <1>7 DEF ClaimPut
  <2>2. \A i \in Instance \ {j} : phase[i] \in {"down", "standby"}
    BY <1>7, <2>1 DEF ClaimPut, Orderly
  <2> QED
    BY <1>7, <2>1, <2>2 DEF ClaimPut, Store, LedAlone, Sole, Orderly
<1>8. ASSUME NEW j \in Instance, ClaimPutFails(j) PROVE LedAlone'
  <2>1. \A i \in Instance : phase[i] # "leader"
    BY <1>1, <1>8 DEF ClaimPutFails
  <2> QED
    BY <1>8, <2>1 DEF ClaimPutFails, LedAlone
<1>9. ASSUME NEW j \in Instance, Renew(j) PROVE LedAlone'
  BY <1>1, <1>2, <1>9 DEF Renew, Store, LedAlone
<1> QED
  BY <1>3, <1>4, <1>5, <1>6, <1>7, <1>8, <1>9 DEF Next

\* Without late renewals, failed reads and overlapping claims there is one writer at
\* a time (the comment of deploy/k8s/30-coordinator.yaml, under what it takes).
THEOREM OneWriterWhenOrderly == Spec => OrderlySingle
<1>1. Init => LedAlone
  BY DEF Init, LedAlone
<1>2. Inv /\ LedAlone /\ Orderly /\ Orderly' /\ [Next]_vars => LedAlone'
  BY AloneStep
<1>3. LedAlone => SingleWriter
  BY DEF LedAlone, Sole, SingleWriter
<1> QED
  BY <1>1, <1>2, <1>3, LeaseInvariant, PTL DEF Spec, OrderlySingle
=============================================================================
