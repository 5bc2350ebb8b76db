-------------------------------- MODULE Lease --------------------------------
(***************************************************************************)
(* The coordinator's leader lease: one entry in the REGISTRY bucket that   *)
(* names its holder and the time of the last renewal.  An instance reads   *)
(* the entry and, unless somebody else's is younger than the TTL, writes   *)
(* its own and leads; it then rewrites the entry at every renewal, without *)
(* reading it, until its process ends.                                     *)
(*                                                                         *)
(* Time is kept as ages (ticks since an event), each capped where larger   *)
(* values make no difference, so no bound on the clock is needed.  The     *)
(* instances' clocks agree, and HOSTNAME tells them apart.                 *)
(***************************************************************************)
EXTENDS Integers

CONSTANTS
    Instance,      \* coordinator processes, by HOSTNAME
    None,          \* no holder: the entry does not exist
    TTL,           \* age at which another instance may take the entry (30s)
    RenewGap,      \* longest gap between the writes of a leader in good health
    Lag,           \* age of the timestamp in an entry when it is stored (<= 3s)
    ClaimTimeout,  \* the context of a claim, its read and its write (3s)
    MaxFaults      \* bound: crashes, failed reads, failed or late writes

ASSUME LeaseAssumption ==
    /\ None \notin Instance
    /\ {TTL, RenewGap, Lag, ClaimTimeout, MaxFaults} \subseteq Nat
    /\ RenewGap + Lag < TTL

VARIABLES
    holder,     \* the id in the entry, None when there is no entry
    age,        \* ticks since the timestamp in the entry, at most TTL
    phase,      \* what each instance is doing
    spent,      \* ticks since a claiming instance read the entry
    since,      \* ticks since a leader's last write, at most RenewGap + 1
    faults,     \* faults so far
    blind,      \* history: instances whose last read of the entry failed
    late        \* history: leaders that once exceeded RenewGap

vars == <<holder, age, phase, spent, since, faults, blind, late>>

TypeOK ==
    /\ holder \in Instance \cup {None}
    /\ age \in 0..TTL
    /\ phase \in [Instance -> {"down", "standby", "claim", "leader"}]
    /\ spent \in [Instance -> 0..(ClaimTimeout + 1)]
    /\ since \in [Instance -> 0..(RenewGap + 1)]
    /\ faults \in Nat
    /\ blind \subseteq Instance
    /\ late \subseteq Instance

Init ==
    /\ holder = None /\ age = TTL
    /\ phase = [i \in Instance |-> "down"]
    /\ spent = [i \in Instance |-> 0]
    /\ since = [i \in Instance |-> 0]
    /\ faults = 0
    /\ blind = {} /\ late = {}

Fault == faults < MaxFaults /\ faults' = faults + 1

Capped(x, cap) == IF x < cap THEN x + 1 ELSE cap

\* Claims that are out of time after one more tick, and leaders late to renew.
ClaimsDue  == {i \in Instance : phase[i] = "claim" /\ spent[i] = ClaimTimeout}
LeadersDue == {i \in Instance : phase[i] = "leader" /\ since[i] = RenewGap} \ late

\* A second passes.  Only a fault lets it pass a deadline of a claim or a renewal.
Tick ==
    /\ age' = Capped(age, TTL)
    /\ spent' = [i \in Instance |-> Capped(spent[i], ClaimTimeout + 1)]
    /\ since' = [i \in Instance |-> Capped(since[i], RenewGap + 1)]
    /\ late' = late \cup LeadersDue
    /\ IF ClaimsDue \cup LeadersDue = {} THEN UNCHANGED faults ELSE Fault
    /\ UNCHANGED <<holder, phase, blind>>

\* Mutants: a TTL that is over before a renewal is due; one that is never over.
HealthyTooShort(i) == holder \notin {i, None} /\ age < RenewGap
HealthyForever(i)  == holder \notin {i, None}

\* What claim() makes of the entry it read: somebody else's, and not expired.
Healthy(i) == holder \notin {i, None} /\ age < TTL

Start(i) ==
    /\ phase[i] = "down"
    /\ phase' = [phase EXCEPT ![i] = "standby"]
    /\ UNCHANGED <<holder, age, spent, since, faults, blind, late>>

\* claim(): the read.
Read(i) ==
    /\ phase[i] = "standby" /\ ~Healthy(i)
    /\ phase' = [phase EXCEPT ![i] = "claim"]
    /\ spent' = [spent EXCEPT ![i] = 0]
    /\ blind' = blind \ {i}
    /\ UNCHANGED <<holder, age, since, faults, late>>

\* Any error of the read is taken for "no entry".
ReadFails(i) ==
    /\ phase[i] = "standby" /\ Fault
    /\ phase' = [phase EXCEPT ![i] = "claim"]
    /\ spent' = [spent EXCEPT ![i] = 0]
    /\ blind' = blind \cup {i}
    /\ UNCHANGED <<holder, age, since, late>>

\* An entry of i reaches the bucket, stamped when its writer called Put.
Store(i) == holder' = i /\ age' \in 0..Lag

\* claim(): the write, whatever the entry has become since the read.
ClaimPut(i) ==
    /\ phase[i] = "claim" /\ spent[i] <= ClaimTimeout
    /\ Store(i)
    /\ phase' = [phase EXCEPT ![i] = "leader"]
    /\ since' = [since EXCEPT ![i] = 0]
    /\ UNCHANGED <<spent, faults, blind, late>>

\* The write fails, or its answer does: the instance stands by, and the entry
\* may be its own all the same.
ClaimPutFails(i) ==
    /\ phase[i] = "claim"
    /\ spent[i] <= ClaimTimeout => Fault
    /\ spent[i] > ClaimTimeout => UNCHANGED faults
    /\ \/ spent[i] <= ClaimTimeout /\ Store(i)
       \/ UNCHANGED <<holder, age>>
    /\ phase' = [phase EXCEPT ![i] = "standby"]
    /\ UNCHANGED <<spent, since, blind, late>>

\* Mutant: the leader writes back the entry it knows, timestamp and all.
RenewStale(i) ==
    /\ phase[i] = "leader"
    /\ holder' = i /\ UNCHANGED age
    /\ since' = [since EXCEPT ![i] = 0]
    /\ UNCHANGED <<phase, spent, faults, blind, late>>

\* The renewal of a leader does not look at the entry.  (One that fails is the
\* Tick that finds the leader late: its error is ignored.)
Renew(i) ==
    /\ phase[i] = "leader"
    /\ Store(i)
    /\ since' = [since EXCEPT ![i] = 0]
    /\ UNCHANGED <<phase, spent, faults, blind, late>>

\* The process ends, with release() or without: the entry stays.
Stop(i) ==
    /\ phase[i] # "down" /\ Fault
    /\ phase' = [phase EXCEPT ![i] = "down"]
    /\ late' = late \ {i}
    /\ blind' = blind \ {i}
    /\ UNCHANGED <<holder, age, spent, since>>

Next ==
    \/ Tick
    \/ \E i \in Instance :
        Start(i) \/ Read(i) \/ ReadFails(i) \/ ClaimPut(i) \/ ClaimPutFails(i)
            \/ Renew(i) \/ Stop(i)

Spec == Init /\ [][Next]_vars

\* Time passes, and the tickers of the instances keep firing.
FairSpec ==
    /\ Spec /\ WF_vars(Tick)
    /\ \A i \in Instance : WF_vars(Read(i)) /\ WF_vars(Renew(i))
                              /\ WF_vars(ClaimPut(i) \/ ClaimPutFails(i))

-----------------------------------------------------------------------------
(***************************************************************************)
(* Properties.                                                             *)
(***************************************************************************)

\* While some leader writes in time, the entry is present and looks unexpired,
\* however the writes of several leaders fall (claim, renew loop).
TimelyLeaseHealthy ==
    \A i \in Instance : (phase[i] = "leader" /\ i \notin late) => (holder # None /\ age < TTL)

\* i leads, the entry is its own and nobody is in the middle of a claim.
Sole(i) ==
    /\ phase[i] = "leader" /\ i \notin late /\ holder = i
    /\ \A j \in Instance \ {i} : phase[j] \in {"down", "standby"}

\* What the lease does promise: a leader that is alone and holds the entry stays
\* alone until it stops, misses its renewals, or an instance fails to read the
\* entry (TryAcquireLease).
SoleLeaderStays ==
    [][\A i \in Instance : Sole(i) =>
            \/ Sole(i)' \/ phase'[i] = "down" \/ i \in late'
            \/ \E j \in Instance : j \in blind' /\ phase'[j] = "claim"]_vars

\* An instance that stands by does not wait for ever behind a dead leader: as long
\* as one is up, somebody leads in the end (the claim of the renew loop).
TakeOver ==
    (\E i \in Instance : phase[i] # "down") ~>
        ((\E i \in Instance : phase[i] = "leader") \/ \A i \in Instance : phase[i] = "down")

\* deploy/k8s/30-coordinator.yaml: "single writer; KV lease guards accidental
\* duplicates".  Two instances never lead at once.
SingleWriter ==
    \A i, j \in Instance : (phase[i] = "leader" /\ phase[j] = "leader") => i = j

\* Nobody misses a renewal, no read of the entry fails and no two claims overlap.
Orderly ==
    /\ late = {} /\ blind = {}
    /\ \A i, j \in Instance : (phase[i] = "claim" /\ phase[j] = "claim") => i = j

\* What it takes for the manifest's words to be true: in an orderly execution there is
\* one writer at a time, through every takeover (TryAcquireLease, claim, renew loop).
OrderlySingle == []Orderly => []SingleWriter
=============================================================================
