---------------------------- MODULE VantagesProofs ----------------------------
(***************************************************************************)
(* Proofs about Vantages, for any set of vantages, any roles, any number   *)
(* of requests of the administrator and of faults.                         *)
(***************************************************************************)
EXTENDS Vantages, TLAPS

\* The assumptions one by one.
LEMMA Bounds ==
    /\ Role \in [Vantage -> {"tester", "validator"}]
    /\ MaxEdits \in Nat /\ MaxFaults \in Nat
  BY VantagesAssumption

\* What a row holds.
Entered == [kind: {"cloud", "edge"}, enabled: BOOLEAN] \cup {NoRow}

LEMMA KindType == ASSUME NEW v \in Vantage PROVE KindOf(v) \in {"cloud", "edge"}
  BY DEF KindOf

\* An upsert writes one row, and leaves enabled as it was where there was a row.
LEMMA UpsertedRow ==
    ASSUME row \in [Vantage -> Entered], NEW v \in Vantage, NEW kind \in {"cloud", "edge"},
           NEW enabled \in BOOLEAN, row' = Upserted(v, kind, enabled)
    PROVE  /\ row' \in [Vantage -> Entered]
           /\ \A w \in Vantage : w # v => row'[w] = row[w]
           /\ row'[v] # NoRow /\ row'[v].kind = kind
           /\ row'[v].enabled = IF row[v] = NoRow THEN enabled ELSE row[v].enabled
<1> DEFINE e == IF row[v] = NoRow THEN enabled ELSE row[v].enabled
           r == [kind |-> kind, enabled |-> e]
<1>1. row[v] \in Entered
  OBVIOUS
<1>2. e \in BOOLEAN
  BY <1>1, Zenon DEF Entered
<1>3. r \in Entered
  BY <1>2, Zenon DEF Entered
<1>4. r # NoRow
  BY DEF NoRow
<1>5. row' = [row EXCEPT ![v] = r]
  BY DEF Upserted
<1>6. r.kind = kind /\ r.enabled = e
  OBVIOUS
<1> HIDE DEF r
<1>7. row'[v] = r
  BY <1>5
<1>8. row' \in [Vantage -> Entered] /\ \A w \in Vantage : w # v => row'[w] = row[w]
  BY <1>3, <1>5
<1> QED
  BY <1>4, <1>6, <1>7, <1>8, Zenon

-----------------------------------------------------------------------------
\* At first every value is of its type.
LEMMA TypeInit == Init => TypeOK
  BY Bounds DEF Init, TypeOK

\* Every step keeps the types.
LEMMA TypeStep == TypeOK /\ [Next]_vars => TypeOK'
<1> SUFFICES ASSUME TypeOK, [Next]_vars PROVE TypeOK'
  OBVIOUS
<1> USE Bounds
<1>1. ASSUME NEW v \in Vantage,
             WorkerStart(v) \/ WorkerStop(v) \/ Lookup(v) \/ Create(v) \/ CreateFails(v)
      PROVE  TypeOK'
  BY <1>1 DEF TypeOK, WorkerStart, WorkerStop, Lookup, Create, CreateFails, Fault,
              coordinator, history
<1>2. ASSUME NEW v \in Vantage,
             Heartbeat(v) \/ FallSilent(v) \/ Take(v) \/ EnsureDurable(v) \/ Publish(v)
      PROVE  TypeOK'
  BY <1>2 DEF TypeOK, Heartbeat, FallSilent, AfterTTL, Take, EnsureDurable, Publish, Fault,
              coordinator, history
<1>3. ASSUME NEW v \in Vantage, Register(v) \/ RegisterFails(v) PROVE TypeOK'
  <2>1. row' \in [Vantage -> Entered]
    BY <1>3, UpsertedRow, KindType DEF TypeOK, Register, RegisterFails, Entered
  <2>2. {w \in {v} : KindOf(w) = "edge"} \in {{}} \cup {{w} : w \in Vantage}
    <3>1. CASE KindOf(v) = "edge"
      BY <3>1
    <3>2. CASE KindOf(v) # "edge"
      BY <3>2
    <3> QED
      BY <3>1, <3>2
  <2>3. ensuring' \in {{}} \cup {{w} : w \in Vantage}
    BY <1>3, <2>2 DEF TypeOK, Register, RegisterFails
  <2>4. updates' \subseteq Vantage
    BY <1>3 DEF TypeOK, Register, RegisterFails
  <2>5. faults' \in 0..MaxFaults
    <3>1. CASE Register(v)
      BY <3>1 DEF TypeOK, Register
    <3>2. CASE RegisterFails(v)
      BY <3>2 DEF TypeOK, RegisterFails, Fault
    <3> QED
      BY <1>3, <3>1, <3>2
  <2>6. UNCHANGED <<worker, entry, watch, filter, plan, waiting, edits, history>>
    BY <1>3 DEF Register, RegisterFails
  <2> QED
    BY <2>1, <2>3, <2>4, <2>5, <2>6 DEF TypeOK, history, Entered
<1>4. ASSUME NEW v \in Vantage, NEW kind \in {"cloud", "edge"}, NEW enabled \in BOOLEAN,
             AdminPost(v, kind, enabled)
      PROVE  TypeOK'
  <2>1. row' \in [Vantage -> Entered]
    BY <1>4, UpsertedRow DEF TypeOK, AdminPost, Entered
  <2> QED
    BY <1>4, <2>1 DEF TypeOK, AdminPost, Edit, coordinator, Entered
<1>5. ASSUME NEW v \in Vantage, AdminDelete(v) PROVE TypeOK'
  BY <1>5 DEF TypeOK, AdminDelete, Edit, coordinator
<1>6. CASE CoordStart \/ CoordStop \/ WatchEnds
  BY <1>6 DEF TypeOK, CoordStart, CoordStop, WatchEnds, Fault, history
<1>7. CASE PlanRead
  BY <1>7 DEF TypeOK, PlanRead, history
<1>8. CASE UNCHANGED vars
  BY <1>8 DEF TypeOK, vars, coordinator, history
<1> QED
  BY <1>1, <1>2, <1>3, <1>4, <1>5, <1>6, <1>7, <1>8 DEF Next, Attach

\* Every value of the state is of its type in every execution (the property TypeOK).
THEOREM TypeCorrect == Spec => []TypeOK
  BY TypeInit, TypeStep, PTL DEF Spec

-----------------------------------------------------------------------------
(***************************************************************************)
(* A retired vantage stays deleted: nothing is left from which the         *)
(* coordinator could enter it again.                                       *)
(***************************************************************************)
RetiredForgotten ==
    \A v \in retired : row[v] = NoRow /\ v \in quiet /\ v \notin entry \cup updates

\* The bucket remembers no vantage for longer than two hours.
EntriesLive == entry \cap quiet = {}

RetiredInv == TypeOK /\ RetiredForgotten /\ EntriesLive

LEMMA RetiredStep == RetiredInv /\ [Next]_vars => RetiredInv'
<1> SUFFICES ASSUME RetiredInv, [Next]_vars PROVE RetiredForgotten' /\ EntriesLive'
  BY TypeStep DEF RetiredInv
<1>0. TypeOK /\ RetiredForgotten /\ EntriesLive
  BY DEF RetiredInv
<1>1. ASSUME NEW v \in Vantage, Register(v) \/ RegisterFails(v)
      PROVE  RetiredForgotten' /\ EntriesLive'
  <2>1. v \notin retired
    BY <1>0, <1>1 DEF RetiredForgotten, Register, RegisterFails
  <2>2. \A w \in Vantage : w # v => row'[w] = row[w]
    BY <1>0, <1>1, UpsertedRow, KindType DEF TypeOK, Register, RegisterFails, Entered
  <2>3. updates' \subseteq updates /\ UNCHANGED <<entry, quiet, retired>>
    BY <1>1 DEF Register, RegisterFails, history
  <2> QED
    BY <1>0, <2>1, <2>2, <2>3 DEF RetiredForgotten, EntriesLive, TypeOK
<1>2. ASSUME NEW v \in Vantage, NEW kind \in {"cloud", "edge"}, NEW enabled \in BOOLEAN,
             AdminPost(v, kind, enabled)
      PROVE  RetiredForgotten' /\ EntriesLive'
  <2>1. \A w \in Vantage : w # v => row'[w] = row[w]
    BY <1>0, <1>2, UpsertedRow DEF TypeOK, AdminPost, Entered
  <2>2. retired' = retired \ {v} /\ UNCHANGED <<entry, quiet, updates>>
    BY <1>2 DEF AdminPost, coordinator
  <2> QED
    BY <1>0, <2>1, <2>2 DEF RetiredForgotten, EntriesLive, TypeOK
<1>3. ASSUME NEW v \in Vantage, AdminDelete(v) PROVE RetiredForgotten' /\ EntriesLive'
  BY <1>0, <1>3 DEF RetiredForgotten, EntriesLive, TypeOK, AdminDelete, coordinator
<1>4. ASSUME NEW v \in Vantage, Heartbeat(v) \/ FallSilent(v)
      PROVE  RetiredForgotten' /\ EntriesLive'
  BY <1>0, <1>4 DEF RetiredForgotten, EntriesLive, TypeOK, Heartbeat, FallSilent, AfterTTL,
                    coordinator
<1>5. CASE CoordStart \/ CoordStop \/ WatchEnds
  BY <1>0, <1>5 DEF RetiredForgotten, EntriesLive, CoordStart, CoordStop, WatchEnds, history
<1>6. ASSUME UNCHANGED <<entry, updates, row, quiet, retired>>
      PROVE  RetiredForgotten' /\ EntriesLive'
  BY <1>0, <1>6 DEF RetiredForgotten, EntriesLive
<1>7. ASSUME NEW v \in Vantage,
             \/ WorkerStart(v) \/ WorkerStop(v) \/ Attach(v) \/ CreateFails(v) \/ Take(v)
             \/ EnsureDurable(v) \/ Publish(v)
      PROVE  UNCHANGED <<entry, updates, row, quiet, retired>>
  BY <1>7 DEF WorkerStart, WorkerStop, Attach, Lookup, Create, CreateFails, Take,
              EnsureDurable, Publish, coordinator, history
<1>8. CASE PlanRead \/ UNCHANGED vars
  BY <1>6, <1>8 DEF PlanRead, vars, coordinator, history
<1> QED
  BY <1>1, <1>2, <1>3, <1>4, <1>5, <1>6, <1>7, <1>8 DEF Next

\* No restart of the coordinator brings back what was deleted (RetiredStay).
THEOREM RetiredStaysDeleted == Spec => []RetiredStay
<1>1. Init => RetiredInv
  BY TypeInit DEF Init, RetiredInv, RetiredForgotten, EntriesLive
<1>2. RetiredInv => RetiredStay
  BY DEF RetiredInv, RetiredForgotten, RetiredStay
<1> QED
  BY <1>1, <1>2, RetiredStep, PTL DEF Spec

-----------------------------------------------------------------------------
(***************************************************************************)
(* Jobs where they are wanted: a vantage added as disabled keeps a row,    *)
(* and no upsert enables it; the kind of a row is that of the role, or the *)
(* administrator gave another.                                             *)
(***************************************************************************)
BannedKept == \A v \in banned : row[v] # NoRow /\ row[v].enabled = FALSE /\ v \notin plan

KindsNamed ==
    \A v \in Vantage \ misnamed :
        /\ row[v] # NoRow => row[v].kind = KindOf(v)
        /\ v \in plan => KindOf(v) = "edge"

WantedInv == TypeOK /\ BannedKept /\ KindsNamed

LEMMA WantedStep == WantedInv /\ [Next]_vars => WantedInv'
<1> SUFFICES ASSUME WantedInv, [Next]_vars PROVE BannedKept' /\ KindsNamed'
  BY TypeStep DEF WantedInv
<1>0. TypeOK /\ BannedKept /\ KindsNamed
  BY DEF WantedInv
<1>1. ASSUME NEW v \in Vantage, Register(v) \/ RegisterFails(v)
      PROVE  BannedKept' /\ KindsNamed'
  <2>1. UNCHANGED <<plan, banned, misnamed>>
    BY <1>1 DEF Register, RegisterFails, history
  <2>2. CASE row' = row
    BY <1>0, <2>1, <2>2 DEF BannedKept, KindsNamed
  <2>3. CASE row' = Upserted(v, KindOf(v), TRUE)
    <3>1. /\ \A w \in Vantage : w # v => row'[w] = row[w]
          /\ row'[v] # NoRow /\ row'[v].kind = KindOf(v)
          /\ row'[v].enabled = IF row[v] = NoRow THEN TRUE ELSE row[v].enabled
      BY <1>0, <2>3, UpsertedRow, KindType DEF TypeOK, Entered
    <3>2. BannedKept'
      BY <1>0, <2>1, <3>1 DEF BannedKept, TypeOK
    <3>3. KindsNamed'
      BY <1>0, <2>1, <3>1 DEF KindsNamed, TypeOK
    <3> QED
      BY <3>2, <3>3
  <2> QED
    BY <1>1, <2>2, <2>3 DEF Register, RegisterFails
<1>2. ASSUME NEW v \in Vantage, NEW kind \in {"cloud", "edge"}, NEW enabled \in BOOLEAN,
             AdminPost(v, kind, enabled)
      PROVE  BannedKept' /\ KindsNamed'
  <2>1. /\ \A w \in Vantage : w # v => row'[w] = row[w]
        /\ row'[v] # NoRow /\ row'[v].kind = kind
        /\ row'[v].enabled = IF row[v] = NoRow THEN enabled ELSE row[v].enabled
    BY <1>0, <1>2, UpsertedRow DEF TypeOK, AdminPost, Entered
  <2>2. /\ banned' = IF row[v] = NoRow /\ ~enabled /\ v \notin plan THEN banned \cup {v} ELSE banned
        /\ misnamed' = IF kind = KindOf(v) THEN misnamed ELSE misnamed \cup {v}
        /\ UNCHANGED plan
    BY <1>2 DEF AdminPost, coordinator
  <2>3. \A w \in banned' : row'[w] # NoRow /\ row'[w].enabled = FALSE /\ w \notin plan'
    <3>1. ASSUME NEW w \in banned', w # v
          PROVE  row'[w] # NoRow /\ row'[w].enabled = FALSE /\ w \notin plan'
      BY <1>0, <2>1, <2>2, <3>1 DEF BannedKept, TypeOK
    <3>2. ASSUME v \in banned', v \in banned
          PROVE  row'[v] # NoRow /\ row'[v].enabled = FALSE /\ v \notin plan'
      BY <1>0, <2>1, <2>2, <3>2, Zenon DEF BannedKept
    <3>3. ASSUME v \in banned', v \notin banned
          PROVE  row'[v] # NoRow /\ row'[v].enabled = FALSE /\ v \notin plan'
      <4>1. row[v] = NoRow /\ ~enabled /\ v \notin plan
        BY <2>2, <3>3
      <4>2. enabled = FALSE
        BY <4>1
      <4> QED
        BY <2>1, <2>2, <4>1, <4>2, Zenon
    <3> QED
      BY <3>1, <3>2, <3>3
  <2>4. KindsNamed'
    BY <1>0, <2>1, <2>2 DEF KindsNamed, TypeOK
  <2> QED
    BY <2>3, <2>4 DEF BannedKept
<1>3. ASSUME NEW v \in Vantage, AdminDelete(v) PROVE BannedKept' /\ KindsNamed'
  BY <1>0, <1>3 DEF BannedKept, KindsNamed, TypeOK, AdminDelete, coordinator
<1>4. CASE PlanRead
  <2>1. /\ plan' = {v \in Vantage : row[v].enabled /\ row[v].kind = "edge"}
        /\ UNCHANGED <<row, banned, misnamed>>
    BY <1>4 DEF PlanRead, history
  <2>2. BannedKept'
    BY <1>0, <2>1 DEF BannedKept
  <2>3. ASSUME NEW v \in Vantage \ misnamed, v \in plan' PROVE KindOf(v) = "edge"
    BY <1>0, <2>1, <2>3 DEF KindsNamed, NoRow
  <2> QED
    BY <1>0, <2>1, <2>2, <2>3 DEF KindsNamed
<1>5. ASSUME plan' \subseteq plan, UNCHANGED <<row, banned, misnamed>>
      PROVE  BannedKept' /\ KindsNamed'
  BY <1>0, <1>5 DEF BannedKept, KindsNamed
<1>6. ASSUME NEW v \in Vantage,
             \/ WorkerStart(v) \/ WorkerStop(v) \/ Heartbeat(v) \/ FallSilent(v)
             \/ Attach(v) \/ CreateFails(v) \/ Take(v) \/ EnsureDurable(v) \/ Publish(v)
      PROVE  plan' \subseteq plan /\ UNCHANGED <<row, banned, misnamed>>
  BY <1>6 DEF WorkerStart, WorkerStop, Heartbeat, FallSilent, Attach, Lookup, Create,
              CreateFails, Take, EnsureDurable, Publish, coordinator, history
<1>7. CASE CoordStart \/ CoordStop \/ WatchEnds \/ UNCHANGED vars
  BY <1>5, <1>7 DEF CoordStart, CoordStop, WatchEnds, vars, coordinator, history
<1> QED
  BY <1>1, <1>2, <1>3, <1>4, <1>5, <1>6, <1>7 DEF Next

\* Jobs wait for validators, never for one that was added as disabled (JobsWhereWanted).
THEOREM JobsOnlyWhereWanted == Spec => JobsWhereWanted
<1> DEFINE Wanted == \A v \in waiting' \ waiting :
                        v \notin banned /\ (Role[v] = "tester" => v \in misnamed)
<1>1. Init => WantedInv
  BY TypeInit DEF Init, WantedInv, BannedKept, KindsNamed
<1>2. ASSUME WantedInv, [Next]_vars PROVE Wanted
  <2>1. ASSUME NEW v \in waiting' \ waiting PROVE Publish(v)
    BY <1>2, <2>1 DEF Next, vars, WorkerStart, WorkerStop, Heartbeat, FallSilent, Attach,
         Lookup, Create, CreateFails, Take, Register, RegisterFails, EnsureDurable, Publish,
         AdminPost, AdminDelete, CoordStart, CoordStop, WatchEnds, PlanRead
  <2>2. ASSUME NEW v \in waiting' \ waiting
        PROVE  v \notin banned /\ (Role[v] = "tester" => v \in misnamed)
    <3>1. v \in plan /\ v \in Vantage
      BY <1>2, <2>1, <2>2 DEF Publish, WantedInv, TypeOK
    <3> QED
      BY <1>2, <3>1 DEF WantedInv, BannedKept, KindsNamed, KindOf
  <2> QED
    BY <2>2
<1>3. WantedInv /\ [Next]_vars => [Wanted]_vars
  BY <1>2
<1> QED
  BY <1>1, <1>3, WantedStep, PTL DEF Spec, JobsWhereWanted
=============================================================================
