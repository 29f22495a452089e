--------------------------- MODULE PlanCyclesProofs ---------------------------
(***************************************************************************)
(* The scheduler and what it schedules, for any agents, cadences, ages and *)
(* bounds.                                                                 *)
(***************************************************************************)
EXTENDS PlanCycles, FiniteSetTheorems, WellFoundedInduction, TLAPS

-----------------------------------------------------------------------------
(* The invariant.                                                           *)

\* The rows of the tables that the type invariant leaves open.
Rows ==
    /\ DOMAIN worker = Workers
    /\ \A w \in Workers :
          /\ DOMAIN worker[w] = {"pc", "cycle", "request", "reply", "leased", "locked"}
          /\ worker[w].leased \in BOOLEAN
    /\ \A j \in DOMAIN job : DOMAIN job[j] = {"state", "attempts", "payload"}
    /\ quotes \in [Symbols -> SUBSET Int]
    /\ schedule \in [Agents -> [due : Int, run : Time \cup {Never}]]
    /\ \A a \in Agents : schedule[a].run <= now

\* A job is of an elected cycle, a run of one whose research is on record.
JobsOfCycles ==
    /\ \A j \in DOMAIN job : /\ j[3] \in DOMAIN asOf
                             /\ j[1] = "run" => j[3] \in DOMAIN artifacts
    /\ \A r \in DOMAIN runs : r[2] \in DOMAIN artifacts

\* A worker is busy with an elected cycle, asks about what was frozen for it,
\* and shares its lease with nobody.
WorkersHoldCycles ==
    /\ \A w \in Workers :
          /\ worker[w].pc # "idle" => worker[w].cycle \in DOMAIN asOf
          /\ worker[w].pc \in {"call", "save"} => worker[w].cycle \in DOMAIN inputs
          /\ worker[w].leased => /\ Research(worker[w].cycle) \in DOMAIN job
                                 /\ job[Research(worker[w].cycle)].state = "leased"
    /\ \A v, w \in Workers :
          worker[v].leased /\ worker[w].leased /\ worker[v].cycle = worker[w].cycle => v = w

\* A cycle's instant has passed; what is frozen for it was young by then.
FrozenIsYoung ==
    /\ \A c \in DOMAIN asOf : asOf[c] <= now
    /\ \A c \in DOMAIN inputs :
          /\ inputs[c] \in [Symbols -> Int]
          /\ \A s \in Symbols : inputs[c][s] > asOf[c] - ResearchAge
    /\ \A c \in DOMAIN artifacts : artifacts[c].request.quotes = inputs[c]

\* What is counted is finite.
Backlog == IsFiniteSet(DOMAIN job)

IInv ==
    /\ TypeOK /\ Rows /\ JobsOfCycles /\ WorkersHoldCycles /\ FrozenIsYoung
    /\ FanOutSharesArtifact /\ DecisionDataIsFresh /\ Backlog

USE PlanAssumption

LEMMA Constants ==
    /\ MaxOutstanding \in Nat \ {0} /\ BatchSize \in Nat \ {0}
    /\ ResearchAge \in Nat \ {0} /\ CycleAge \in Nat \ {0}
    /\ UserQuoteAge \in Nat /\ Delay \in Nat /\ QuoteWindow \in Nat /\ Skew \in Nat
    /\ ReplyWindow \in Nat /\ MaxTime \in Nat /\ MaxCatalogs \in Nat
    /\ MaxChanges \in Nat /\ MaxFaults \in Nat
    /\ IsFiniteSet(Agents) /\ Agents \subseteq Nat \ {0}
    /\ Time = 0 .. MaxTime /\ Never = -1
    /\ \A kind \in {"refresh", "research", "quote", "run", "order"} : MaxAttempts[kind] \in Nat \ {0}
    /\ \A a \in Agents : Frequency[a] \in Nat \ {0} /\ Watches[a] \in Symbols
  BY DEF Time, Never

-----------------------------------------------------------------------------
(* Sets and tables.                                                         *)

\* Something of a finite set has the greatest value.
LEMMA GreatestOf ==
    ASSUME NEW S, IsFiniteSet(S), S # {}, NEW f \in [S -> Int]
    PROVE  \E x \in S : \A y \in S : f[y] <= f[x]
<1> DEFINE above(x) == {y \in S : f[y] > f[x]}
           T == {above(x) : x \in S}
<1>1. IsWellFoundedOn(StrictSubsetOrdering(S), SUBSET S)
  <2>1. FiniteSubsetsOf(S) = SUBSET S
    BY FS_FiniteSubsetsOfFinite
  <2>2. IsWellFoundedOn(StrictSubsetOrdering(S), FiniteSubsetsOf(S))
    BY FS_StrictSubsetOrderingWellFounded
  <2> QED
    BY <2>1, <2>2
<1>2. T \subseteq SUBSET S /\ T # {}
  <2>1. \A x : above(x) \in SUBSET S
    OBVIOUS
  <2>2. PICK z \in S : TRUE
    OBVIOUS
  <2>3. above(z) \in T
    BY <2>2
  <2> HIDE DEF above
  <2> QED
    BY <2>1, <2>3
<1>3. PICK m \in T : \A t \in T : ~(<<t, m>> \in StrictSubsetOrdering(S))
  BY <1>1, <1>2, WFMin
<1>4. PICK x \in S : m = above(x)
  BY <1>3
<1>5. ASSUME NEW y \in S, f[y] > f[x] PROVE FALSE
  <2>1. above(y) \subseteq above(x) /\ y \in above(x) /\ y \notin above(y)
    BY <1>5
  <2>2. <<above(y), above(x)>> \in StrictSubsetOrdering(S)
    BY <2>1 DEF StrictSubsetOrdering
  <2> QED
    BY <2>2, <1>3, <1>4
<1> QED
  BY <1>5

\* The greatest and the least of a bounded set of integers are in it.
LEMMA GreatestIsIn ==
    ASSUME NEW a \in Int, NEW b \in Int, NEW S \in SUBSET (a .. b), S # {}
    PROVE  Greatest(S) \in S
<1>1. IsFiniteSet(S)
  BY FS_Interval, FS_Subset
<1>2. \E f \in [S -> Int] : \A x \in S : f[x] = x
  <2> WITNESS [x \in S |-> x] \in [S -> Int]
  <2> QED
    OBVIOUS
<1>3. \E x \in S : \A y \in S : y <= x
  <2>1. PICK f \in [S -> Int] : \A x \in S : f[x] = x
    BY <1>2
  <2>2. \E x \in S : \A y \in S : f[y] <= f[x]
    BY <1>1, GreatestOf
  <2> QED
    BY <2>1, <2>2
<1> QED
  BY <1>3 DEF Greatest

LEMMA LeastIsIn ==
    ASSUME NEW S, NEW f \in [S -> Int], IsFiniteSet(S), S # {}
    PROVE  Least({f[a] : a \in S}) \in {f[a] : a \in S}
<1>1. \E g \in [S -> Int] : \A x \in S : g[x] = -f[x]
  <2> WITNESS [x \in S |-> -f[x]] \in [S -> Int]
  <2> QED
    OBVIOUS
<1>2. \E x \in S : \A y \in S : -f[y] <= -f[x]
  <2>1. PICK g \in [S -> Int] : \A x \in S : g[x] = -f[x]
    BY <1>1
  <2>2. \E x \in S : \A y \in S : g[y] <= g[x]
    BY GreatestOf
  <2> QED
    BY <2>1, <2>2
<1>3. \E x \in {f[a] : a \in S} : \A y \in {f[a] : a \in S} : x <= y
  BY <1>2
<1> QED
  BY <1>3 DEF Least

\* A table that only gains rows.
Gains(before, after) ==
    DOMAIN before \subseteq DOMAIN after /\ \A k \in DOMAIN before : after[k] = before[k]

LEMMA InsertGains ==
    ASSUME NEW table, NEW rows
    PROVE  /\ Gains(table, InsertInto(table, rows))
           /\ DOMAIN InsertInto(table, rows) = DOMAIN table \cup DOMAIN rows
           /\ \A k \in DOMAIN rows \ DOMAIN table : InsertInto(table, rows)[k] = rows[k]
  BY DEF Gains, InsertInto

LEMMA InsertRow ==
    ASSUME NEW table, NEW key, NEW value
    PROVE  /\ Gains(table, InsertInto(table, Row(key, value)))
           /\ DOMAIN InsertInto(table, Row(key, value)) = DOMAIN table \cup {key}
           /\ key \notin DOMAIN table => InsertInto(table, Row(key, value))[key] = value
  BY DEF Gains, InsertInto, Row

LEMMA ImageIsFinite ==
    ASSUME NEW S, IsFiniteSet(S), NEW f, DOMAIN f = S
    PROVE  IsFiniteSet({f[x] : x \in S})
<1>1. [x \in S |-> f[x]] \in Surjection(S, {f[x] : x \in S})
  BY DEF Surjection
<1> QED
  BY <1>1, FS_Surjection

LEMMA JobFacts ==
    /\ \A j \in Jobs : /\ j[1] \in {"refresh", "research", "quote", "run", "order"} /\ j[3] \in Cycles
                       /\ j[2] \in Nat /\ (j[1] \in {"quote", "run", "order"} => j[2] \in Agents)
                       /\ (j[1] \in {"refresh", "research"} => j[2] = 0)
                       /\ j = <<j[1], j[2], j[3]>>
    /\ \A c \in Cycles : Refresh(c) \in Jobs /\ Research(c) \in Jobs
    /\ \A a \in Agents, c \in Cycles :
          Quote(a, c) \in Jobs /\ Run(a, c) \in Jobs /\ Order(a, c) \in Jobs
<1>1. ASSUME NEW j \in Jobs
      PROVE  /\ j[1] \in {"refresh", "research", "quote", "run", "order"} /\ j[3] \in Cycles
             /\ j[2] \in Nat /\ (j[1] \in {"quote", "run", "order"} => j[2] \in Agents)
             /\ (j[1] \in {"refresh", "research"} => j[2] = 0)
             /\ j = <<j[1], j[2], j[3]>>
  <2>1. CASE j \in {"refresh", "research"} \X {0} \X Cycles
    BY <2>1
  <2>2. CASE j \in {"quote", "run", "order"} \X Agents \X Cycles
    <3>1. j[1] \in {"quote", "run", "order"} /\ j[2] \in Agents /\ j[3] \in Cycles /\ j = <<j[1], j[2], j[3]>>
      BY <2>2
    <3>2. j[2] \in Nat
      BY <3>1, Constants
    <3> QED
      BY <3>1, <3>2
  <2> QED
    BY <2>1, <2>2 DEF Jobs
<1>2. \A c \in Cycles : Refresh(c) \in Jobs /\ Research(c) \in Jobs
  BY DEF Jobs, Refresh, Research
<1>3. \A a \in Agents, c \in Cycles :
          Quote(a, c) \in Jobs /\ Run(a, c) \in Jobs /\ Order(a, c) \in Jobs
  BY DEF Jobs, Quote, Run, Order
<1> QED
  BY <1>1, <1>2, <1>3

-----------------------------------------------------------------------------
(* What a step does to one job.                                             *)

\* The row of one job is written: its payload stays.
Writes(j, states) ==
    /\ j \in DOMAIN job /\ DOMAIN job' = DOMAIN job
    /\ \A k \in DOMAIN job \ {j} : job'[k] = job[k]
    /\ DOMAIN job'[j] = {"state", "attempts", "payload"}
    /\ job'[j].payload = job[j].payload
    /\ job'[j].state \in states
    /\ job'[j].attempts \in 0 .. MaxAttempts[j[1]]

LEMMA WriteEffects ==
    ASSUME TypeOK, Rows, NEW j \in DOMAIN job
    PROVE  /\ job' = Closed(j) => Writes(j, {"closed"})
           /\ job' = Retried(j) => Writes(j, {"closed", "queued"})
           /\ job' = [job EXCEPT ![j].state = "queued"] => Writes(j, {"queued"})
           /\ job' = [job EXCEPT ![j].state = "leased"] => Writes(j, {"leased"})
<1>1. /\ DOMAIN job[j] = {"state", "attempts", "payload"} /\ j[1] \in {"refresh", "research", "quote", "run", "order"}
      /\ job[j].attempts \in 0 .. MaxAttempts[j[1]] /\ MaxAttempts[j[1]] \in Nat \ {0}
  BY JobFacts, Constants DEF TypeOK, Rows
<1>2. job' = Closed(j) => Writes(j, {"closed"})
  BY <1>1 DEF Closed, Writes
<1>3. job' = [job EXCEPT ![j].attempts = @ + 1, ![j].state = "queued"]
        /\ ~(job[j].attempts + 1 >= MaxAttempts[j[1]]) => Writes(j, {"queued"})
  <2> SUFFICES ASSUME job' = [job EXCEPT ![j].attempts = @ + 1, ![j].state = "queued"],
                      ~(job[j].attempts + 1 >= MaxAttempts[j[1]])
               PROVE  Writes(j, {"queued"})
    OBVIOUS
  <2>1. job' = [job EXCEPT ![j] = [job[j] EXCEPT !.attempts = @ + 1, !.state = "queued"]]
    BY <1>1
  <2>2. DOMAIN job' = DOMAIN job /\ \A k \in DOMAIN job \ {j} : job'[k] = job[k]
    BY <2>1
  <2>3. job'[j] = [job[j] EXCEPT !.attempts = @ + 1, !.state = "queued"]
    BY <2>1
  <2>4. /\ DOMAIN job'[j] = {"state", "attempts", "payload"} /\ job'[j].payload = job[j].payload
        /\ job'[j].state = "queued" /\ job'[j].attempts = job[j].attempts + 1
    BY <2>3, <1>1
  <2>5. job'[j].attempts \in 0 .. MaxAttempts[j[1]]
    BY <2>4, <1>1
  <2> QED
    BY <2>2, <2>4, <2>5 DEF Writes
<1>4. job' = Retried(j) => Writes(j, {"closed", "queued"})
  BY <1>2, <1>3 DEF Retried, Writes
<1>5. job' = [job EXCEPT ![j].state = "queued"] => Writes(j, {"queued"})
  BY <1>1 DEF Writes
<1>6. job' = [job EXCEPT ![j].state = "leased"] => Writes(j, {"leased"})
  BY <1>1 DEF Writes
<1> QED
  BY <1>2, <1>4, <1>5, <1>6

\* A live job that is written leaves the keys as they are, and every job of the
\* kind it was.
JobsTyped ==
    /\ DOMAIN job \subseteq Jobs
    /\ \A j \in DOMAIN job : /\ DOMAIN job[j] = {"state", "attempts", "payload"}
                             /\ job[j].state \in {"queued", "leased", "closed"}
                             /\ job[j].attempts \in 0 .. MaxAttempts[j[1]]

LEMMA WriteKeepsJobs ==
    ASSUME IInv, NEW j, job[j].state \in {"queued", "leased"},
           Writes(j, {"closed", "queued", "leased"}), UNCHANGED artifacts
    PROVE  /\ JobsTyped' /\ Backlog'
           /\ UNCHANGED <<asOf, runs>> => JobsOfCycles'
           /\ UNCHANGED runs => FanOutSharesArtifact'
<1> USE DEF IInv
<1>1. JobsTyped'
  BY DEF JobsTyped, TypeOK, Rows, Writes
<1>2. Backlog'
  BY DEF Writes, Backlog
<1>3. UNCHANGED <<asOf, runs>> => JobsOfCycles'
  BY DEF JobsOfCycles, Writes
<1>4. \A k \in DOMAIN job' : job'[k].payload = job[k].payload
  BY DEF Writes
<1>5. UNCHANGED runs => FanOutSharesArtifact'
  BY <1>4 DEF FanOutSharesArtifact, Writes
<1> QED
  BY <1>1, <1>2, <1>3, <1>5

\* No worker holds a job that is queued.
LEMMA WriteKeepsWorkers ==
    ASSUME IInv, NEW j, NEW states, job[j].state = "queued", Writes(j, states),
           UNCHANGED <<worker, asOf, inputs>>
    PROVE  WorkersHoldCycles'
<1>1. ASSUME NEW w \in Workers, worker[w].leased
      PROVE  /\ Research(worker[w].cycle) \in DOMAIN job'
             /\ job'[Research(worker[w].cycle)].state = "leased"
  BY <1>1 DEF IInv, WorkersHoldCycles, Writes
<1> QED
  BY <1>1 DEF IInv, WorkersHoldCycles

-----------------------------------------------------------------------------
(* The steps.                                                               *)

LEMMA InitIInv == Init => IInv
<1> SUFFICES ASSUME Init PROVE IInv
  OBVIOUS
<1>1. DOMAIN job = {} /\ DOMAIN asOf = {} /\ DOMAIN inputs = {} /\ DOMAIN artifacts = {} /\ DOMAIN runs = {}
  BY DEF Init
<1>2. TypeOK
  BY <1>1, Constants DEF Init, TypeOK
<1>3. Rows
  <2>1. now \in Nat /\ \A a \in Agents : schedule[a] = [due |-> Never, run |-> Never]
    BY Constants DEF Init
  <2>2. ASSUME NEW a \in Agents PROVE schedule[a].run <= now
    <3>1. schedule[a].run = -1
      BY <2>1, Constants
    <3> QED
      BY <2>1, <3>1
  <2>3. schedule \in [Agents -> [due : Int, run : Time \cup {Never}]]
    BY Constants DEF Init
  <2>4. ASSUME NEW w \in Workers
        PROVE  /\ DOMAIN worker[w] = {"pc", "cycle", "request", "reply", "leased", "locked"}
               /\ worker[w].leased \in BOOLEAN
    BY DEF Init, Idle
  <2>5. DOMAIN worker = Workers /\ quotes \in [Symbols -> SUBSET Int]
    BY DEF Init
  <2> QED
    BY <1>1, <2>2, <2>3, <2>4, <2>5 DEF Rows
<1>4. JobsOfCycles /\ FrozenIsYoung /\ FanOutSharesArtifact /\ DecisionDataIsFresh
  BY <1>1 DEF JobsOfCycles, FrozenIsYoung, FanOutSharesArtifact, DecisionDataIsFresh
<1>5. WorkersHoldCycles
  BY DEF Init, WorkersHoldCycles, Idle
<1>6. Backlog
  BY <1>1, FS_EmptySet DEF Backlog
<1> QED
  BY <1>2, <1>3, <1>4, <1>5, <1>6 DEF IInv

LEMMA RefreshQuotesKeeps ==
    ASSUME IInv, NEW j \in DOMAIN job, RefreshQuotes(j)
    PROVE  IInv'
<1>1. Writes(j, {"closed", "queued"}) /\ job[j].state = "queued"
  <2>1. job' = Closed(j) \/ job' = Retried(j)
    BY DEF RefreshQuotes
  <2>2. Writes(j, {"closed"}) \/ Writes(j, {"closed", "queued"})
    BY <2>1, WriteEffects DEF IInv
  <2> QED
    BY <2>2 DEF Writes, RefreshQuotes
<1>2. Writes(j, {"closed", "queued", "leased"})
  BY <1>1 DEF Writes
<1>3. UNCHANGED <<now, catalog, since, asOf, inputs, artifacts, schedule, runs, worker, changes, faults>>
  BY DEF RefreshQuotes
<1>4. JobsTyped' /\ Backlog' /\ JobsOfCycles' /\ FanOutSharesArtifact'
  BY <1>1, <1>2, <1>3, WriteKeepsJobs
<1>5. WorkersHoldCycles'
  BY <1>1, <1>3, WriteKeepsWorkers
<1>6. quotes' \in [Symbols -> SUBSET Int]
  <2>1. Stamps \subseteq Int
    BY Constants DEF Stamps, IInv, TypeOK
  <2> QED
    BY <2>1 DEF RefreshQuotes, IInv, Rows
<1>7. TypeOK'
  BY <1>3, <1>4 DEF JobsTyped, IInv, TypeOK
<1>8. Rows'
  BY <1>3, <1>4, <1>6 DEF JobsTyped, IInv, Rows
<1>9. FrozenIsYoung' /\ DecisionDataIsFresh'
  BY <1>3 DEF IInv, FrozenIsYoung, DecisionDataIsFresh
<1> QED
  BY <1>4, <1>5, <1>7, <1>8, <1>9 DEF IInv

LEMMA ReconfigureKeeps ==
    ASSUME IInv, NEW a \in Agents, Reconfigure(a)
    PROVE  IInv'
<1> USE DEF IInv, Reconfigure
<1>1. TypeOK'
  BY Constants DEF TypeOK
<1>2. Rows' /\ JobsOfCycles' /\ FrozenIsYoung' /\ FanOutSharesArtifact' /\ DecisionDataIsFresh'
  BY DEF Rows, JobsOfCycles, FrozenIsYoung, FanOutSharesArtifact, DecisionDataIsFresh
<1>3. WorkersHoldCycles' /\ Backlog'
  BY DEF WorkersHoldCycles, Backlog
<1> QED
  BY <1>1, <1>2, <1>3

LEMMA PublishKeeps == ASSUME IInv, Publish PROVE IInv'
<1> USE DEF IInv, Publish
<1>1. TypeOK'
  BY Constants DEF TypeOK
<1>2. Rows' /\ JobsOfCycles' /\ FrozenIsYoung' /\ FanOutSharesArtifact' /\ DecisionDataIsFresh'
  BY DEF Rows, JobsOfCycles, FrozenIsYoung, FanOutSharesArtifact, DecisionDataIsFresh
<1>3. WorkersHoldCycles' /\ Backlog'
  BY DEF WorkersHoldCycles, Backlog
<1> QED
  BY <1>1, <1>2, <1>3

LEMMA AdvanceKeeps == ASSUME IInv, Advance PROVE IInv'
<1> USE DEF IInv, Advance
<1>1. now \in Nat /\ now' = now + 1 /\ now' \in Time
  BY Constants DEF TypeOK
<1>2. TypeOK'
  BY <1>1 DEF TypeOK
<1>3. Rows'
  <2>1. quotes' \in [Symbols -> SUBSET Int]
    BY DEF Rows
  <2>2. \A a \in Agents : schedule[a].run <= now /\ schedule[a].run \in Int
    BY Constants DEF Rows
  <2> QED
    BY <1>1, <2>1, <2>2 DEF Rows
<1>4. FrozenIsYoung'
  <2>1. \A c \in DOMAIN asOf : asOf[c] \in Int
    BY Constants DEF TypeOK
  <2> QED
    BY <1>1, <2>1 DEF FrozenIsYoung
<1>5. JobsOfCycles' /\ FanOutSharesArtifact' /\ DecisionDataIsFresh'
  BY DEF JobsOfCycles, FanOutSharesArtifact, DecisionDataIsFresh
<1>6. WorkersHoldCycles' /\ Backlog'
  BY DEF WorkersHoldCycles, Backlog
<1> QED
  BY <1>2, <1>3, <1>4, <1>5, <1>6

\* What a step does to one worker, and what the others need of it.
LEMMA WorkerChange ==
    ASSUME IInv, NEW w \in Workers,
           DOMAIN worker' = Workers, \A v \in Workers \ {w} : worker'[v] = worker[v],
           DOMAIN worker'[w] = {"pc", "cycle", "request", "reply", "leased", "locked"},
           worker'[w].leased \in BOOLEAN,
           DOMAIN asOf \subseteq DOMAIN asOf', DOMAIN inputs \subseteq DOMAIN inputs',
           worker'[w].pc # "idle" => worker'[w].cycle \in DOMAIN asOf',
           worker'[w].pc \in {"call", "save"} => worker'[w].cycle \in DOMAIN inputs',
           worker'[w].leased => /\ Research(worker'[w].cycle) \in DOMAIN job'
                                /\ job'[Research(worker'[w].cycle)].state = "leased",
           \A v \in Workers \ {w} : worker[v].leased =>
               /\ Research(worker[v].cycle) \in DOMAIN job'
               /\ job'[Research(worker[v].cycle)].state = "leased"
               /\ worker'[w].leased => worker'[w].cycle # worker[v].cycle
    PROVE  /\ WorkersHoldCycles'
           /\ JobsTyped' /\ UNCHANGED <<now, quotes, schedule>> => Rows'
<1> DEFINE Row1(v) == /\ DOMAIN worker'[v] = {"pc", "cycle", "request", "reply", "leased", "locked"}
                      /\ worker'[v].leased \in BOOLEAN
           Holds(v) == /\ worker'[v].pc # "idle" => worker'[v].cycle \in DOMAIN asOf'
                       /\ worker'[v].pc \in {"call", "save"} => worker'[v].cycle \in DOMAIN inputs'
                       /\ worker'[v].leased => /\ Research(worker'[v].cycle) \in DOMAIN job'
                                               /\ job'[Research(worker'[v].cycle)].state = "leased"
<1>1. ASSUME NEW v \in Workers PROVE Row1(v) /\ Holds(v)
  <2>1. CASE v = w
    BY <2>1
  <2>2. CASE v # w
    <3>1. worker'[v] = worker[v] /\ v \in Workers \ {w}
      BY <2>2
    <3>2. Row1(v)
      BY <3>1 DEF IInv, Rows
    <3>3. Holds(v)
      BY <3>1 DEF IInv, WorkersHoldCycles
    <3> QED
      BY <3>2, <3>3
  <2> QED
    BY <2>1, <2>2
<1>2. ASSUME NEW u \in Workers, NEW v \in Workers,
             worker'[u].leased, worker'[v].leased, worker'[v].cycle = worker'[u].cycle
      PROVE  u = v
  <2>1. CASE u = w \/ v = w
    BY <1>2, <2>1
  <2>2. CASE u # w /\ v # w
    BY <1>2, <2>2 DEF IInv, WorkersHoldCycles
  <2> QED
    BY <2>1, <2>2
<1>3. WorkersHoldCycles'
  BY <1>1, <1>2 DEF WorkersHoldCycles
<1>4. JobsTyped' /\ UNCHANGED <<now, quotes, schedule>> => Rows'
  BY <1>1 DEF IInv, Rows, JobsTyped
<1> QED
  BY <1>3, <1>4

LEMMA TakeResearchKeeps ==
    ASSUME IInv, NEW w \in Workers, NEW c \in Cycles, TakeResearch(w, c)
    PROVE  IInv'
<1> DEFINE j == Research(c)
<1>1. /\ j \in DOMAIN job /\ job[j].state = "queued" /\ j[3] = c
      /\ UNCHANGED <<now, catalog, since, asOf, quotes, schedule, runs, changes, inputs, artifacts, faults>>
  BY DEF TakeResearch, ResearchFrame, Research
<1>2. \/ job' = Retried(j) /\ UNCHANGED worker
      \/ /\ job' = [job EXCEPT ![j].state = "leased"]
         /\ worker' = [worker EXCEPT ![w] = [Idle EXCEPT !.pc = "claim", !.cycle = c,
                                                         !.leased = TRUE, !.locked = TRUE]]
  BY DEF TakeResearch
<1> HIDE DEF j
<1>3. Writes(j, {"closed", "queued", "leased"}) /\ (job' = Retried(j) => Writes(j, {"closed", "queued"}))
  BY <1>1, <1>2, WriteEffects DEF IInv, Writes
<1>4. JobsTyped' /\ Backlog' /\ JobsOfCycles' /\ FanOutSharesArtifact'
  BY <1>1, <1>3, WriteKeepsJobs
<1>5. TypeOK'
  BY <1>1, <1>4 DEF JobsTyped, IInv, TypeOK
<1>6. FrozenIsYoung' /\ DecisionDataIsFresh'
  BY <1>1 DEF IInv, FrozenIsYoung, DecisionDataIsFresh
<1>7. CASE job' = Retried(j) /\ UNCHANGED worker
  <2>1. WorkersHoldCycles'
    BY <1>1, <1>3, <1>7, WriteKeepsWorkers
  <2>2. Rows'
    BY <1>1, <1>4, <1>7 DEF JobsTyped, IInv, Rows
  <2> QED
    BY <1>4, <1>5, <1>6, <2>1, <2>2 DEF IInv
<1>8. CASE /\ job' = [job EXCEPT ![j].state = "leased"]
           /\ worker' = [worker EXCEPT ![w] = [Idle EXCEPT !.pc = "claim", !.cycle = c,
                                                           !.leased = TRUE, !.locked = TRUE]]
  <2>1. /\ DOMAIN worker' = Workers /\ \A v \in Workers \ {w} : worker'[v] = worker[v]
        /\ worker'[w] = [Idle EXCEPT !.pc = "claim", !.cycle = c, !.leased = TRUE, !.locked = TRUE]
    BY <1>8 DEF IInv, Rows
  <2>2. /\ DOMAIN worker'[w] = {"pc", "cycle", "request", "reply", "leased", "locked"}
        /\ worker'[w].pc = "claim" /\ worker'[w].cycle = c /\ worker'[w].leased = TRUE
    BY <2>1 DEF Idle
  <2>3. Writes(j, {"leased"})
    BY <1>1, <1>8, WriteEffects DEF IInv
  <2>4. ASSUME NEW v \in Workers \ {w}, worker[v].leased
        PROVE  /\ Research(worker[v].cycle) \in DOMAIN job'
               /\ job'[Research(worker[v].cycle)].state = "leased"
               /\ worker[v].cycle # c
    BY <2>3, <2>4, <1>1 DEF IInv, WorkersHoldCycles, Writes, j
  <2>5. Research(c) \in DOMAIN job' /\ job'[Research(c)].state = "leased" /\ c \in DOMAIN asOf
    BY <2>3, <1>1 DEF Writes, IInv, JobsOfCycles, j
  <2>6. WorkersHoldCycles' /\ (JobsTyped' /\ UNCHANGED <<now, quotes, schedule>> => Rows')
    <3>1. /\ worker'[w].leased \in BOOLEAN /\ worker'[w].leased
          /\ worker'[w].pc \notin {"call", "save"}
          /\ worker'[w].cycle \in DOMAIN asOf'
          /\ DOMAIN asOf \subseteq DOMAIN asOf' /\ DOMAIN inputs \subseteq DOMAIN inputs'
          /\ Research(worker'[w].cycle) \in DOMAIN job'
          /\ job'[Research(worker'[w].cycle)].state = "leased"
      BY <1>1, <2>2, <2>5
    <3>2. \A v \in Workers \ {w} : worker[v].leased =>
               /\ Research(worker[v].cycle) \in DOMAIN job'
               /\ job'[Research(worker[v].cycle)].state = "leased"
               /\ worker'[w].leased => worker'[w].cycle # worker[v].cycle
      BY <2>2, <2>4
    <3> QED
      BY <2>1, <2>2, <3>1, <3>2, WorkerChange
  <2> QED
    BY <1>1, <1>4, <1>5, <1>6, <2>6 DEF IInv
<1> QED
  BY <1>2, <1>7, <1>8

\* What one worker does to itself, with the queue as it is.
LEMMA WorkerStep ==
    ASSUME IInv, NEW w \in Workers,
           UNCHANGED <<now, quotes, schedule, asOf, job>>, DOMAIN inputs \subseteq DOMAIN inputs',
           DOMAIN worker' = Workers, \A v \in Workers \ {w} : worker'[v] = worker[v],
           DOMAIN worker'[w] = {"pc", "cycle", "request", "reply", "leased", "locked"},
           worker[w].pc # "idle", worker'[w].cycle = worker[w].cycle,
           worker'[w].leased = worker[w].leased,
           worker'[w].pc \in {"call", "save"} => worker[w].cycle \in DOMAIN inputs'
    PROVE  WorkersHoldCycles' /\ Rows'
<1>1. JobsTyped'
  BY DEF IInv, TypeOK, Rows, JobsTyped
<1>2. worker[w].leased \in BOOLEAN /\ worker[w].cycle \in DOMAIN asOf
  BY DEF IInv, Rows, WorkersHoldCycles
<1>3. \A v \in Workers : worker[v].leased =>
          /\ Research(worker[v].cycle) \in DOMAIN job /\ job[Research(worker[v].cycle)].state = "leased"
          /\ v # w /\ worker[w].leased => worker[w].cycle # worker[v].cycle
  BY DEF IInv, WorkersHoldCycles
<1> QED
  BY <1>1, <1>2, <1>3, WorkerChange

LEMMA CallHermesKeeps ==
    ASSUME IInv, NEW w \in Workers, CallHermes(w)
    PROVE  IInv'
<1>1. UNCHANGED <<now, catalog, since, asOf, quotes, schedule, runs, changes, inputs, artifacts, job, faults>>
  BY DEF CallHermes, ResearchFrame
<1>2. PICK pc \in {"save", "fail"} :
        \E reply : worker' = [worker EXCEPT ![w].pc = pc, ![w].reply = reply]
  BY DEF CallHermes
<1>3. /\ DOMAIN worker' = Workers /\ \A v \in Workers \ {w} : worker'[v] = worker[v]
      /\ DOMAIN worker'[w] = {"pc", "cycle", "request", "reply", "leased", "locked"}
      /\ worker'[w].cycle = worker[w].cycle /\ worker'[w].leased = worker[w].leased
  <2>1. DOMAIN worker = Workers /\ DOMAIN worker[w] = {"pc", "cycle", "request", "reply", "leased", "locked"}
    BY DEF IInv, Rows
  <2>2. PICK reply : worker' = [worker EXCEPT ![w].pc = pc, ![w].reply = reply]
    BY <1>2
  <2>3. worker' = [worker EXCEPT ![w] = [worker[w] EXCEPT !.pc = pc, !.reply = reply]]
    BY <2>1, <2>2
  <2>4. worker'[w] = [worker[w] EXCEPT !.pc = pc, !.reply = reply]
    BY <2>1, <2>3
  <2> QED
    BY <2>1, <2>3, <2>4
<1>4. worker[w].pc = "call" /\ worker[w].cycle \in DOMAIN inputs'
  BY <1>1 DEF CallHermes, IInv, WorkersHoldCycles
<1>5. WorkersHoldCycles' /\ Rows'
  BY <1>1, <1>3, <1>4, WorkerStep
<1>6. TypeOK'
  BY <1>1 DEF IInv, TypeOK
<1>7. JobsOfCycles' /\ FrozenIsYoung' /\ FanOutSharesArtifact' /\ DecisionDataIsFresh'
  BY <1>1 DEF IInv, JobsOfCycles, FrozenIsYoung, FanOutSharesArtifact, DecisionDataIsFresh
<1>8. Backlog'
  BY <1>1 DEF IInv, Backlog
<1> QED
  BY <1>5, <1>6, <1>7, <1>8 DEF IInv

\* What one worker moves on to.
LEMMA StepEffects ==
    ASSUME IInv, NEW w \in Workers, NEW pc, Step(w, pc)
    PROVE  /\ DOMAIN worker' = Workers /\ \A v \in Workers \ {w} : worker'[v] = worker[v]
           /\ DOMAIN worker'[w] = {"pc", "cycle", "request", "reply", "leased", "locked"}
           /\ worker'[w].cycle = worker[w].cycle /\ worker'[w].leased = worker[w].leased
           /\ worker'[w].pc = pc
<1>1. DOMAIN worker = Workers /\ DOMAIN worker[w] = {"pc", "cycle", "request", "reply", "leased", "locked"}
  BY DEF IInv, Rows
<1>2. worker' = [worker EXCEPT ![w] = [worker[w] EXCEPT !.pc = pc]]
  BY <1>1 DEF Step
<1>3. worker'[w] = [worker[w] EXCEPT !.pc = pc]
  BY <1>1, <1>2
<1> QED
  BY <1>1, <1>2, <1>3

\* What is frozen for a cycle was young by its instant.
LEMMA FrozenIsOfItsAge ==
    ASSUME IInv, NEW c \in DOMAIN asOf, \A s \in Symbols : Usable(s, c) # {}
    PROVE  /\ Frozen(c) \in [Symbols -> Int]
           /\ \A s \in Symbols : Frozen(c)[s] > asOf[c] - ResearchAge
<1>1. asOf[c] \in Nat /\ now \in Nat /\ asOf[c] <= now
  BY Constants DEF IInv, TypeOK, FrozenIsYoung
<1>2. ASSUME NEW s \in Symbols
      PROVE  Greatest(Usable(s, c)) \in Int /\ Greatest(Usable(s, c)) > asOf[c] - ResearchAge
  <2>1. quotes[s] \in SUBSET Int
    BY DEF IInv, Rows
  <2>2. Usable(s, c) \in SUBSET ((now - ResearchAge) .. (asOf[c] + Skew))
    BY <1>1, <2>1, Constants DEF Usable
  <2>3. Greatest(Usable(s, c)) \in Usable(s, c)
    <3>1. now - ResearchAge \in Int /\ asOf[c] + Skew \in Int
      BY <1>1, Constants
    <3> QED
      BY <2>2, <3>1, GreatestIsIn
  <2> QED
    BY <1>1, <2>1, <2>3, Constants DEF Usable
<1> QED
  BY <1>2 DEF Frozen

LEMMA ClaimContextKeeps ==
    ASSUME IInv, NEW w \in Workers, ClaimContext(w)
    PROVE  IInv'
<1> DEFINE c == worker[w].cycle
<1>1. /\ UNCHANGED <<now, catalog, since, asOf, quotes, schedule, runs, changes, artifacts, job, faults>>
      /\ worker[w].pc = "claim" /\ c \in DOMAIN asOf
  BY DEF ClaimContext, ResearchFrame, IInv, WorkersHoldCycles
<1>2. \/ /\ \/ Step(w, "complete") \/ Step(w, "fail")
         /\ UNCHANGED inputs
      \/ /\ c \in DOMAIN inputs \/ \A s \in Symbols : Usable(s, c) # {}
         /\ inputs' = IF c \in DOMAIN inputs THEN inputs ELSE InsertInto(inputs, Row(c, Frozen(c)))
         /\ worker' = [worker EXCEPT ![w].pc = "call",
                     ![w].request = [cycle |-> c, asOf |-> asOf[c], quotes |-> inputs'[c]]]
  BY DEF ClaimContext
<1> HIDE DEF c
<1>3. CASE (Step(w, "complete") \/ Step(w, "fail")) /\ UNCHANGED inputs
  <2>1. PICK pc \in {"complete", "fail"} : Step(w, pc)
    BY <1>3
  <2>2. /\ DOMAIN worker' = Workers /\ \A v \in Workers \ {w} : worker'[v] = worker[v]
        /\ DOMAIN worker'[w] = {"pc", "cycle", "request", "reply", "leased", "locked"}
        /\ worker'[w].cycle = worker[w].cycle /\ worker'[w].leased = worker[w].leased
        /\ worker'[w].pc = pc
    BY <2>1, StepEffects
  <2>3. WorkersHoldCycles' /\ Rows'
    BY <1>1, <1>3, <2>2, WorkerStep
  <2>4. TypeOK' /\ JobsOfCycles' /\ FrozenIsYoung' /\ FanOutSharesArtifact' /\ DecisionDataIsFresh'
    BY <1>1, <1>3 DEF IInv, TypeOK, JobsOfCycles, FrozenIsYoung, FanOutSharesArtifact, DecisionDataIsFresh
  <2>5. Backlog'
    BY <1>1 DEF IInv, Backlog
  <2> QED
    BY <2>3, <2>4, <2>5 DEF IInv
<1>4. CASE /\ c \in DOMAIN inputs \/ \A s \in Symbols : Usable(s, c) # {}
           /\ inputs' = IF c \in DOMAIN inputs THEN inputs ELSE InsertInto(inputs, Row(c, Frozen(c)))
           /\ worker' = [worker EXCEPT ![w].pc = "call",
                     ![w].request = [cycle |-> c, asOf |-> asOf[c], quotes |-> inputs'[c]]]
  <2> DEFINE request == [cycle |-> c, asOf |-> asOf[c], quotes |-> inputs'[c]]
  <2>1. /\ Gains(inputs, inputs') /\ DOMAIN inputs' = DOMAIN inputs \cup {c}
        /\ c \notin DOMAIN inputs => inputs'[c] = Frozen(c) /\ \A s \in Symbols : Usable(s, c) # {}
    <3>1. CASE c \in DOMAIN inputs
      BY <1>4, <3>1 DEF Gains
    <3>2. CASE c \notin DOMAIN inputs
      <4>1. inputs' = InsertInto(inputs, Row(c, Frozen(c)))
        BY <1>4, <3>2
      <4>2. /\ Gains(inputs, inputs') /\ DOMAIN inputs' = DOMAIN inputs \cup {c}
            /\ inputs'[c] = Frozen(c)
        BY <4>1, <3>2, InsertRow
      <4> QED
        BY <1>4, <3>2, <4>2
    <3> QED
      BY <3>1, <3>2
  <2>2. /\ DOMAIN worker' = Workers /\ \A v \in Workers \ {w} : worker'[v] = worker[v]
        /\ DOMAIN worker'[w] = {"pc", "cycle", "request", "reply", "leased", "locked"}
        /\ worker'[w].cycle = worker[w].cycle /\ worker'[w].leased = worker[w].leased
    <3> HIDE DEF request
    <3>1. DOMAIN worker = Workers /\ DOMAIN worker[w] = {"pc", "cycle", "request", "reply", "leased", "locked"}
      BY DEF IInv, Rows
    <3>2. worker' = [worker EXCEPT ![w] = [worker[w] EXCEPT !.pc = "call", !.request = request]]
      BY <1>4, <3>1 DEF request
    <3>3. worker'[w] = [worker[w] EXCEPT !.pc = "call", !.request = request]
      BY <3>1, <3>2
    <3> QED
      BY <3>1, <3>2, <3>3
  <2>3. WorkersHoldCycles' /\ Rows'
    <3>1. DOMAIN inputs \subseteq DOMAIN inputs' /\ worker[w].cycle \in DOMAIN inputs' /\ worker[w].pc # "idle"
      BY <1>1, <2>1 DEF c
    <3> QED
      BY <1>1, <2>2, <3>1, WorkerStep
  <2>4. TypeOK'
    <3>1. DOMAIN artifacts' \subseteq DOMAIN inputs' /\ DOMAIN inputs' \subseteq DOMAIN asOf'
      BY <1>1, <2>1 DEF IInv, TypeOK
    <3> QED
      BY <1>1, <3>1 DEF IInv, TypeOK
  <2>5. FrozenIsYoung'
    <3>1. ASSUME NEW d \in DOMAIN inputs'
          PROVE  /\ inputs'[d] \in [Symbols -> Int]
                 /\ \A s \in Symbols : inputs'[d][s] > asOf[d] - ResearchAge
      <4>1. CASE d \in DOMAIN inputs
        <5>1. inputs'[d] = inputs[d]
          BY <2>1, <4>1 DEF Gains
        <5> QED
          BY <4>1, <5>1 DEF IInv, FrozenIsYoung
      <4>2. CASE d \notin DOMAIN inputs
        <5>1. d = c /\ inputs'[d] = Frozen(d) /\ d \in DOMAIN asOf
          BY <1>1, <2>1, <3>1, <4>2
        <5>2. \A s \in Symbols : Usable(s, d) # {}
          BY <2>1, <4>2, <5>1
        <5>3. Frozen(d) \in [Symbols -> Int] /\ \A s \in Symbols : Frozen(d)[s] > asOf[d] - ResearchAge
          BY <5>1, <5>2, FrozenIsOfItsAge
        <5> QED
          BY <5>1, <5>3
      <4> QED
        BY <4>1, <4>2
    <3>2. \A d \in DOMAIN artifacts : inputs'[d] = inputs[d]
      BY <2>1 DEF IInv, TypeOK, Gains
    <3> QED
      BY <1>1, <3>1, <3>2 DEF IInv, FrozenIsYoung
  <2>6. JobsOfCycles' /\ FanOutSharesArtifact' /\ DecisionDataIsFresh'
    BY <1>1 DEF IInv, JobsOfCycles, FanOutSharesArtifact, DecisionDataIsFresh
  <2>7. Backlog'
    BY <1>1 DEF IInv, Backlog
  <2> QED
    BY <2>3, <2>4, <2>5, <2>6, <2>7 DEF IInv
<1> QED
  BY <1>2, <1>3, <1>4

LEMMA SaveArtifactKeeps ==
    ASSUME IInv, NEW w \in Workers, SaveArtifact(w)
    PROVE  IInv'
<1> DEFINE c == worker[w].cycle
           artifact == worker[w].reply
<1>1. /\ UNCHANGED <<now, catalog, since, asOf, quotes, schedule, runs, changes, inputs, job, faults>>
      /\ worker[w].pc = "save" /\ c \in DOMAIN asOf /\ c \in DOMAIN inputs
  BY DEF SaveArtifact, ResearchFrame, IInv, WorkersHoldCycles
<1>2. PICK pc \in {"complete", "fail"} : Step(w, pc)
  BY DEF SaveArtifact
<1>3. \/ UNCHANGED artifacts
      \/ artifacts' = Recorded(c, artifact) /\ artifact.request.quotes = inputs[c]
  BY DEF SaveArtifact
<1> HIDE DEF c, artifact
<1>4. /\ Gains(artifacts, artifacts') /\ DOMAIN artifacts' \subseteq DOMAIN artifacts \cup {c}
      /\ c \in DOMAIN artifacts' \ DOMAIN artifacts => artifacts'[c].request.quotes = inputs[c]
  <2>1. CASE UNCHANGED artifacts
    BY <2>1 DEF Gains
  <2>2. CASE artifacts' = Recorded(c, artifact) /\ artifact.request.quotes = inputs[c]
    <3>1. /\ Gains(artifacts, artifacts') /\ DOMAIN artifacts' = DOMAIN artifacts \cup {c}
          /\ c \notin DOMAIN artifacts => artifacts'[c] = artifact
      BY <2>2, InsertRow DEF Recorded
    <3> QED
      BY <2>2, <3>1
  <2> QED
    BY <1>3, <2>1, <2>2
<1>5. WorkersHoldCycles' /\ Rows'
  <2>1. /\ DOMAIN worker' = Workers /\ \A v \in Workers \ {w} : worker'[v] = worker[v]
        /\ DOMAIN worker'[w] = {"pc", "cycle", "request", "reply", "leased", "locked"}
        /\ worker'[w].cycle = worker[w].cycle /\ worker'[w].leased = worker[w].leased
        /\ worker'[w].pc = pc
    BY <1>2, StepEffects
  <2> QED
    BY <1>1, <2>1, WorkerStep
<1>6. TypeOK'
  <2>1. DOMAIN artifacts' \subseteq DOMAIN inputs'
    BY <1>1, <1>4 DEF IInv, TypeOK
  <2> QED
    BY <1>1, <2>1 DEF IInv, TypeOK
<1>7. FrozenIsYoung'
  <2>1. ASSUME NEW d \in DOMAIN artifacts' PROVE artifacts'[d].request.quotes = inputs[d]
    BY <1>4, <2>1 DEF IInv, FrozenIsYoung, Gains
  <2> QED
    BY <1>1, <2>1 DEF IInv, FrozenIsYoung
<1>8. JobsOfCycles' /\ FanOutSharesArtifact' /\ DecisionDataIsFresh'
  BY <1>1, <1>4 DEF IInv, JobsOfCycles, FanOutSharesArtifact, DecisionDataIsFresh, Gains
<1>9. Backlog'
  BY <1>1 DEF IInv, Backlog
<1> QED
  BY <1>5, <1>6, <1>7, <1>8, <1>9 DEF IInv

\* A worker that gives its lease up, and what becomes of the job it held.
LEMMA LeaseEnds ==
    ASSUME IInv, NEW w \in Workers, worker[w].pc # "idle",
           UNCHANGED <<now, catalog, since, asOf, quotes, schedule, runs, changes, inputs, artifacts>>,
           faults' \in 0 .. MaxFaults,
           DOMAIN worker' = Workers, \A v \in Workers \ {w} : worker'[v] = worker[v],
           DOMAIN worker'[w] = {"pc", "cycle", "request", "reply", "leased", "locked"},
           worker'[w].leased = FALSE,
           worker'[w].pc = "idle" \/ (worker'[w].pc = worker[w].pc /\ worker'[w].cycle = worker[w].cycle),
           NEW j, j = Research(worker[w].cycle),
           IF worker[w].leased THEN Writes(j, {"closed", "queued"}) ELSE UNCHANGED job
    PROVE  IInv'
<1>1. JobsTyped' /\ Backlog' /\ JobsOfCycles' /\ FanOutSharesArtifact'
  <2>1. CASE worker[w].leased
    <3>1. job[j].state = "leased" /\ Writes(j, {"closed", "queued", "leased"})
      BY <2>1 DEF IInv, WorkersHoldCycles, Writes
    <3> QED
      BY <3>1, WriteKeepsJobs
  <2>2. CASE UNCHANGED job
    <3>1. JobsTyped'
      BY <2>2 DEF IInv, TypeOK, Rows, JobsTyped
    <3>2. Backlog'
      BY <2>2 DEF IInv, Backlog
    <3>3. JobsOfCycles' /\ FanOutSharesArtifact'
      BY <2>2 DEF IInv, JobsOfCycles, FanOutSharesArtifact
    <3> QED
      BY <3>1, <3>2, <3>3
  <2> QED
    BY <2>1, <2>2
<1>2. ASSUME NEW v \in Workers \ {w}, worker[v].leased
      PROVE  /\ Research(worker[v].cycle) \in DOMAIN job'
             /\ job'[Research(worker[v].cycle)].state = "leased"
  <2>1. /\ Research(worker[v].cycle) \in DOMAIN job
        /\ job[Research(worker[v].cycle)].state = "leased"
    BY <1>2 DEF IInv, WorkersHoldCycles
  <2>2. CASE worker[w].leased
    <3>1. worker[v].cycle # worker[w].cycle
      BY <1>2, <2>2 DEF IInv, WorkersHoldCycles
    <3>2. Research(worker[v].cycle) # j
      BY <3>1 DEF Research
    <3> QED
      BY <2>1, <2>2, <3>2 DEF Writes
  <2>3. CASE ~worker[w].leased
    BY <2>1, <2>3
  <2> QED
    BY <2>2, <2>3
<1>3. WorkersHoldCycles' /\ Rows'
  <2>1. /\ worker'[w].pc # "idle" => worker'[w].cycle \in DOMAIN asOf'
        /\ worker'[w].pc \in {"call", "save"} => worker'[w].cycle \in DOMAIN inputs'
        /\ DOMAIN asOf \subseteq DOMAIN asOf' /\ DOMAIN inputs \subseteq DOMAIN inputs'
        /\ worker'[w].leased \in BOOLEAN /\ ~worker'[w].leased
    BY DEF IInv, WorkersHoldCycles
  <2> QED
    BY <1>1, <1>2, <2>1, WorkerChange
<1>4. TypeOK'
  BY <1>1 DEF JobsTyped, IInv, TypeOK
<1>5. FrozenIsYoung' /\ DecisionDataIsFresh'
  BY DEF IInv, FrozenIsYoung, DecisionDataIsFresh
<1> QED
  BY <1>1, <1>3, <1>4, <1>5 DEF IInv

LEMMA EndResearchKeeps ==
    ASSUME IInv, NEW w \in Workers, EndResearch(w)
    PROVE  IInv'
<1> DEFINE j == Research(worker[w].cycle)
<1>1. /\ UNCHANGED <<now, catalog, since, asOf, quotes, schedule, runs, changes, inputs, artifacts, faults>>
      /\ worker[w].pc # "idle" /\ worker' = [worker EXCEPT ![w] = Idle]
      /\ IF worker[w].leased THEN job' = Closed(j) \/ job' = Retried(j) ELSE UNCHANGED job
  BY DEF EndResearch, ResearchFrame
<1>2. /\ DOMAIN worker' = Workers /\ \A v \in Workers \ {w} : worker'[v] = worker[v]
      /\ worker'[w] = Idle
  BY <1>1 DEF IInv, Rows
<1>3. /\ DOMAIN worker'[w] = {"pc", "cycle", "request", "reply", "leased", "locked"}
      /\ worker'[w].leased = FALSE /\ worker'[w].pc = "idle"
  BY <1>2 DEF Idle
<1>4. worker[w].leased => j \in DOMAIN job
  BY DEF IInv, WorkersHoldCycles
<1>5. IF worker[w].leased THEN Writes(j, {"closed", "queued"}) ELSE UNCHANGED job
  <2> HIDE DEF j
  <2>1. CASE worker[w].leased
    <3>1. Writes(j, {"closed"}) \/ Writes(j, {"closed", "queued"})
      BY <1>1, <1>4, <2>1, WriteEffects DEF IInv
    <3> QED
      BY <2>1, <3>1 DEF Writes
  <2> QED
    BY <1>1, <2>1
<1>6. faults' \in 0 .. MaxFaults
  BY <1>1 DEF IInv, TypeOK
<1> QED
  BY <1>1, <1>2, <1>3, <1>5, <1>6, LeaseEnds

\* A worker that is disturbed leaves the job it held queued, if it held it.
LEMMA DisturbedEffects ==
    ASSUME IInv, NEW w \in Workers, Disturbed(w), job' = Requeued(w)
    PROVE  /\ UNCHANGED <<now, catalog, since, asOf, quotes, schedule, runs, changes, inputs, artifacts>>
           /\ worker[w].pc # "idle" /\ faults' \in 0 .. MaxFaults
           /\ IF worker[w].leased THEN Writes(Research(worker[w].cycle), {"closed", "queued"})
              ELSE UNCHANGED job
<1> DEFINE j == Research(worker[w].cycle)
<1>1. /\ UNCHANGED <<now, catalog, since, asOf, quotes, schedule, runs, changes, inputs, artifacts>>
      /\ worker[w].pc # "idle"
  BY DEF Disturbed, ResearchFrame
<1>2. faults' \in 0 .. MaxFaults
  BY Constants DEF Disturbed, IInv, TypeOK
<1>3. IF worker[w].leased THEN Writes(j, {"closed", "queued"}) ELSE UNCHANGED job
  <2>1. CASE worker[w].leased
    <3>1. j \in DOMAIN job /\ job' = [job EXCEPT ![j].state = "queued"]
      BY <2>1 DEF IInv, WorkersHoldCycles, Requeued
    <3>2. Writes(j, {"queued"})
      BY <3>1, WriteEffects DEF IInv
    <3> QED
      BY <2>1, <3>2 DEF Writes
  <2> QED
    BY <2>1 DEF Requeued
<1> QED
  BY <1>1, <1>2, <1>3

LEMMA CrashKeeps == ASSUME IInv, NEW w \in Workers, Crash(w) PROVE IInv'
<1>1. /\ UNCHANGED <<now, catalog, since, asOf, quotes, schedule, runs, changes, inputs, artifacts>>
      /\ worker[w].pc # "idle" /\ faults' \in 0 .. MaxFaults
      /\ IF worker[w].leased THEN Writes(Research(worker[w].cycle), {"closed", "queued"})
         ELSE UNCHANGED job
  BY DisturbedEffects DEF Crash
<1>2. /\ DOMAIN worker' = Workers /\ \A v \in Workers \ {w} : worker'[v] = worker[v]
      /\ worker'[w] = Idle
  BY DEF Crash, IInv, Rows
<1>3. /\ DOMAIN worker'[w] = {"pc", "cycle", "request", "reply", "leased", "locked"}
      /\ worker'[w].leased = FALSE /\ worker'[w].pc = "idle"
  BY <1>2 DEF Idle
<1> QED
  BY <1>1, <1>2, <1>3, LeaseEnds

LEMMA LeaseLapsesKeeps == ASSUME IInv, NEW w \in Workers, LeaseLapses(w) PROVE IInv'
<1>1. /\ UNCHANGED <<now, catalog, since, asOf, quotes, schedule, runs, changes, inputs, artifacts>>
      /\ worker[w].pc # "idle" /\ faults' \in 0 .. MaxFaults
      /\ IF worker[w].leased THEN Writes(Research(worker[w].cycle), {"closed", "queued"})
         ELSE UNCHANGED job
  BY DisturbedEffects DEF LeaseLapses
<1>2. PICK locked : worker' = [worker EXCEPT ![w].leased = FALSE, ![w].locked = locked]
  BY DEF LeaseLapses
<1>3. DOMAIN worker = Workers /\ DOMAIN worker[w] = {"pc", "cycle", "request", "reply", "leased", "locked"}
  BY DEF IInv, Rows
<1>4. worker' = [worker EXCEPT ![w] = [worker[w] EXCEPT !.leased = FALSE, !.locked = locked]]
  BY <1>2, <1>3
<1>5. worker'[w] = [worker[w] EXCEPT !.leased = FALSE, !.locked = locked]
  BY <1>3, <1>4
<1>6. /\ DOMAIN worker' = Workers /\ \A v \in Workers \ {w} : worker'[v] = worker[v]
      /\ DOMAIN worker'[w] = {"pc", "cycle", "request", "reply", "leased", "locked"}
      /\ worker'[w].leased = FALSE
      /\ worker'[w].pc = worker[w].pc /\ worker'[w].cycle = worker[w].cycle
  BY <1>3, <1>4, <1>5
<1> QED
  BY <1>1, <1>6, LeaseEnds

\* A run that is committed refers to the artifact on record, whose quotes were
\* young by an instant the cycle was not old by.
LEMMA RunIsFresh ==
    ASSUME IInv, NEW a \in Agents, NEW c \in Cycles, Run(a, c) \in DOMAIN job,
           <<a, c>> \notin DOMAIN runs, ResearchValid(a, c, job[Run(a, c)].payload),
           runs' = InsertInto(runs, Row(<<a, c>>, [at |-> now, artifact |-> job[Run(a, c)].payload])),
           UNCHANGED artifacts
    PROVE  /\ DOMAIN runs' \subseteq Agents \X Cycles
           /\ \A r \in DOMAIN runs' : r[2] \in DOMAIN artifacts /\ runs'[r].artifact = artifacts[r[2]]
           /\ DecisionDataIsFresh'
<1> DEFINE r0 == <<a, c>>
           row == [at |-> now, artifact |-> job[Run(a, c)].payload]
<1>1. /\ DOMAIN runs' = DOMAIN runs \cup {r0} /\ \A r \in DOMAIN runs : runs'[r] = runs[r]
      /\ runs'[r0] = row
  <2> HIDE DEF row, r0
  <2>1. runs' = InsertInto(runs, Row(r0, row)) /\ r0 \notin DOMAIN runs
    BY DEF row, r0
  <2>2. /\ Gains(runs, InsertInto(runs, Row(r0, row)))
        /\ DOMAIN InsertInto(runs, Row(r0, row)) = DOMAIN runs \cup {r0}
        /\ r0 \notin DOMAIN runs => InsertInto(runs, Row(r0, row))[r0] = row
    BY InsertRow, Zenon
  <2> QED
    BY <2>1, <2>2 DEF Gains
<1>2. c \in DOMAIN artifacts /\ row.artifact = artifacts[c] /\ asOf[c] > now - CycleAge /\ row.at = now
  BY DEF ResearchValid
<1> HIDE DEF row
<1>3. DOMAIN runs' \subseteq Agents \X Cycles
  BY <1>1 DEF IInv, TypeOK
<1>4. ASSUME NEW r \in DOMAIN runs'
      PROVE  r[2] \in DOMAIN artifacts /\ runs'[r].artifact = artifacts[r[2]]
  <2>1. CASE r \in DOMAIN runs
    BY <1>1, <2>1 DEF IInv, JobsOfCycles, FanOutSharesArtifact
  <2>2. CASE r = r0
    BY <1>1, <1>2, <2>2
  <2> QED
    BY <1>1, <2>1, <2>2
<1>5. ASSUME NEW s \in Symbols
      PROVE  row.at - row.artifact.request.quotes[s] <= (ResearchAge - 1) + (CycleAge - 1)
  <2>1. c \in DOMAIN inputs /\ c \in DOMAIN asOf /\ row.artifact.request.quotes = inputs[c]
    BY <1>2 DEF IInv, TypeOK, FrozenIsYoung
  <2>2. asOf[c] \in Int /\ now \in Int /\ inputs[c][s] \in Int /\ inputs[c][s] > asOf[c] - ResearchAge
    BY <2>1, Constants DEF IInv, TypeOK, FrozenIsYoung
  <2>3. now - inputs[c][s] <= (ResearchAge - 1) + (CycleAge - 1)
    <3>1. CycleAge \in Int /\ ResearchAge \in Int /\ asOf[c] > now - CycleAge
      BY <1>2, Constants
    <3> QED
      BY <2>2, <3>1
  <2> QED
    BY <1>2, <2>1, <2>3
<1>6. DecisionDataIsFresh'
  <2>1. ASSUME NEW r \in DOMAIN runs', NEW s \in Symbols
        PROVE  runs'[r].at - runs'[r].artifact.request.quotes[s] <= (ResearchAge - 1) + (CycleAge - 1)
    BY <1>1, <1>5 DEF IInv, DecisionDataIsFresh
  <2> QED
    BY <2>1 DEF DecisionDataIsFresh
<1> QED
  BY <1>3, <1>4, <1>6

LEMMA RunAgentKeeps ==
    ASSUME IInv, NEW a \in Agents, NEW c \in Cycles, RunAgent(a, c)
    PROVE  IInv'
<1> DEFINE j == Run(a, c)
<1>1. /\ UNCHANGED <<now, catalog, since, asOf, quotes, inputs, artifacts, schedule, worker, changes, faults>>
      /\ j \in DOMAIN job /\ job[j].state = "queued"
      /\ job' = Closed(j) \/ job' = Retried(j)
      /\ \/ UNCHANGED runs
         \/ /\ <<a, c>> \notin DOMAIN runs /\ ResearchValid(a, c, job[j].payload)
            /\ runs' = InsertInto(runs, Row(<<a, c>>, [at |-> now, artifact |-> job[j].payload]))
  BY DEF RunAgent
<1>2. /\ DOMAIN runs' \subseteq Agents \X Cycles
      /\ \A r \in DOMAIN runs' : r[2] \in DOMAIN artifacts /\ runs'[r].artifact = artifacts[r[2]]
      /\ DecisionDataIsFresh'
  <2>1. CASE UNCHANGED runs
    BY <1>1, <2>1 DEF IInv, TypeOK, JobsOfCycles, FanOutSharesArtifact, DecisionDataIsFresh
  <2>2. CASE /\ <<a, c>> \notin DOMAIN runs /\ ResearchValid(a, c, job[j].payload)
             /\ runs' = InsertInto(runs, Row(<<a, c>>, [at |-> now, artifact |-> job[j].payload]))
    BY <1>1, <2>2, RunIsFresh
  <2> QED
    BY <1>1, <2>1, <2>2
<1> HIDE DEF j
<1>3. Writes(j, {"closed", "queued"}) /\ Writes(j, {"closed", "queued", "leased"})
  <2>1. Writes(j, {"closed"}) \/ Writes(j, {"closed", "queued"})
    BY <1>1, WriteEffects DEF IInv
  <2> QED
    BY <2>1 DEF Writes
<1>4. JobsTyped' /\ Backlog'
  BY <1>1, <1>3, WriteKeepsJobs
<1>5. JobsOfCycles' /\ FanOutSharesArtifact'
  <2>1. /\ \A k \in DOMAIN job' : k \in DOMAIN job /\ job'[k].payload = job[k].payload
    BY <1>3 DEF Writes
  <2> QED
    BY <1>1, <1>2, <2>1 DEF IInv, JobsOfCycles, FanOutSharesArtifact
<1>6. WorkersHoldCycles'
  BY <1>1, <1>3, WriteKeepsWorkers
<1>7. TypeOK'
  BY <1>1, <1>2, <1>4 DEF JobsTyped, IInv, TypeOK
<1>8. Rows' /\ FrozenIsYoung'
  BY <1>1, <1>4 DEF JobsTyped, IInv, Rows, FrozenIsYoung
<1> QED
  BY <1>2, <1>4, <1>5, <1>6, <1>7, <1>8 DEF IInv

LEMMA RunThenCrashKeeps ==
    ASSUME IInv, NEW a \in Agents, NEW c \in Cycles, RunThenCrash(a, c)
    PROVE  IInv'
<1>1. /\ UNCHANGED <<now, catalog, since, asOf, quotes, inputs, artifacts, job, schedule, worker, changes>>
      /\ DOMAIN runs' \subseteq Agents \X Cycles
      /\ \A r \in DOMAIN runs' : r[2] \in DOMAIN artifacts /\ runs'[r].artifact = artifacts[r[2]]
      /\ DecisionDataIsFresh'
  BY RunIsFresh DEF RunThenCrash
<1>2. faults' \in 0 .. MaxFaults
  <2>1. MaxFaults \in Nat
    BY Constants
  <2>2. faults \in 0 .. MaxFaults /\ faults < MaxFaults /\ faults' = faults + 1
    BY DEF RunThenCrash, IInv, TypeOK
  <2> QED
    BY <2>1, <2>2
<1>3. TypeOK'
  BY <1>1, <1>2 DEF IInv, TypeOK
<1>4. Rows' /\ JobsOfCycles' /\ FrozenIsYoung' /\ FanOutSharesArtifact'
  BY <1>1 DEF IInv, Rows, JobsOfCycles, FrozenIsYoung, FanOutSharesArtifact
<1>5. WorkersHoldCycles' /\ Backlog'
  BY <1>1 DEF IInv, WorkersHoldCycles, Backlog
<1> QED
  BY <1>1, <1>3, <1>4, <1>5 DEF IInv

\* A job is queued beside the scheduler's.
LEMMA RefreshForOrderKeeps ==
    ASSUME IInv, NEW a \in Agents, NEW c \in Cycles, RefreshForOrder(a, c)
    PROVE  IInv'
<1> DEFINE j == Order(a, c)
<1>1. /\ j \in Jobs /\ j[1] = "order" /\ j[3] = c /\ j \notin DOMAIN job
      /\ MaxAttempts["order"] \in Nat \ {0}
  BY JobFacts, Constants DEF RefreshForOrder, Order
<1>2. /\ job' = InsertInto(job, Row(j, Queued(None)))
      /\ UNCHANGED <<now, catalog, since, asOf, quotes, inputs, artifacts, schedule, runs, worker,
                     changes, faults>>
      /\ c \in DOMAIN asOf
  BY DEF RefreshForOrder, IInv, JobsOfCycles, TypeOK
<1>3. /\ Gains(job, job') /\ DOMAIN job' = DOMAIN job \cup {j}
      /\ job'[j] = [state |-> "queued", attempts |-> 0, payload |-> None]
  BY <1>1, <1>2, InsertRow DEF Queued
<1> HIDE DEF j
<1>4. ASSUME NEW k \in DOMAIN job'
      PROVE  /\ k \in Jobs /\ DOMAIN job'[k] = {"state", "attempts", "payload"}
             /\ job'[k].state \in {"queued", "leased", "closed"}
             /\ job'[k].attempts \in 0 .. MaxAttempts[k[1]]
  <2>1. CASE k \in DOMAIN job
    BY <1>3, <2>1 DEF IInv, TypeOK, Rows, Gains
  <2>2. CASE k = j
    BY <1>1, <1>3, <2>2
  <2> QED
    BY <1>3, <2>1, <2>2
<1>5. TypeOK'
  BY <1>2, <1>4 DEF IInv, TypeOK
<1>6. Rows'
  BY <1>2, <1>4 DEF IInv, Rows
<1>7. JobsOfCycles' /\ FanOutSharesArtifact'
  <2>1. ASSUME NEW k \in DOMAIN job'
        PROVE  /\ k[3] \in DOMAIN asOf
               /\ k[1] = "run" => k[3] \in DOMAIN artifacts /\ job'[k].payload = artifacts[k[3]]
    <3>1. CASE k \in DOMAIN job
      BY <1>3, <3>1 DEF IInv, JobsOfCycles, FanOutSharesArtifact, Gains
    <3>2. CASE k = j
      BY <1>1, <1>2, <3>2
    <3> QED
      BY <1>3, <3>1, <3>2
  <2> QED
    BY <1>2, <2>1 DEF IInv, JobsOfCycles, FanOutSharesArtifact
<1>8. WorkersHoldCycles'
  <2>1. \A w \in Workers : worker[w].leased =>
          /\ Research(worker[w].cycle) \in DOMAIN job'
          /\ job'[Research(worker[w].cycle)].state = "leased"
    BY <1>3 DEF IInv, WorkersHoldCycles, Gains
  <2> QED
    BY <1>2, <2>1 DEF IInv, WorkersHoldCycles
<1>9. FrozenIsYoung' /\ DecisionDataIsFresh'
  BY <1>2 DEF IInv, FrozenIsYoung, DecisionDataIsFresh
<1>10. Backlog'
  <2>1. IsFiniteSet(DOMAIN job \cup {j})
    BY FS_AddElement DEF IInv, Backlog
  <2> QED
    BY <1>3, <2>1 DEF Backlog
<1> QED
  BY <1>5, <1>6, <1>7, <1>8, <1>9, <1>10 DEF IInv

-----------------------------------------------------------------------------
(* The tick of the scheduler.                                               *)

\* The bucket of the instant is a time at which a cycle can be.
LEMMA CurrentIsACycle == ASSUME IInv, Cohort # {} PROVE Current \in Cycles
<1>1. IsFiniteSet(Cohort) /\ Cohort \subseteq Agents
  BY Constants, FS_Subset DEF Cohort
<1>2. Pace \in Nat \ {0}
  <2>1. PICK f \in [Cohort -> Int] : \A a \in Cohort : f[a] = Frequency[a]
    <3>1. \E f \in [Cohort -> Int] : \A a \in Cohort : f[a] = Frequency[a]
      <4> DEFINE g == [a \in Cohort |-> Frequency[a]]
      <4>1. \A a \in Cohort : Frequency[a] \in Int /\ g[a] = Frequency[a]
        BY <1>1, Constants
      <4>2. g \in [Cohort -> Int]
        BY <4>1
      <4> HIDE DEF g
      <4> QED
        BY <4>1, <4>2
    <3> QED
      BY <3>1
  <2>2. Least({f[a] : a \in Cohort}) \in {f[a] : a \in Cohort}
    BY <1>1, LeastIsIn
  <2>3. {f[a] : a \in Cohort} = {Frequency[a] : a \in Cohort}
    BY <2>1
  <2>4. Pace \in {Frequency[a] : a \in Cohort}
    BY <2>2, <2>3 DEF Pace
  <2> QED
    BY <1>1, <2>4, Constants
<1>3. now \in 0 .. MaxTime /\ MaxTime \in Nat /\ catalog \in 1 .. MaxCatalogs
  BY Constants DEF IInv, TypeOK
<1>4. Bucket \in 0 .. now
  BY <1>2, <1>3 DEF Bucket
<1> QED
  BY <1>3, <1>4 DEF Current, Cycles, Time

\* The cycles after an election.
LEMMA ElectedCycles ==
    ASSUME IInv
    PROVE  /\ Gains(asOf, Elected) /\ DOMAIN Elected \subseteq Cycles
           /\ \A c \in DOMAIN Elected : Elected[c] \in Time /\ Elected[c] <= now
<1>1. \A c \in DOMAIN asOf : c \in Cycles /\ asOf[c] \in Time /\ asOf[c] <= now
  BY DEF IInv, TypeOK, FrozenIsYoung
<1>2. CASE Elected = asOf
  BY <1>1, <1>2 DEF Gains
<1>3. CASE Cohort # {} /\ Current \notin DOMAIN asOf
  <2>1. Elected = InsertInto(asOf, Row(Current, now)) /\ now \in Time /\ now <= now
    BY <1>3, Constants DEF Elected, IInv, TypeOK
  <2>2. /\ Gains(asOf, Elected) /\ DOMAIN Elected = DOMAIN asOf \cup {Current}
        /\ Elected[Current] = now
    BY <1>3, <2>1, InsertRow
  <2>3. Current \in Cycles
    BY <1>3, CurrentIsACycle
  <2> QED
    BY <1>1, <2>1, <2>2, <2>3 DEF Gains
<1> QED
  BY <1>2, <1>3 DEF Elected

\* What a tick may insert: the jobs of one cycle, and a run only of one whose
\* research is on record and whose agent is due.
Wanted(c, wanted, instant) ==
    /\ wanted \subseteq {j \in Jobs : j[3] = c /\ j[1] # "order"}
    /\ IsFiniteSet(wanted)
    /\ \A a \in Agents : Run(a, c) \in wanted => c \in DOMAIN artifacts /\ Due(a, instant)
    /\ \A j \in wanted : j[1] = "run" => c \in DOMAIN artifacts

LEMMA WantedJobs ==
    ASSUME IInv, NEW c \in Cycles, NEW instant, NEW block, NEW due,
           due = {a \in Candidates(instant) : Due(a, instant)}
    PROVE  Wanted(c, ResearchJobs(c) \cup FanOut(c, due, block), instant)
<1> DEFINE wanted == ResearchJobs(c) \cup FanOut(c, due, block)
           quoted == {Quote(a, c) : a \in due}
           ran == {Run(a, c) : a \in Running(c, due, block)}
<1>1. due \subseteq Agents /\ \A a \in due : Due(a, instant)
  BY DEF Candidates, Cohort
<1>2. /\ Running(c, due, block) \subseteq due
      /\ Running(c, due, block) # {} => c \in DOMAIN artifacts
  BY DEF Running
<1>3. ResearchJobs(c) \subseteq {Refresh(c), Research(c)}
  BY DEF ResearchJobs
<1>4. FanOut(c, due, block) \subseteq quoted \cup ran
  BY DEF FanOut
<1>5. IsFiniteSet(wanted)
  <2>1. IsFiniteSet(due) /\ IsFiniteSet(Running(c, due, block))
    BY <1>1, <1>2, Constants, FS_Subset
  <2>2. IsFiniteSet(quoted)
    <3>1. [a \in due |-> Quote(a, c)] \in Surjection(due, quoted)
      BY DEF Surjection
    <3> QED
      BY <2>1, <3>1, FS_Surjection
  <2>3. IsFiniteSet(ran)
    <3>1. [a \in Running(c, due, block) |-> Run(a, c)] \in Surjection(Running(c, due, block), ran)
      BY DEF Surjection
    <3> QED
      BY <2>1, <3>1, FS_Surjection
  <2>4. IsFiniteSet({Refresh(c), Research(c)})
    <3>1. IsFiniteSet({Refresh(c)}) /\ IsFiniteSet({Research(c)})
      BY FS_Singleton
    <3>2. {Refresh(c), Research(c)} = {Refresh(c)} \cup {Research(c)}
      OBVIOUS
    <3>3. IsFiniteSet({Refresh(c)} \cup {Research(c)})
      BY <3>1, FS_Union
    <3> QED
      BY <3>2, <3>3
  <2>5. IsFiniteSet({Refresh(c), Research(c)} \cup (quoted \cup ran))
    BY <2>2, <2>3, <2>4, FS_Union
  <2>6. wanted \subseteq {Refresh(c), Research(c)} \cup (quoted \cup ran)
    BY <1>3, <1>4
  <2> HIDE DEF wanted, quoted, ran
  <2> QED
    BY <2>5, <2>6, FS_Subset
<1>6. ASSUME NEW j \in wanted
      PROVE  /\ j \in Jobs /\ j[3] = c /\ j[1] # "order"
             /\ j[1] = "run" => \E a \in Running(c, due, block) : j = Run(a, c)
  <2>1. CASE j \in {Refresh(c), Research(c)}
    <3>1. j \in Jobs
      BY <2>1, JobFacts
    <3>2. j[3] = c /\ j[1] \in {"refresh", "research"}
      BY <2>1 DEF Refresh, Research
    <3> QED
      BY <3>1, <3>2
  <2>2. CASE j \in quoted
    BY <1>1, <2>2, JobFacts DEF Quote
  <2>3. CASE j \in ran
    <3>1. PICK a \in Running(c, due, block) : j = Run(a, c)
      BY <2>3
    <3>2. a \in Agents
      BY <1>1, <1>2
    <3> QED
      BY <3>1, <3>2, JobFacts DEF Run
  <2> QED
    BY <1>3, <1>4, <2>1, <2>2, <2>3
<1> HIDE DEF wanted
<1>7. ASSUME NEW a \in Agents, Run(a, c) \in wanted
      PROVE  c \in DOMAIN artifacts /\ Due(a, instant)
  <2>1. PICK b \in Running(c, due, block) : Run(a, c) = Run(b, c)
    BY <1>6, <1>7 DEF Run
  <2>2. a = b
    BY <2>1 DEF Run
  <2> QED
    BY <1>1, <1>2, <2>2
<1>8. \A j \in wanted : j[1] = "run" => c \in DOMAIN artifacts
  BY <1>2, <1>6
<1>9. Wanted(c, wanted, instant)
  BY <1>5, <1>6, <1>7, <1>8 DEF Wanted
<1> QED
  BY <1>9 DEF wanted

\* Among the jobs of one cycle no two have the same rank.
LEMMA RankOrders ==
    ASSUME NEW c, NEW S, S \subseteq {j \in Jobs : j[3] = c /\ j[1] # "order"}
    PROVE  /\ \A j \in S : Rank(j) \in Nat
           /\ \A j, k \in S : Rank(j) = Rank(k) => j = k
<1>1. \A j \in S : /\ j[1] \in {"refresh", "research", "quote", "run"} /\ j[2] \in Nat
                   /\ j[1] \in {"quote", "run"} => j[2] > 0
                   /\ j[1] \in {"refresh", "research"} => j[2] = 0
                   /\ j = <<j[1], j[2], c>>
  <2>0. \A x \in Agents : x > 0
    BY Constants
  <2> SUFFICES ASSUME NEW j \in S
               PROVE  /\ j[1] \in {"refresh", "research", "quote", "run"} /\ j[2] \in Nat
                      /\ j[1] \in {"quote", "run"} => j[2] > 0
                      /\ j[1] \in {"refresh", "research"} => j[2] = 0
                      /\ j = <<j[1], j[2], c>>
    OBVIOUS
  <2>1. j \in Jobs /\ j[3] = c /\ j[1] # "order"
    OBVIOUS
  <2>2. /\ j[1] \in {"refresh", "research", "quote", "run"} /\ j[2] \in Nat
        /\ j[1] \in {"quote", "run"} => j[2] \in Agents
        /\ j[1] \in {"refresh", "research"} => j[2] = 0
        /\ j = <<j[1], j[2], c>>
    BY <2>1, JobFacts
  <2>3. j[2] \in Agents => j[2] > 0
    BY <2>0
  <2> QED
    BY <2>2, <2>3
<1> QED
  BY <1>1 DEF Rank

LEMMA LiveIsFinite == ASSUME IInv PROVE IsFiniteSet(Live) /\ Cardinality(Live) \in Nat
  BY FS_Subset, FS_CardinalityType DEF IInv, Backlog, Live

\* What a tick inserts, if anything, stays under the ceiling together with what it found.
LEMMA InsertKeepsCeiling ==
    ASSUME IInv, NEW c, NEW wanted, NEW instant, Wanted(c, wanted, instant)
    PROVE  LET inserted == {j \in Insertable(wanted) : Room(j, wanted)}
           IN  /\ IsFiniteSet(inserted)
               /\ inserted # {} => Cardinality(inserted) + Cardinality(Live) <= MaxOutstanding
<1> DEFINE able == Insertable(wanted)
           inserted == {j \in able : Room(j, wanted)}
<1>1. able \subseteq wanted /\ IsFiniteSet(able) /\ IsFiniteSet(inserted)
  BY FS_Subset DEF Wanted, Insertable
<1>2. /\ \A j \in able : Rank(j) \in Nat
      /\ \A j, k \in able : Rank(j) = Rank(k) => j = k
  BY <1>1, RankOrders DEF Wanted
<1>3. Cardinality(Live) \in Nat
  BY LiveIsFinite
<1>4. CASE inserted = {}
  BY <1>1, <1>4
<1>5. CASE inserted # {}
  <2>1. PICK f \in [inserted -> Int] : \A j \in inserted : f[j] = Rank(j)
    <3>1. \E f \in [inserted -> Int] : \A j \in inserted : f[j] = Rank(j)
      <4> DEFINE g == [j \in inserted |-> Rank(j)]
      <4>1. \A j \in inserted : Rank(j) \in Int
        BY <1>2
      <4> HIDE DEF inserted
      <4>2. g \in [inserted -> Int] /\ \A j \in inserted : g[j] = Rank(j)
        BY <4>1
      <4> HIDE DEF g
      <4> QED
        BY <4>2
    <3> QED
      BY <3>1
  <2>2. PICK j \in inserted : \A k \in inserted : f[k] <= f[j]
    <3> HIDE DEF inserted
    <3> QED
      BY <1>1, <1>5, GreatestOf
  <2> DEFINE before == {k \in able : Rank(k) < Rank(j)}
  <2>3. inserted \ {j} \subseteq before
    <3>1. ASSUME NEW k \in inserted, k # j PROVE Rank(k) < Rank(j)
      <4>1. Rank(k) \in Nat /\ Rank(j) \in Nat /\ Rank(k) # Rank(j)
        BY <1>2, <3>1
      <4>2. Rank(k) <= Rank(j)
        BY <2>1, <2>2
      <4> QED
        BY <4>1, <4>2
    <3> QED
      BY <3>1
  <2>4. IsFiniteSet(before) /\ IsFiniteSet(inserted \ {j})
    BY <1>1, FS_Subset
  <2>5. Cardinality(inserted \ {j}) <= Cardinality(before)
    BY <2>3, <2>4, FS_Subset
  <2>6. Cardinality(inserted \ {j}) = Cardinality(inserted) - 1
    BY <1>1, FS_RemoveElement
  <2>7. Cardinality(before) + Cardinality(Live) < MaxOutstanding
    BY DEF Room
  <2>8. Cardinality(inserted) \in Nat /\ Cardinality(before) \in Nat
    BY <1>1, <2>4, FS_CardinalityType
  <2>9. MaxOutstanding \in Nat
    BY Constants
  <2> HIDE DEF inserted, before
  <2>10. Cardinality(inserted) + Cardinality(Live) <= MaxOutstanding
    BY <1>3, <2>5, <2>6, <2>7, <2>8, <2>9
  <2> QED
    BY <1>1, <2>10 DEF inserted
<1> QED
  BY <1>4, <1>5

\* The tick, taken apart: the cycle c it serves, and the jobs it inserts.
LEMMA TickEffects ==
    ASSUME IInv, NEW block, Tick(block)
    PROVE  \E c \in Cycles, inserted \in SUBSET Jobs :
              /\ UNCHANGED <<now, catalog, since, quotes, inputs, artifacts, runs, worker, changes, faults>>
              /\ asOf' = Elected /\ c \in DOMAIN Elected
              /\ job' = InsertInto(job, [j \in inserted |-> Queued(Payload(j))])
              /\ inserted \cap DOMAIN job = {}
              /\ IsFiniteSet(inserted)
              /\ inserted # {} => Cardinality(inserted) + Cardinality(Live) <= MaxOutstanding
              /\ \A a \in Agents : schedule[a].due # Never /\ schedule'[a].due # schedule[a].due
                    => Cardinality(Live) < MaxOutstanding
              /\ \A j \in inserted : j[3] = c /\ (j[1] = "run" => c \in DOMAIN artifacts)
              /\ schedule' = [a \in Agents |-> schedule'[a]]
              /\ \A a \in Agents :
                    \/ schedule'[a] = schedule[a]
                    \/ /\ DOMAIN schedule'[a] = {"due", "run"}
                       /\ schedule'[a] = [due |-> schedule'[a].due, run |-> schedule'[a].run]
                       /\ schedule'[a].due \in {now + Frequency[a], Elected[c], schedule[a].due}
                       /\ \/ schedule'[a].run = schedule[a].run
                          \/ schedule'[a].run = now /\ Due(a, Elected[c])
<1>1. PICK c \in LatestOf(Elected) :
        Serve(Elected, c, {a \in Candidates(Elected[c]) : Due(a, Elected[c])}, block)
  <2>1. PICK elected \in {Elected} : \E c \in LatestOf(elected) :
          \E due \in {{a \in Candidates(elected[c]) : Due(a, elected[c])}} : Serve(elected, c, due, block)
    BY DEF Tick
  <2>2. elected = Elected
    OBVIOUS
  <2>3. PICK c \in LatestOf(elected) :
          \E due \in {{a \in Candidates(elected[c]) : Due(a, elected[c])}} : Serve(elected, c, due, block)
    BY <2>1
  <2>4. PICK due \in {{a \in Candidates(elected[c]) : Due(a, elected[c])}} : Serve(elected, c, due, block)
    BY <2>3
  <2>5. due = {a \in Candidates(elected[c]) : Due(a, elected[c])}
    OBVIOUS
  <2>6. Serve(elected, c, {a \in Candidates(elected[c]) : Due(a, elected[c])}, block)
    BY <2>4, <2>5
  <2> QED
    BY <2>2, <2>6
<1> DEFINE due == {a \in Candidates(Elected[c]) : Due(a, Elected[c])}
           evaluated == Candidates(Elected[c])
           running == Running(c, due, block)
           wanted == ResearchJobs(c) \cup FanOut(c, due, block)
           inserted == {j \in Insertable(wanted) : Room(j, wanted)}
<1>2. c \in DOMAIN Elected /\ c \in Cycles
  BY ElectedCycles DEF LatestOf
<1>3. Wanted(c, wanted, Elected[c])
  BY <1>2, WantedJobs
<1> HIDE DEF wanted
<1>4. /\ inserted \subseteq wanted /\ inserted \cap DOMAIN job = {} /\ inserted \in SUBSET Jobs
  BY <1>3 DEF Insertable, Wanted
<1>5. /\ IsFiniteSet(inserted)
      /\ inserted # {} => Cardinality(inserted) + Cardinality(Live) <= MaxOutstanding
  BY <1>3, InsertKeepsCeiling
<1>6. \A j \in inserted : j[3] = c /\ (j[1] = "run" => c \in DOMAIN artifacts)
  BY <1>3, <1>4 DEF Wanted
<1>7. \A a \in Agents : Run(a, c) \in inserted => Due(a, Elected[c])
  BY <1>3, <1>4 DEF Wanted
<1>8. /\ asOf' = Elected
      /\ job' = InsertInto(job, [j \in inserted |-> Queued(Payload(j))])
      /\ schedule' = [a \in Agents |->
            IF a \notin evaluated THEN schedule[a]
            ELSE [due |-> IF a \in running /\ Room(Run(a, c), wanted) THEN now + Frequency[a]
                          ELSE IF schedule[a].due = Never THEN Elected[c] ELSE schedule[a].due,
                  run |-> IF Run(a, c) \in inserted THEN now ELSE schedule[a].run]]
      /\ UNCHANGED <<now, catalog, since, quotes, inputs, artifacts, runs, worker, changes, faults>>
  BY <1>1 DEF Serve, wanted
<1>11. ASSUME NEW a \in Agents, schedule[a].due # Never, schedule'[a].due # schedule[a].due
       PROVE  Cardinality(Live) < MaxOutstanding
  <2>1. Room(Run(a, c), wanted)
    BY <1>8, <1>11
  <2> DEFINE before == {k \in Insertable(wanted) : Rank(k) < Rank(Run(a, c))}
  <2>2. Cardinality(before) + Cardinality(Live) < MaxOutstanding
    BY <2>1 DEF Room
  <2>3. IsFiniteSet(before)
    BY <1>3, FS_Subset DEF Wanted, Insertable
  <2>4. Cardinality(before) \in Nat /\ Cardinality(Live) \in Nat /\ MaxOutstanding \in Nat
    BY <2>3, FS_CardinalityType, LiveIsFinite, Constants
  <2> HIDE DEF before
  <2> QED
    BY <2>2, <2>4
<1> HIDE DEF inserted, running, evaluated, due
<1>9. schedule' = [a \in Agents |-> schedule'[a]]
  BY <1>8
<1>10. ASSUME NEW a \in Agents, schedule'[a] # schedule[a]
       PROVE  /\ DOMAIN schedule'[a] = {"due", "run"}
              /\ schedule'[a] = [due |-> schedule'[a].due, run |-> schedule'[a].run]
              /\ schedule'[a].due \in {now + Frequency[a], Elected[c], schedule[a].due}
              /\ \/ schedule'[a].run = schedule[a].run
                 \/ schedule'[a].run = now /\ Due(a, Elected[c])
  <2> DEFINE due1 == IF a \in running /\ Room(Run(a, c), wanted) THEN now + Frequency[a]
                     ELSE IF schedule[a].due = Never THEN Elected[c] ELSE schedule[a].due
             run1 == IF Run(a, c) \in inserted THEN now ELSE schedule[a].run
  <2>1. schedule'[a] = [due |-> due1, run |-> run1]
    BY <1>8, <1>10
  <2>2. due1 \in {now + Frequency[a], Elected[c], schedule[a].due}
    OBVIOUS
  <2>3. run1 = schedule[a].run \/ (run1 = now /\ Due(a, Elected[c]))
    BY <1>7
  <2> HIDE DEF due1, run1
  <2> QED
    BY <2>1, <2>2, <2>3
<1> QED
  BY <1>2, <1>4, <1>5, <1>6, <1>8, <1>9, <1>10, <1>11

LEMMA TickKeeps == ASSUME IInv, NEW block, Tick(block) PROVE IInv'
<1>1. PICK c \in Cycles, inserted \in SUBSET Jobs :
          /\ UNCHANGED <<now, catalog, since, quotes, inputs, artifacts, runs, worker, changes, faults>>
          /\ asOf' = Elected /\ c \in DOMAIN Elected
          /\ job' = InsertInto(job, [j \in inserted |-> Queued(Payload(j))])
          /\ inserted \cap DOMAIN job = {}
          /\ IsFiniteSet(inserted)
          /\ \A j \in inserted : j[3] = c /\ (j[1] = "run" => c \in DOMAIN artifacts)
          /\ schedule' = [a \in Agents |-> schedule'[a]]
          /\ \A a \in Agents :
                \/ schedule'[a] = schedule[a]
                \/ /\ DOMAIN schedule'[a] = {"due", "run"}
                   /\ schedule'[a] = [due |-> schedule'[a].due, run |-> schedule'[a].run]
                   /\ schedule'[a].due \in {now + Frequency[a], Elected[c], schedule[a].due}
                   /\ \/ schedule'[a].run = schedule[a].run
                      \/ schedule'[a].run = now /\ Due(a, Elected[c])
  BY TickEffects
<1>2. /\ Gains(asOf, asOf') /\ DOMAIN asOf' \subseteq Cycles
      /\ \A d \in DOMAIN asOf' : asOf'[d] \in Time /\ asOf'[d] <= now
      /\ c \in DOMAIN asOf'
  BY <1>1, ElectedCycles
<1>3. /\ DOMAIN job' = DOMAIN job \cup inserted
      /\ \A j \in DOMAIN job : job'[j] = job[j]
      /\ \A j \in inserted : job'[j] = Queued(Payload(j))
  <2> DEFINE rows == [j \in inserted |-> Queued(Payload(j))]
  <2>1. DOMAIN rows = inserted /\ \A j \in inserted : rows[j] = Queued(Payload(j))
    OBVIOUS
  <2> HIDE DEF rows
  <2>2. /\ Gains(job, InsertInto(job, rows)) /\ DOMAIN InsertInto(job, rows) = DOMAIN job \cup DOMAIN rows
        /\ \A j \in DOMAIN rows \ DOMAIN job : InsertInto(job, rows)[j] = rows[j]
    BY DEF Gains, InsertInto
  <2>3. job' = InsertInto(job, rows) /\ inserted \cap DOMAIN job = {}
    BY <1>1 DEF rows
  <2> QED
    BY <2>1, <2>2, <2>3 DEF Gains
<1>4. \A j \in inserted : /\ DOMAIN job'[j] = {"state", "attempts", "payload"}
                          /\ job'[j].state = "queued" /\ job'[j].attempts = 0
                          /\ job'[j].payload = Payload(j)
                          /\ MaxAttempts[j[1]] \in Nat
  <2>1. \A j \in inserted : MaxAttempts[j[1]] \in Nat
    BY JobFacts, Constants
  <2> QED
    BY <1>3, <2>1 DEF Queued
<1>5. JobsTyped'
  <2>1. ASSUME NEW j \in DOMAIN job'
        PROVE  /\ j \in Jobs /\ DOMAIN job'[j] = {"state", "attempts", "payload"}
               /\ job'[j].state \in {"queued", "leased", "closed"}
               /\ job'[j].attempts \in 0 .. MaxAttempts[j[1]]
    <3>1. CASE j \in DOMAIN job
      BY <1>3, <3>1 DEF IInv, TypeOK, Rows
    <3>2. CASE j \in inserted
      BY <1>4, <3>2
    <3> QED
      BY <1>3, <3>1, <3>2
  <2> QED
    BY <2>1 DEF JobsTyped
<1>6. Backlog'
  <2>1. IsFiniteSet(DOMAIN job \cup inserted)
    BY <1>1, FS_Union DEF IInv, Backlog
  <2> QED
    BY <1>3, <2>1 DEF Backlog
<1>7. JobsOfCycles'
  <2>1. ASSUME NEW j \in DOMAIN job'
        PROVE  j[3] \in DOMAIN asOf' /\ (j[1] = "run" => j[3] \in DOMAIN artifacts)
    BY <1>1, <1>2, <1>3 DEF IInv, JobsOfCycles, Gains
  <2> QED
    BY <1>1, <2>1 DEF IInv, JobsOfCycles
<1>8. FanOutSharesArtifact'
  <2>1. ASSUME NEW j \in DOMAIN job', j[1] = "run"
        PROVE  job'[j].payload = artifacts[j[3]]
    <3>1. CASE j \in DOMAIN job
      BY <1>3, <2>1, <3>1 DEF IInv, FanOutSharesArtifact
    <3>2. CASE j \in inserted
      BY <1>4, <2>1, <3>2 DEF Payload
    <3> QED
      BY <1>3, <3>1, <3>2
  <2> QED
    BY <1>1, <2>1 DEF IInv, FanOutSharesArtifact
<1>9. WorkersHoldCycles'
  <2>1. \A w \in Workers : worker[w].leased =>
          /\ Research(worker[w].cycle) \in DOMAIN job'
          /\ job'[Research(worker[w].cycle)].state = "leased"
    BY <1>3 DEF IInv, WorkersHoldCycles
  <2>2. \A w \in Workers : worker[w].pc # "idle" => worker[w].cycle \in DOMAIN asOf'
    BY <1>2 DEF IInv, WorkersHoldCycles, Gains
  <2> QED
    BY <1>1, <2>1, <2>2 DEF IInv, WorkersHoldCycles
<1>10. Rows'
  <2>1. now \in Time /\ now \in Int /\ now <= now /\ Elected[c] \in Int
    <3>1. Time \subseteq Int
      BY Constants
    <3>2. now \in Time /\ Elected[c] \in Time
      BY <1>1, <1>2 DEF IInv, TypeOK
    <3>3. now \in Int /\ Elected[c] \in Int
      BY <3>1, <3>2
    <3> QED
      BY <3>2, <3>3
  <2>2. ASSUME NEW a \in Agents
        PROVE  /\ schedule'[a] \in [due : Int, run : Time \cup {Never}]
               /\ schedule'[a].run <= now
    <3>1. /\ schedule[a] \in [due : Int, run : Time \cup {Never}] /\ schedule[a].run <= now
          /\ Frequency[a] \in Int
      <4>1. schedule \in [Agents -> [due : Int, run : Time \cup {Never}]] /\ schedule[a].run <= now
        BY DEF IInv, Rows
      <4>2. Frequency[a] \in Nat \ {0}
        BY Constants
      <4> QED
        BY <4>1, <4>2
    <3>2. CASE schedule'[a] = schedule[a]
      BY <3>1, <3>2
    <3>3. CASE /\ schedule'[a] = [due |-> schedule'[a].due, run |-> schedule'[a].run]
               /\ schedule'[a].due \in {now + Frequency[a], Elected[c], schedule[a].due}
               /\ schedule'[a].run \in {schedule[a].run, now}
      <4>1. schedule'[a].due \in Int /\ schedule'[a].run \in Time \cup {Never} /\ schedule'[a].run <= now
        BY <2>1, <3>1, <3>3
      <4>2. [due |-> schedule'[a].due, run |-> schedule'[a].run] \in [due : Int, run : Time \cup {Never}]
        BY <4>1
      <4> QED
        BY <3>3, <4>1, <4>2
    <3> QED
      BY <1>1, <3>2, <3>3
  <2>3. schedule' = [a \in Agents |-> schedule'[a]]
    BY <1>1
  <2>4. schedule' \in [Agents -> [due : Int, run : Time \cup {Never}]]
    BY <2>2, <2>3
  <2> QED
    BY <1>1, <1>5, <2>2, <2>4 DEF JobsTyped, IInv, Rows
<1>11. TypeOK'
  <2>1. DOMAIN inputs \subseteq DOMAIN asOf'
    BY <1>2 DEF IInv, TypeOK, Gains
  <2> QED
    BY <1>1, <1>2, <1>5, <2>1 DEF JobsTyped, IInv, TypeOK
<1>12. FrozenIsYoung'
  <2>1. \A d \in DOMAIN inputs : asOf'[d] = asOf[d]
    BY <1>2 DEF IInv, TypeOK, Gains
  <2> QED
    BY <1>1, <1>2, <2>1 DEF IInv, FrozenIsYoung
<1>13. DecisionDataIsFresh'
  BY <1>1 DEF IInv, DecisionDataIsFresh
<1> QED
  BY <1>6, <1>7, <1>8, <1>9, <1>10, <1>11, <1>12, <1>13 DEF IInv

LEMMA StutterKeeps == ASSUME IInv, UNCHANGED vars PROVE IInv'
<1> USE DEF IInv, vars
<1>1. TypeOK' /\ Rows' /\ JobsOfCycles'
  BY DEF TypeOK, Rows, JobsOfCycles
<1>2. FrozenIsYoung' /\ FanOutSharesArtifact' /\ DecisionDataIsFresh'
  BY DEF FrozenIsYoung, FanOutSharesArtifact, DecisionDataIsFresh
<1>3. WorkersHoldCycles' /\ Backlog'
  BY DEF WorkersHoldCycles, Backlog
<1> QED
  BY <1>1, <1>2, <1>3

LEMMA NextKeepsIInv == IInv /\ [Next]_vars => IInv'
<1> SUFFICES ASSUME IInv, [Next]_vars PROVE IInv'
  OBVIOUS
<1>1. ASSUME NEW block \in {"none", "account", "incident"}, Tick(block) PROVE IInv'
  BY <1>1, TickKeeps
<1>2. ASSUME NEW j \in DOMAIN job, RefreshQuotes(j) PROVE IInv'
  BY <1>2, RefreshQuotesKeeps
<1>3. ASSUME NEW w \in Workers, ResearchWork(w) PROVE IInv'
  BY <1>3, ClaimContextKeeps, CallHermesKeeps, SaveArtifactKeeps, EndResearchKeeps DEF ResearchWork
<1>4. ASSUME NEW w \in Workers, Crash(w) PROVE IInv'
  BY <1>4, CrashKeeps
<1>5. ASSUME NEW w \in Workers, LeaseLapses(w) PROVE IInv'
  BY <1>5, LeaseLapsesKeeps
<1>6. ASSUME NEW w \in Workers, NEW c \in Cycles, TakeResearch(w, c) PROVE IInv'
  BY <1>6, TakeResearchKeeps
<1>7. ASSUME NEW a \in Agents, NEW c \in Cycles, RunAgent(a, c) PROVE IInv'
  BY <1>7, RunAgentKeeps
<1>8. ASSUME NEW a \in Agents, NEW c \in Cycles, RunThenCrash(a, c) PROVE IInv'
  BY <1>8, RunThenCrashKeeps
<1>13. ASSUME NEW a \in Agents, NEW c \in Cycles, RefreshForOrder(a, c) PROVE IInv'
  BY <1>13, RefreshForOrderKeeps
<1>9. ASSUME NEW a \in Agents, Reconfigure(a) PROVE IInv'
  BY <1>9, ReconfigureKeeps
<1>10. Advance => IInv'
  BY AdvanceKeeps
<1>11. Publish => IInv'
  BY PublishKeeps
<1>12. UNCHANGED vars => IInv'
  BY StutterKeeps
<1> QED
  BY <1>1, <1>2, <1>3, <1>4, <1>5, <1>6, <1>7, <1>8, <1>9, <1>10, <1>11, <1>12, <1>13 DEF Next

-----------------------------------------------------------------------------
(* The theorems.                                                            *)

\* IInv holds in every reachable state: the strengthening the theorems below need.
THEOREM Invariance == Spec => []IInv
  BY InitIInv, NextKeepsIInv, PTL DEF Spec

\* Every variable keeps its type, through the scheduler, the refresh, the research
\* workers and their faults, and the runs.
THEOREM TypeCorrect == Spec => []TypeOK
<1>1. IInv => TypeOK
  BY DEF IInv
<1> QED
  BY <1>1, Invariance, PTL

\* However many workers raced for the research of a cycle, and however they lost
\* their leases, every run of the cycle, queued or begun, refers to the artifact
\* on record.
THEOREM OneArtifact == Spec => []FanOutSharesArtifact
<1>1. IInv => FanOutSharesArtifact
  BY DEF IInv
<1> QED
  BY <1>1, Invariance, PTL

\* No run decides on quotes older than the two ages allow together.
THEOREM FreshDecisions == Spec => []DecisionDataIsFresh
<1>1. IInv => DecisionDataIsFresh
  BY DEF IInv
<1> QED
  BY <1>1, Invariance, PTL

\* A step that enqueues a run of an agent that had one is a tick that found the
\* agent due.
LEMMA StepKeepsCadence ==
    ASSUME IInv, [Next]_vars, NEW a \in Agents,
           schedule[a].run # Never, schedule'[a].run # schedule[a].run
    PROVE  schedule'[a].run - schedule[a].run >= Frequency[a]
<1>1. schedule' # schedule
  OBVIOUS
<1>2. PICK block : Tick(block)
  BY <1>1 DEF Next, vars, RefreshQuotes, ResearchWork, ClaimContext, CallHermes, SaveArtifact,
              EndResearch, Crash, LeaseLapses, Disturbed, TakeResearch, RunAgent, RunThenCrash,
              RefreshForOrder, Reconfigure, Advance, Publish, ResearchFrame
<1>3. PICK c \in DOMAIN Elected : schedule'[a].run = now /\ Due(a, Elected[c])
  <2>1. PICK c \in Cycles : /\ c \in DOMAIN Elected
                            /\ \/ schedule'[a] = schedule[a]
                               \/ schedule'[a].run = schedule[a].run
                               \/ schedule'[a].run = now /\ Due(a, Elected[c])
    BY <1>2, TickEffects
  <2> QED
    BY <2>1
<1>4. Elected[c] \in Int /\ Elected[c] <= now /\ now \in Int
  <2>1. Time \subseteq Int
    BY Constants
  <2>2. now \in Time
    BY DEF IInv, TypeOK
  <2> QED
    BY <1>3, <2>1, <2>2, ElectedCycles
<1>5. schedule[a].run \in Int /\ Frequency[a] \in Int
  <2>1. schedule \in [Agents -> [due : Int, run : Time \cup {Never}]]
    BY DEF IInv, Rows
  <2>2. Time \subseteq Int /\ Never \in Int
    BY Constants
  <2>3. schedule[a].run \in Time \/ schedule[a].run = Never
    BY <2>1
  <2>4. schedule[a].run \in Int
    BY <2>2, <2>3
  <2>5. Frequency[a] \in Int
    BY Constants
  <2> QED
    BY <2>4, <2>5
<1>6. schedule[a].run <= Elected[c] - Frequency[a]
  BY <1>3 DEF Due, NoLater
<1> QED
  BY <1>3, <1>4, <1>5, <1>6

\* Two runs of one agent are enqueued at least its own cadence apart, whoever else
\* is in the cohort and sets the pace of the cycles.
THEOREM OwnCadence == Spec => RunsKeepCadence
<1>1. IInv /\ [Next]_vars =>
        [\A a \in Agents : (schedule[a].run # Never /\ schedule'[a].run # schedule[a].run)
            => schedule'[a].run - schedule[a].run >= Frequency[a]]_vars
  BY StepKeepsCadence
<1> QED
  BY <1>1, Invariance, PTL DEF Spec, RunsKeepCadence

\* Only a tick queues a job that is not the execution worker's.
LEMMA StepKeepsCeiling ==
    ASSUME IInv, [Next]_vars
    PROVE  /\ (\E j \in DOMAIN job' \ DOMAIN job : j[1] # "order")
                 => Cardinality(Live') <= MaxOutstanding
           /\ (\E a \in Agents : schedule[a].due # Never /\ schedule'[a].due # schedule[a].due)
                 => Cardinality(Live) < MaxOutstanding
<1>1. CASE \E block : Tick(block)
  <2>1. PICK block : Tick(block)
    BY <1>1
  <2>2. PICK c \in Cycles, inserted \in SUBSET Jobs :
            /\ job' = InsertInto(job, [j \in inserted |-> Queued(Payload(j))])
            /\ inserted \cap DOMAIN job = {} /\ IsFiniteSet(inserted)
            /\ inserted # {} => Cardinality(inserted) + Cardinality(Live) <= MaxOutstanding
            /\ \A a \in Agents : schedule[a].due # Never /\ schedule'[a].due # schedule[a].due
                  => Cardinality(Live) < MaxOutstanding
    BY <2>1, TickEffects
  <2> DEFINE rows == [j \in inserted |-> Queued(Payload(j))]
  <2>3. Gains(job, job') /\ DOMAIN job' = DOMAIN job \cup inserted
    <3>1. DOMAIN rows = inserted /\ job' = InsertInto(job, rows)
      BY <2>2
    <3> HIDE DEF rows
    <3>2. Gains(job, InsertInto(job, rows)) /\ DOMAIN InsertInto(job, rows) = DOMAIN job \cup DOMAIN rows
      BY DEF Gains, InsertInto
    <3> QED
      BY <3>1, <3>2
  <2>4. Live' \subseteq Live \cup inserted
    BY <2>3 DEF Live, Gains
  <2>5. /\ IsFiniteSet(Live \cup inserted)
        /\ Cardinality(Live \cup inserted)
             = Cardinality(Live) + Cardinality(inserted) - Cardinality(Live \cap inserted)
    BY <2>2, LiveIsFinite, FS_Union
  <2>6. Live \cap inserted = {} /\ Cardinality({}) = 0
    BY <2>2, FS_EmptySet DEF Live
  <2>7. Cardinality(Live) \in Nat /\ Cardinality(inserted) \in Nat
    BY <2>2, LiveIsFinite, FS_CardinalityType
  <2>8. Cardinality(Live') <= Cardinality(Live \cup inserted) /\ Cardinality(Live') \in Nat
    BY <2>4, <2>5, FS_Subset, FS_CardinalityType
  <2>9. Cardinality(Live \cup inserted) = Cardinality(Live) + Cardinality(inserted)
    BY <2>5, <2>6, <2>7
  <2>10. inserted # {} => Cardinality(Live') <= MaxOutstanding
    BY <2>2, <2>7, <2>8, <2>9, Constants
  <2> QED
    BY <2>2, <2>3, <2>10
<1>2. CASE ~ \E block : Tick(block)
  <2>1. schedule' = schedule
    BY <1>2 DEF Next, vars, RefreshQuotes, ResearchWork, ClaimContext, CallHermes, SaveArtifact,
                EndResearch, Crash, LeaseLapses, Disturbed, TakeResearch, RunAgent, RunThenCrash,
                RefreshForOrder, Reconfigure, Advance, Publish, ResearchFrame
  <2>2. DOMAIN job' = DOMAIN job \/ \E a \in Agents, c \in Cycles : RefreshForOrder(a, c)
    <3>1. ASSUME NEW j \in DOMAIN job
          PROVE  /\ DOMAIN Closed(j) = DOMAIN job /\ DOMAIN Retried(j) = DOMAIN job
      BY DEF Closed, Retried
    <3>2. ASSUME NEW w \in Workers, Crash(w) \/ LeaseLapses(w) PROVE DOMAIN job' = DOMAIN job
      BY <3>2 DEF Crash, LeaseLapses, Requeued
    <3>3. ASSUME NEW w \in Workers, ResearchWork(w) PROVE DOMAIN job' = DOMAIN job
      BY <3>3 DEF ResearchWork, ClaimContext, CallHermes, SaveArtifact, EndResearch, Closed, Retried
    <3>4. ASSUME NEW w \in Workers, NEW c \in Cycles, TakeResearch(w, c) PROVE DOMAIN job' = DOMAIN job
      BY <3>4 DEF TakeResearch, Retried, Closed
    <3>5. ASSUME NEW j \in DOMAIN job, RefreshQuotes(j) PROVE DOMAIN job' = DOMAIN job
      BY <3>1, <3>5 DEF RefreshQuotes
    <3>6. ASSUME NEW a \in Agents, NEW c \in Cycles, RunAgent(a, c) \/ RunThenCrash(a, c)
          PROVE  DOMAIN job' = DOMAIN job
      BY <3>1, <3>6 DEF RunAgent, RunThenCrash
    <3>7. Advance \/ Publish \/ (\E a \in Agents : Reconfigure(a)) \/ UNCHANGED vars
            => DOMAIN job' = DOMAIN job
      BY DEF Advance, Publish, Reconfigure, vars
    <3> QED
      BY <1>2, <3>2, <3>3, <3>4, <3>5, <3>6, <3>7 DEF Next
  <2>3. ASSUME NEW a \in Agents, NEW c \in Cycles, RefreshForOrder(a, c)
        PROVE  \A j \in DOMAIN job' \ DOMAIN job : j[1] = "order"
    <3>1. DOMAIN job' = DOMAIN job \cup {Order(a, c)}
      BY <2>3, InsertRow DEF RefreshForOrder
    <3> QED
      BY <3>1 DEF Order
  <2> QED
    BY <2>1, <2>2, <2>3
<1> QED
  BY <1>1, <1>2

\* Whatever the execution worker has queued beside it, a tick that queues anything
\* leaves the three queues within their ceiling, and one that finds them full moves
\* no agent's due time, however many agents are due.
THEOREM BackpressureHolds == Spec => TicksKeepCeiling
<1>1. IInv /\ [Next]_vars =>
        [/\ (\E j \in DOMAIN job' \ DOMAIN job : j[1] # "order")
               => Cardinality(Live') <= MaxOutstanding
         /\ (\E a \in Agents : schedule[a].due # Never /\ schedule'[a].due # schedule[a].due)
               => Cardinality(Live) < MaxOutstanding]_vars
  BY StepKeepsCeiling
<1> QED
  BY <1>1, Invariance, PTL DEF Spec, TicksKeepCeiling
=============================================================================
