------------------------------ MODULE PlanCycles ------------------------------
(***************************************************************************)
(* The Paper scheduler and what it schedules: the election of plan cycles, *)
(* the market-data refresh and the one Hermes research of each cycle, the  *)
(* fan-out of the cycle to the agents of its cohort, and the check of the  *)
(* shared artifact where an agent run begins; and the market-data jobs     *)
(* that the execution worker queues beside the scheduler.                  *)
(*                                                                         *)
(* A scheduler tick is one transaction of app.schedule_paper_agent_jobs,   *)
(* which one replica runs at a time under an advisory lock.  One plan with *)
(* one agent version; how a run decides is AgentPipeline.                  *)
(***************************************************************************)
EXTENDS Integers, FiniteSets

CONSTANTS
    Agents,           \* user agents, in the order of their ids
    Frequency,        \* monitoringFrequencyMinutes of each
    Watches,          \* the configured symbol of each
    Symbols,          \* research_universe of the catalog entry
    Workers,          \* research workers
    MaxOutstanding,   \* AGENT_SCHEDULER_MAX_OUTSTANDING_JOBS
    BatchSize,        \* AGENT_SCHEDULER_BATCH_SIZE
    ResearchAge,      \* quote age at which research may still be frozen
    CycleAge,         \* age at which a cycle no longer runs (300 s)
    UserQuoteAge,     \* maximumQuoteAgeSeconds of the risk policies
    Delay,            \* how far behind the clock the provider's quotes may be
    QuoteWindow, Skew, ReplyWindow,   \* see HermesResearch
    MaxAttempts,      \* max_attempts, by the kind of the job
    MaxTime,          \* bound of the clock
    MaxCatalogs,      \* bound of the published catalogs
    MaxChanges,       \* bound of the configuration changes of agents
    MaxFaults         \* bound of crashes, lapsed leases and expired locks

Never == -1
Time == 0 .. MaxTime
Cycles == (1 .. MaxCatalogs) \X Time     \* catalog version and bucket

INSTANCE HermesResearch

ASSUME PlanAssumption ==
    /\ Agents \subseteq Nat \ {0} /\ IsFiniteSet(Agents)
    /\ Frequency \in [Agents -> Nat \ {0}]
    /\ Watches \in [Agents -> Symbols]
    /\ MaxAttempts \in [{"refresh", "research", "quote", "run", "order"} -> Nat \ {0}]
    /\ {MaxOutstanding, BatchSize, ResearchAge, CycleAge} \subseteq Nat \ {0}
    /\ {UserQuoteAge, Delay, QuoteWindow, Skew, ReplyWindow, MaxTime, MaxCatalogs,
        MaxChanges, MaxFaults} \subseteq Nat

VARIABLES
    now,
    catalog,     \* the current plan_agent_catalog_versions row
    since,       \* effective_at of each agent's configuration; Never: not eligible
    asOf,        \* evaluation_as_of of the paper_plan_cycles
    quotes,      \* market_data_snapshots: the timestamps held of each symbol
    inputs,      \* paper_plan_research_inputs of the cycles
    artifacts,   \* paper_plan_research_artifacts of the cycles
    job,         \* queue_jobs, by idempotency key
    schedule,    \* paper_agent_schedule_states
    runs,        \* agent_runs, by agent and cycle
    worker,      \* what each research worker does
    changes, faults

vars == <<now, catalog, since, asOf, quotes, inputs, artifacts, job, schedule, runs,
          worker, changes, faults>>

Refresh(c) == <<"refresh", 0, c>>
Research(c) == <<"research", 0, c>>
Quote(a, c) == <<"quote", a, c>>
Run(a, c) == <<"run", a, c>>
Order(a, c) == <<"order", a, c>>      \* a quote for the order of a run's proposal
Jobs == ({"refresh", "research"} \X {0} \X Cycles) \cup ({"quote", "run", "order"} \X Agents \X Cycles)

\* payload: the artifact a run refers to by its id and digest.
Queued(payload) == [state |-> "queued", attempts |-> 0, payload |-> payload]
Live == {j \in DOMAIN job : job[j].state \in {"queued", "leased"}}
None == << >>
Idle == [pc |-> "idle", cycle |-> None, request |-> None, reply |-> None,
         leased |-> FALSE, locked |-> FALSE]

Init ==
    /\ now \in Time /\ catalog \in 1 .. MaxCatalogs
    /\ since \in [Agents -> {0, Never}]
    /\ asOf = << >> /\ inputs = << >> /\ artifacts = << >> /\ job = << >> /\ runs = << >>
    /\ quotes = [s \in Symbols |-> {}]
    /\ schedule = [a \in Agents |-> [due |-> Never, run |-> Never]]
    /\ worker = [w \in Workers |-> Idle]
    /\ changes \in 0 .. MaxChanges /\ faults \in 0 .. MaxFaults

\* INSERT ... ON CONFLICT DO NOTHING: the rows a table has already stay.
Row(key, value) == [k \in {key} |-> value]
InsertInto(table, rows) ==
    [k \in DOMAIN table \cup DOMAIN rows |-> IF k \in DOMAIN table THEN table[k] ELSE rows[k]]

Greatest(S) == CHOOSE x \in S : \A y \in S : y <= x
Least(S) == CHOOSE x \in S : \A y \in S : x <= y
NoLater(t, limit) == t = Never \/ t <= limit

\* Completed or dead-lettered: the scheduler tells no difference.
Closed(j) == [job EXCEPT ![j].state = "closed", ![j].attempts = 0]

\* One more attempt of a job has failed.
\* Mutant: it is retried without end.
RetriedForever(j) == [job EXCEPT ![j].attempts = @ + 1, ![j].state = "queued"]
Retried(j) ==
    IF job[j].attempts + 1 >= MaxAttempts[j[1]] THEN Closed(j)
    ELSE [job EXCEPT ![j].attempts = @ + 1, ![j].state = "queued"]

-----------------------------------------------------------------------------
(* The scheduler                                                            *)

Cohort == {a \in Agents : since[a] # Never}
Pace == Least({Frequency[a] : a \in Cohort})
Bucket == (now \div Pace) * Pace
Current == <<catalog, Bucket>>

\* One cycle for each bucket in which somebody is eligible.
Elected == IF Cohort = {} \/ Current \in DOMAIN asOf THEN asOf ELSE InsertInto(asOf, Row(Current, now))

\* The cycle of the current catalog with the last bucket, if there is one.
LatestOf(elected) ==
    {c \in DOMAIN elected : c[1] = catalog /\ \A d \in DOMAIN elected : d[1] = catalog => d[2] <= c[2]}

ResearchJobs(latest) ==
    IF Cohort # {} /\ Current = latest /\ Current \notin DOMAIN artifacts
    THEN {Refresh(Current), Research(Current)} ELSE {}

\* The first of the eligible agents that were configured before the cycle,
\* whether they are due or not.
Candidates(instant) ==
    LET bound == {a \in Cohort : since[a] <= instant}
    IN {a \in bound : Cardinality({b \in bound : b < a}) < BatchSize}

LastStarted(a) ==
    LET own == {r \in DOMAIN runs : r[1] = a}
    IN IF own = {} THEN Never ELSE Greatest({runs[r].at : r \in own})

\* Mutant: the pace of the cycles is the cadence of every agent.
DueEachCycle(a, instant) == NoLater(LastStarted(a), instant) /\ NoLater(schedule[a].run, instant)
Due(a, instant) ==
    /\ NoLater(schedule[a].due, now)
    /\ NoLater(LastStarted(a), instant - Frequency[a])
    /\ NoLater(schedule[a].run, instant - Frequency[a])

QuoteFresh(a) == \E t \in quotes[Watches[a]] : t \in (now - UserQuoteAge) .. (now + Skew)

\* An idempotency key that was ever inserted is not inserted again.
Insertable(wanted) == wanted \ DOMAIN job

\* The order in which a tick inserts.
Rank(j) == CASE j[1] = "refresh" -> 0 [] j[1] = "research" -> 1
             [] j[1] = "quote" -> 2 * j[2] [] OTHER -> 2 * j[2] + 1

\* Backpressure: what is left of the bound when the tick comes to j.
\* Mutant: only what the scheduler itself queued is counted.
RoomBesideOrders(j, wanted) ==
    Cardinality({k \in Insertable(wanted) : Rank(k) < Rank(j)})
        + Cardinality({k \in Live : k[1] # "order"}) < MaxOutstanding
Room(j, wanted) ==
    Cardinality({k \in Insertable(wanted) : Rank(k) < Rank(j)}) + Cardinality(Live) < MaxOutstanding

\* A plan_research job refers to the cycle alone, a run to the cycle's artifact.
Payload(j) == IF j[1] = "run" THEN artifacts[j[3]] ELSE None

\* What the fan-out of cycle c asks for: a quote for every due agent, a run for
\* those that lack nothing.  block: a blocking system incident, or account
\* snapshots gone stale.
Running(c, due, block) ==
    {a \in due : block = "none" /\ c \in DOMAIN artifacts /\ QuoteFresh(a)}
FanOut(c, due, block) ==
    IF block = "incident" THEN {}
    ELSE {Quote(a, c) : a \in due} \cup {Run(a, c) : a \in Running(c, due, block)}

\* What the tick writes, once the cycles are elected and the due agents are known.
Serve(elected, c, due, block) ==
    LET evaluated == Candidates(elected[c])
        running == Running(c, due, block)
        wanted == ResearchJobs(c) \cup FanOut(c, due, block)
        inserted == {j \in Insertable(wanted) : Room(j, wanted)}
    IN /\ asOf' = elected
       /\ job' = InsertInto(job, [j \in inserted |-> Queued(Payload(j))])
       /\ schedule' = [a \in Agents |->
             IF a \notin evaluated THEN schedule[a]
             ELSE [due |-> IF a \in running /\ Room(Run(a, c), wanted) THEN now + Frequency[a]
                           ELSE IF schedule[a].due = Never THEN elected[c] ELSE schedule[a].due,
                   run |-> IF Run(a, c) \in inserted THEN now ELSE schedule[a].run]]
       /\ UNCHANGED <<now, catalog, since, quotes, inputs, artifacts, runs, worker, changes, faults>>

\* runOnce: one tick, in one transaction.
Tick(block) ==
    \E elected \in {Elected} : \E c \in LatestOf(elected) :
    \E due \in {{a \in Candidates(elected[c]) : Due(a, elected[c])}} :
        Serve(elected, c, due, block)

-----------------------------------------------------------------------------
(* The market data service                                                  *)

Asked(j) == IF j[1] = "refresh" THEN Symbols ELSE {Watches[j[2]]}

\* validateProviderQuote: what is at most Skew ahead of the clock is let through.
Stamps == {now - Delay, now, now + Skew}

\* The provider's quotes are saved one by one, in no transaction: a failure in
\* between leaves some of them.
RefreshQuotes(j) ==
    /\ j[1] \in {"refresh", "quote", "order"} /\ job[j].state = "queued"
    /\ \E t \in Stamps, saved \in SUBSET Asked(j) :
          /\ quotes' = [s \in Symbols |-> IF s \in saved THEN quotes[s] \cup {t} ELSE quotes[s]]
          /\ job' = IF saved = Asked(j) THEN Closed(j) ELSE Retried(j)
    /\ UNCHANGED <<now, catalog, since, asOf, inputs, artifacts, schedule, runs, worker, changes, faults>>

\* handleExecutionPrerequisiteFailure: the order of a run's proposal finds no fresh
\* quote, and the execution worker asks for one, outside the scheduler's lock and
\* whatever its ceiling.  A proposal asks once here: one bucket of the key.
RefreshForOrder(a, c) ==
    /\ <<a, c>> \in DOMAIN runs /\ ~QuoteFresh(a)
    /\ Order(a, c) \notin DOMAIN job
    /\ job' = InsertInto(job, Row(Order(a, c), Queued(None)))
    /\ UNCHANGED <<now, catalog, since, asOf, quotes, inputs, artifacts, schedule, runs, worker,
                   changes, faults>>

-----------------------------------------------------------------------------
(* Plan-cycle research                                                      *)

Step(w, pc) == worker' = [worker EXCEPT ![w].pc = pc]
ResearchFrame == <<now, catalog, since, asOf, quotes, schedule, runs, changes>>

\* A worker claims the job and takes the lock of its cycle.
TakeResearch(w, c) ==
    /\ worker[w].pc = "idle"
    /\ Research(c) \in DOMAIN job /\ job[Research(c)].state = "queued"
    /\ IF \E v \in Workers : worker[v].locked /\ worker[v].cycle = c
       THEN job' = Retried(Research(c)) /\ UNCHANGED worker
       ELSE /\ job' = [job EXCEPT ![Research(c)].state = "leased"]
            /\ worker' = [worker EXCEPT ![w] = [Idle EXCEPT !.pc = "claim", !.cycle = c,
                                                            !.leased = TRUE, !.locked = TRUE]]
    /\ UNCHANGED <<ResearchFrame, inputs, artifacts, faults>>

\* The last quote of a symbol that research may use.
Usable(s, c) == {t \in quotes[s] : t <= asOf[c] + Skew /\ t > now - ResearchAge}
Frozen(c) == [s \in Symbols |-> Greatest(Usable(s, c))]

\* findByCycle, and claimContext: the input is frozen once; while it is young it is
\* used again, and later only when the quotes would do for a new one.
ClaimContext(w) ==
    LET c == worker[w].cycle
        young == /\ c \in DOMAIN inputs
                 /\ asOf[c] > now - ResearchAge /\ asOf[c] > now - CycleAge
        ready == \A s \in Symbols : Usable(s, c) # {}
    IN /\ worker[w].pc = "claim"
       /\ IF c \in DOMAIN artifacts THEN Step(w, "complete") /\ UNCHANGED inputs
          ELSE IF c[1] = catalog /\ (young \/ ready)
          THEN /\ inputs' = IF c \in DOMAIN inputs THEN inputs ELSE InsertInto(inputs, Row(c, Frozen(c)))
               /\ worker' = [worker EXCEPT ![w].pc = "call",
                     ![w].request = [cycle |-> c, asOf |-> asOf[c], quotes |-> inputs'[c]]]
          ELSE Step(w, "fail") /\ UNCHANGED inputs
       /\ UNCHANGED <<ResearchFrame, artifacts, job, faults>>

\* The call of Hermes: no two workers get the same text of it.
CallHermes(w) ==
    LET request == worker[w].request IN
    /\ worker[w].pc = "call"
    /\ \E reply \in {Reply(request, w, now)} \cup Deviations(Reply(request, w, now)) :
          worker' = [worker EXCEPT
              ![w].pc = IF ValidRequest(request) /\ Accepts(request, reply, now) THEN "save" ELSE "fail",
              ![w].reply = IF ValidRequest(request) /\ Accepts(request, reply, now)
                           THEN Sanitized(request, reply) ELSE None]
    /\ UNCHANGED <<ResearchFrame, inputs, artifacts, job, faults>>

\* record_paper_plan_research_artifact: the first artifact of a cycle stays.
\* Mutant: the last artifact stays.
Overwrite(c, artifact) == InsertInto(Row(c, artifact), artifacts)
Recorded(c, artifact) == InsertInto(artifacts, Row(c, artifact))

SaveArtifact(w) ==
    LET c == worker[w].cycle
        artifact == worker[w].reply
        valid == /\ ValidArtifact(artifact)
                 /\ artifact.requestId = c
                 /\ artifact.request.quotes = inputs[c] /\ artifact.symbols = DOMAIN inputs[c]
    IN /\ worker[w].pc = "save"
       /\ artifacts' = IF valid THEN Recorded(c, artifact) ELSE artifacts
       /\ Step(w, IF valid /\ artifacts'[c] = artifact THEN "complete" ELSE "fail")
       /\ UNCHANGED <<ResearchFrame, inputs, job, faults>>

\* The end of the handler: the lock is released, and the queue told if the lease
\* still holds.
EndResearch(w) ==
    LET j == Research(worker[w].cycle) IN
    /\ worker[w].pc \in {"complete", "fail"}
    /\ job' = IF ~worker[w].leased THEN job
              ELSE IF worker[w].pc = "complete" THEN Closed(j)
              ELSE Retried(j)
    /\ worker' = [worker EXCEPT ![w] = Idle]
    /\ UNCHANGED <<ResearchFrame, inputs, artifacts, faults>>

\* A worker that stops, loses its lease (heartbeats failed) or outlives its lock.
Requeued(w) == IF worker[w].leased THEN [job EXCEPT ![Research(worker[w].cycle)].state = "queued"]
               ELSE job
Disturbed(w) ==
    /\ worker[w].pc # "idle"
    /\ faults < MaxFaults /\ faults' = faults + 1
    /\ UNCHANGED <<ResearchFrame, inputs, artifacts>>

Crash(w) ==
    /\ Disturbed(w)
    /\ job' = Requeued(w)
    /\ worker' = [worker EXCEPT ![w] = Idle]

LeaseLapses(w) ==
    /\ Disturbed(w) /\ worker[w].leased
    /\ job' = Requeued(w)
    /\ \E locked \in {FALSE, worker[w].locked} :
          worker' = [worker EXCEPT ![w].leased = FALSE, ![w].locked = locked]

-----------------------------------------------------------------------------
(* Agent runs                                                               *)

\* validatePlanCycleResearch, where the run's transaction begins.
\* Mutant: any age of the cycle will do.
ResearchValidAtAnyAge(a, c, artifact) ==
    /\ c[1] = catalog /\ since[a] # Never
    /\ c \in DOMAIN artifacts /\ artifacts[c] = artifact /\ Represents(artifact, Watches[a])
ResearchValid(a, c, artifact) ==
    /\ c[1] = catalog /\ since[a] # Never
    /\ asOf[c] > now - CycleAge
    /\ c \in DOMAIN artifacts /\ artifacts[c] = artifact
    /\ Represents(artifact, Watches[a])

\* A run that is delivered again is replayed from its row.
RunAgent(a, c) ==
    LET j == Run(a, c) IN
    /\ j \in DOMAIN job /\ job[j].state = "queued"
    /\ IF <<a, c>> \in DOMAIN runs
       THEN job' = Closed(j) /\ UNCHANGED runs
       ELSE IF ResearchValid(a, c, job[j].payload)
       THEN /\ runs' = InsertInto(runs, Row(<<a, c>>, [at |-> now, artifact |-> job[j].payload]))
            /\ job' = Closed(j)
       ELSE job' = Retried(j) /\ UNCHANGED runs
    /\ UNCHANGED <<now, catalog, since, asOf, quotes, inputs, artifacts, schedule, worker, changes, faults>>

\* The run was committed, and its worker stopped before it told the queue.
RunThenCrash(a, c) ==
    LET j == Run(a, c) IN
    /\ j \in DOMAIN job /\ job[j].state = "queued" /\ faults < MaxFaults
    /\ <<a, c>> \notin DOMAIN runs /\ ResearchValid(a, c, job[j].payload)
    /\ runs' = InsertInto(runs, Row(<<a, c>>, [at |-> now, artifact |-> job[j].payload]))
    /\ faults' = faults + 1
    /\ UNCHANGED <<now, catalog, since, asOf, quotes, inputs, artifacts, job, schedule, worker, changes>>

-----------------------------------------------------------------------------
(* The world                                                                *)

\* Quotes too old for every reader are dropped.
Advance ==
    /\ now < MaxTime
    /\ now' = now + 1
    /\ quotes' = [s \in Symbols |-> {t \in quotes[s] : t > now + 1 - ResearchAge}]
    /\ UNCHANGED <<catalog, since, asOf, inputs, artifacts, job, schedule, runs, worker, changes, faults>>

\* An agent is paused, disconnected or not entitled any more; or configured anew.
Reconfigure(a) ==
    /\ changes < MaxChanges /\ changes' = changes + 1
    /\ since' = [since EXCEPT ![a] = IF @ = Never THEN now ELSE Never]
    /\ UNCHANGED <<now, catalog, asOf, quotes, inputs, artifacts, job, schedule, runs, worker, faults>>

Publish ==
    /\ catalog < MaxCatalogs /\ catalog' = catalog + 1
    /\ UNCHANGED <<now, since, asOf, quotes, inputs, artifacts, job, schedule, runs, worker, changes, faults>>

-----------------------------------------------------------------------------
ResearchWork(w) == ClaimContext(w) \/ CallHermes(w) \/ SaveArtifact(w) \/ EndResearch(w)

Next ==
    \/ \E block \in {"none", "account", "incident"} : Tick(block)
    \/ \E j \in DOMAIN job : RefreshQuotes(j)
    \/ \E w \in Workers : \/ ResearchWork(w) \/ Crash(w) \/ LeaseLapses(w)
                          \/ \E c \in Cycles : TakeResearch(w, c)
    \/ \E a \in Agents, c \in Cycles : RunAgent(a, c) \/ RunThenCrash(a, c) \/ RefreshForOrder(a, c)
    \/ \E a \in Agents : Reconfigure(a)
    \/ Advance \/ Publish

Spec == Init /\ [][Next]_vars

-----------------------------------------------------------------------------
(* Properties                                                               *)

\* Every variable keeps its type.
TypeOK ==
    /\ now \in Time /\ catalog \in 1 .. MaxCatalogs
    /\ since \in [Agents -> Time \cup {Never}]
    /\ DOMAIN asOf \subseteq Cycles /\ \A c \in DOMAIN asOf : asOf[c] \in Time
    /\ DOMAIN job \subseteq Jobs
    /\ \A j \in DOMAIN job : /\ job[j].state \in {"queued", "leased", "closed"}
                             /\ job[j].attempts \in 0 .. MaxAttempts[j[1]]
    /\ DOMAIN artifacts \subseteq DOMAIN inputs /\ DOMAIN inputs \subseteq DOMAIN asOf
    /\ DOMAIN runs \subseteq Agents \X Cycles
    /\ faults \in 0 .. MaxFaults /\ changes \in 0 .. MaxChanges

\* Whatever workers raced for a cycle's research, every run of the cycle, queued
\* or begun, refers to the one artifact on record.
FanOutSharesArtifact ==
    /\ \A j \in DOMAIN job : j[1] = "run" => job[j].payload = artifacts[j[3]]
    /\ \A r \in DOMAIN runs : runs[r].artifact = artifacts[r[2]]

\* Two runs of one agent are enqueued at least its own cadence apart, also when a
\* faster member of the cohort sets the pace of the cycles.
RunsKeepCadence ==
    [][\A a \in Agents : (schedule[a].run # Never /\ schedule'[a].run # schedule[a].run)
          => schedule'[a].run - schedule[a].run >= Frequency[a]]_vars

\* A tick that queues anything leaves the three queues within the ceiling, though it
\* is not their only producer: where the execution worker has filled or overrun them,
\* it queues nothing and leaves the agents due for a later tick.
TicksKeepCeiling ==
    [][/\ (\E j \in DOMAIN job' \ DOMAIN job : j[1] # "order") => Cardinality(Live') <= MaxOutstanding
       /\ (\E a \in Agents : schedule[a].due # Never /\ schedule'[a].due # schedule[a].due)
             => Cardinality(Live) < MaxOutstanding]_vars

\* No run decides on research whose quotes are older than a frozen input may be
\* plus the age a cycle may have, however often the research was retried.  Either
\* age is a strict bound, so in whole units of time each gives one less.
DecisionDataIsFresh ==
    \A r \in DOMAIN runs : \A s \in Symbols :
        runs[r].at - runs[r].artifact.request.quotes[s] <= (ResearchAge - 1) + (CycleAge - 1)
=============================================================================
