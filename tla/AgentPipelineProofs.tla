------------------------- MODULE AgentPipelineProofs -------------------------
(***************************************************************************)
(* The agent runs of a user, for any number of agents, runs, workers and   *)
(* symbols, every policy within the platform's limits, and every           *)
(* interleaving of the transactions with the user's actions.               *)
(***************************************************************************)
EXTENDS AgentPipeline, RiskEngineProofs, FiniteSetTheorems

\* A proposal exists once its run is decided; a transaction whose run another
\* one decided has missed that commit.
RunsDecided ==
    /\ \A r \in Runs : runs[r] = "none" => proposals[r] = NoProposal
    /\ \A w \in Workers :
          txns[w].open /\ runs[txns[w].run] # "none" => \E m \in txns[w].missed : m.run = txns[w].run

\* There is an order once the submission began, and it ends with its proposal.
OrdersFollowProposals ==
    \A r \in Runs :
        /\ orders[r] = "open" => proposals[r].status = "SUBMITTING"
        /\ orders[r] = "closed" => proposals[r].status \in {"FILLED", "CANCELED"}

\* Only an active agent's proposal is approved: pausing cancels the others.
ApprovedIsActive ==
    \A r \in Runs : proposals[r].status = "APPROVED" => Active(r[1])

\* Whatever live proposal of its symbol a transaction did not see, it missed.
DuplicatesMissed ==
    \A w \in Workers :
        txns[w].open /\ txns[w].decision \in DuplicateStatus =>
            \A r \in Proposed :
                proposals[r].symbol = txns[w].symbol /\ proposals[r].status \in DuplicateStatus =>
                    \E m \in txns[w].missed : m.symbol = txns[w].symbol /\ m.decision \in DuplicateStatus

\* What is in force for a transaction leaves room for its own reservation,
\* unless it missed another reservation.
Covers(t) == Policy.reserve * Value <= (t.power - Reserved(InForce(t.at)) - Amount) * 100
PowerCovers ==
    \A w \in Workers :
        txns[w].open /\ Reserves(txns[w].decision) =>
            (\E m \in txns[w].missed : Reserves(m.decision)) \/ Covers(txns[w])

IInv ==
    /\ TypeOK /\ RunsDecided /\ OrdersFollowProposals /\ ApprovedIsActive
    /\ ReservationFollowsProposal /\ OneLiveProposal /\ DuplicatesMissed /\ PowerCovers

LEMMA Constants ==
    /\ IsFiniteSet(Agents) /\ Value \in Nat /\ Amount \in Nat /\ Lifetime \in Nat
    /\ MaxRuns \in Nat /\ MaxChanges \in Nat /\ MaxTime \in Nat
    /\ Powers \subseteq Nat /\ QuoteAges \subseteq Nat
    /\ Policy.reserve \in Nat /\ Policy.reserve * Value \in Nat
<1>1. Policy.reserve \in Nat
  BY PipelineAssumption DEF Limits, Platform
<1> QED
  BY <1>1, PipelineAssumption

-----------------------------------------------------------------------------
(* The capital of sets of reservations.                                     *)

LEMMA RunsFinite == IsFiniteSet(Runs)
<1>1. IsFiniteSet(1..MaxRuns)
  BY Constants, FS_Interval
<1>2. IsFiniteSet(Agents)
  BY Constants
<1>3. IsFiniteSet(Agents \X (1..MaxRuns))
  BY <1>1, <1>2, FS_Product
<1> QED
  BY <1>3 DEF Runs

LEMMA HeldFinite == ASSUME TypeOK, NEW S \in SUBSET held PROVE IsFiniteSet(S)
  BY RunsFinite, FS_Subset DEF TypeOK, Proposed

\* Fewer reservations hold no more capital.
LEMMA ReservedMonotone ==
    ASSUME NEW S, NEW T, IsFiniteSet(T), S \subseteq T
    PROVE  Reserved(S) \in Nat /\ Reserved(T) \in Nat /\ Reserved(S) <= Reserved(T)
<1>1. IsFiniteSet(S) /\ Cardinality(S) <= Cardinality(T)
  BY FS_Subset
<1>2. Cardinality(S) \in Nat /\ Cardinality(T) \in Nat
  BY <1>1, FS_CardinalityType
<1>3. Amount \in Nat
  BY Constants
<1>4. Cardinality(S) * Amount <= Cardinality(T) * Amount
  BY <1>1, <1>2, <1>3, ProductMonotone
<1> QED
  BY <1>2, <1>3, <1>4 DEF Reserved

\* One more holds Amount more.
LEMMA ReservedAdd ==
    ASSUME NEW S, IsFiniteSet(S), NEW r
    PROVE  Reserved(S \cup {r}) \in Nat /\ Reserved(S) \in Nat /\ Reserved(S \cup {r}) <= Reserved(S) + Amount
<1>1. IsFiniteSet(S \cup {r}) /\ Cardinality(S \cup {r}) <= Cardinality(S) + 1
  <2>1. IsFiniteSet(S \cup {r})
        /\ Cardinality(S \cup {r}) = IF r \in S THEN Cardinality(S) ELSE Cardinality(S) + 1
    BY FS_AddElement
  <2>2. Cardinality(S) \in Nat
    BY FS_CardinalityType
  <2> QED
    BY <2>1, <2>2
<1>2. Cardinality(S) \in Nat /\ Cardinality(S \cup {r}) \in Nat /\ Amount \in Nat
  BY <1>1, FS_CardinalityType, Constants
<1>3. Cardinality(S \cup {r}) * Amount <= (Cardinality(S) + 1) * Amount
  BY <1>1, <1>2, ProductMonotone
<1>4. (Cardinality(S) + 1) * Amount = Cardinality(S) * Amount + Amount
  BY <1>2
<1> QED
  BY <1>2, <1>3, <1>4 DEF Reserved

\* A set is what is one agent's in it and what is not.
LEMMA ReservedSplit ==
    ASSUME NEW S, IsFiniteSet(S), NEW a
    PROVE  Reserved({r \in S : (r[1] = a) = TRUE}) + Reserved({r \in S : (r[1] = a) = FALSE}) = Reserved(S)
<1> DEFINE A == {r \in S : r[1] = a}
           B == {r \in S : r[1] # a}
<1>1. A \cup B = S /\ A \cap B = {} /\ A \subseteq S /\ B \subseteq S
  OBVIOUS
<1>2. IsFiniteSet(A) /\ IsFiniteSet(B)
  BY <1>1, FS_Subset
<1>4. Cardinality(A) \in Nat /\ Cardinality(B) \in Nat /\ Amount \in Nat
  BY <1>2, FS_CardinalityType, Constants
<1>3. Cardinality(S) = Cardinality(A) + Cardinality(B)
  <2> HIDE DEF A, B
  <2>1. Cardinality(A \cup B) = Cardinality(A) + Cardinality(B) - Cardinality(A \cap B)
    BY <1>2, FS_Union
  <2>2. Cardinality(A \cap B) = 0
    BY <1>1, FS_EmptySet
  <2>3. A \cup B = S
    BY <1>1
  <2>4. Cardinality(S) = Cardinality(A) + Cardinality(B) - 0
    BY <2>1, <2>2, <2>3
  <2> QED
    BY <1>4, <2>4
<1>5. Reserved(A) + Reserved(B) = Reserved(S)
  BY <1>3, <1>4 DEF Reserved
<1>6. {r \in S : (r[1] = a) = TRUE} = A /\ {r \in S : (r[1] = a) = FALSE} = B
  OBVIOUS
<1> QED
  BY <1>5, <1>6

-----------------------------------------------------------------------------
(* What a run decides.                                                      *)

\* A buy that passes duplicates no proposal and leaves the policy's reserve.
LEMMA BuyPasses ==
    ASSUME NEW dataAt, NEW expires, NEW c, Passed(Buy(dataAt, expires), Policy, c)
    PROVE  /\ "NO_DUPLICATE_PROPOSAL" \notin c.raised
           /\ Policy.reserve * c.accountValue <= (Available(c) - Amount) * 100
<1> DEFINE p == Buy(dataAt, expires)
<1>1. ~ProtectiveExit(p, Policy, c)
  BY DEF ProtectiveExit, Buy, NoExit
<1>2. "NO_DUPLICATE_PROPOSAL" \notin c.raised
  BY <1>1 DEF Passed, FactFailures, Facts
<1>3. ExposureFailures(p, Policy, c) = {}
  BY <1>1 DEF Passed
<1>4. ~IsSale(p) /\ p.notional = Amount
  BY DEF IsSale, Buy
<1>5. ExposureHolds(p, Policy, c)
  <2> HIDE DEF p
  <2> QED
    BY <1>3, NoExposureFailure
<1> HIDE DEF p
<1> QED
  BY <1>2, <1>4, <1>5 DEF ExposureHolds

\* What is available to a run is what the snapshot has less what is in force.
LEMMA ContextAvailable ==
    ASSUME TypeOK, NEW a \in Agents, NEW symbol, NEW lacking
    PROVE  LET c == Context(a, symbol, Proposed, lacking)
           IN /\ Available(c) = balance.power - Reserved(InForce(now))
              /\ c.accountValue = Value
              /\ c.raised = Raised(symbol, Proposed, lacking)
<1> DEFINE S == InForce(now) \cap Proposed
           reserved(mine) == Reserved({r \in S : (r[1] = a) = mine})
<1>1. S = InForce(now) /\ IsFiniteSet(S)
  BY HeldFinite DEF InForce, TypeOK
<1>2. Reserved({r \in S : (r[1] = a) = TRUE}) + Reserved({r \in S : (r[1] = a) = FALSE}) = Reserved(S)
  BY <1>1, ReservedSplit
<1>3. /\ Reserved({r \in S : (r[1] = a) = TRUE}) \in Nat
      /\ Reserved({r \in S : (r[1] = a) = FALSE}) \in Nat
  BY <1>1, ReservedMonotone
<1>4. balance.power \in Nat
  BY DEF TypeOK
<1>5. LET c == Context(a, symbol, Proposed, lacking)
      IN /\ c.buyingPower = balance.power /\ c.accountValue = Value
         /\ c.ownReserved = Reserved({r \in S : (r[1] = a) = TRUE})
         /\ c.otherReserved = Reserved({r \in S : (r[1] = a) = FALSE})
         /\ c.raised = Raised(symbol, Proposed, lacking)
  BY DEF Context
<1> HIDE DEF S
<1> QED
  BY <1>1, <1>2, <1>3, <1>4, <1>5 DEF Available

\* A run that proposes what can be approved saw no duplicate and room for its buy.
LEMMA DecisionFacts ==
    ASSUME TypeOK, NEW a \in Agents, NEW quoteAt, NEW lacking
    PROVE  LET d == Decision(a, quoteAt, lacking)
           IN /\ d \in Decisions
              /\ d \in DuplicateStatus =>
                    /\ ~DuplicateProposal(agents[a].symbol, Proposed)
                    /\ Policy.reserve * Value <= (balance.power - Reserved(InForce(now)) - Amount) * 100
<1> DEFINE d == Decision(a, quoteAt, lacking)
           c == Context(a, agents[a].symbol, Proposed, lacking)
           p == Buy(OldestData(quoteAt), now + Lifetime)
<1>1. d \in Decisions
  BY DEF Decision, Decisions
<1>2. d \in DuplicateStatus => Passed(p, Policy, c)
  BY DEF Decision, DuplicateStatus
<1>3. Passed(p, Policy, c) => /\ "NO_DUPLICATE_PROPOSAL" \notin c.raised
                             /\ Policy.reserve * c.accountValue <= (Available(c) - Amount) * 100
  BY BuyPasses
<1>4. /\ Available(c) = balance.power - Reserved(InForce(now)) /\ c.accountValue = Value
      /\ c.raised = Raised(agents[a].symbol, Proposed, lacking)
  BY ContextAvailable
<1>5. "NO_DUPLICATE_PROPOSAL" \notin Raised(agents[a].symbol, Proposed, lacking)
          => ~DuplicateProposal(agents[a].symbol, Proposed)
  BY DEF Raised
<1> HIDE DEF c, p, d
<1>6. d \in Decisions /\ (d \in DuplicateStatus =>
                    /\ ~DuplicateProposal(agents[a].symbol, Proposed)
                    /\ Policy.reserve * Value <= (balance.power - Reserved(InForce(now)) - Amount) * 100)
  BY <1>1, <1>2, <1>3, <1>4, <1>5
<1> QED
  BY <1>6 DEF d

-----------------------------------------------------------------------------
(* What the steps do to the proposals.                                      *)

LEMMA ProposalFields ==
    /\ \A x \in ProposalState :
          /\ x.status \in ProposalStatus /\ x.symbol \in Symbols /\ x.mode \in Modes
          /\ x.dataAt \in Int /\ x.expires \in Int
    /\ NoProposal.status = "none" /\ NoProposal \notin ProposalState
  BY DEF ProposalState, NoProposal, ProposalStatus

LEMMA TxnFields ==
    /\ \A t \in TxnState :
          /\ t.open = TRUE /\ t.run \in Runs /\ t.at \in 0..MaxTime /\ t.power \in Nat
          /\ t.symbol \in Symbols /\ t.mode \in Modes /\ t.dataAt \in Int
          /\ t.decision \in Decisions /\ t.missed \subseteq TraceState
    /\ NoTxn.open = FALSE /\ NoTxn \notin TxnState
  BY DEF TxnState, NoTxn

\* The bodies of the action properties.
Once ==
    \A r \in Runs : runs[r] # "none" =>
        /\ runs'[r] = runs[r]
        /\ proposals[r] # NoProposal =>
             proposals'[r] = [proposals[r] EXCEPT !.status = proposals'[r].status]
        /\ proposals[r].status \in {"EXPIRED", "USER_REJECTED", "CANCELED", "FILLED"}
             => proposals'[r] = proposals[r]
SubmitsActive ==
    \A r \in Proposed :
        proposals[r].status = "APPROVED" /\ proposals'[r].status = "SUBMITTING" => Active(r[1])
LeavesReserve(w) ==
    LET t == txns[w] IN
    t.open /\ ~txns'[w].open /\ Reserves(t.decision) /\ t.run \in held' \ held
      => (t.power - Reserved({r \in held' : proposals'[r].expires > t.at})) * 100
             >= Policy.reserve * Value
Good == Once /\ SubmitsActive /\ \A w \in Workers : LeavesReserve(w)

LEMMA TxnMisses ==
    ASSUME NEW x \in TxnState, NEW m \in TraceState
    PROVE  LET y == [x EXCEPT !.missed = @ \cup {m}]
           IN /\ y \in TxnState /\ y.run = x.run /\ y.at = x.at /\ y.power = x.power
              /\ y.symbol = x.symbol /\ y.decision = x.decision /\ y.missed = x.missed \cup {m}
<1>1. x.missed \cup {m} \in SUBSET TraceState
  BY DEF TxnState
<1> QED
  BY <1>1 DEF TxnState

\* A step that changes nothing of a proposal but its status, and revives none.
Restated ==
    /\ proposals' \in [Runs -> ProposalState \cup {NoProposal}]
    /\ \A r \in Runs : proposals'[r] = NoProposal <=> proposals[r] = NoProposal
    /\ \A r \in Proposed :
          /\ proposals'[r] = [proposals[r] EXCEPT !.status = proposals'[r].status]
          /\ proposals'[r].symbol = proposals[r].symbol
          /\ proposals'[r].expires = proposals[r].expires
          /\ proposals'[r].status \in DuplicateStatus => proposals[r].status \in DuplicateStatus

LEMMA StatusSet ==
    ASSUME NEW p \in ProposalState, NEW st \in ProposalStatus
    PROVE  LET q == [p EXCEPT !.status = st]
           IN /\ q \in ProposalState /\ q.status = st /\ q.symbol = p.symbol /\ q.expires = p.expires
              /\ q = [p EXCEPT !.status = q.status]
  BY DEF ProposalState

LEMMA ProposedState ==
    ASSUME TypeOK, NEW r \in Proposed
    PROVE  r \in Runs /\ proposals[r] \in ProposalState /\ proposals[r].status \in ProposalStatus
  BY ProposalFields DEF TypeOK, Proposed

LEMMA SamePart == ASSUME NEW p \in ProposalState PROVE p = [p EXCEPT !.status = p.status]
  BY DEF ProposalState

LEMMA SetStatusRestates ==
    ASSUME TypeOK, NEW r \in Proposed, NEW st \in ProposalStatus,
           st \in DuplicateStatus => proposals[r].status \in DuplicateStatus,
           proposals' = SetStatus(r, st)
    PROVE  /\ Restated /\ proposals'[r].status = st
           /\ \A q \in Runs \ {r} : proposals'[q] = proposals[q]
<1>1. r \in Runs /\ proposals \in [Runs -> ProposalState \cup {NoProposal}] /\ proposals[r] \in ProposalState
  BY ProposedState DEF TypeOK
<1> DEFINE p == [proposals[r] EXCEPT !.status = st]
<1>2. /\ p \in ProposalState /\ p.status = st /\ p.symbol = proposals[r].symbol
      /\ p.expires = proposals[r].expires /\ p = [proposals[r] EXCEPT !.status = p.status]
  BY <1>1, StatusSet
<1>3. proposals' = [proposals EXCEPT ![r] = p]
  BY DEF SetStatus
<1>4. proposals' \in [Runs -> ProposalState \cup {NoProposal}] /\ proposals'[r] = p
      /\ \A q \in Runs \ {r} : proposals'[q] = proposals[q]
  <2> HIDE DEF p
  <2> QED
    BY <1>1, <1>2, <1>3
<1>5. \A q \in Proposed : q \in Runs /\ proposals[q] = [proposals[q] EXCEPT !.status = proposals[q].status]
  BY ProposedState, SamePart
<1>6. p # NoProposal /\ proposals[r] # NoProposal
  BY <1>1, <1>2, ProposalFields
<1> HIDE DEF p
<1> QED
  BY <1>2, <1>4, <1>5, <1>6 DEF Restated

LEMMA RestatedKeeps ==
    ASSUME IInv, Restated, held' \subseteq held, UNCHANGED <<runs, txns>>
    PROVE  /\ Proposed' = Proposed /\ RunsDecided' /\ OneLiveProposal' /\ DuplicatesMissed' /\ PowerCovers'
<1>1. Proposed' = Proposed
  BY DEF Restated, Proposed
<1>2. RunsDecided'
  BY DEF IInv, RunsDecided, Restated
<1>3. \A r \in Proposed :
          /\ proposals'[r].symbol = proposals[r].symbol
          /\ proposals'[r].status \in DuplicateStatus => proposals[r].status \in DuplicateStatus
  BY DEF Restated
<1>d. DuplicateStatus' = DuplicateStatus
  BY DEF DuplicateStatus
<1>4. OneLiveProposal'
  <2>1. OneLiveProposal
    BY DEF IInv
  <2>2. SUFFICES ASSUME NEW r \in Proposed, NEW s \in Proposed,
                        proposals'[r].status \in DuplicateStatus, proposals'[s].status \in DuplicateStatus,
                        proposals'[r].symbol = proposals'[s].symbol
                 PROVE  r = s
    BY <1>1, <1>d DEF OneLiveProposal
  <2>3. /\ proposals[r].status \in DuplicateStatus /\ proposals[s].status \in DuplicateStatus
        /\ proposals[r].symbol = proposals[s].symbol
    BY <1>3, <2>2
  <2> QED
    BY <2>1, <2>3 DEF OneLiveProposal
<1>5. DuplicatesMissed'
  <2>1. DuplicatesMissed
    BY DEF IInv
  <2>2. SUFFICES ASSUME NEW w \in Workers, txns[w].open, txns[w].decision \in DuplicateStatus,
                        NEW r \in Proposed, proposals'[r].symbol = txns[w].symbol,
                        proposals'[r].status \in DuplicateStatus
                 PROVE  \E m \in txns[w].missed : m.symbol = txns[w].symbol /\ m.decision \in DuplicateStatus
    BY <1>1, <1>d DEF DuplicatesMissed
  <2>3. proposals[r].symbol = txns[w].symbol /\ proposals[r].status \in DuplicateStatus
    BY <1>3, <2>2
  <2> QED
    BY <2>1, <2>2, <2>3 DEF DuplicatesMissed
<1>6. PowerCovers'
  <2>1. SUFFICES ASSUME NEW w \in Workers, txns[w].open, Reserves(txns[w].decision), Covers(txns[w])
                 PROVE  Covers(txns[w])'
    BY DEF IInv, PowerCovers
  <2>2. InForce(txns[w].at)' \subseteq InForce(txns[w].at)
    BY DEF IInv, InForce, Restated, TypeOK
  <2>3. Reserved(InForce(txns[w].at)') \in Nat /\ Reserved(InForce(txns[w].at)) \in Nat
        /\ Reserved(InForce(txns[w].at)') <= Reserved(InForce(txns[w].at))
    <3>1. IsFiniteSet(InForce(txns[w].at))
      BY HeldFinite DEF IInv, InForce
    <3> QED
      BY <2>2, <3>1, ReservedMonotone
  <2>4. txns[w].power \in Nat
    BY <2>1, TxnFields DEF IInv, TypeOK
  <2> QED
    BY <2>1, <2>3, <2>4, Constants DEF Covers
<1> QED
  BY <1>1, <1>2, <1>4, <1>5, <1>6

\* It is good if it leaves what is over alone and submits for the active only.
LEMMA RestatedGood ==
    ASSUME IInv, Restated, UNCHANGED <<runs, txns>>, SubmitsActive,
           \A r \in Proposed : proposals[r].status \in {"EXPIRED", "USER_REJECTED", "CANCELED", "FILLED"}
                                   => proposals'[r] = proposals[r]
    PROVE  Good
<1>1. Once
  BY ProposalFields DEF Once, Restated, Proposed
<1>2. \A w \in Workers : LeavesReserve(w)
  BY DEF LeavesReserve
<1> QED
  BY <1>1, <1>2 DEF Good

\* A step of the clock, the balance, the agents or the checks.
LEMMA QuietKeeps ==
    ASSUME IInv, UNCHANGED <<runs, proposals, held, orders, txns>>
    PROVE  /\ Proposed' = Proposed /\ Good
           /\ RunsDecided' /\ OrdersFollowProposals' /\ ReservationFollowsProposal'
           /\ OneLiveProposal' /\ DuplicatesMissed' /\ PowerCovers'
<1> USE DEF IInv
<1>1. Restated
  BY ProposedState, SamePart DEF Restated, TypeOK
<1>2. Good
  BY <1>1, RestatedGood DEF SubmitsActive
<1>3. OrdersFollowProposals' /\ ReservationFollowsProposal'
  BY DEF OrdersFollowProposals, ReservationFollowsProposal, Proposed
<1> QED
  BY <1>1, <1>2, <1>3, RestatedKeeps

-----------------------------------------------------------------------------
(* Each action keeps the invariant.                                         *)

LEMMA InitIInv == ASSUME Init PROVE IInv
<1> USE DEF Init
<1>1. Proposed = {} /\ \A w \in Workers : txns[w].open = FALSE
  BY DEF Proposed, NoTxn
<1>2. \A r \in Runs : proposals[r].status = "none" /\ proposals[r] = NoProposal /\ orders[r] = "none"
  BY DEF NoProposal
<1>3. TypeOK
  BY <1>1, Constants DEF TypeOK, Modes
<1>4. RunsDecided /\ DuplicatesMissed /\ PowerCovers
  BY <1>1, <1>2 DEF RunsDecided, DuplicatesMissed, PowerCovers
<1>5. OrdersFollowProposals /\ ApprovedIsActive
  BY <1>2 DEF OrdersFollowProposals, ApprovedIsActive
<1>6. ReservationFollowsProposal /\ OneLiveProposal
  BY <1>1 DEF ReservationFollowsProposal, OneLiveProposal
<1> QED
  BY <1>3, <1>4, <1>5, <1>6 DEF IInv

LEMMA AdvanceStep == ASSUME IInv, Advance PROVE IInv' /\ Good
<1>1. TypeOK'
  BY Constants DEF IInv, TypeOK, Advance, Proposed
<1>2. ApprovedIsActive'
  BY DEF IInv, ApprovedIsActive, Active, Advance
<1> QED
  BY <1>1, <1>2, QuietKeeps DEF Advance, IInv

LEMMA SyncStep == ASSUME IInv, Sync PROVE IInv' /\ Good
<1>1. TypeOK'
  BY Constants DEF IInv, TypeOK, Sync, Proposed
<1>2. ApprovedIsActive'
  BY DEF IInv, ApprovedIsActive, Active, Sync
<1> QED
  BY <1>1, <1>2, QuietKeeps DEF Sync, IInv

LEMMA CheckStep == ASSUME IInv, NEW r \in Proposed, Check(r) PROVE IInv' /\ Good
<1>1. TypeOK'
  BY DEF IInv, TypeOK, Check, Proposed
<1>2. ApprovedIsActive'
  BY DEF IInv, ApprovedIsActive, Active, Check
<1> QED
  BY <1>1, <1>2, QuietKeeps DEF Check, IInv

LEMMA ResumeStep == ASSUME IInv, NEW a \in Agents, Resume(a) PROVE IInv' /\ Good
<1>1. TypeOK'
  BY Constants DEF IInv, TypeOK, Resume, Proposed
<1>2. ApprovedIsActive'
  BY DEF IInv, ApprovedIsActive, Active, ActiveStatus, Resume, TypeOK, Runs
<1> QED
  BY <1>1, <1>2, QuietKeeps DEF Resume, IInv

LEMMA ConfigureStep == ASSUME IInv, NEW a \in Agents, Configure(a) PROVE IInv' /\ Good
<1>1. TypeOK'
  BY Constants DEF IInv, TypeOK, Configure, Proposed
<1>2. ApprovedIsActive'
  <2>1. \A b \in Agents : agents'[b].status = agents[b].status
    <3>1. CASE \E m \in Modes : agents' = [agents EXCEPT ![a].mode = m]
      BY <3>1 DEF IInv, TypeOK
    <3>2. CASE \E x \in Symbols : agents' = [agents EXCEPT ![a].symbol = x]
      BY <3>2 DEF IInv, TypeOK
    <3> QED
      BY <3>1, <3>2 DEF Configure
  <2>2. \A r \in Runs : r[1] \in Agents
    BY DEF Runs
  <2> QED
    BY <2>1, <2>2 DEF IInv, ApprovedIsActive, Active, Configure
<1> QED
  BY <1>1, <1>2, QuietKeeps DEF Configure, IInv

\* What a change of one proposal's status leaves to be shown.
LEMMA StatusStep ==
    ASSUME IInv, NEW r \in Proposed, NEW st \in ProposalStatus, proposals' = SetStatus(r, st),
           proposals[r].status \notin {"EXPIRED", "USER_REJECTED", "CANCELED", "FILLED"},
           st \in DuplicateStatus => proposals[r].status \in DuplicateStatus,
           st \in {"APPROVED", "SUBMITTING"} => Active(r[1]),
           st \in {"AWAITING_USER_APPROVAL", "APPROVED", "SUBMITTING"} => r \in held,
           held' = (IF st = "CANCELED" THEN held \ {r} ELSE held),
           orders' \in [Runs -> {"none", "open", "closed"}],
           \A q \in Runs \ {r} : orders'[q] = orders[q],
           orders'[r] = "open" => st = "SUBMITTING",
           orders'[r] = "closed" => st \in {"FILLED", "CANCELED"},
           UNCHANGED <<now, agents, changes, balance, runs, txns, checked>>
    PROVE  IInv' /\ Good
<1> USE DEF IInv
<1>1. /\ Restated /\ proposals'[r].status = st
      /\ \A q \in Runs \ {r} : proposals'[q] = proposals[q]
  BY SetStatusRestates
<1>2. Proposed' = Proposed /\ r \in Runs /\ held' \subseteq held /\ held \subseteq Proposed
  BY <1>1, RestatedKeeps, ProposedState DEF TypeOK
<1>3. RunsDecided' /\ OneLiveProposal' /\ DuplicatesMissed' /\ PowerCovers'
  BY <1>1, <1>2, RestatedKeeps
<1>4. TypeOK'
  BY <1>1, <1>2 DEF TypeOK, Restated
<1>5. OrdersFollowProposals'
  BY <1>1 DEF OrdersFollowProposals
<1>6. ApprovedIsActive'
  BY <1>1 DEF ApprovedIsActive, Active
<1>7. ReservationFollowsProposal'
  <2>1. \A q \in Proposed : q # r => q \in Runs /\ proposals'[q] = proposals[q] /\ (q \in held' <=> q \in held)
    BY <1>1, ProposedState
  <2>2. st = "CANCELED" => r \notin held'
    OBVIOUS
  <2>3. st \in {"AWAITING_USER_APPROVAL", "APPROVED", "SUBMITTING"} => r \in held'
    OBVIOUS
  <2> QED
    BY <1>1, <1>2, <2>1, <2>2, <2>3 DEF ReservationFollowsProposal
<1>8. SubmitsActive
  <2>1. \A q \in Proposed : q # r => proposals'[q] = proposals[q]
    BY <1>1, ProposedState
  <2> QED
    BY <1>1, <2>1 DEF SubmitsActive
<1>9. Good
  BY <1>1, <1>8, RestatedGood, ProposedState
<1> QED
  BY <1>3, <1>4, <1>5, <1>6, <1>7, <1>9

LEMMA ApproveStep == ASSUME IInv, NEW r \in Proposed, Approve(r) PROVE IInv' /\ Good
<1> DEFINE st == IF proposals[r].expires <= now \/ now - proposals[r].dataAt > Policy.quoteAge
                 THEN "EXPIRED" ELSE "APPROVED"
<1>1. /\ proposals[r].status = "AWAITING_USER_APPROVAL" /\ Active(r[1])
      /\ proposals' = SetStatus(r, st)
      /\ UNCHANGED <<now, agents, changes, balance, runs, held, orders, txns, checked>>
  BY DEF Approve
<1>2. st \in {"EXPIRED", "APPROVED"}
  OBVIOUS
<1> HIDE DEF st
<1>3. r \in held /\ orders[r] = "none" /\ orders \in [Runs -> {"none", "open", "closed"}]
  BY <1>1, ProposedState DEF IInv, ReservationFollowsProposal, OrdersFollowProposals, TypeOK
<1> QED
  BY <1>1, <1>2, <1>3, StatusStep DEF ProposalStatus, DuplicateStatus

LEMMA RejectStep == ASSUME IInv, NEW r \in Proposed, Reject(r) PROVE IInv' /\ Good
<1>1. /\ proposals[r].status = "AWAITING_USER_APPROVAL" /\ proposals' = SetStatus(r, "USER_REJECTED")
      /\ UNCHANGED <<now, agents, changes, balance, runs, held, orders, txns, checked>>
  BY DEF Reject
<1>2. orders[r] = "none" /\ orders \in [Runs -> {"none", "open", "closed"}]
  BY <1>1, ProposedState DEF IInv, OrdersFollowProposals, TypeOK
<1> QED
  BY <1>1, <1>2, StatusStep DEF ProposalStatus, DuplicateStatus

LEMMA SubmitStep == ASSUME IInv, NEW r \in Proposed, Submit(r) PROVE IInv' /\ Good
<1>1. /\ proposals[r].status = "APPROVED" /\ proposals' = SetStatus(r, "SUBMITTING")
      /\ UNCHANGED <<now, agents, changes, balance, runs, held, orders, txns, checked>>
  BY DEF Submit
<1>2. /\ r \in held /\ Active(r[1])
      /\ orders[r] = "none" /\ orders \in [Runs -> {"none", "open", "closed"}]
  BY <1>1, ProposedState DEF IInv, ReservationFollowsProposal, OrdersFollowProposals, ApprovedIsActive, TypeOK
<1> QED
  BY <1>1, <1>2, StatusStep DEF ProposalStatus, DuplicateStatus

LEMMA FillStep == ASSUME IInv, NEW r \in Proposed, Fill(r) PROVE IInv' /\ Good
<1>1. /\ orders[r] = "open" /\ orders' = [orders EXCEPT ![r] = "closed"]
      /\ proposals' = SetStatus(r, "FILLED")
      /\ UNCHANGED <<now, agents, changes, balance, runs, held, txns, checked>>
  BY DEF Fill
<1>2. /\ proposals[r].status = "SUBMITTING" /\ orders' \in [Runs -> {"none", "open", "closed"}]
      /\ orders'[r] = "closed" /\ \A q \in Runs \ {r} : orders'[q] = orders[q]
  BY <1>1, ProposedState DEF IInv, OrdersFollowProposals, TypeOK
<1> QED
  BY <1>1, <1>2, StatusStep DEF ProposalStatus, DuplicateStatus

LEMMA CancelOrderStep == ASSUME IInv, NEW r \in Proposed, CancelOrder(r) PROVE IInv' /\ Good
<1>1. /\ orders[r] = "open" /\ orders' = [orders EXCEPT ![r] = "closed"]
      /\ proposals' = SetStatus(r, "CANCELED") /\ held' = held \ {r}
      /\ UNCHANGED <<now, agents, changes, balance, runs, txns, checked>>
  BY DEF CancelOrder
<1>2. /\ proposals[r].status = "SUBMITTING" /\ orders' \in [Runs -> {"none", "open", "closed"}]
      /\ orders'[r] = "closed" /\ \A q \in Runs \ {r} : orders'[q] = orders[q]
  BY <1>1, ProposedState DEF IInv, OrdersFollowProposals, TypeOK
<1> QED
  BY <1>1, <1>2, StatusStep DEF ProposalStatus, DuplicateStatus

LEMMA PlaceStep == ASSUME IInv, NEW r \in Proposed, Place(r) PROVE IInv' /\ Good
<1> USE DEF IInv
<1>1. /\ proposals[r].status = "SUBMITTING" /\ orders' = [orders EXCEPT ![r] = "open"]
      /\ UNCHANGED <<now, agents, changes, balance, runs, proposals, held, txns, checked>>
  BY DEF Place
<1>2. Restated /\ SubmitsActive
  BY <1>1, ProposedState, SamePart DEF Restated, TypeOK, SubmitsActive
<1>3. Proposed' = Proposed /\ RunsDecided' /\ OneLiveProposal' /\ DuplicatesMissed' /\ PowerCovers' /\ Good
  BY <1>1, <1>2, RestatedKeeps, RestatedGood
<1>4. TypeOK'
  BY <1>1, <1>3 DEF TypeOK
<1>5. OrdersFollowProposals'
  BY <1>1, ProposedState DEF OrdersFollowProposals, TypeOK
<1>6. ApprovedIsActive' /\ ReservationFollowsProposal'
  BY <1>1, <1>3 DEF ApprovedIsActive, Active, ReservationFollowsProposal
<1> QED
  BY <1>3, <1>4, <1>5, <1>6

\* setAgentStatus and its like: what is not submitted is canceled and released.
LEMMA StopStep ==
    ASSUME IInv, NEW A \in SUBSET Agents, NEW status \in {"paused", "removed"}, Stop(A, status),
           changes' \in 0..MaxChanges
    PROVE  IInv' /\ Good
<1> USE DEF IInv
<1>1. /\ agents' = [a \in Agents |-> IF a \in A /\ agents[a].status # "removed"
                                     THEN [agents[a] EXCEPT !.status = status] ELSE agents[a]]
      /\ proposals' = [r \in Runs |-> IF r \in Unsubmitted(A)
                                      THEN [proposals[r] EXCEPT !.status = "CANCELED"] ELSE proposals[r]]
      /\ held' = held \ Unsubmitted(A)
      /\ UNCHANGED <<now, balance, runs, orders, txns, checked>>
  BY DEF Stop, CancelWork, Released
<1>2. ASSUME NEW r \in Unsubmitted(A)
      PROVE  /\ r \in Proposed /\ r \in Runs /\ orders[r] = "none" /\ proposals[r].status \in DuplicateStatus
             /\ proposals'[r] \in ProposalState /\ proposals'[r].status = "CANCELED"
             /\ proposals'[r].symbol = proposals[r].symbol /\ proposals'[r].expires = proposals[r].expires
             /\ proposals'[r] = [proposals[r] EXCEPT !.status = proposals'[r].status]
  <2>1. r \in Proposed /\ orders[r] = "none" /\ proposals[r].status \in DuplicateStatus
    BY DEF Unsubmitted
  <2>2. r \in Runs /\ proposals[r] \in ProposalState /\ "CANCELED" \in ProposalStatus
    BY <2>1, ProposedState DEF ProposalStatus
  <2>3. proposals'[r] = [proposals[r] EXCEPT !.status = "CANCELED"]
    BY <1>1, <2>2
  <2> QED
    BY <2>1, <2>2, <2>3, StatusSet
<1>3. ASSUME NEW r \in Runs, r \notin Unsubmitted(A)
      PROVE  proposals'[r] = proposals[r]
  BY <1>1, <1>3
<1>4. Restated
  <2>1. proposals' \in [Runs -> ProposalState \cup {NoProposal}]
    BY <1>1, <1>2, <1>3 DEF TypeOK
  <2>2. \A r \in Runs : proposals'[r] = NoProposal <=> proposals[r] = NoProposal
    BY <1>2, <1>3, ProposalFields DEF Proposed
  <2>3. ASSUME NEW r \in Proposed
        PROVE  /\ proposals'[r] = [proposals[r] EXCEPT !.status = proposals'[r].status]
               /\ proposals'[r].symbol = proposals[r].symbol
               /\ proposals'[r].expires = proposals[r].expires
               /\ proposals'[r].status \in DuplicateStatus => proposals[r].status \in DuplicateStatus
    <3>1. CASE r \in Unsubmitted(A)
      BY <1>2, <3>1 DEF DuplicateStatus
    <3>2. CASE r \notin Unsubmitted(A)
      BY <1>3, <3>2, ProposedState, SamePart
    <3> QED
      BY <3>1, <3>2
  <2> QED
    BY <2>1, <2>2, <2>3 DEF Restated
<1>5. Proposed' = Proposed /\ RunsDecided' /\ OneLiveProposal' /\ DuplicatesMissed' /\ PowerCovers'
  BY <1>1, <1>4, RestatedKeeps
<1>6. agents' \in [Agents -> [status : {"monitoring", "paused", "removed"}, mode : Modes, symbol : Symbols]]
  BY <1>1 DEF TypeOK
<1>7. TypeOK'
  BY <1>1, <1>4, <1>5, <1>6 DEF TypeOK, Restated
<1>8. OrdersFollowProposals'
  BY <1>1, <1>2, <1>3 DEF OrdersFollowProposals
<1>9. ApprovedIsActive'
  <2>1. SUFFICES ASSUME NEW r \in Runs, proposals'[r].status = "APPROVED" PROVE Active(r[1])'
    BY DEF ApprovedIsActive
  <2>2. r \notin Unsubmitted(A) /\ proposals[r].status = "APPROVED"
    BY <1>2, <1>3, <2>1
  <2>3. r \in Proposed /\ orders[r] = "none" /\ r[1] \in Agents /\ Active(r[1])
    BY <2>2, ProposalFields DEF Proposed, OrdersFollowProposals, TypeOK, Runs, ApprovedIsActive
  <2>4. r[1] \notin A
    BY <2>2, <2>3 DEF Unsubmitted, DuplicateStatus
  <2> QED
    BY <1>1, <2>3, <2>4 DEF Active
<1>10. ReservationFollowsProposal'
  BY <1>1, <1>2, <1>3, <1>5, ProposedState DEF ReservationFollowsProposal
<1>11. SubmitsActive
  BY <1>2, <1>3, ProposedState DEF SubmitsActive
<1>12. Good
  BY <1>1, <1>2, <1>3, <1>4, <1>11, RestatedGood, ProposedState DEF DuplicateStatus
<1> QED
  BY <1>5, <1>7, <1>8, <1>9, <1>10, <1>12

LEMMA PauseStep == ASSUME IInv, NEW A \in SUBSET Agents, Pause(A) PROVE IInv' /\ Good
  BY StopStep DEF Pause, IInv, TypeOK

LEMMA RemoveStep == ASSUME IInv, NEW a \in Agents, Remove(a) PROVE IInv' /\ Good
<1>1. Stop({a}, "removed") /\ changes' \in 0..MaxChanges
  BY Constants DEF Remove, IInv, TypeOK
<1> QED
  BY <1>1, StopStep

LEMMA BeginStep == ASSUME IInv, NEW w \in Workers, NEW r \in Runs, Begin(w, r) PROVE IInv' /\ Good
<1> USE DEF IInv
<1>1. PICK lacking \in Circumstances, age \in QuoteAges :
         txns' = [txns EXCEPT ![w] =
              [open |-> TRUE, run |-> r, at |-> now, power |-> balance.power,
               symbol |-> agents[r[1]].symbol, mode |-> agents[r[1]].mode,
               dataAt |-> OldestData(now - age),
               decision |-> Decision(r[1], now - age, lacking), missed |-> {}]]
  BY DEF Begin
<1> DEFINE a == r[1]
           d == Decision(a, now - age, lacking)
           t == [open |-> TRUE, run |-> r, at |-> now, power |-> balance.power,
                 symbol |-> agents[a].symbol, mode |-> agents[a].mode,
                 dataAt |-> OldestData(now - age), decision |-> d, missed |-> {}]
<1>2. /\ ~txns[w].open /\ runs[r] = "none" /\ txns \in [Workers -> TxnState \cup {NoTxn}]
      /\ UNCHANGED <<now, agents, changes, balance, runs, proposals, held, orders, checked>>
  BY DEF Begin, Undecided, TypeOK
<1>3. a \in Agents
  BY DEF Runs
<1>4. /\ d \in Decisions
      /\ d \in DuplicateStatus =>
            /\ ~DuplicateProposal(agents[a].symbol, Proposed)
            /\ Policy.reserve * Value <= (balance.power - Reserved(InForce(now)) - Amount) * 100
  BY <1>3, DecisionFacts
<1>5. /\ now \in 0..MaxTime /\ balance.power \in Nat /\ balance.at \in 0..MaxTime
      /\ agents[a].symbol \in Symbols /\ agents[a].mode \in Modes
  BY <1>3 DEF TypeOK
<1>6. OldestData(now - age) \in Int
  BY <1>5, Constants DEF OldestData
<1> HIDE DEF a, d
<1>7. t \in TxnState
  BY <1>4, <1>5, <1>6 DEF TxnState
<1>8. /\ t.open = TRUE /\ t.run = r /\ t.at = now /\ t.power = balance.power
      /\ t.symbol = agents[a].symbol /\ t.decision = d /\ t.missed = {}
  OBVIOUS
<1>9. txns' = [txns EXCEPT ![w] = t]
  BY <1>1 DEF a, d
<1> HIDE DEF t
<1>10. /\ txns' \in [Workers -> TxnState \cup {NoTxn}] /\ txns'[w] = t
       /\ \A v \in Workers \ {w} : txns'[v] = txns[v]
  BY <1>2, <1>7, <1>9
<1>11. Proposed' = Proposed
  BY <1>2 DEF Proposed
<1>12. TypeOK'
  BY <1>2, <1>10, <1>11 DEF TypeOK
<1>13. RunsDecided'
  BY <1>2, <1>8, <1>10 DEF RunsDecided
<1>14. OrdersFollowProposals' /\ ApprovedIsActive' /\ ReservationFollowsProposal' /\ OneLiveProposal'
  BY <1>2, <1>11 DEF OrdersFollowProposals, ApprovedIsActive, Active, ReservationFollowsProposal, OneLiveProposal
<1>15. DuplicatesMissed'
  <2>1. d \in DuplicateStatus => \A q \in Proposed :
            ~(proposals[q].symbol = t.symbol /\ proposals[q].status \in DuplicateStatus)
    BY <1>4, <1>8 DEF DuplicateProposal
  <2> QED
    BY <1>2, <1>8, <1>10, <1>11, <2>1 DEF DuplicatesMissed
<1>16. PowerCovers'
  <2>1. Reserves(d) => Covers(t)
    BY <1>4, <1>8 DEF Reserves, DuplicateStatus, Covers
  <2>2. \A u : Covers(u)' <=> Covers(u)
    BY <1>2 DEF Covers, InForce
  <2> QED
    BY <1>2, <1>8, <1>10, <2>1, <2>2 DEF PowerCovers
<1>17. Good
  <2>1. Once /\ SubmitsActive
    BY <1>2, ProposedState, SamePart DEF Once, SubmitsActive, Proposed
  <2>2. \A v \in Workers : LeavesReserve(v)
    BY <1>2, <1>8, <1>10 DEF LeavesReserve
  <2> QED
    BY <2>1, <2>2 DEF Good
<1> QED
  BY <1>12, <1>13, <1>14, <1>15, <1>16, <1>17

LEMMA AbortStep == ASSUME IInv, NEW w \in Workers, Abort(w) PROVE IInv' /\ Good
<1> USE DEF IInv
<1>1. /\ txns' = [txns EXCEPT ![w] = NoTxn] /\ txns \in [Workers -> TxnState \cup {NoTxn}]
      /\ UNCHANGED <<now, agents, changes, balance, runs, proposals, held, orders, checked>>
  BY DEF Abort, TypeOK
<1>2. /\ txns' \in [Workers -> TxnState \cup {NoTxn}] /\ ~txns'[w].open
      /\ \A v \in Workers \ {w} : txns'[v] = txns[v]
  BY <1>1, TxnFields
<1>3. Proposed' = Proposed
  BY <1>1 DEF Proposed
<1>4. TypeOK'
  BY <1>1, <1>2, <1>3 DEF TypeOK
<1>5. RunsDecided' /\ DuplicatesMissed'
  BY <1>1, <1>2, <1>3 DEF RunsDecided, DuplicatesMissed
<1>6. OrdersFollowProposals' /\ ApprovedIsActive' /\ ReservationFollowsProposal' /\ OneLiveProposal'
  BY <1>1, <1>3 DEF OrdersFollowProposals, ApprovedIsActive, Active, ReservationFollowsProposal, OneLiveProposal
<1>7. PowerCovers'
  <2>1. \A u : Covers(u)' <=> Covers(u)
    BY <1>1 DEF Covers, InForce
  <2> QED
    BY <1>1, <1>2, <2>1 DEF PowerCovers
<1>8. Once /\ SubmitsActive
  BY <1>1, ProposedState, SamePart DEF Once, SubmitsActive, Proposed
<1>9. \A v \in Workers : LeavesReserve(v)
  BY <1>1 DEF LeavesReserve
<1> QED
  BY <1>4, <1>5, <1>6, <1>7, <1>8, <1>9 DEF Good

\* What committing does: a run that no one decided gets its row, its proposal
\* and its reservation, and every open transaction misses it.
LEMMA CommitEffect ==
    ASSUME IInv, NEW w \in Workers, Commit(w)
    PROVE  LET t == txns[w]
               p == proposals'[t.run]
           IN /\ t \in TxnState /\ ~MustAbort(t)
              /\ runs[t.run] = "none" /\ proposals[t.run] = NoProposal
              /\ t.run \notin Proposed /\ t.run \notin held /\ orders[t.run] = "none"
              /\ runs' \in [Runs -> {"none", "completed", "failed"}] /\ runs'[t.run] # "none"
              /\ proposals' \in [Runs -> ProposalState \cup {NoProposal}]
              /\ \A q \in Runs \ {t.run} : runs'[q] = runs[q] /\ proposals'[q] = proposals[q]
              /\ Proposes(t.decision) =>
                    /\ p \in ProposalState /\ p.status = t.decision /\ p.symbol = t.symbol
                    /\ Proposed' = Proposed \cup {t.run}
              /\ ~Proposes(t.decision) => p = NoProposal /\ Proposed' = Proposed
              /\ held' = IF Reserves(t.decision) THEN held \cup {t.run} ELSE held
              /\ txns' \in [Workers -> TxnState \cup {NoTxn}] /\ txns'[w] = NoTxn
              /\ \A v \in Workers \ {w} :
                    /\ txns[v].open <=> txns'[v].open
                    /\ txns[v].open =>
                         /\ txns'[v].run = txns[v].run /\ txns'[v].at = txns[v].at
                         /\ txns'[v].power = txns[v].power /\ txns'[v].symbol = txns[v].symbol
                         /\ txns'[v].decision = txns[v].decision
                         /\ txns'[v].missed = txns[v].missed \cup {Trace(t)}
              /\ UNCHANGED <<now, agents, changes, balance, orders, checked>>
<1> USE DEF IInv
<1> DEFINE t == txns[w]
<1>1. t \in TxnState /\ t.open = TRUE /\ ~MustAbort(t)
  BY TxnFields DEF Commit, TypeOK
<1>2. t.run \in Runs /\ t.decision \in Decisions /\ t.symbol \in Symbols /\ t.mode \in Modes
      /\ t.dataAt \in Int /\ t.at \in 0..MaxTime
  BY <1>1, TxnFields
<1>3. runs[t.run] = "none"
  BY <1>1 DEF RunsDecided, MustAbort
<1>4. proposals[t.run] = NoProposal /\ t.run \notin Proposed /\ t.run \notin held /\ orders[t.run] = "none"
  BY <1>2, <1>3, ProposalFields DEF RunsDecided, Proposed, TypeOK, OrdersFollowProposals
<1>5. /\ runs' \in [Runs -> {"none", "completed", "failed"}] /\ runs'[t.run] # "none"
      /\ \A q \in Runs \ {t.run} : runs'[q] = runs[q]
  BY <1>2 DEF Commit, TypeOK
<1> DEFINE new == [status |-> t.decision, symbol |-> t.symbol, mode |-> t.mode,
                   dataAt |-> t.dataAt, expires |-> t.at + Lifetime]
<1>6. Proposes(t.decision) => new \in ProposalState /\ new.status = t.decision /\ new.symbol = t.symbol
  BY <1>2, Constants DEF Proposes, Decisions, ProposalState, ProposalStatus
<1>7. proposals' = IF Proposes(t.decision) THEN [proposals EXCEPT ![t.run] = new] ELSE proposals
  BY DEF Commit
<1> HIDE DEF new
<1>8. /\ proposals' \in [Runs -> ProposalState \cup {NoProposal}]
      /\ \A q \in Runs \ {t.run} : proposals'[q] = proposals[q]
      /\ Proposes(t.decision) => proposals'[t.run] = new
      /\ ~Proposes(t.decision) => proposals' = proposals
  BY <1>2, <1>6, <1>7 DEF TypeOK
<1>9. /\ Proposes(t.decision) =>
            /\ proposals'[t.run] \in ProposalState /\ proposals'[t.run].status = t.decision
            /\ proposals'[t.run].symbol = t.symbol
            /\ Proposed' = Proposed \cup {t.run}
      /\ ~Proposes(t.decision) => proposals'[t.run] = NoProposal /\ Proposed' = Proposed
  BY <1>2, <1>4, <1>6, <1>8, ProposalFields DEF Proposed
<1>10. Trace(t) \in TraceState
  BY <1>2 DEF Trace, TraceState
<1>11. txns' = [v \in Workers |-> IF v = w THEN NoTxn
                                  ELSE IF txns[v].open THEN [txns[v] EXCEPT !.missed = @ \cup {Trace(t)}]
                                  ELSE NoTxn]
  BY DEF Commit
<1>12. ASSUME NEW v \in Workers \ {w}
       PROVE  /\ txns'[v] \in TxnState \cup {NoTxn} /\ (txns[v].open <=> txns'[v].open)
              /\ txns[v].open =>
                   /\ txns'[v].run = txns[v].run /\ txns'[v].at = txns[v].at
                   /\ txns'[v].power = txns[v].power /\ txns'[v].symbol = txns[v].symbol
                   /\ txns'[v].decision = txns[v].decision
                   /\ txns'[v].missed = txns[v].missed \cup {Trace(t)}
  <2>1. CASE txns[v].open
    <3>1. txns[v] \in TxnState
      BY <2>1, TxnFields DEF TypeOK
    <3>2. txns'[v] = [txns[v] EXCEPT !.missed = @ \cup {Trace(t)}]
      BY <1>11, <2>1
    <3>3. /\ txns'[v] \in TxnState
          /\ txns'[v].run = txns[v].run /\ txns'[v].at = txns[v].at
          /\ txns'[v].power = txns[v].power /\ txns'[v].symbol = txns[v].symbol
          /\ txns'[v].decision = txns[v].decision
          /\ txns'[v].missed = txns[v].missed \cup {Trace(t)}
      BY <1>10, <3>1, <3>2, TxnMisses
    <3> QED
      BY <2>1, <3>3, TxnFields
  <2>2. CASE ~txns[v].open
    BY <1>11, <2>2, TxnFields
  <2> QED
    BY <2>1, <2>2
<1>13. txns' \in [Workers -> TxnState \cup {NoTxn}] /\ txns'[w] = NoTxn
  <2>1. txns'[w] = NoTxn /\ \A v \in Workers : txns'[v] \in TxnState \cup {NoTxn}
    BY <1>11, <1>12
  <2> QED
    BY <1>11, <2>1
<1>14. /\ held' = (IF Reserves(t.decision) THEN held \cup {t.run} ELSE held)
       /\ UNCHANGED <<now, agents, changes, balance, orders, checked>>
  BY DEF Commit
<1> HIDE DEF t
<1>15. /\ t \in TxnState /\ ~MustAbort(t)
       /\ runs[t.run] = "none" /\ proposals[t.run] = NoProposal
       /\ t.run \notin Proposed /\ t.run \notin held /\ orders[t.run] = "none"
       /\ runs' \in [Runs -> {"none", "completed", "failed"}] /\ runs'[t.run] # "none"
       /\ proposals' \in [Runs -> ProposalState \cup {NoProposal}]
       /\ \A q \in Runs \ {t.run} : runs'[q] = runs[q] /\ proposals'[q] = proposals[q]
  BY <1>1, <1>3, <1>4, <1>5, <1>8
<1> QED
  BY <1>9, <1>12, <1>13, <1>14, <1>15 DEF t

\* A transaction that commits missed no live proposal of its symbol if it makes
\* one, and no reservation if it makes one.
LEMMA CommitSawAll ==
    ASSUME NEW t \in TxnState, ~MustAbort(t), NEW m \in t.missed
    PROVE  /\ ~(t.decision \in DuplicateStatus /\ m.symbol = t.symbol /\ m.decision \in DuplicateStatus)
           /\ ~(Reserves(t.decision) /\ Reserves(m.decision))
  BY DEF MustAbort, Sees, Proposes, Reserves, DuplicateStatus

LEMMA CommitStep == ASSUME IInv, NEW w \in Workers, Commit(w) PROVE IInv' /\ Good
<1> USE DEF IInv
<1> DEFINE t == txns[w]
<1>1. /\ t \in TxnState /\ ~MustAbort(t)
      /\ runs[t.run] = "none" /\ proposals[t.run] = NoProposal
      /\ t.run \notin Proposed /\ t.run \notin held /\ orders[t.run] = "none"
      /\ runs' \in [Runs -> {"none", "completed", "failed"}] /\ runs'[t.run] # "none"
      /\ proposals' \in [Runs -> ProposalState \cup {NoProposal}]
      /\ \A q \in Runs \ {t.run} : runs'[q] = runs[q] /\ proposals'[q] = proposals[q]
  BY CommitEffect
<1>2. /\ Proposes(t.decision) =>
            /\ proposals'[t.run] \in ProposalState /\ proposals'[t.run].status = t.decision
            /\ proposals'[t.run].symbol = t.symbol
            /\ Proposed' = Proposed \cup {t.run}
      /\ ~Proposes(t.decision) => proposals'[t.run] = NoProposal /\ Proposed' = Proposed
      /\ held' = IF Reserves(t.decision) THEN held \cup {t.run} ELSE held
      /\ UNCHANGED <<now, agents, changes, balance, orders, checked>>
  BY CommitEffect
<1>3. /\ txns' \in [Workers -> TxnState \cup {NoTxn}] /\ txns'[w] = NoTxn
      /\ \A v \in Workers \ {w} :
            /\ txns[v].open <=> txns'[v].open
            /\ txns[v].open =>
                 /\ txns'[v].run = txns[v].run /\ txns'[v].at = txns[v].at
                 /\ txns'[v].power = txns[v].power /\ txns'[v].symbol = txns[v].symbol
                 /\ txns'[v].decision = txns[v].decision
                 /\ txns'[v].missed = txns[v].missed \cup {Trace(t)}
  BY CommitEffect
<1>4. /\ t.run \in Runs /\ t.decision \in Decisions /\ t.open = TRUE /\ t.power \in Nat /\ t.missed \subseteq TraceState
      /\ Trace(t).run = t.run /\ Trace(t).symbol = t.symbol /\ Trace(t).decision = t.decision
  BY <1>1, TxnFields DEF Trace
<1>5. /\ t.decision \in DuplicateStatus => Proposes(t.decision)
      /\ Reserves(t.decision) => Proposes(t.decision) /\ t.decision \in DuplicateStatus
      /\ t.decision \notin {"APPROVED", "SUBMITTING", "CANCELED"}
  BY <1>4 DEF DuplicateStatus, Proposes, Reserves, Decisions
<1>6. ~txns'[w].open
  BY <1>3, TxnFields
<1> HIDE DEF t
<1>7. TypeOK'
  BY <1>1, <1>2, <1>3, <1>5 DEF TypeOK
<1>8. RunsDecided'
  <2>1. \A r \in Runs : runs'[r] = "none" => proposals'[r] = NoProposal
    BY <1>1 DEF RunsDecided
  <2>2. ASSUME NEW v \in Workers, txns'[v].open, runs'[txns'[v].run] # "none"
        PROVE  \E m \in txns'[v].missed : m.run = txns'[v].run
    <3>1. v \in Workers \ {w} /\ txns[v].open /\ txns'[v].run = txns[v].run
          /\ txns'[v].missed = txns[v].missed \cup {Trace(t)} /\ txns[v].run \in Runs
      BY <1>3, <1>6, <2>2, TxnFields DEF TypeOK
    <3>2. CASE txns[v].run = t.run
      BY <1>4, <3>1, <3>2
    <3>3. CASE txns[v].run # t.run
      BY <1>1, <2>2, <3>1, <3>3 DEF RunsDecided
    <3> QED
      BY <3>2, <3>3
  <2> QED
    BY <2>1, <2>2 DEF RunsDecided
<1>9. OrdersFollowProposals'
  BY <1>1, <1>2 DEF OrdersFollowProposals
<1>10. ApprovedIsActive'
  BY <1>1, <1>2, <1>5, ProposalFields DEF ApprovedIsActive, Active
<1>11. ReservationFollowsProposal'
  <2>1. ASSUME NEW r \in Proposed'
        PROVE  /\ proposals'[r].status \in {"AWAITING_USER_APPROVAL", "APPROVED", "SUBMITTING"} => r \in held'
               /\ proposals'[r].status = "CANCELED" => r \notin held'
    <3>1. CASE r = t.run
      BY <1>2, <1>1, <1>5, <3>1, ProposalFields DEF Reserves
    <3>2. CASE r # t.run
      <4>1. r \in Proposed /\ r \in Runs /\ proposals'[r] = proposals[r] /\ (r \in held' <=> r \in held)
        BY <1>1, <1>2, <3>2 DEF Proposed
      <4> QED
        BY <4>1 DEF ReservationFollowsProposal
    <3> QED
      BY <3>1, <3>2
  <2> QED
    BY <2>1 DEF ReservationFollowsProposal
<1>12. t.decision \in DuplicateStatus => \A q \in Proposed :
           ~(proposals[q].symbol = t.symbol /\ proposals[q].status \in DuplicateStatus)
  BY <1>1, <1>4, CommitSawAll DEF DuplicatesMissed, t
<1>13. \A r \in Proposed' : r # t.run => r \in Proposed /\ r \in Runs /\ proposals'[r] = proposals[r]
  BY <1>1, <1>2 DEF Proposed
<1>14. t.run \in Proposed' => proposals'[t.run].status = t.decision /\ proposals'[t.run].symbol = t.symbol
  BY <1>1, <1>2
<1>15. OneLiveProposal'
  <2>1. SUFFICES ASSUME NEW r \in Proposed', NEW s \in Proposed',
                        proposals'[r].status \in DuplicateStatus, proposals'[s].status \in DuplicateStatus,
                        proposals'[r].symbol = proposals'[s].symbol
                 PROVE  r = s
    BY DEF OneLiveProposal
  <2>2. CASE r # t.run /\ s # t.run
    BY <1>13, <2>1, <2>2 DEF OneLiveProposal
  <2>3. CASE r = t.run /\ s # t.run
    BY <1>12, <1>13, <1>14, <2>1, <2>3
  <2>4. CASE r # t.run /\ s = t.run
    BY <1>12, <1>13, <1>14, <2>1, <2>4
  <2> QED
    BY <2>2, <2>3, <2>4
<1>16. DuplicatesMissed'
  <2>1. SUFFICES ASSUME NEW v \in Workers, txns'[v].open, txns'[v].decision \in DuplicateStatus,
                        NEW r \in Proposed', proposals'[r].symbol = txns'[v].symbol,
                        proposals'[r].status \in DuplicateStatus
                 PROVE  \E m \in txns'[v].missed : m.symbol = txns'[v].symbol /\ m.decision \in DuplicateStatus
    BY DEF DuplicatesMissed
  <2>2. v \in Workers \ {w} /\ txns[v].open /\ txns'[v].symbol = txns[v].symbol
        /\ txns'[v].decision = txns[v].decision /\ txns'[v].missed = txns[v].missed \cup {Trace(t)}
    BY <1>3, <1>6, <2>1
  <2>3. CASE r = t.run
    BY <1>4, <1>14, <2>1, <2>2, <2>3
  <2>4. CASE r # t.run
    BY <1>13, <2>1, <2>2, <2>4 DEF DuplicatesMissed
  <2> QED
    BY <2>3, <2>4
<1>17. PowerCovers'
  <2>1. SUFFICES ASSUME NEW v \in Workers, txns'[v].open, Reserves(txns'[v].decision),
                        ~\E m \in txns'[v].missed : Reserves(m.decision)
                 PROVE  Covers(txns[v])' 
    BY DEF PowerCovers
  <2>2. v \in Workers \ {w} /\ txns[v].open /\ txns'[v].decision = txns[v].decision
        /\ txns'[v].at = txns[v].at /\ txns'[v].power = txns[v].power
        /\ txns'[v].missed = txns[v].missed \cup {Trace(t)}
    BY <1>3, <1>6, <2>1
  <2>3. ~Reserves(t.decision) /\ Covers(txns[v])
    BY <1>4, <2>1, <2>2 DEF PowerCovers
  <2>4. held' = held /\ \A r \in held : proposals'[r] = proposals[r]
    BY <1>1, <1>2, <2>3 DEF TypeOK, Proposed
  <2>5. InForce(txns[v].at)' = InForce(txns[v].at)
    BY <2>2, <2>4 DEF InForce
  <2> QED
    BY <2>2, <2>3, <2>5 DEF Covers
<1>18. LeavesReserve(w)
  <2>1. SUFFICES ASSUME Reserves(t.decision)
                 PROVE  (t.power - Reserved({r \in held' : proposals'[r].expires > t.at})) * 100
                            >= Policy.reserve * Value
    BY DEF LeavesReserve, t
  <2> DEFINE F == InForce(t.at)
             G == {r \in held' : proposals'[r].expires > t.at}
  <2>2. Policy.reserve * Value <= (t.power - Reserved(F) - Amount) * 100
    BY <1>1, <1>4, <2>1, CommitSawAll DEF PowerCovers, Covers, t
  <2>3. G \subseteq F \cup {t.run}
    BY <1>1, <1>2 DEF InForce, TypeOK, Proposed
  <2>4. IsFiniteSet(F) /\ IsFiniteSet(F \cup {t.run})
    <3>1. IsFiniteSet(F)
      BY HeldFinite DEF InForce
    <3> QED
      BY <3>1, FS_AddElement
  <2> HIDE DEF F, G
  <2>5. Reserved(F \cup {t.run}) \in Nat /\ Reserved(F) \in Nat /\ Reserved(F \cup {t.run}) <= Reserved(F) + Amount
    BY <2>4, ReservedAdd
  <2>6. Reserved(G) \in Nat /\ Reserved(G) <= Reserved(F \cup {t.run})
    BY <2>3, <2>4, ReservedMonotone
  <2>7. (t.power - Reserved(G)) * 100 >= Policy.reserve * Value
    BY <1>4, <2>2, <2>5, <2>6, Constants
  <2> QED
    BY <2>7 DEF G
<1>19. Good
  <2>1. \A r \in Runs : runs[r] # "none" => r # t.run /\ runs'[r] = runs[r] /\ proposals'[r] = proposals[r]
    BY <1>1
  <2>2. Once
    BY <2>1, ProposedState, SamePart DEF Once, Proposed
  <2>3. SubmitsActive
    BY <1>1 DEF SubmitsActive, Proposed
  <2>4. \A v \in Workers : v # w => LeavesReserve(v)
    BY <1>3 DEF LeavesReserve
  <2> QED
    BY <1>18, <2>2, <2>3, <2>4 DEF Good
<1> QED
  BY <1>7, <1>8, <1>9, <1>10, <1>11, <1>15, <1>16, <1>17, <1>19

-----------------------------------------------------------------------------
(* The theorems.                                                            *)

LEMMA StutterStep == ASSUME IInv, UNCHANGED vars PROVE IInv' /\ Good
<1>1. UNCHANGED <<now, agents, changes, balance, runs, proposals, held, orders, txns, checked>>
  BY DEF vars
<1>2. TypeOK' /\ ApprovedIsActive'
  BY <1>1 DEF IInv, TypeOK, Proposed, ApprovedIsActive, Active
<1> QED
  BY <1>1, <1>2, QuietKeeps DEF IInv

LEMMA NextIInv == IInv /\ [Next]_vars => IInv' /\ Good
<1> SUFFICES ASSUME IInv, [Next]_vars PROVE IInv' /\ Good
  OBVIOUS
<1>1. ASSUME NEW r \in Runs, NEW w \in Workers, Begin(w, r) PROVE IInv' /\ Good
  BY <1>1, BeginStep
<1>2. ASSUME NEW w \in Workers, Commit(w) \/ Abort(w) PROVE IInv' /\ Good
  BY <1>2, CommitStep, AbortStep
<1>3. ASSUME NEW r \in Proposed, Approve(r) \/ Reject(r) PROVE IInv' /\ Good
  BY <1>3, ApproveStep, RejectStep
<1>4. ASSUME NEW a \in Agents, Pause({a}) \/ Remove(a) \/ Resume(a) \/ Configure(a) PROVE IInv' /\ Good
  BY <1>4, PauseStep, RemoveStep, ResumeStep, ConfigureStep
<1>5. CASE Pause(Agents)
  BY <1>5, PauseStep
<1>6. ASSUME NEW r \in Proposed, Check(r) \/ Submit(r) \/ Place(r) \/ Fill(r) \/ CancelOrder(r)
      PROVE  IInv' /\ Good
  BY <1>6, CheckStep, SubmitStep, PlaceStep, FillStep, CancelOrderStep
<1>7. CASE Sync \/ Advance
  BY <1>7, SyncStep, AdvanceStep
<1>8. CASE UNCHANGED vars
  BY <1>8, StutterStep
<1> QED
  BY <1>1, <1>2, <1>3, <1>4, <1>5, <1>6, <1>7, <1>8 DEF Next

\* The invariant of the agent pipeline, for every interleaving of its
\* transactions with the user's actions.
THEOREM Invariance == Spec => []IInv
<1>1. Init => IInv
  BY InitIInv
<1> QED
  BY <1>1, NextIInv, PTL DEF Spec

\* Every variable keeps its type; capital is held for proposals only.
THEOREM TypeCorrect == Spec => []TypeOK
<1>1. IInv => TypeOK
  BY DEF IInv
<1> QED
  BY <1>1, Invariance, PTL

\* executeRun looks for a duplicate and inserts its proposal in one serializable
\* transaction: of a symbol one buy at most is ever proposed or approved.
THEOREM OneLive == Spec => []OneLiveProposal
<1>1. IInv => OneLiveProposal
  BY DEF IInv
<1> QED
  BY <1>1, Invariance, PTL

\* What can still be submitted holds its capital, what was canceled holds none
\* (persistProposal, cancelUnsubmittedAgentWork, cancelOrder).
THEOREM ReservationsFollow == Spec => []ReservationFollowsProposal
<1>1. IInv => ReservationFollowsProposal
  BY DEF IInv
<1> QED
  BY <1>1, Invariance, PTL

\* Concurrent runs never spend the same capital twice: what is in force when a
\* run commits its reservation leaves the policy's reserve.
THEOREM WithinPower == Spec => ReservationsWithinPower
<1>1. Good => \A w \in Workers :
         LET t == txns[w] IN
         t.open /\ ~txns'[w].open /\ Reserves(t.decision) /\ t.run \in held' \ held
           => (t.power - Reserved({r \in held' : proposals'[r].expires > t.at})) * 100
                  >= Policy.reserve * Value
  BY DEF Good, LeavesReserve
<1> QED
  BY <1>1, NextIInv, Invariance, PTL DEF Spec, ReservationsWithinPower

\* A redelivered job never decides its run again, nor revives its proposal.
THEOREM DecidesOnce == Spec => DecidedOnce
<1>1. Good => \A r \in Runs : runs[r] # "none" =>
         /\ runs'[r] = runs[r]
         /\ proposals[r] # NoProposal =>
              proposals'[r] = [proposals[r] EXCEPT !.status = proposals'[r].status]
         /\ proposals[r].status \in {"EXPIRED", "USER_REJECTED", "CANCELED", "FILLED"}
              => proposals'[r] = proposals[r]
  BY DEF Good, Once
<1> QED
  BY <1>1, NextIInv, Invariance, PTL DEF Spec, DecidedOnce

\* Nothing of a paused or removed agent starts its submission, although Submit
\* itself does not look at the agent: pausing canceled what was approved.
THEOREM PausedSubmitsNothing == Spec => NothingSubmittedWhilePaused
<1>1. Good => \A r \in Proposed :
         proposals[r].status = "APPROVED" /\ proposals'[r].status = "SUBMITTING" => Active(r[1])
  BY DEF Good, SubmitsActive
<1> QED
  BY <1>1, NextIInv, Invariance, PTL DEF Spec, NothingSubmittedWhilePaused

-----------------------------------------------------------------------------
(* The abstract contract.                                                   *)

LEMMA PhaseTable ==
    /\ PhaseOf("RISK_REJECTED") = "declined" /\ PhaseOf("BROKER_REVIEWED") = "shown"
    /\ PhaseOf("AWAITING_USER_APPROVAL") = "asked" /\ PhaseOf("EXPIRED") = "closed"
    /\ PhaseOf("USER_REJECTED") = "closed" /\ PhaseOf("APPROVED") = "approved"
    /\ PhaseOf("SUBMITTING") = "submitted" /\ PhaseOf("FILLED") = "filled"
    /\ PhaseOf("CANCELED") = "canceled"
<1>1. /\ PhaseOf("RISK_REJECTED") = "declined" /\ PhaseOf("BROKER_REVIEWED") = "shown"
      /\ PhaseOf("AWAITING_USER_APPROVAL") = "asked"
  BY DEF PhaseOf
<1>2. /\ PhaseOf("EXPIRED") = "closed" /\ PhaseOf("USER_REJECTED") = "closed"
      /\ PhaseOf("APPROVED") = "approved"
  BY DEF PhaseOf
<1>3. /\ PhaseOf("SUBMITTING") = "submitted" /\ PhaseOf("FILLED") = "filled"
      /\ PhaseOf("CANCELED") = "canceled"
  BY DEF PhaseOf
<1> QED
  BY <1>1, <1>2, <1>3

\* What stands, to the user, is what counts as a duplicate to a run.
LEMMA StandingPhases ==
    ASSUME TypeOK, NEW r \in Runs
    PROVE  /\ r \in Proposed => Phase[r] = PhaseOf(proposals[r].status)
           /\ r \notin Proposed => Phase[r] = IF runs[r] = "none" THEN "undecided" ELSE "declined"
           /\ Phase[r] \in Contract!Standing <=> r \in Proposed /\ proposals[r].status \in DuplicateStatus
<1>1. /\ r \in Proposed => Phase[r] = PhaseOf(proposals[r].status)
      /\ r \notin Proposed => Phase[r] = IF runs[r] = "none" THEN "undecided" ELSE "declined"
  BY DEF Phase
<1>2. CASE r \in Proposed
  <2>1. proposals[r].status \in ProposalStatus
    BY <1>2, ProposedState
  <2>2. PhaseOf(proposals[r].status) \in Contract!Standing <=> proposals[r].status \in DuplicateStatus
    BY <2>1, PhaseTable DEF ProposalStatus, DuplicateStatus, Contract!Standing
  <2> QED
    BY <1>1, <1>2, <2>2
<1>3. CASE r \notin Proposed
  BY <1>1, <1>3 DEF Contract!Standing
<1> QED
  BY <1>1, <1>2, <1>3

LEMMA OnePhaseMoves ==
    ASSUME NEW r \in Runs, NEW p, Phase'[r] = p, \A q \in Runs \ {r} : Phase'[q] = Phase[q]
    PROVE  Contract!Move(r, p)
<1>1. /\ Phase = [q \in Runs |-> Phase[q]]
      /\ Phase' = [q \in Runs |-> Phase'[q]]
  BY DEF Phase
<1> QED
  BY <1>1 DEF Contract!Move

\* What neither decides a run nor changes a proposal, a reservation or who may
\* trade is invisible.
LEMMA QuietStutters ==
    ASSUME UNCHANGED <<runs, proposals, held>>, \A a \in Agents : Active(a)' <=> Active(a)
    PROVE  UNCHANGED Contract!vars
<1>1. Trading' = Trading
  BY DEF Trading
<1>2. Phase' = Phase /\ Offers' = Offers
  BY DEF Phase, Offers, Proposed
<1> QED
  BY <1>1, <1>2 DEF Contract!vars

\* A change of one proposal's status is a move of its run.
LEMMA StatusMoves ==
    ASSUME TypeOK, NEW r \in Proposed, NEW st \in ProposalStatus \ {"RISK_REJECTED"},
           proposals[r].status # "RISK_REJECTED",
           proposals' = SetStatus(r, st), UNCHANGED <<runs, agents>>
    PROVE  /\ Contract!Move(r, PhaseOf(st)) /\ Offers' = Offers /\ Trading' = Trading
           /\ r \in Runs /\ Phase[r] = PhaseOf(proposals[r].status)
<1>1. r \in Runs /\ proposals[r] \in ProposalState
  BY ProposedState
<1>2. /\ proposals'[r].status = st /\ proposals'[r].symbol = proposals[r].symbol
      /\ \A q \in Runs \ {r} : proposals'[q] = proposals[q]
  BY <1>1, StatusSet DEF SetStatus, TypeOK
<1>3. Proposed' = Proposed
  BY <1>1, <1>2, ProposalFields DEF Proposed, ProposalStatus, NoProposal
<1>4. Contract!Move(r, PhaseOf(st))
  <2>1. Phase'[r] = PhaseOf(st)
    BY <1>1, <1>2, <1>3 DEF Phase
  <2>2. \A q \in Runs \ {r} : Phase'[q] = Phase[q]
    BY <1>2, <1>3 DEF Phase
  <2> QED
    BY <1>1, <2>1, <2>2, OnePhaseMoves
<1>5. Offers' = Offers
  <2> DEFINE Offering == {q \in Proposed : proposals[q].status # "RISK_REJECTED"}
  <2>1. Offering' = Offering /\ \A q \in Offering : proposals'[q].symbol = proposals[q].symbol
    BY <1>1, <1>2, <1>3 DEF Proposed
  <2> QED
    BY <2>1 DEF Offers
<1>6. Trading' = Trading
  BY DEF Trading, Active
<1> QED
  BY <1>1, <1>4, <1>5, <1>6 DEF Phase

LEMMA UserMoves ==
    ASSUME IInv, NEW r \in Proposed,
           Approve(r) \/ Reject(r) \/ Submit(r) \/ Fill(r) \/ CancelOrder(r)
    PROVE  Contract!Next
<1> USE DEF IInv
<1>1. r \in Runs /\ r[1] \in Agents
  BY ProposedState DEF Runs
<1>2. CASE Approve(r) \/ Reject(r)
  <2>1. PICK st \in {"APPROVED", "EXPIRED", "USER_REJECTED"} :
           /\ proposals' = SetStatus(r, st) /\ proposals[r].status = "AWAITING_USER_APPROVAL"
           /\ UNCHANGED <<runs, agents, held>> /\ (st = "APPROVED" => Active(r[1]))
    BY <1>2 DEF Approve, Reject
  <2>2. /\ Contract!Move(r, PhaseOf(st)) /\ Offers' = Offers /\ Trading' = Trading
        /\ Phase[r] = "asked" /\ PhaseOf(st) \in {"closed", "approved"}
        /\ (PhaseOf(st) = "approved" => st = "APPROVED")
    BY <2>1, StatusMoves, PhaseTable DEF ProposalStatus
  <2>3. PhaseOf(st) = "approved" => r[1] \in Trading
    BY <1>1, <2>1, <2>2 DEF Trading
  <2>4. Contract!Answer(r)
    BY <2>1, <2>2, <2>3 DEF Contract!Answer
  <2> QED
    BY <1>1, <2>4 DEF Contract!Next
<1>3. CASE Submit(r)
  <2>1. /\ proposals' = SetStatus(r, "SUBMITTING") /\ proposals[r].status = "APPROVED"
        /\ UNCHANGED <<runs, agents, held>>
    BY <1>3 DEF Submit
  <2>2. /\ Contract!Move(r, "submitted") /\ Offers' = Offers /\ Trading' = Trading
        /\ Phase[r] = "approved"
    BY <2>1, StatusMoves, PhaseTable DEF ProposalStatus
  <2>3. r[1] \in Trading /\ r \in held
    BY <1>1, <2>1 DEF Trading, ApprovedIsActive, ReservationFollowsProposal
  <2>4. Contract!Submit(r)
    BY <2>1, <2>2, <2>3 DEF Contract!Submit
  <2> QED
    BY <1>1, <2>4 DEF Contract!Next
<1>4. CASE Fill(r) \/ CancelOrder(r)
  <2>1. PICK st \in {"FILLED", "CANCELED"} :
           /\ proposals' = SetStatus(r, st) /\ orders[r] = "open"
           /\ UNCHANGED <<runs, agents>>
           /\ held' = IF st = "FILLED" THEN held ELSE held \ {r}
    BY <1>4 DEF Fill, CancelOrder
  <2>2. proposals[r].status = "SUBMITTING"
    BY <1>1, <2>1 DEF OrdersFollowProposals
  <2>3. /\ Contract!Move(r, PhaseOf(st)) /\ Offers' = Offers /\ Trading' = Trading
        /\ Phase[r] = "submitted" /\ PhaseOf(st) = IF st = "FILLED" THEN "filled" ELSE "canceled"
    BY <2>1, <2>2, StatusMoves, PhaseTable DEF ProposalStatus
  <2>4. Contract!Finish(r)
    BY <2>1, <2>3 DEF Contract!Finish
  <2> QED
    BY <1>1, <2>4 DEF Contract!Next
<1> QED
  BY <1>2, <1>3, <1>4

\* Stopping agents withdraws what they have standing, to the user as well.
LEMMA StopMoves ==
    ASSUME IInv, NEW A \in SUBSET Agents, NEW status \in {"paused", "removed"}, Stop(A, status)
    PROVE  Contract!Next
<1> USE DEF IInv
<1>1. /\ agents' = [a \in Agents |-> IF a \in A /\ agents[a].status # "removed"
                                     THEN [agents[a] EXCEPT !.status = status] ELSE agents[a]]
      /\ proposals' = [r \in Runs |-> IF r \in Unsubmitted(A)
                                      THEN [proposals[r] EXCEPT !.status = "CANCELED"] ELSE proposals[r]]
      /\ held' = held \ Unsubmitted(A)
      /\ UNCHANGED runs
  BY DEF Stop, CancelWork, Released
<1> DEFINE Withdrawn == {r \in Runs : r[1] \in A /\ Phase[r] \in Contract!Standing}
<1>2. Withdrawn = Unsubmitted(A)
  <2>1. \A r \in Proposed : r \in Runs
    BY DEF Proposed
  <2>2. \A r \in Runs : proposals[r].status \in DuplicateStatus => orders[r] = "none"
    BY DEF OrdersFollowProposals, DuplicateStatus, TypeOK
  <2> QED
    BY <2>1, <2>2, StandingPhases DEF Unsubmitted
<1>3. ASSUME NEW r \in Unsubmitted(A)
      PROVE  /\ r \in Proposed /\ r \in Runs /\ proposals[r].status \in DuplicateStatus
             /\ proposals'[r].status = "CANCELED" /\ proposals'[r].symbol = proposals[r].symbol
  <2>1. r \in Proposed /\ r \in Runs /\ proposals[r].status \in DuplicateStatus
    BY ProposedState DEF Unsubmitted
  <2>2. proposals[r] \in ProposalState /\ "CANCELED" \in ProposalStatus
    BY <2>1, ProposedState DEF ProposalStatus
  <2>3. proposals'[r] = [proposals[r] EXCEPT !.status = "CANCELED"]
    BY <1>1, <2>1
  <2> QED
    BY <2>1, <2>2, <2>3, StatusSet
<1>4. ASSUME NEW r \in Runs, r \notin Unsubmitted(A) PROVE proposals'[r] = proposals[r]
  BY <1>1, <1>4
<1>5. Proposed' = Proposed
  BY <1>3, <1>4, ProposalFields DEF Proposed, NoProposal
<1>6. Phase' = [r \in Runs |-> IF r \in Withdrawn THEN "canceled" ELSE Phase[r]]
  <2>1. ASSUME NEW r \in Runs
        PROVE  Phase'[r] = IF r \in Unsubmitted(A) THEN "canceled" ELSE Phase[r]
    BY <1>1, <1>3, <1>4, <1>5, PhaseTable DEF Phase
  <2> QED
    BY <1>2, <2>1 DEF Phase
<1>7. Offers' = Offers
  <2> DEFINE Offering == {q \in Proposed : proposals[q].status # "RISK_REJECTED"}
  <2>1. ASSUME NEW q \in Proposed
        PROVE  /\ proposals'[q].symbol = proposals[q].symbol
               /\ proposals'[q].status = "RISK_REJECTED" <=> proposals[q].status = "RISK_REJECTED"
    BY <1>3, <1>4 DEF Proposed, DuplicateStatus
  <2>2. Offering' = Offering /\ \A q \in Offering : proposals'[q].symbol = proposals[q].symbol
    BY <1>5, <2>1
  <2> QED
    BY <2>2 DEF Offers
<1>8. Trading' = Trading \ A
  <2>1. ASSUME NEW a \in Agents PROVE Active(a)' <=> Active(a) /\ a \notin A
    BY <1>1 DEF Active, ActiveStatus, TypeOK
  <2> QED
    BY <2>1 DEF Trading
<1>9. Contract!Stop(A)
  BY <1>1, <1>2, <1>6, <1>7, <1>8 DEF Contract!Stop
<1> QED
  BY <1>9 DEF Contract!Next

LEMMA ResumeMoves == ASSUME IInv, NEW a \in Agents, Resume(a) PROVE Contract!Next
<1>1. /\ agents' = [agents EXCEPT ![a].status = "monitoring"]
      /\ UNCHANGED <<runs, proposals, held>>
  BY DEF Resume
<1>2. Trading' = Trading \cup {a}
  <2>1. Active(a)' /\ \A b \in Agents \ {a} : Active(b)' <=> Active(b)
    BY <1>1 DEF Active, ActiveStatus, IInv, TypeOK
  <2> QED
    BY <2>1 DEF Trading
<1>3. Phase' = Phase /\ Offers' = Offers
  BY <1>1 DEF Phase, Offers, Proposed
<1>4. Contract!Resume(a)
  BY <1>1, <1>2, <1>3 DEF Contract!Resume
<1> QED
  BY <1>4 DEF Contract!Next

\* What a run read may be long past when it commits, but whatever would have
\* changed its decision it would have missed.
LEMMA CommitMoves == ASSUME IInv, NEW w \in Workers, Commit(w) PROVE Contract!Next
<1> USE DEF IInv
<1> DEFINE t == txns[w]
           r == t.run
<1>1. /\ t \in TxnState /\ t.open /\ ~MustAbort(t) /\ r \in Runs /\ t.decision \in Decisions
      /\ t.symbol \in Symbols /\ runs[r] = "none" /\ r \notin Proposed
      /\ runs'[r] # "none"
      /\ \A q \in Runs \ {r} : runs'[q] = runs[q] /\ proposals'[q] = proposals[q]
      /\ Proposes(t.decision) =>
            /\ proposals'[r].status = t.decision /\ proposals'[r].symbol = t.symbol
            /\ Proposed' = Proposed \cup {r}
      /\ ~Proposes(t.decision) => Proposed' = Proposed
      /\ held' = IF Reserves(t.decision) THEN held \cup {r} ELSE held
      /\ UNCHANGED agents
  BY CommitEffect, TxnFields DEF Commit
<1>2. Trading' = Trading
  BY <1>1 DEF Trading, Active
<1>3. Phase[r] = "undecided"
  BY <1>1 DEF Phase
<1> DEFINE d == IF Proposes(t.decision) THEN PhaseOf(t.decision) ELSE "declined"
<1> HIDE DEF t
<1>4. Contract!Move(r, d)
  <2>1. Phase'[r] = d
    BY <1>1 DEF Phase
  <2>2. \A q \in Runs \ {r} : Phase'[q] = Phase[q]
    BY <1>1 DEF Phase
  <2> QED
    BY <1>1, <2>1, <2>2, OnePhaseMoves
<1>5. CASE t.decision \in {"failed", "no_action", "RISK_REJECTED"}
  <2>1. d = "declined" /\ ~Reserves(t.decision)
    BY <1>5, PhaseTable DEF Proposes, Reserves
  <2>2. Offers' = Offers
    <3> DEFINE Offering == {q \in Proposed : proposals[q].status # "RISK_REJECTED"}
    <3>1. Offering' = Offering /\ \A q \in Offering : proposals'[q].symbol = proposals[q].symbol
      BY <1>1, <1>5 DEF Proposed, Proposes
    <3> QED
      BY <3>1 DEF Offers
  <2>3. Contract!Decline(r)
    BY <1>1, <1>2, <1>3, <1>4, <2>1, <2>2 DEF Contract!Decline
  <2> QED
    BY <1>1, <2>3 DEF Contract!Next
<1>6. CASE t.decision \in {"BROKER_REVIEWED", "AWAITING_USER_APPROVAL"}
  <2>1. Proposes(t.decision) /\ t.decision \in DuplicateStatus
    BY <1>6 DEF Proposes, DuplicateStatus
  <2>2. Offers' = Offers \cup {<<r, t.symbol>>}
    <3> DEFINE Offering == {q \in Proposed : proposals[q].status # "RISK_REJECTED"}
    <3>1. /\ Offering' = Offering \cup {r} /\ proposals'[r].symbol = t.symbol
          /\ \A q \in Offering : proposals'[q].symbol = proposals[q].symbol
      BY <1>1, <1>6, <2>1 DEF Proposed
    <3> QED
      BY <3>1 DEF Offers
  <2>3. ASSUME NEW q \in Runs, Contract!Stands(q, t.symbol) PROVE FALSE
    <3>1. q \in Proposed /\ proposals[q].status \in DuplicateStatus /\ proposals[q].symbol = t.symbol
      BY <2>3, StandingPhases DEF Contract!Stands, Offers
    <3>2. PICK m \in t.missed : m.symbol = t.symbol /\ m.decision \in DuplicateStatus
      BY <1>1, <2>1, <3>1 DEF DuplicatesMissed, t
    <3> QED
      BY <1>1, <2>1, <3>2, CommitSawAll
  <2>4. \/ d = "shown" /\ held' = held
        \/ d = "asked" /\ held' = held \cup {r}
    BY <1>1, <1>6, <2>1, PhaseTable DEF Reserves
  <2>5. Contract!Offer(r, t.symbol)
    BY <1>2, <1>3, <1>4, <2>2, <2>3, <2>4 DEF Contract!Offer
  <2> QED
    BY <1>1, <2>5 DEF Contract!Next
<1> QED
  BY <1>1, <1>5, <1>6 DEF Decisions

\* executeRun in a serializable transaction, setAgentStatus, approveProposal and
\* the submission: whatever is concurrent, repeated or overtaken, to the user
\* each run decides once, at one instant, against everything that stands.
THEOREM RunsAreAtomic == Spec => RunsKeepContract
<1>1. Init => Contract!Init
  <2> SUFFICES ASSUME Init PROVE Contract!Init
    OBVIOUS
  <2>1. Proposed = {} /\ held = {} /\ \A r \in Runs : runs[r] = "none"
    BY DEF Init, Proposed
  <2>2. \A a \in Agents : Active(a)
    BY DEF Init, Active, ActiveStatus
  <2> QED
    BY <2>1, <2>2 DEF Contract!Init, Trading, Phase, Offers
<1>2. IInv /\ [Next]_vars => [Contract!Next]_(Contract!vars)
  <2> SUFFICES ASSUME IInv, [Next]_vars PROVE Contract!Next \/ UNCHANGED Contract!vars
    OBVIOUS
  <2>1. ASSUME NEW r \in Proposed, Approve(r) \/ Reject(r) \/ Submit(r) \/ Fill(r) \/ CancelOrder(r)
        PROVE  Contract!Next
    BY <2>1, UserMoves
  <2>2. ASSUME NEW A \in SUBSET Agents, NEW status \in {"paused", "removed"}, Stop(A, status)
        PROVE  Contract!Next
    BY <2>2, StopMoves
  <2>3. ASSUME NEW a \in Agents, Resume(a) PROVE Contract!Next
    BY <2>3, ResumeMoves
  <2>4. ASSUME NEW w \in Workers, Commit(w) PROVE Contract!Next
    BY <2>4, CommitMoves
  <2>5. ASSUME NEW a \in Agents, Configure(a) PROVE UNCHANGED Contract!vars
    <3>1. \A b \in Agents : agents'[b].status = agents[b].status
      <4>1. CASE \E m \in Modes : agents' = [agents EXCEPT ![a].mode = m]
        BY <4>1 DEF IInv, TypeOK
      <4>2. CASE \E x \in Symbols : agents' = [agents EXCEPT ![a].symbol = x]
        BY <4>2 DEF IInv, TypeOK
      <4> QED
        BY <2>5, <4>1, <4>2 DEF Configure
    <3>2. UNCHANGED <<runs, proposals, held>> /\ \A b \in Agents : Active(b)' <=> Active(b)
      BY <2>5, <3>1 DEF Configure, Active
    <3> QED
      BY <3>2, QuietStutters
  <2>6. CASE \/ \E r \in Runs, w \in Workers : Begin(w, r)
             \/ \E w \in Workers : Abort(w)
             \/ \E r \in Proposed : Check(r) \/ Place(r)
             \/ Sync \/ Advance \/ UNCHANGED vars
    <3>1. UNCHANGED <<agents, runs, proposals, held>>
      BY <2>6 DEF Begin, Abort, Check, Place, Sync, Advance, vars
    <3> QED
      BY <3>1, QuietStutters DEF Active
  <2> QED
    BY <2>1, <2>2, <2>3, <2>4, <2>5, <2>6 DEF Next, Pause, Remove
<1> QED
  BY <1>1, <1>2, Invariance, PTL DEF Spec, RunsKeepContract, Contract!Spec
=============================================================================
