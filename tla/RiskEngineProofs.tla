--------------------------- MODULE RiskEngineProofs ---------------------------
(***************************************************************************)
(* What docs/architecture/risk-engine.md promises of the two layers of     *)
(* limits, for every policy, proposal and context: a user may tighten the  *)
(* platform's limits and never loosen them.                                *)
(***************************************************************************)
EXTENDS RiskEngine, TLAPS

\* What evaluateRisk's schemas admit.
IsPolicy(policy) == policy \in [Limits -> Int]
IsContext(c) ==
    /\ c.now \in Int /\ c.accountAt \in Int /\ c.accountValue \in Int
    /\ c.buyingPower \in Int /\ c.ownReserved \in Int /\ c.otherReserved \in Int
    /\ c.positionValue \in Int /\ c.sectorValue \in Int /\ c.allocated \in Int
    /\ c.positionCount \in Int /\ c.agentAllocated \in Int /\ c.agentLimit \in Int
    /\ c.dailyLoss \in Int /\ c.drawdown \in Int /\ c.tradesToday \in Int
    /\ c.turnover \in Int /\ c.deviation \in Int /\ c.optionsExposure \in Int
    /\ c.expiry \in Int /\ c.spread \in Int
IsProposal(p) ==
    /\ p.notional \in Int /\ p.quantity \in Int /\ p.contracts \in Int
    /\ p.risk \in Int /\ p.maximumLoss \in Int
    /\ p.quoteAt \in Int /\ p.dataAt \in Int /\ p.expires \in Int
    /\ p.exit.closable \in Int /\ p.exit.verified \in Int

\* The ceilings and the floors of a policy that oversteps nothing.
Tightens(policy) ==
    /\ policy.allocation <= 80 /\ policy.position <= 50000 /\ policy.order <= 10000
    /\ policy.loss <= 5000 /\ policy.drawdown <= 20 /\ policy.positions <= 30
    /\ policy.symbol <= 20 /\ policy.sector <= 40 /\ policy.trades <= 20
    /\ policy.turnover <= 100 /\ policy.options <= 20 /\ policy.optionRisk <= 2500
    /\ policy.contracts <= 10 /\ policy.maxExpiry <= 365 /\ policy.spread <= 10
    /\ policy.quoteAge <= 30 /\ policy.accountAge <= 60 /\ policy.deviation <= 3
    /\ policy.reserve >= 10 /\ policy.minExpiry >= 14

\* A policy without violations stays within each limit of PLATFORM_RISK_LIMITS.
LEMMA NoViolationTightens ==
    ASSUME NEW policy, IsPolicy(policy), Violations(policy) = {}
    PROVE  Tightens(policy)
<1>1. \A l \in Limits : ~(l \in FloorLimits /\ policy[l] < Platform[l])
  BY DEF Violations
<1>2. \A l \in Limits : ~(l \notin FloorLimits /\ policy[l] > Platform[l])
  BY DEF Violations
<1> QED
  BY <1>1, <1>2 DEF Tightens, IsPolicy, Limits, Platform, FloorLimits

\* PLATFORM_RISK_LIMITS oversteps nothing of its own.
LEMMA PlatformHasNoViolation == Violations(Platform) = {}
  BY DEF Violations, Limits, Platform, FloorLimits

\* Products with a part of the account's value keep the order of the limits.
LEMMA ProductMonotone ==
    ASSUME NEW l \in Int, NEW m \in Int, NEW v \in Int, l <= m, v >= 0
    PROVE  l * v <= m * v /\ l * v \in Int /\ m * v \in Int
  OBVIOUS

\* A larger limit on a ratio admits what a smaller one does.
LEMMA WithinMonotone ==
    ASSUME NEW c, IsContext(c), NEW amount \in Int, NEW l \in Int, NEW m \in Int,
           l <= m, Within(amount, l, c)
    PROVE  Within(amount, m, c)
<1>1. c.accountValue \in Int /\ c.accountValue > 0 /\ amount * 100 <= l * c.accountValue
  BY DEF Within, IsContext
<1>2. l * c.accountValue <= m * c.accountValue /\ {l * c.accountValue, m * c.accountValue} \subseteq Int
  BY <1>1, ProductMonotone
<1> QED
  BY <1>1, <1>2 DEF Within

\* The exposure checks, one by one.
ExposureHolds(p, policy, c) ==
    LET after(held) == AtLeastZero(held + Signed(p))
        spent == IF IsSale(p) THEN 0 ELSE p.notional
        opened == IF ~IsSale(p) /\ c.positionValue = 0 THEN 1 ELSE 0
        capital == IF c.accountValue < 1 THEN 1 ELSE c.accountValue
    IN /\ p.notional <= policy.order
       /\ after(c.positionValue) <= policy.position
       /\ Within(after(c.positionValue), policy.symbol, c)
       /\ Within(after(c.sectorValue), policy.sector, c)
       /\ Within(after(c.allocated), policy.allocation, c)
       /\ c.positionCount + opened <= policy.positions
       /\ IsSale(p) \/ Available(c) >= p.notional
       /\ c.accountValue > 0
       /\ policy.reserve * c.accountValue <= (Available(c) - spent) * 100
       /\ c.dailyLoss < policy.loss
       /\ c.drawdown < policy.drawdown
       /\ after(c.agentAllocated) <= c.agentLimit
       /\ c.tradesToday < policy.trades
       /\ c.turnover * capital + p.notional * 100 <= policy.turnover * capital

\* No exposure check fails exactly when each of them holds.
LEMMA NoExposureFailure ==
    ASSUME NEW p, NEW policy, NEW c
    PROVE  ExposureFailures(p, policy, c) = {} <=> ExposureHolds(p, policy, c)
  BY DEF ExposureFailures, ExposureHolds, Failing

\* A protective exit that is too old for the platform is too old for a tighter policy.
LEMMA ExitUnderPolicyIsExit ==
    ASSUME NEW p, NEW policy, NEW c, IsPolicy(policy), IsContext(c), IsProposal(p),
           Tightens(policy), ProtectiveExit(p, policy, c)
    PROVE  ProtectiveExit(p, Platform, c)
<1>1. policy.accountAge \in Int /\ Platform.accountAge = 60
  BY DEF IsPolicy, Limits, Platform
<1> QED
  BY <1>1 DEF ProtectiveExit, IsContext, IsProposal, Tightens

\* The exposure checks under a tighter policy imply those under the platform's.
LEMMA ExposureTightens ==
    ASSUME NEW p, NEW policy, NEW c, IsPolicy(policy), IsContext(c), IsProposal(p),
           Tightens(policy), ExposureFailures(p, policy, c) = {}
    PROVE  ExposureFailures(p, Platform, c) = {}
<1> DEFINE after(held) == AtLeastZero(held + Signed(p))
           spent == IF IsSale(p) THEN 0 ELSE p.notional
           capital == IF c.accountValue < 1 THEN 1 ELSE c.accountValue
<1>1. ExposureHolds(p, policy, c)
  BY NoExposureFailure
<1>2. \A held \in Int : after(held) \in Int
  BY DEF AtLeastZero, Signed, IsProposal
<1>3. after(c.positionValue) \in Int
  BY DEF AtLeastZero, Signed, IsProposal, IsContext
<1>4. capital \in Int /\ capital >= 0 /\ spent \in Int /\ Available(c) \in Int
  BY DEF IsContext, IsProposal, Available
<1>5. \A l \in Limits : policy[l] \in Int /\ Platform[l] \in Int
  BY DEF IsPolicy, Limits, Platform
<1>6. /\ Within(after(c.positionValue), 20, c)
      /\ Within(after(c.sectorValue), 40, c)
      /\ Within(after(c.allocated), 80, c)
  <2>1. policy.symbol \in Int /\ policy.sector \in Int /\ policy.allocation \in Int
    BY DEF IsPolicy, Limits, Platform
  <2>2. /\ Within(after(c.positionValue), policy.symbol, c)
        /\ Within(after(c.sectorValue), policy.sector, c)
        /\ Within(after(c.allocated), policy.allocation, c)
    BY <1>1 DEF ExposureHolds
  <2>3. after(c.sectorValue) \in Int /\ after(c.allocated) \in Int
    BY <1>2 DEF IsContext
  <2>4. policy.symbol <= 20 /\ policy.sector <= 40 /\ policy.allocation <= 80
    BY DEF Tightens
  <2> HIDE DEF after
  <2>5. Within(after(c.positionValue), 20, c)
    BY <1>3, <2>1, <2>2, <2>4, WithinMonotone
  <2>6. Within(after(c.sectorValue), 40, c)
    BY <2>1, <2>2, <2>3, <2>4, WithinMonotone
  <2>7. Within(after(c.allocated), 80, c)
    BY <2>1, <2>2, <2>3, <2>4, WithinMonotone
  <2> QED
    BY <2>5, <2>6, <2>7
<1>7. c.accountValue > 0 /\ 10 * c.accountValue <= (Available(c) - spent) * 100
  <2>1. policy.reserve \in Int /\ policy.reserve >= 10 /\ c.accountValue \in Int
    BY DEF IsPolicy, Limits, Platform, Tightens, IsContext
  <2>2. c.accountValue > 0 /\ policy.reserve * c.accountValue <= (Available(c) - spent) * 100
    BY <1>1 DEF ExposureHolds
  <2>3. 10 * c.accountValue <= policy.reserve * c.accountValue /\ policy.reserve * c.accountValue \in Int
    BY <2>1, <2>2, ProductMonotone
  <2> HIDE DEF spent
  <2> QED
    BY <1>4, <2>1, <2>2, <2>3
<1>8. c.turnover * capital + p.notional * 100 <= 100 * capital
  <2>1. policy.turnover \in Int /\ policy.turnover <= 100
    BY DEF IsPolicy, Limits, Platform, Tightens
  <2>2. c.turnover * capital + p.notional * 100 <= policy.turnover * capital
    BY <1>1 DEF ExposureHolds
  <2>3. c.turnover \in Int /\ p.notional \in Int
    BY DEF IsContext, IsProposal
  <2> HIDE DEF capital
  <2>4. c.turnover * capital \in Int /\ policy.turnover * capital <= 100 * capital
        /\ policy.turnover * capital \in Int
    BY <1>4, <2>1, <2>3, ProductMonotone
  <2> QED
    BY <1>4, <2>1, <2>2, <2>3, <2>4
<1>9. /\ p.notional <= 10000 /\ after(c.positionValue) <= 50000
      /\ c.positionCount + (IF ~IsSale(p) /\ c.positionValue = 0 THEN 1 ELSE 0) <= 30
      /\ c.dailyLoss < 5000 /\ c.drawdown < 20 /\ c.tradesToday < 20
  <2>1. /\ p.notional <= policy.order /\ after(c.positionValue) <= policy.position
        /\ c.positionCount + (IF ~IsSale(p) /\ c.positionValue = 0 THEN 1 ELSE 0) <= policy.positions
        /\ c.dailyLoss < policy.loss /\ c.drawdown < policy.drawdown /\ c.tradesToday < policy.trades
    BY <1>1 DEF ExposureHolds
  <2>2. /\ policy.order \in Int /\ policy.position \in Int /\ policy.positions \in Int
        /\ policy.loss \in Int /\ policy.drawdown \in Int /\ policy.trades \in Int
    BY DEF IsPolicy, Limits, Platform
  <2>3. /\ policy.order <= 10000 /\ policy.position <= 50000 /\ policy.positions <= 30
        /\ policy.loss <= 5000 /\ policy.drawdown <= 20 /\ policy.trades <= 20
    BY DEF Tightens
  <2>4. /\ p.notional \in Int /\ c.positionCount \in Int
        /\ c.dailyLoss \in Int /\ c.drawdown \in Int /\ c.tradesToday \in Int
    BY DEF IsContext, IsProposal
  <2> QED
    BY <1>3, <2>1, <2>2, <2>3, <2>4
<1>10. /\ Platform.order = 10000 /\ Platform.position = 50000 /\ Platform.positions = 30
       /\ Platform.loss = 5000 /\ Platform.drawdown = 20 /\ Platform.trades = 20
       /\ Platform.symbol = 20 /\ Platform.sector = 40 /\ Platform.allocation = 80
       /\ Platform.reserve = 10 /\ Platform.turnover = 100
  BY DEF Platform
<1>11. /\ IsSale(p) \/ Available(c) >= p.notional
       /\ after(c.agentAllocated) <= c.agentLimit
  BY <1>1 DEF ExposureHolds
<1>12. ExposureHolds(p, Platform, c)
  BY <1>6, <1>7, <1>8, <1>9, <1>10, <1>11 DEF ExposureHolds
<1> QED
  BY <1>12, NoExposureFailure

\* So do the checks of ages,
LEMMA AgesTighten ==
    ASSUME NEW p, NEW policy, NEW c, IsPolicy(policy), IsContext(c), IsProposal(p),
           Tightens(policy), AgeFailures(p, policy, c) = {}
    PROVE  AgeFailures(p, Platform, c) = {}
<1>1. /\ policy.quoteAge \in Int /\ policy.accountAge \in Int
      /\ Platform.quoteAge = 30 /\ Platform.accountAge = 60
      /\ policy.quoteAge <= 30 /\ policy.accountAge <= 60
  BY DEF IsPolicy, Limits, Platform, Tightens
<1> HIDE DEF Platform
<1> QED
  BY <1>1 DEF AgeFailures, Failing, IsContext, IsProposal

\* those of options,
LEMMA OptionsTighten ==
    ASSUME NEW p, NEW policy, NEW c, NEW exit \in BOOLEAN,
           IsPolicy(policy), IsContext(c), IsProposal(p),
           Tightens(policy), OptionFailures(p, policy, c, exit) = {}
    PROVE  OptionFailures(p, Platform, c, exit) = {}
<1> DEFINE exposure == AtLeastZero(c.optionsExposure + (IF exit THEN -p.risk ELSE p.risk))
<1>1. /\ policy.options \in Int /\ policy.optionRisk \in Int /\ policy.contracts \in Int
      /\ policy.minExpiry \in Int /\ policy.maxExpiry \in Int /\ policy.spread \in Int
      /\ policy.options <= 20 /\ policy.optionRisk <= 2500 /\ policy.contracts <= 10
      /\ policy.minExpiry >= 14 /\ policy.maxExpiry <= 365 /\ policy.spread <= 10
  BY DEF IsPolicy, Limits, Platform, Tightens
<1>2. /\ Platform.options = 20 /\ Platform.optionRisk = 2500 /\ Platform.contracts = 10
      /\ Platform.minExpiry = 14 /\ Platform.maxExpiry = 365 /\ Platform.spread = 10
  BY DEF Platform
<1>3. exposure \in Int
  BY DEF AtLeastZero, IsContext, IsProposal
<1>4. Within(exposure, policy.options, c) => Within(exposure, 20, c)
  <2> HIDE DEF exposure
  <2> QED
    BY <1>1, <1>3, WithinMonotone
<1> QED
  BY <1>1, <1>2, <1>4 DEF OptionFailures, Failing, IsContext, IsProposal

\* and the others.
LEMMA OthersTighten ==
    ASSUME NEW p, NEW policy, NEW c, NEW exit, IsPolicy(policy), IsContext(c),
           Tightens(policy), OtherFailures(p, policy, c, exit) = {}
    PROVE  OtherFailures(p, Platform, c, exit) = {}
<1>1. /\ policy.deviation \in Int /\ policy.deviation <= 3 /\ Platform.deviation = 3
  BY DEF IsPolicy, Limits, Platform, Tightens
<1> HIDE DEF Platform
<1> QED
  BY <1>1, PlatformHasNoViolation DEF OtherFailures, Failing, IsContext

\* docs/architecture/risk-engine.md: a user's limits may be stricter than the
\* platform's, never looser.  Whatever policy a user has, an order that passes
\* evaluateRisk under it passes under PLATFORM_RISK_LIMITS: no setting opens a
\* way, not even that of a protective exit, which a policy's own freshness
\* limit guards and which waives the exposure checks.
THEOREM UserLimitsOnlyTighten ==
    ASSUME NEW p, NEW policy, NEW c, IsPolicy(policy), IsContext(c), IsProposal(p),
           Passed(p, policy, c)
    PROVE  Passed(p, Platform, c)
<1> DEFINE exit == ProtectiveExit(p, policy, c)
<1>1. /\ FactFailures(p, c, exit) = {}
      /\ exit \/ ExposureFailures(p, policy, c) = {}
      /\ AgeFailures(p, policy, c) = {}
      /\ OptionFailures(p, policy, c, exit) = {}
      /\ OtherFailures(p, policy, c, exit) = {}
  BY DEF Passed
<1>2. Violations(policy) = {} /\ (p.exit.given => exit)
  BY <1>1 DEF OtherFailures, Failing
<1>3. Tightens(policy)
  BY <1>2, NoViolationTightens
<1>4. exit \in BOOLEAN
  BY DEF ProtectiveExit
<1>5. exit = ProtectiveExit(p, Platform, c)
  <2>1. CASE exit
    BY <2>1, <1>3, <1>4, ExitUnderPolicyIsExit DEF ProtectiveExit
  <2>2. CASE ~exit
    BY <2>2, <1>2, <1>4 DEF ProtectiveExit
  <2> QED
    BY <2>1, <2>2
<1> HIDE DEF exit
<1>6. exit \/ ExposureFailures(p, Platform, c) = {}
  BY <1>1, <1>3, ExposureTightens
<1>7. /\ AgeFailures(p, Platform, c) = {}
      /\ OptionFailures(p, Platform, c, exit) = {}
      /\ OtherFailures(p, Platform, c, exit) = {}
  BY <1>1, <1>3, <1>4, AgesTighten, OptionsTighten, OthersTighten
<1> QED
  BY <1>1, <1>5, <1>6, <1>7 DEF Passed
=============================================================================
