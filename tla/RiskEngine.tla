----------------------------- MODULE RiskEngine -----------------------------
(***************************************************************************)
(* evaluateRisk: the pure function over a proposal, the user's policy and  *)
(* what the server knows (the context), that every new order passes twice, *)
(* in the agent run and again before its submission.                       *)
(*                                                                         *)
(* Amounts are whole units and ratios percentages.  A check that reads one *)
(* fact of the context (a halt, a session, a consent) is its code: the     *)
(* context's `raised' holds the codes whose fact speaks against the order. *)
(***************************************************************************)
EXTENDS Integers

\* PLATFORM_RISK_LIMITS.
Platform ==
    [allocation |-> 80, position |-> 50000, order |-> 10000, loss |-> 5000, drawdown |-> 20,
     reserve |-> 10, positions |-> 30, symbol |-> 20, sector |-> 40, trades |-> 20,
     turnover |-> 100, options |-> 20, optionRisk |-> 2500, contracts |-> 10,
     minExpiry |-> 14, maxExpiry |-> 365, spread |-> 10,
     quoteAge |-> 30, accountAge |-> 60, deviation |-> 3]
Limits == DOMAIN Platform

\* validateUserPolicyAgainstPlatform: the limits a policy oversteps.
FloorLimits == {"reserve", "minExpiry"}
Violations(policy) ==
    {l \in Limits : \/ policy[l] < 0
                    \/ (l \in FloorLimits /\ policy[l] < Platform[l])
                    \/ (l \notin FloorLimits /\ policy[l] > Platform[l])}
    \cup {l \in {"reserve"} : policy[l] > 100}
    \cup {l \in {"minExpiry"} : policy.minExpiry > policy.maxExpiry}

MaxClockSkew == 5

\* The checks of one fact, and those a protective exit is exempt from.
Facts ==
    {"POLICY_USER_BINDING", "LIVE_RELEASE_GATES", "USER_ACTIVE", "LEGAL_CONSENTS_CURRENT", "ENTITLEMENT",
     "ACCOUNT_CONNECTION", "AGENTIC_ACCOUNT_BINDING", "STRATEGY_ENABLED", "TRADING_PERMISSION",
     "MARKET_SESSION", "CRITICAL_SERVICES_HEALTHY", "SECURITY_HALT_CLEAR", "NO_DUPLICATE_PROPOSAL",
     "NO_DUPLICATE_OPEN_ORDER", "SYMBOL_NOT_EXCLUDED", "SECTOR_NOT_EXCLUDED", "TRADABLE",
     "FRACTIONAL_SUPPORTED", "LIQUIDITY", "VOLATILITY_HALT_CLEAR", "TRADING_HALT_CLEAR",
     "CORPORATE_ACTION_CLEAR", "EARNINGS_RULE", "COOLDOWN_CLEAR", "BROKER_WARNING"}
OptionFacts == {"SUPPORTED_ORDER_TYPE", "OPTION_PERMISSION", "OPTION_COVERAGE"}
WaivedForExit ==
    {"ENTITLEMENT", "STRATEGY_ENABLED", "SECURITY_HALT_CLEAR", "SYMBOL_NOT_EXCLUDED",
     "SECTOR_NOT_EXCLUDED", "EARNINGS_RULE", "COOLDOWN_CLEAR", "OPTION_PERMISSION", "OPTION_COVERAGE"}

\* p.exit: the scope of a protective exit that the position service verified; one
\* of another account, symbol or instrument closes nothing of this one.
NoExit == [closable |-> 0, verified |-> 0, given |-> FALSE]
IsSale(p) == p.instrument = "equity" /\ p.side = "sell"
ProtectiveExit(p, policy, c) ==
    /\ p.exit.given
    /\ p.exit.closable > 0 /\ p.quantity <= p.exit.closable
    /\ c.now - p.exit.verified <= policy.accountAge
    /\ IsSale(p) \/ (p.instrument = "option" /\ p.closes)

AtLeastZero(n) == IF n < 0 THEN 0 ELSE n
Signed(p) == IF IsSale(p) THEN -p.notional ELSE p.notional

\* What others have reserved is not there to spend.
Available(c) == c.buyingPower - c.ownReserved - c.otherReserved

\* Parts of the account's value: a ratio compared with a limit.
Within(amount, limit, c) == c.accountValue > 0 /\ amount * 100 <= limit * c.accountValue

\* check: its code, unless it passes.
Failing(code, passed) == {c \in {code} : ~passed}

\* The checks of new exposure, none of which binds a protective exit.
ExposureFailures(p, policy, c) ==
    LET after(held) == AtLeastZero(held + Signed(p))
        spent == IF IsSale(p) THEN 0 ELSE p.notional
        opened == IF ~IsSale(p) /\ c.positionValue = 0 THEN 1 ELSE 0
        capital == IF c.accountValue < 1 THEN 1 ELSE c.accountValue
    IN UNION {
        Failing("ORDER_AMOUNT", p.notional <= policy.order),
        Failing("POSITION_AMOUNT", after(c.positionValue) <= policy.position),
        Failing("SYMBOL_CONCENTRATION", Within(after(c.positionValue), policy.symbol, c)),
        Failing("SECTOR_CONCENTRATION", Within(after(c.sectorValue), policy.sector, c)),
        Failing("ACCOUNT_ALLOCATION", Within(after(c.allocated), policy.allocation, c)),
        Failing("POSITION_COUNT", c.positionCount + opened <= policy.positions),
        Failing("BUYING_POWER", IsSale(p) \/ Available(c) >= p.notional),
        Failing("BUYING_POWER_RESERVE",
                /\ c.accountValue > 0
                /\ policy.reserve * c.accountValue <= (Available(c) - spent) * 100),
        Failing("DAILY_LOSS", c.dailyLoss < policy.loss),
        Failing("DRAWDOWN", c.drawdown < policy.drawdown),
        Failing("AGENT_ALLOCATION", after(c.agentAllocated) <= c.agentLimit),
        Failing("DAILY_TRADES", c.tradesToday < policy.trades),
        Failing("DAILY_TURNOVER",
                c.turnover * capital + p.notional * 100 <= policy.turnover * capital)}

\* The ages of what the decision rests on, and clocks that run ahead.
AgeFailures(p, policy, c) ==
    LET stamps == {p.quoteAt, p.dataAt, c.accountAt}
                      \cup (IF p.exit.given THEN {p.exit.verified} ELSE {})
    IN UNION {
        Failing("CLOCK_DRIFT", \A t \in stamps : t - c.now <= MaxClockSkew),
        Failing("QUOTE_FRESHNESS", c.now - p.quoteAt <= policy.quoteAge),
        Failing("DATA_FRESHNESS", c.now - p.dataAt <= policy.quoteAge),
        Failing("ACCOUNT_FRESHNESS", c.now - c.accountAt <= policy.accountAge),
        Failing("APPROVAL_CURRENT", p.expires > c.now)}

\* The checks of options; an exit is bound by the contract count and spread only.
OptionFailures(p, policy, c, exit) ==
    LET exposure == AtLeastZero(c.optionsExposure + (IF exit THEN -p.risk ELSE p.risk))
    IN IF p.instrument # "option" THEN {}
       ELSE UNION {
        Failing("OPTION_MAX_LOSS", exit \/ p.maximumLoss <= policy.optionRisk),
        Failing("OPTION_EXPOSURE", exit \/ Within(exposure, policy.options, c)),
        Failing("OPTION_CONTRACTS", p.contracts <= policy.contracts),
        Failing("OPTION_DTE", exit \/ (c.expiry >= policy.minExpiry /\ c.expiry <= policy.maxExpiry)),
        Failing("OPTION_SPREAD", c.spread <= policy.spread)}

\* The other checks that compare.
OtherFailures(p, policy, c, exit) ==
    UNION {
        Failing("POLICY_WITHIN_PLATFORM_CAPS", Violations(policy) = {}),
        Failing("RISK_REDUCING_EXIT_SCOPE", p.exit.given => exit),
        Failing("EQUITY_LONG_ONLY", IsSale(p) => p.quantity <= c.heldQuantity),
        Failing("PRICE_DEVIATION", c.deviation <= policy.deviation)}

FactFailures(p, c, exit) ==
    (c.raised \cap (Facts \cup (IF p.instrument = "option" THEN OptionFacts ELSE {})))
        \ (IF exit THEN WaivedForExit ELSE {})

\* evaluateRisk(...).passed: every check is blocking.
Passed(p, policy, c) ==
    LET exit == ProtectiveExit(p, policy, c)
    IN /\ FactFailures(p, c, exit) = {}
       /\ exit \/ ExposureFailures(p, policy, c) = {}
       /\ AgeFailures(p, policy, c) = {}
       /\ OptionFailures(p, policy, c, exit) = {}
       /\ OtherFailures(p, policy, c, exit) = {}
=============================================================================
