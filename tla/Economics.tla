------------------------------ MODULE Economics ------------------------------
(***************************************************************************)
(* The economic controller (economics.py) over the pricing table           *)
(* (pricing.py).  Money is counted in integers: a rate is an integer price *)
(* per token, so a cost is tokens times rate, and a probability or ratio   *)
(* is a whole percentage.  The Decimal arithmetic of the code is exact;    *)
(* comparing 100 * x with pct * y keeps it exact here.                     *)
(***************************************************************************)
EXTENDS Integers

CONSTANTS
    PricingKnown,       \* settings.pricing is not None
    InputRate, OutputRate, CacheReadRate, CacheWriteRate,  \* PricingTable
    EconomicsEnabled,   \* EconomicConfig.enabled
    BudgetPct,          \* EconomicConfig.budget_ratio, in percent
    SafetyMargin,       \* EconomicConfig.safety_margin
    MinimumSavings      \* EconomicConfig.minimum_expected_savings

\* The pydantic field constraints of PricingTable and EconomicConfig.
ASSUME EconomicsAssumption ==
    /\ PricingKnown \in BOOLEAN /\ EconomicsEnabled \in BOOLEAN
    /\ InputRate \in Nat /\ OutputRate \in Nat
    /\ CacheReadRate \in Nat /\ CacheWriteRate \in Nat
    /\ BudgetPct \in 1..100
    /\ SafetyMargin \in Nat /\ MinimumSavings \in Nat

-----------------------------------------------------------------------------
(* pricing.py *)

Floor(n) == IF n < 0 THEN 0 ELSE n

\* estimate_cost: the uncached remainder at the input rate, the rest at its own.
EstimateCost(u) ==
    Floor(u.prompt - u.read - u.write) * InputRate
      + u.read * CacheReadRate
      + u.write * CacheWriteRate
      + u.completion * OutputRate

Usage(prompt, read, write, completion) ==
    [prompt |-> prompt, read |-> read, write |-> write, completion |-> completion]

\* estimate_resume_costs, cold side: the write rate when there is one.
ColdResumeCost(prefix) ==
    EstimateCost(Usage(prefix, 0, IF CacheWriteRate > 0 THEN prefix ELSE 0, 0))

\* estimate_resume_costs, cached side.
CachedResumeCost(prefix) == EstimateCost(Usage(prefix, prefix, 0, 0))

\* update_cost_estimates: the bounded warm reads the prefix, writes one token.
NextWarmCost(prefix) == EstimateCost(Usage(prefix, prefix, 0, 1))

-----------------------------------------------------------------------------
(* economics.py *)

WarmActions == {"warm", "economic_stop", "skip_unknown_pricing",
                "skip_no_continuation", "skip_not_economic"}

\* A gate that compares the next warm with the whole budget, whatever was
\* already spent.
EvaluateForgetful(cold, cached, next, cumulative, pct, known) ==
    LET expected == pct * (cold - cached)
    IN  IF ~known THEN "skip_unknown_pricing"
        ELSE IF expected <= 100 * (next + SafetyMargin) THEN "skip_not_economic"
        ELSE IF 10000 * next >= expected * BudgetPct THEN "economic_stop"
        ELSE "warm"

\* EconomicController.evaluate.  expected is scaled by 100, the budget by 10000.
Evaluate(cold, cached, next, cumulative, pct, known) ==
    LET avoidable == cold - cached
        expected  == pct * avoidable
        remaining == expected * BudgetPct - 10000 * cumulative
    IN  IF ~known THEN "skip_unknown_pricing"
        ELSE IF pct <= 0 THEN "skip_no_continuation"
        ELSE IF avoidable <= 0 THEN "skip_not_economic"
        ELSE IF expected <= 100 * (next + SafetyMargin) THEN "skip_not_economic"
        ELSE IF 10000 * next >= remaining THEN "economic_stop"
        ELSE IF expected - 100 * (cumulative + next) < 100 * MinimumSavings
             THEN "skip_not_economic"
        ELSE "warm"

=============================================================================
