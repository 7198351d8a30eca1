------------------------------- MODULE Pricing -------------------------------
(***************************************************************************)
(* What a request costs (pricingCost in stats.go, chargeFromSession in     *)
(* charge.go): a rate in dollars for a million tokens is a micro-dollar for *)
(* each, so costs are whole numbers if rates are, as they are here.        *)
(***************************************************************************)
EXTENDS Integers, Sequences

CONSTANT MinCharge  \* minChargeMicro

ASSUME PricingAssumption == MinCharge \in Nat

\* A rule of a price table: the prefix of the models it is for, and its rates.
Rules == [prefix : Seq(STRING), input : Nat, output : Nat, read : Nat,
          write : Nat]

Counts == [input : Nat, output : Nat, read : Nat, write : Nat,
           excluded : BOOLEAN]

\* A cache rate that is not set is the one of the input.
Rate(rule, rate) == IF rate = 0 THEN rule.input ELSE rate

\* (mutant) Cached tokens are priced beside the input they are part of.
UncachedAll(rule, u) == u.input

\* Input tokens that are not priced as cached ones: a provider that excludes
\* cached tokens did so itself, and otherwise they stay in the input unless
\* they have a rate of their own.
Uncached(rule, u) ==
    LET left == u.input - (IF u.excluded \/ rule.read = 0 THEN 0 ELSE u.read)
                        - (IF u.excluded \/ rule.write = 0 THEN 0 ELSE u.write)
    IN IF left < 0 THEN 0 ELSE left

\* What cached tokens cost on their own.
Cached(rule, u) ==
    IF u.excluded
    THEN u.read * Rate(rule, rule.read) + u.write * Rate(rule, rule.write)
    ELSE u.read * rule.read + u.write * rule.write

\* pricingCost, once the rule is found.
CostBy(rule, u) ==
    Uncached(rule, u) * rule.input + u.output * rule.output + Cached(rule, u)

Matches(rule, model) ==
    /\ rule.prefix # <<>> /\ Len(rule.prefix) <= Len(model)
    /\ SubSeq(model, 1, Len(rule.prefix)) = rule.prefix

\* The rules with the longest prefix of the model; the first of them counts.
Best(table, model) ==
    {i \in DOMAIN table :
        /\ Matches(table[i], model)
        /\ \A j \in DOMAIN table : Matches(table[j], model) =>
              \/ Len(table[j].prefix) < Len(table[i].prefix)
              \/ Len(table[j].prefix) = Len(table[i].prefix) /\ i <= j}

\* pricingCost: no rule, no cost.
Cost(table, model, u) ==
    LET best == Best(table, model)
    IN IF best = {} THEN 0 ELSE CostBy(table[CHOOSE i \in best : TRUE], u)

\* chargeFromSession: at least the minimum.
Charge(table, model, u) ==
    LET cost == Cost(table, model, u)
    IN IF cost < MinCharge THEN MinCharge ELSE cost

-----------------------------------------------------------------------------
\* Every token once, at its own rate: cached ones are either beside the
\* input, or part of it.
DueBy(rule, u) ==
    (IF u.excluded THEN u.input ELSE u.input - u.read - u.write) * rule.input
        + u.output * rule.output
        + u.read * Rate(rule, rule.read) + u.write * Rate(rule, rule.write)
=============================================================================
