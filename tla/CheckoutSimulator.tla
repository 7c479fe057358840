------------------------- MODULE CheckoutSimulator --------------------------
(* The capacity model that every replay and every patch score goes through   *)
(* (simulator.py), and what its callers compute from it: the class of an     *)
(* intervention, the fault family, the score, the restored baseline.         *)
(*                                                                           *)
(* A state is a record; factors are in tenths, rates in requests per second, *)
(* failure rates in 1/10000 where the code rounds them to four digits.  The  *)
(* arithmetic is exact; the code's doubles can differ from it at ties only.  *)
EXTENDS Integers, Sequences, FiniteSetsExt, Functions

(* ServiceState. *)
States ==
    [traffic : Nat, pool : Nat, dependency : Nat, code : Nat, version : STRING,
     adaptive : BOOLEAN]

(* ServiceState.evolve: the changed fields, the others as they were.         *)
Evolve(state, changes) ==
    [f \in DOMAIN state |-> IF f \in DOMAIN changes THEN changes[f] ELSE state[f]]

Latency(state) == state.dependency * state.code
Demand(state) == state.traffic * Latency(state)     \* 1000 of it fill a connection

CeilDiv(a, b) == (a + b - 1) \div b

(* The pool, raised to what the demand needs, to 32 at most, if adaptive.    *)
EffectivePool(state) ==
    IF state.adaptive THEN Max({state.pool, Min({CeilDiv(Demand(state), 1000), 32})})
    ELSE state.pool

(* The share of the demand beyond the capacity, as Failed(s) / Demand(s).    *)
Failed(state) == Max({0, Demand(state) - 1000 * EffectivePool(state)})

(* round(failure_rate, 4).                                                   *)
FailureRate(state) == (20000 * Failed(state) + Demand(state)) \div (2 * Demand(state))

(* failure_rate <= 0.08 and 110 + 45 * latency + 900 * failure_rate <= 300.  *)
Healthy(state) ==
    /\ 100 * Failed(state) <= 8 * Demand(state)
    /\ 18000 * Failed(state) <= (3800 - 9 * Latency(state)) * Demand(state)

(* replay_hypothesis: how much of the failure rate an intervention removes.  *)
EffectClass(baseline, intervention) ==
    LET before == FailureRate(baseline)
        effect == Max({0, before - FailureRate(Evolve(baseline, intervention))})
    IN CASE before > 0 /\ 100 * effect >= 65 * before -> "primary-cause"
         [] before > 0 /\ 10 * effect >= before       -> "amplifier"
         [] OTHER                                     -> "not-causal"

GeneratedNames == <<"pool-borderline", "recovery-spike", "downstream-jitter", "silent-config-drift">>

(* A mutant whose spike is the silent drift's trickle. *)
GeneratedWithoutSpike(b) ==
    <<[traffic |-> Max({130, (b.traffic * 108) \div 100}), dependency |-> b.dependency,
       pool |-> Max({6, b.pool + 2})],
      [traffic |-> (b.traffic * 48) \div 100, dependency |-> b.dependency],
      [traffic |-> (b.traffic * 110) \div 100, dependency |-> 16],
      [traffic |-> (b.traffic * 98) \div 100, dependency |-> 15, pool |-> Max({4, b.pool - 2})]>>

(* The changes of the variants evolve_fault_family adds, in whole units of   *)
(* traffic: exact for baselines whose traffic is a multiple of 50.           *)
Generated(b) ==
    <<[traffic |-> Max({130, (b.traffic * 108) \div 100}), dependency |-> b.dependency,
       pool |-> Max({6, b.pool + 2})],
      [traffic |-> (b.traffic * 148) \div 100, dependency |-> b.dependency],
      [traffic |-> (b.traffic * 110) \div 100, dependency |-> 16],
      [traffic |-> (b.traffic * 98) \div 100, dependency |-> 15, pool |-> Max({4, b.pool - 2})]>>

(* score_patch: the variant first, the patch over it.                        *)
Patched(b, variant, changes) == Evolve(Evolve(b, variant), changes)

(* total_score, in 1/10000, from the failure rates, the risk and the cost.   *)
TotalScore(rates, risk, cost) ==
    LET n == Len(rates)
    IN (7 * (10000 * n - SumFunction(rates)) + 2 * n * (10000 - risk)
          + n * (10000 - cost) + 5 * n) \div (10 * n)

(* The patch and its rollback, one after the other, give the baseline back.  *)
Restores(b, changes, rollback) == Evolve(Evolve(b, changes), rollback) = b
=============================================================================
