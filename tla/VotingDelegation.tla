-------------------------- MODULE VotingDelegation --------------------------
(***************************************************************************)
(* Governance stakes, the voting weight derived from them and its          *)
(* delegation (src/voting_delegation.rs and its entry points in            *)
(* src/lib.rs).  A map entry that is 0 and one that is absent read the     *)
(* same, so both are 0 here.                                               *)
(***************************************************************************)
EXTENDS Integers, FiniteSets, Balances

CONSTANTS
  Stakers,     \* accounts; any of them may be a delegate
  None,        \* an absent storage entry
  Amounts,     \* amounts offered to stake and unstake
  Scale,       \* 1_000_000
  Rates,       \* weight_per_token values the admin may configure
  Minimums,    \* min_stake_threshold values the admin may configure
  MaxStake,    \* bound: governance tokens one account may stake
  MaxWeight    \* stands for u128::MAX

Delegation == [delegate : Stakers, amount : Nat]

VotingDelegationAssumption ==
  /\ IsFiniteSet(Stakers) /\ None \notin Delegation
  /\ Amounts \subseteq Nat /\ Rates \subseteq Nat /\ Minimums \subseteq Nat
  /\ Scale \in Nat \ {0} /\ MaxStake \in Nat /\ MaxWeight \in Nat

VARIABLES
  config,       \* GOV_WEIGHT_CONFIG_KEY
  stake,        \* GOVERNANCE_STAKES_KEY
  weight,       \* VOTING_WEIGHTS_KEY: weight the account votes with itself
  delegation,   \* DELEGATIONS_KEY: None or the delegate and the amount
  delegated     \* DELEGATED_TOTALS_KEY: weight others delegated to the account

vars == <<config, stake, weight, delegation, delegated>>

Config == [enabled : BOOLEAN, weight_per_token : Nat, min_stake_threshold : Nat]

DefaultConfig == [enabled |-> TRUE, weight_per_token |-> Scale, min_stake_threshold |-> 0]

Derived(amount) == (amount * config.weight_per_token) \div Scale

SatSub(a, b) == IF a > b THEN a - b ELSE 0

Delegating(s) == delegation[s] # None

-----------------------------------------------------------------------------

Init ==
  /\ config = DefaultConfig
  /\ stake = [s \in Stakers |-> 0]
  /\ weight = [s \in Stakers |-> 0]
  /\ delegation = [s \in Stakers |-> None]
  /\ delegated = [s \in Stakers |-> 0]

\* Credit s with w: to its delegate if it has one, to itself otherwise.
AddWeight(s, w) ==
  IF Delegating(s)
  THEN /\ delegated[delegation[s].delegate] + w <= MaxWeight
       /\ delegation[s].amount + w <= MaxWeight
       /\ delegated' = [delegated EXCEPT ![delegation[s].delegate] = @ + w]
       /\ delegation' = [delegation EXCEPT ![s].amount = @ + w]
       /\ UNCHANGED weight
  ELSE /\ weight[s] + w <= MaxWeight
       /\ weight' = [weight EXCEPT ![s] = @ + w]
       /\ UNCHANGED <<delegation, delegated>>

\* Debit s by w the same way; every subtraction saturates on its own, and a
\* delegation with nothing left in it is dropped.
RemoveWeight(s, w) ==
  IF Delegating(s)
  THEN /\ delegated' = [delegated EXCEPT ![delegation[s].delegate] = SatSub(@, w)]
       /\ delegation' = [delegation EXCEPT ![s] =
            IF SatSub(@.amount, w) = 0 THEN None
            ELSE [delegate |-> @.delegate, amount |-> SatSub(@.amount, w)]]
       /\ UNCHANGED weight
  ELSE /\ weight' = [weight EXCEPT ![s] = SatSub(@, w)]
       /\ UNCHANGED <<delegation, delegated>>

\* The stake is always recorded; weight only if derivation is on and this very
\* deposit is worth the minimum.
stake_governance(s, amount) ==
  /\ amount # 0
  /\ stake[s] + amount <= MaxStake
  /\ stake' = [stake EXCEPT ![s] = @ + amount]
  /\ IF config.enabled /\ Derived(amount) >= config.min_stake_threshold
     THEN AddWeight(s, Derived(amount))
     ELSE UNCHANGED <<weight, delegation, delegated>>
  /\ UNCHANGED config

\* Takes back the weight the amount would be worth now, whatever it was granted.
unstake_governance(s, amount) ==
  /\ amount # 0
  /\ stake[s] >= amount
  /\ stake' = [stake EXCEPT ![s] = @ - amount]
  /\ IF config.enabled /\ Derived(amount) > 0
     THEN RemoveWeight(s, Derived(amount))
     ELSE UNCHANGED <<weight, delegation, delegated>>
  /\ UNCHANGED config

\* What sync takes for the current weight of s: if s delegates, the total its
\* delegate received from everybody.
CurrentWeight(s) ==
  IF Delegating(s) THEN delegated[delegation[s].delegate] ELSE weight[s]

sync_voting_weight(s) ==
  LET target == Derived(stake[s])
      current == CurrentWeight(s)
  IN /\ config.enabled
     /\ target >= config.min_stake_threshold
     /\ \/ target > current /\ AddWeight(s, target - current)
        \/ target < current /\ RemoveWeight(s, current - target)
     /\ UNCHANGED <<config, stake>>

\* Admin only.
set_gov_weight_config(c) ==
  /\ c.weight_per_token # 0
  /\ config' = c
  /\ UNCHANGED <<stake, weight, delegation, delegated>>

\* Mutant: the former delegate keeps the credit when the delegation moves.
delegate_KeepsFormer(s, d) ==
  LET amount == IF Delegating(s) THEN delegation[s].amount ELSE weight[s]
  IN /\ s # d
     /\ ~Delegating(s) => weight[s] # 0
     /\ weight' = [weight EXCEPT ![s] = 0]
     /\ delegation' = [delegation EXCEPT ![s] = [delegate |-> d, amount |-> amount]]
     /\ delegated' = [delegated EXCEPT ![d] = @ + amount]
     /\ UNCHANGED <<config, stake>>

\* A delegation that exists is moved; otherwise the direct weight is handed over.
delegate(s, d) ==
  LET amount == IF Delegating(s) THEN delegation[s].amount ELSE weight[s]
      reclaimed == IF Delegating(s)
                   THEN [delegated EXCEPT ![delegation[s].delegate] = SatSub(@, amount)]
                   ELSE delegated
  IN /\ s # d
     /\ ~Delegating(s) => weight[s] # 0
     /\ weight' = [weight EXCEPT ![s] = 0]
     /\ delegation' = [delegation EXCEPT ![s] = [delegate |-> d, amount |-> amount]]
     /\ reclaimed[d] + amount <= MaxWeight
     /\ delegated' = [reclaimed EXCEPT ![d] = @ + amount]
     /\ UNCHANGED <<config, stake>>

undelegate(s) ==
  /\ Delegating(s)
  /\ delegation' = [delegation EXCEPT ![s] = None]
  /\ delegated' = [delegated EXCEPT ![delegation[s].delegate] =
                     SatSub(@, delegation[s].amount)]
  /\ weight[s] + delegation[s].amount <= MaxWeight
  /\ weight' = [weight EXCEPT ![s] = @ + delegation[s].amount]
  /\ UNCHANGED <<config, stake>>

DefaultNext ==
  \/ \E s \in Stakers, x \in Amounts : stake_governance(s, x)
  \/ \E s \in Stakers, x \in Amounts : unstake_governance(s, x)
  \/ \E s, d \in Stakers : delegate(s, d)
  \/ \E s \in Stakers : undelegate(s)

Next ==
  \/ DefaultNext
  \/ \E s \in Stakers : sync_voting_weight(s)
  \/ \E e \in BOOLEAN, r \in Rates, m \in Minimums :
        set_gov_weight_config([enabled |-> e, weight_per_token |-> r,
                               min_stake_threshold |-> m])

Spec == Init /\ [][Next]_vars

-----------------------------------------------------------------------------

\* Weights and stakes are unsigned, and nobody is its own delegate or delegates
\* nothing.
TypeOK ==
  /\ config \in Config
  /\ stake \in [Stakers -> 0..MaxStake]
  /\ weight \in [Stakers -> Nat]
  /\ delegated \in [Stakers -> Nat]
  /\ delegation \in [Stakers -> Delegation \union {None}]
  /\ \A s \in Stakers :
       Delegating(s) => delegation[s].delegate # s /\ delegation[s].amount # 0

\* What s has delegated to d.
Given(s, d) ==
  IF Delegating(s) /\ delegation[s].delegate = d THEN delegation[s].amount ELSE 0

\* "Delegate -> sum of all voting weight delegated to them": the total kept per
\* delegate is the sum of the delegations to it, through any order of staking,
\* unstaking, delegating, re-delegating and revoking.
DelegatedTotalsExact ==
  \A d \in Stakers : delegated[d] = SumOf([s \in Stakers |-> Given(s, d)], Stakers)

\* Whatever is configured and synced when, an account that delegates has no direct
\* weight left: the same stake never votes both ways.
NeverBothWays == \A s \in Stakers : Delegating(s) => weight[s] = 0

\* No weight is created or lost: an account's stake votes exactly once, either
\* directly or through its delegate.
StakeVotesOnce ==
  \A s \in Stakers :
    weight[s] + (IF Delegating(s) THEN delegation[s].amount ELSE 0) = stake[s]
=============================================================================
