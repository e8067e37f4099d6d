--------------------------- MODULE EarlyExecution ---------------------------
(***************************************************************************)
(* Early execution of governance proposals                                 *)
(* (contracts/governance-early-execution/src/lib.rs).                      *)
(*                                                                         *)
(* One proposal slot.  A proposal whose affirmative weight exceeds 75% of  *)
(* the eligible supply may be executed before its voting window closes,    *)
(* but never before the administrative timelock ends.  The supply can be   *)
(* changed by the admin while a vote is under way, and the threshold is    *)
(* evaluated against the supply of the moment.                             *)
(*                                                                         *)
(* Voters(id) is kept as a weight per account, zero meaning "no entry":    *)
(* a vote of weight zero is refused by the code.                           *)
(***************************************************************************)
EXTENDS Integers, FiniteSets, Balances

CONSTANTS
  Accounts,       \* proposers, voters and the admin
  None,           \* an absent storage entry
  Timelock,       \* ADMINISTRATIVE_TIMELOCK_SECONDS, in clock ticks
  Windows,        \* voting windows initialize may be given
  Supplies,       \* eligible supplies the admin may set
  Weights,        \* weights a voter may cast
  MaxVoters,      \* MAX_VOTERS
  MaxProposals,   \* bound on the proposals ever opened
  MaxTime         \* bound on the clock

EARLY_EXECUTION_THRESHOLD_BPS == 7500
BPS_DENOMINATOR == 10000

Ids == 1..MaxProposals

ActiveProposal ==
  [proposal_id : Ids, proposer : Accounts, opened_at : Nat, voting_ends_at : Nat,
   timelock_ends_at : Nat, affirmative_weight : Nat, executed : BOOLEAN, early : BOOLEAN]

EarlyExecutionAssumption ==
  /\ IsFiniteSet(Accounts) /\ None \notin Accounts \union ActiveProposal
  /\ None \notin Supplies \union Windows
  /\ Timelock \in Nat /\ MaxVoters \in Nat /\ MaxProposals \in Nat /\ MaxTime \in Nat
  /\ Windows \subseteq Nat /\ Supplies \subseteq Nat /\ Weights \subseteq Nat

VARIABLES
  now,        \* env.ledger().timestamp()
  admin,      \* DataKey::Admin
  supply,     \* DataKey::EligibleSupply
  window,     \* DataKey::VotingWindow
  next_id,    \* DataKey::NextProposalId
  proposal,   \* DataKey::Proposal
  voters      \* DataKey::Voters(id)

vars == <<now, admin, supply, window, next_id, proposal, voters>>

Voted(id) == {a \in Accounts : voters[id][a] > 0}

Saturating(n) == IF n > 0 THEN n ELSE 0

\* The weight affirmative votes must exceed.
early_execution_required_weight(total) ==
  (total * EARLY_EXECUTION_THRESHOLD_BPS) \div BPS_DENOMINATOR

\* Mutant: reaching the threshold is enough.
exceeds_early_execution_threshold_Reached(weight, total) ==
  /\ total # 0
  /\ weight >= early_execution_required_weight(total)

exceeds_early_execution_threshold(weight, total) ==
  /\ total # 0
  /\ weight > early_execution_required_weight(total)

\* The figures early_execution_status reports.
evaluate(p) ==
  [threshold_met |-> exceeds_early_execution_threshold(p.affirmative_weight, supply),
   voting_window_remaining |-> Saturating(p.voting_ends_at - now),
   timelock_remaining |-> Saturating(p.timelock_ends_at - now)]

verify_early_execution(id) ==
  /\ proposal # None
  /\ proposal.proposal_id = id
  /\ ~proposal.executed
  /\ now < proposal.voting_ends_at
  /\ evaluate(proposal).threshold_met
  /\ now >= proposal.timelock_ends_at

-----------------------------------------------------------------------------

Init ==
  /\ now = 0
  /\ admin = None
  /\ supply = None
  /\ window = None
  /\ next_id = 1
  /\ proposal = None
  /\ voters = [id \in Ids |-> [a \in Accounts |-> 0]]

\* The ledger closes and its clock moves on.
Tick ==
  /\ now < MaxTime
  /\ now' = now + 1
  /\ UNCHANGED <<admin, supply, window, next_id, proposal, voters>>

initialize(a, total, seconds) ==
  /\ admin = None
  /\ total # 0
  /\ seconds > Timelock
  /\ admin' = a
  /\ supply' = total
  /\ window' = seconds
  /\ UNCHANGED <<now, next_id, proposal, voters>>

set_eligible_supply(caller, total) ==
  /\ admin # None
  /\ caller = admin
  /\ total # 0
  /\ supply' = total
  /\ UNCHANGED <<now, admin, window, next_id, proposal, voters>>

\* The slot holds a proposal that is neither executed nor past its window.
SlotLive == proposal # None /\ ~proposal.executed /\ now < proposal.voting_ends_at

open_proposal(proposer) ==
  /\ admin # None
  /\ ~SlotLive
  /\ next_id \in Ids
  /\ next_id' = next_id + 1
  /\ proposal' = [proposal_id |-> next_id, proposer |-> proposer, opened_at |-> now,
                  voting_ends_at |-> now + window, timelock_ends_at |-> now + Timelock,
                  affirmative_weight |-> 0, executed |-> FALSE, early |-> FALSE]
  /\ UNCHANGED <<now, admin, supply, window, voters>>

cast_affirmative_vote(voter, id, weight) ==
  /\ weight # 0
  /\ proposal # None
  /\ proposal.proposal_id = id
  /\ ~proposal.executed
  /\ now < proposal.voting_ends_at
  /\ voters[id][voter] = 0
  /\ Cardinality(Voted(id)) < MaxVoters
  /\ proposal' = [proposal EXCEPT !.affirmative_weight = @ + weight]
  /\ voters' = [voters EXCEPT ![id][voter] = weight]
  /\ UNCHANGED <<now, admin, supply, window, next_id>>

trigger_early_execution(id) ==
  /\ verify_early_execution(id)
  /\ proposal' = [proposal EXCEPT !.executed = TRUE, !.early = TRUE]
  /\ UNCHANGED <<now, admin, supply, window, next_id, voters>>

Next ==
  \/ Tick
  \/ \E a \in Accounts, total \in Supplies, seconds \in Windows : initialize(a, total, seconds)
  \/ \E a \in Accounts, total \in Supplies : set_eligible_supply(a, total)
  \/ \E a \in Accounts : open_proposal(a)
  \/ \E a \in Accounts, id \in Ids, w \in Weights : cast_affirmative_vote(a, id, w)
  \/ \E id \in Ids : trigger_early_execution(id)

Spec == Init /\ [][Next]_vars

-----------------------------------------------------------------------------

\* The slot, the vote books and the configuration hold well-formed values, and
\* a voter set never outgrows its cap.
TypeOK ==
  /\ now \in 0..MaxTime
  /\ admin \in Accounts \union {None}
  /\ supply \in Supplies \union {None}
  /\ window \in Windows \union {None}
  /\ next_id \in 1..(MaxProposals + 1)
  /\ proposal \in ActiveProposal \union {None}
  /\ voters \in [Ids -> [Accounts -> Weights \union {0}]]
  /\ \A id \in Ids : Cardinality(Voted(id)) <= MaxVoters

\* The running total of the slot is the sum of the votes recorded under its
\* id, and no vote is recorded under an id not yet handed out: a proposal that
\* replaces a dead one starts from nothing.
TallyMatchesVotes ==
  /\ proposal # None =>
       proposal.affirmative_weight = SumOf(voters[proposal.proposal_id], Accounts)
  /\ \A id \in Ids : id >= next_id => Voted(id) = {}

\* The early path is taken only with strictly more than three quarters of the
\* supply of that moment (stated without the code's floor division), after the
\* whole timelock and before the window closes.
EarlyOnlyBySupermajority ==
  [][ \A id \in Ids :
        /\ proposal # None /\ proposal' # None
        /\ proposal.proposal_id = id /\ proposal'.proposal_id = id
        /\ ~proposal.executed /\ proposal'.executed
        => /\ 4 * proposal'.affirmative_weight > 3 * supply
           /\ now - proposal.opened_at >= Timelock
           /\ now - proposal.opened_at < window ]_vars

\* Nobody but the admin, by raising the supply, takes a proposal back below
\* the threshold it has crossed: votes only accumulate.
ThresholdLostOnlyToSupply ==
  [][ \A id \in Ids :
        /\ proposal # None /\ proposal' # None
        /\ proposal.proposal_id = id /\ proposal'.proposal_id = id
        /\ evaluate(proposal).threshold_met
        /\ ~evaluate(proposal)'.threshold_met
        => supply' > supply ]_vars

\* The status view and the check that guards the trigger read the clock in
\* different ways and still agree about when the early path is open.
StatusAgreesWithTrigger ==
  \A id \in Ids :
    proposal # None /\ proposal.proposal_id = id =>
      ( verify_early_execution(id) <=>
          /\ ~proposal.executed
          /\ evaluate(proposal).threshold_met
          /\ evaluate(proposal).voting_window_remaining > 0
          /\ evaluate(proposal).timelock_remaining = 0 )

\* Every proposal has a moment at which the early path is open to it: the
\* window initialize accepted outlasts the timelock.
EarlyPathReachable ==
  proposal # None => proposal.timelock_ends_at < proposal.voting_ends_at
=============================================================================
