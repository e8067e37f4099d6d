--------------------------- MODULE RootGovernance ---------------------------
(***************************************************************************)
(* The governance of the core contract: the proposal slot with its         *)
(* cancellation votes (src/governance.rs), the Security Council's veto and *)
(* the emergency override (src/veto.rs), staged upgrades and their clean-up*)
(* (src/lib.rs, src/upgrades/rollback.rs), the quorum calls, and the votes *)
(* on fee tiers.                                                           *)
(*                                                                         *)
(* Every ledger closed adds one to the sequence number and one to the      *)
(* timestamp, which started far ahead of it (Epoch).  A u32 holds values   *)
(* below U32: an upgrade stages a timestamp and execute_upgrade compares   *)
(* its low 32 bits with the sequence number.                               *)
(*                                                                         *)
(* The emergency signers are a Vec in which an address may repeat; it is   *)
(* kept as the set of addresses and the length.  submit_governance_proposal*)
(* asks veto::is_hash_vetoed, which the module does not define: a veto     *)
(* records a proposal and no hash, so there is nothing it could find.      *)
(***************************************************************************)
EXTENDS Integers, FiniteSets, Balances

CONSTANTS
  Accounts, None,
  Hashes,          \* wasm hashes
  Epoch, U32,      \* first timestamp; 2^32
  MinLedgerDelay,  \* MIN_LEDGER_DELAY
  ProposalExpiry,  \* PROPOSAL_EXPIRY_SECONDS
  RollbackWindow,  \* 72 hours
  Configs, Scale,  \* override configurations asked for; 10000
  Tiers, Fees, LpShare, \* fee tiers, swap fees, LP_SHARE_BPS
  MaxSeq, MaxProposals  \* bounds

EmergencyOverrideConfig ==
  [signers : SUBSET Accounts, length : Nat, threshold : Nat, enabled : BOOLEAN]

RootGovernanceAssumption ==
  /\ None \notin Accounts \union Hashes
  /\ {Epoch, U32, MinLedgerDelay, ProposalExpiry, RollbackWindow, Scale, LpShare, MaxSeq,
      MaxProposals} \subseteq Nat
  /\ Scale # 0 /\ LpShare <= Scale /\ Fees \subseteq Nat
  /\ Configs \subseteq EmergencyOverrideConfig
  /\ IsFiniteSet(Accounts)
  \* timestamps stay ahead of sequence numbers
  /\ MaxSeq < Epoch + MinLedgerDelay

VARIABLES
  seq,        \* ledger sequence
  admin,
  signers,    \* SIGNERS_KEY: the map of the entry points
  weight,     \* SIGNER_WEIGHTS
  quorum,     \* quorum_threshold and required_weight
  proposal, counter,  \* the one governance proposal, and the ids given out
  council, veto,      \* Security Council, the one veto record
  override,   \* emergency signers, length, threshold, enabled
  votes,      \* override votes by proposal id: sequence at which each signer voted
  upgrade,    \* PENDING_UPGRADE
  state,      \* proposal state of the upgrade topic: status and time, or None
  wasm,       \* what runs, what CURRENT_WASM says, what can be rolled back to, since when
  fees        \* tier by pool (one pool), its proposal, collected shares

vars == <<seq, admin, signers, weight, quorum, proposal, counter, council, veto, override,
          votes, upgrade, state, wasm, fees>>

timestamp == Epoch + seq

GovernanceProposal ==
  [proposal_id : Nat, wasm_hash : Hashes, staged_at : Nat,
   status : {"Pending", "Cancelled"}, cancellation_votes : SUBSET Accounts]

QuorumConfig == [threshold : Nat \ {0}, weight : Nat \ {0}]
PoolFees ==
  [tier : Tiers, proposed : Tiers \union {None}, votes : SUBSET Accounts,
   lp : Nat, treasury : Nat, collected : Nat]

TypeOK ==
  /\ seq \in 0..MaxSeq /\ admin \in Accounts /\ signers \subseteq Accounts
  /\ weight \in [Accounts -> Nat]
  /\ quorum \in QuorumConfig
  /\ proposal \in GovernanceProposal \union {None} /\ counter \in 0..MaxProposals
  /\ council \in Accounts \union {None} /\ veto \in Nat \union {None}
  /\ override \in EmergencyOverrideConfig
  /\ votes \in [1..MaxProposals -> [Accounts -> 0..MaxSeq \union {None}]]
  /\ upgrade \in [new_wasm_hash : Hashes, staged_at : Nat] \union {None}
  /\ state \in [status : {"Active", "Expired"}, proposed_at : Nat] \union {None}
  /\ wasm \in [running : Hashes \union {None}, current : Hashes \union {None},
               previous : Hashes \union {None}, since : Nat]
  /\ fees \in PoolFees

NoVotes == [a \in Accounts |-> None]
Voters(id) == {a \in Accounts : votes[id][a] # None}

Init ==
  /\ seq = 0 /\ admin \in Accounts /\ signers = {} /\ weight = [a \in Accounts |-> 0]
  /\ quorum = [threshold |-> 2, weight |-> 1]
  /\ proposal = None /\ counter = 0 /\ council = None /\ veto = None
  /\ override = [signers |-> {}, length |-> 0, threshold |-> (2 * Scale) \div 3 + 1, enabled |-> TRUE]
  /\ votes = [i \in 1..MaxProposals |-> NoVotes]
  /\ upgrade = None /\ state = None
  /\ wasm = [running |-> None, current |-> None, previous |-> None, since |-> 0]
  /\ \E t \in Tiers :
       fees = [tier |-> t, proposed |-> None, votes |-> {}, lp |-> 0, treasury |-> 0,
               collected |-> 0]

Close ==
  /\ seq < MaxSeq
  /\ seq' = seq + 1
  /\ UNCHANGED <<admin, signers, weight, quorum, proposal, counter, council, veto, override,
                 votes, upgrade, state, wasm, fees>>

-----------------------------------------------------------------------------
(* Signers and quorum. *)

register_signer(caller, a) ==
  /\ caller = admin
  /\ signers' = signers \union {a}
  /\ UNCHANGED <<seq, admin, weight, quorum, proposal, counter, council, veto, override,
                 votes, upgrade, state, wasm, fees>>

remove_signer(caller, a) ==
  /\ caller = admin
  /\ signers' = signers \ {a}
  /\ UNCHANGED <<seq, admin, weight, quorum, proposal, counter, council, veto, override,
                 votes, upgrade, state, wasm, fees>>

get_signer_weight(a) == IF a = admin /\ weight[a] = 0 THEN 1 ELSE weight[a]

calculate_collected_weight(approvers) ==
  SumOf([a \in Accounts |-> get_signer_weight(a)], approvers \intersect (signers \union {admin}))

verify_upgrade_quorum(approvers) ==
  /\ Cardinality(approvers \intersect (signers \union {admin})) >= quorum.threshold
  /\ calculate_collected_weight(approvers) >= quorum.weight

\* The first of the new signers becomes the admin.
rotate_admin_keys(approvers, first, new, threshold) ==
  /\ verify_upgrade_quorum(approvers)
  /\ first \in new /\ threshold \in 1..Cardinality(new)
  /\ admin' = first /\ signers' = new
  /\ weight' = [a \in Accounts |-> IF a \in new THEN 1 ELSE 0]
  /\ quorum' = [threshold |-> threshold, weight |-> threshold]
  /\ UNCHANGED <<seq, proposal, counter, council, veto, override, votes, upgrade, state,
                 wasm, fees>>

QuorumNext ==
  \/ \E c, a \in Accounts : register_signer(c, a) \/ remove_signer(c, a)
  \/ \E approvers, new \in SUBSET Accounts, first \in Accounts,
        n \in 1..Cardinality(Accounts) : rotate_admin_keys(approvers, first, new, n)

-----------------------------------------------------------------------------
(* The governance proposal, its cancellation, its veto and its override. *)

proposalRest == <<seq, admin, signers, weight, quorum, state, fees>>

Open == proposal # None /\ proposal.status = "Pending"

_next_proposal_id == counter + 1

submit_governance_proposal(wasm_hash) ==
  /\ ~Open
  /\ proposal' = [proposal_id |-> _next_proposal_id, wasm_hash |-> wasm_hash,
                  staged_at |-> seq, status |-> "Pending", cancellation_votes |-> {}]
  /\ counter' = _next_proposal_id
  /\ UNCHANGED <<council, veto, override, votes, upgrade, wasm, proposalRest>>

cancellation_threshold(n) == IF n < 2 THEN 1 ELSE n \div 2 + 1

vote_cancel_proposal(voter) ==
  /\ voter \in signers \union {admin}
  /\ Open /\ voter \notin proposal.cancellation_votes
  /\ LET cast == proposal.cancellation_votes \union {voter} IN
     proposal' = [proposal EXCEPT
       !.cancellation_votes = cast,
       !.status = IF Cardinality(cast) >= cancellation_threshold(Cardinality(signers))
                    THEN "Cancelled" ELSE @]
  /\ UNCHANGED <<counter, council, veto, override, votes, upgrade, wasm, proposalRest>>

cancel_governance_proposal(caller) ==
  /\ caller = admin
  /\ Open
  /\ proposal' = [proposal EXCEPT !.status = "Cancelled"]
  /\ UNCHANGED <<counter, council, veto, override, votes, upgrade, wasm, proposalRest>>

set_security_council(caller, a) ==
  /\ caller = admin
  /\ council' = a
  /\ UNCHANGED <<proposal, counter, veto, override, votes, upgrade, wasm, proposalRest>>

\* Any id may be vetoed, the record of an earlier veto is overwritten, and the
\* proposal itself is left alone.
veto_proposal(caller, id) ==
  /\ caller = council
  /\ veto' = id
  /\ UNCHANGED <<proposal, counter, council, override, votes, upgrade, wasm, proposalRest>>

set_emergency_override_config(caller, config) ==
  /\ caller = admin
  /\ config.length > 0
  /\ config.threshold \in (Scale \div 2 + 1)..Scale
  /\ override' = config
  /\ UNCHANGED <<proposal, counter, council, veto, votes, upgrade, wasm, proposalRest>>

vote_emergency_override(signer) ==
  /\ override.enabled /\ signer \in override.signers
  /\ Open
  /\ votes[proposal.proposal_id][signer] = None
  /\ votes' = [votes EXCEPT ![proposal.proposal_id][signer] = seq]
  /\ UNCHANGED <<proposal, counter, council, veto, override, upgrade, wasm, proposalRest>>

\* is_emergency_override_ready; the votes of signers removed since count too.
OverrideReady(id) ==
  /\ override.length > 0
  /\ (Cardinality(Voters(id)) * Scale) \div override.length >= override.threshold

\* Neither the veto nor the delay is looked at.
execute_emergency_override(executor) ==
  /\ override.enabled /\ executor \in override.signers
  /\ Open /\ OverrideReady(proposal.proposal_id)
  /\ wasm' = [wasm EXCEPT !.running = proposal.wasm_hash]
  /\ votes' = [votes EXCEPT ![proposal.proposal_id] = NoVotes]
  /\ proposal' = None
  /\ upgrade' = None
  /\ UNCHANGED <<counter, council, veto, override, proposalRest>>

CancelNext ==
  \/ counter < MaxProposals /\ \E h \in Hashes : submit_governance_proposal(h)
  \/ \E a \in Accounts :
       \/ vote_cancel_proposal(a) \/ cancel_governance_proposal(a)
       \/ \E b \in Accounts : register_signer(a, b) \/ remove_signer(a, b)

ProposalNext ==
  \/ Close
  \/ counter < MaxProposals /\ \E h \in Hashes : submit_governance_proposal(h)
  \/ \E a \in Accounts :
       \/ cancel_governance_proposal(a)
       \/ vote_emergency_override(a) \/ execute_emergency_override(a)
       \/ \E id \in 1..MaxProposals : veto_proposal(a, id)
       \/ \E b \in Accounts : set_security_council(a, b)
       \/ \E config \in Configs : set_emergency_override_config(a, config)

ProposalSpec == Init /\ [][ProposalNext]_vars

-----------------------------------------------------------------------------
(* Staged upgrades and rollback. *)

upgradeRest ==
  <<seq, admin, signers, weight, quorum, proposal, counter, council, veto, override, votes, fees>>

\* An upgrade already staged is replaced.
propose_upgrade(caller, approvers, h) ==
  /\ caller = admin
  /\ calculate_collected_weight(approvers) >= quorum.weight
  /\ upgrade' = [new_wasm_hash |-> h, staged_at |-> timestamp]
  /\ state' = [status |-> "Active", proposed_at |-> timestamp]
  /\ UNCHANGED <<wasm, upgradeRest>>

\* verify_staged_delay on (staged_at as u32), with saturating subtraction.
verify_staged_delay(staged_at) == seq - (staged_at % U32) >= MinLedgerDelay

execute_upgrade(caller) ==
  /\ caller = admin
  /\ upgrade # None
  /\ verify_staged_delay(upgrade.staged_at)
  /\ wasm' = [wasm EXCEPT !.running = upgrade.new_wasm_hash]
  /\ upgrade' = None
  /\ state' = None
  /\ UNCHANGED upgradeRest

\* The state of the topic is left as it was.
cancel_upgrade(caller) ==
  /\ caller = admin
  /\ upgrade' = None
  /\ UNCHANGED <<state, wasm, upgradeRest>>

cleanup_expired_proposals ==
  /\ state # None /\ state.status = "Active"
  /\ timestamp - state.proposed_at >= ProposalExpiry
  /\ upgrade' = None
  /\ state' = [state EXCEPT !.status = "Expired"]
  /\ UNCHANGED <<wasm, upgradeRest>>

set_current_wasm(caller, h) ==
  /\ caller = admin
  /\ wasm' = [wasm EXCEPT !.current = h]
  /\ UNCHANGED <<upgrade, state, upgradeRest>>

preserve_current_wasm(h) ==
  /\ wasm' = IF wasm.current = None
               THEN [wasm EXCEPT !.current = h]
               ELSE [wasm EXCEPT !.previous = wasm.current, !.since = timestamp, !.current = h]
  /\ UNCHANGED <<upgrade, state, upgradeRest>>

execute_rollback(caller) ==
  /\ caller = admin
  /\ wasm.previous # None
  /\ timestamp - wasm.since <= RollbackWindow
  /\ wasm' = [running |-> wasm.previous, current |-> wasm.previous, previous |-> None, since |-> 0]
  /\ UNCHANGED <<upgrade, state, upgradeRest>>

UpgradeNext ==
  \/ Close \/ cleanup_expired_proposals
  \/ \E a \in Accounts :
       \/ \E h \in Hashes :
            \/ \E approvers \in SUBSET Accounts : propose_upgrade(a, approvers, h)
            \/ set_current_wasm(a, h)
       \/ execute_upgrade(a) \/ cancel_upgrade(a) \/ execute_rollback(a)
  \/ \E h \in Hashes : preserve_current_wasm(h)

-----------------------------------------------------------------------------
(* Votes on the fee tier of a pool, and the split of its fees. *)

feeRest == <<seq, admin, weight, quorum, proposal, counter, council, veto, override, votes,
             upgrade, state, wasm>>

propose_pool_fee_tier_change(caller, tier) ==
  /\ caller = admin
  /\ fees.proposed = None
  /\ fees' = [fees EXCEPT !.proposed = tier, !.votes = {}]
  /\ UNCHANGED <<signers, feeRest>>

\* _revocation_threshold of the entry points.
tier_threshold == IF signers = {} THEN 1 ELSE Cardinality(signers) \div 2 + 1

vote_pool_fee_tier_change(voter) ==
  /\ voter \in signers \union {admin}
  /\ fees.proposed # None /\ voter \notin fees.votes
  /\ fees' = IF Cardinality(fees.votes) + 1 >= tier_threshold
               THEN [fees EXCEPT !.tier = fees.proposed, !.proposed = None, !.votes = {}]
               ELSE [fees EXCEPT !.votes = @ \union {voter}]
  /\ UNCHANGED <<signers, feeRest>>

cancel_pool_fee_tier_change(caller) ==
  /\ caller = admin
  /\ fees' = [fees EXCEPT !.proposed = None, !.votes = {}]
  /\ UNCHANGED <<signers, feeRest>>

TreasuryPart(fee) == fee - (fee * LpShare) \div Scale

record_pool_swap_fee(caller, fee) ==
  /\ caller = admin
  /\ fees' = [fees EXCEPT !.lp = @ + (fee * LpShare) \div Scale,
                          !.treasury = @ + TreasuryPart(fee),
                          !.collected = @ + fee]
  /\ UNCHANGED <<signers, feeRest>>

FeeNext ==
  \/ \E a \in Accounts :
       \/ vote_pool_fee_tier_change(a) \/ cancel_pool_fee_tier_change(a)
       \/ \E t \in Tiers : propose_pool_fee_tier_change(a, t)
       \/ fees.collected < 2 /\ \E f \in Fees : record_pool_swap_fee(a, f)
  \/ \E c, a \in Accounts : register_signer(c, a) \/ remove_signer(c, a)

-----------------------------------------------------------------------------
(* Properties *)

\* A rotation always leaves a group behind that can rotate again: right after
\* it the new signers alone reach both the count and the weight it set, and
\* nobody outside the new list is counted any more.
RotationLeavesAQuorum ==
  [][quorum' # quorum \/ weight' # weight =>
       /\ verify_upgrade_quorum(signers)'
       /\ signers' = {a \in Accounts : weight'[a] > 0} /\ admin' \in signers']_vars

\* An override is carried by votes cast for the proposal it installs: every
\* vote that counts for the open proposal was cast after it was submitted, so
\* votes for a cancelled proposal never carry over to a later one.
VotesAreForThisProposal ==
  Open => \A a \in Voters(proposal.proposal_id) :
            votes[proposal.proposal_id][a] >= proposal.staged_at

\* A cancelled proposal is never installed, and the code that runs changes
\* only by an override of an open proposal, a rollback, or a staged upgrade;
\* as execute_upgrade compares a timestamp with a sequence number, a staged
\* upgrade runs only if it was staged when timestamps had outgrown 32 bits.
CodeChangesAreBacked ==
  [][wasm'.running # wasm.running =>
       \/ Open /\ OverrideReady(proposal.proposal_id) /\ wasm'.running = proposal.wasm_hash
       \/ wasm'.running = wasm.previous /\ timestamp - wasm.since <= RollbackWindow
       \/ /\ upgrade # None /\ wasm'.running = upgrade.new_wasm_hash
          /\ upgrade.staged_at >= U32]_vars

\* Every swap fee is split completely between providers and treasury.
FeesSplitCompletely == fees.lp + fees.treasury = fees.collected

\* What src/veto.rs:11 says of a vetoed proposal: it is not executed.
VetoedNeverExecutes ==
  [][Open /\ veto = proposal.proposal_id => wasm'.running = wasm.running]_vars

=============================================================================
