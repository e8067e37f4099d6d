---------------------------- MODULE MCGovernance ----------------------------
(***************************************************************************)
(* Those who vote and those who vouch, for model checking: the signer      *)
(* weights of WeightGuard, the delegated votes of VotingDelegation (once   *)
(* with all its calls and once under the default configuration and without *)
(* syncs), the proposals of EarlyExecution, the vote archive, the weight   *)
(* locks, the executer and the key rotation of Ballots; the validators of  *)
(* BridgeRelayer, the stakes of the nodes of NodeStaking (once with all    *)
(* calls, once on feeds only) and one node under watch, for its tiers, its *)
(* faults and its submissions.                                             *)
(*                                                                         *)
(* They share no storage and do not call each other, so a behaviour of one *)
(* is explored while the others rest: contract, fixed in the initial       *)
(* state, says which.                                                      *)
(***************************************************************************)
EXTENDS WeightGuard, TLC

CONSTANTS
  \* of VotingDelegation; FewStakers are some of the stakers
  DelegStakers, FewStakers, DelegAmounts, DelegScale, DelegRates, DelegMinimums,
  DelegMaxStake, DelegMaxWeight,
  \* of EarlyExecution
  EarlyAccounts, EarlyTimelock, EarlyWindows, EarlySupplies, EarlyWeights, EarlyMaxVoters,
  EarlyMaxProposals, EarlyMaxTime,
  \* of BridgeRelayer; FewKeys and FewNonces are some of the keys and nonces
  ValidatorKeys, FewKeys, Nonces, FewNonces, Payloads, RelayThresholds, RelayStakes,
  RelayMaxStake

VARIABLES
  contract,   \* which contract is called
  \* the state of VotingDelegation
  deleg_config, deleg_stake, deleg_weight, deleg_delegation, deleg_delegated,
  \* the state of EarlyExecution
  early_now, early_admin, early_supply, early_window, early_next_id,
  early_proposal, early_voters,
  \* the state of Ballots
  bal_now, bal_register, bal_cast, bal_chain, bal_executer, bal_invoked, bal_rotation,
  \* the state of BridgeRelayer
  rel_threshold, rel_validators, rel_spent, rel_collateral, rel_banned, rel_slashed,
  rel_signed, rel_accepted, rel_staked,
  \* the state of NodeStaking
  stake_registry, stake_feedStake, stake_total, stake_tiers, stake_faults, stake_rounds

delegVars == <<deleg_config, deleg_stake, deleg_weight, deleg_delegation, deleg_delegated>>
earlyVars ==
  <<early_now, early_admin, early_supply, early_window, early_next_id,
    early_proposal, early_voters>>
balVars ==
  <<bal_now, bal_register, bal_cast, bal_chain, bal_executer, bal_invoked, bal_rotation>>
relayVars ==
  <<rel_threshold, rel_validators, rel_spent, rel_collateral, rel_banned, rel_slashed,
    rel_signed, rel_accepted, rel_staked>>
stakeVars ==
  <<stake_registry, stake_feedStake, stake_total, stake_tiers, stake_faults, stake_rounds>>
voteVars == <<vars, delegVars, earlyVars, balVars>>
vouchVars == <<relayVars, stakeVars>>
allVars == <<contract, voteVars, vouchVars>>

\* Collateral that is refused, and collateral that is taken.
SmallStakes == {-1, 1}

\* Keys and payloads are told apart by nothing in the code, and FewKeys by nothing
\* in the menus below.
Symmetry == Permutations(FewKeys) \union Permutations(Payloads)

-----------------------------------------------------------------------------

Delegation == INSTANCE VotingDelegation WITH
  Stakers <- DelegStakers, Amounts <- DelegAmounts, Scale <- DelegScale,
  Rates <- DelegRates, Minimums <- DelegMinimums, MaxStake <- DelegMaxStake,
  MaxWeight <- DelegMaxWeight,
  config <- deleg_config, stake <- deleg_stake, weight <- deleg_weight,
  delegation <- deleg_delegation, delegated <- deleg_delegated

Early == INSTANCE EarlyExecution WITH
  Accounts <- EarlyAccounts, Timelock <- EarlyTimelock, Windows <- EarlyWindows,
  Supplies <- EarlySupplies, Weights <- EarlyWeights, MaxVoters <- EarlyMaxVoters,
  MaxProposals <- EarlyMaxProposals, MaxTime <- EarlyMaxTime, now <- early_now, admin <- early_admin,
  supply <- early_supply, window <- early_window, next_id <- early_next_id,
  proposal <- early_proposal, voters <- early_voters

Ballots == INSTANCE Ballots WITH
  Voters <- {"v1", "v2", "v3"}, ProposalIds <- {1}, WordBits <- 2, WeightBits <- 2,
  WeightsPerWord <- 2, MaxVoteWeight <- 2, Weights <- {0, 1, 2, 3}, Thresholds <- {0, 3, 6},
  MaxThreshold <- 5, Users <- {"u1", "u2", "u3"}, Amounts <- {0, 1, 2}, Delays <- {0, 2},
  RotationDelay <- 2, KeySets <- {<<>>, <<"k1">>, <<"k1", "k2">>, <<"k2", "k2">>, <<"k2", "k1">>},
  MaxTime <- 5, MaxLocked <- 2, MaxCreated <- 3, now <- bal_now, register <- bal_register,
  cast <- bal_cast, chain <- bal_chain, executer <- bal_executer, invoked <- bal_invoked,
  rotation <- bal_rotation

Relayer == INSTANCE BridgeRelayer WITH
  Keys <- ValidatorKeys, Thresholds <- RelayThresholds, Stakes <- RelayStakes,
  MaxStake <- RelayMaxStake,
  threshold <- rel_threshold, validators <- rel_validators,
  spent <- rel_spent, collateral <- rel_collateral, banned <- rel_banned,
  slashed <- rel_slashed, signed <- rel_signed, accepted <- rel_accepted,
  staked <- rel_staked

\* The same storage: all keys sign for few nonces, and few keys for all of them.
Quorums == INSTANCE BridgeRelayer WITH
  Keys <- ValidatorKeys, Nonces <- FewNonces, Thresholds <- RelayThresholds,
  Stakes <- RelayStakes, MaxStake <- RelayMaxStake,
  threshold <- rel_threshold, validators <- rel_validators,
  spent <- rel_spent, collateral <- rel_collateral, banned <- rel_banned,
  slashed <- rel_slashed, signed <- rel_signed, accepted <- rel_accepted,
  staked <- rel_staked

Pairs == INSTANCE BridgeRelayer WITH
  Keys <- FewKeys, Thresholds <- RelayThresholds, Stakes <- RelayStakes,
  MaxStake <- RelayMaxStake,
  threshold <- rel_threshold, validators <- rel_validators,
  spent <- rel_spent, collateral <- rel_collateral, banned <- rel_banned,
  slashed <- rel_slashed, signed <- rel_signed, accepted <- rel_accepted,
  staked <- rel_staked

\* Requirements of the tiers, the first two in order and the others not.
TierConfig(r, s, p) == [Regional |-> r, Standard |-> s, Premier |-> p]
TierConfigs == {TierConfig(1, 2, 3), TierConfig(2, 2, 2), TierConfig(1, 3, 2), TierConfig(0, 1, 1)}
\* Profiles at the thresholds of the tiers, one with a score above the scale.
FeedProfiles ==
  {[volume |-> v, volatility |-> b] : v \in {0, 33, 101}, b \in {299, 800}}

\* Two nodes that stake, and one whose dropouts (on one of two feeds) and
\* submissions (for one feed) are watched.
Staking == INSTANCE NodeStaking WITH
  Nodes <- {"n1", "n2"}, Feeds <- {"low", "high"}, Amounts <- 0..3,
  Configs <- TierConfigs, DefaultConfig <- TierConfig(1, 2, 3), Profiles <- FeedProfiles,
  Volumes <- {0}, Window <- 2, MaxShift <- 1, MinGap <- 2, Intervals <- {1, 2},
  Premium <- 2, MaxAge <- 1, MaxBundle <- 1, MaxTotal <- 5, Width <- 30000,
  MaxFaults <- 3, MaxLedger <- 0,
  registry <- stake_registry, feedStake <- stake_feedStake, total <- stake_total,
  tiers <- stake_tiers, faults <- stake_faults, rounds <- stake_rounds
Watched == INSTANCE NodeStaking WITH
  Nodes <- {"n1"}, Feeds <- {"low"}, Amounts <- 0..2,
  Configs <- TierConfigs, DefaultConfig <- TierConfig(1, 2, 3), Profiles <- FeedProfiles,
  Volumes <- {9999999, 100000000}, Window <- 1, MaxShift <- 1, MinGap <- 2,
  Intervals <- {1, 2}, Premium <- 2, MaxAge <- 1, MaxBundle <- 1, MaxTotal <- 3,
  Width <- 30000, MaxFaults <- 3, MaxLedger <- 2,
  registry <- stake_registry, feedStake <- stake_feedStake, total <- stake_total,
  tiers <- stake_tiers, faults <- stake_faults, rounds <- stake_rounds
Faulty == INSTANCE NodeStaking WITH
  Nodes <- {"n1"}, Feeds <- {"low", "high"}, Amounts <- 0..2,
  Configs <- TierConfigs, DefaultConfig <- TierConfig(1, 2, 3), Profiles <- FeedProfiles,
  Volumes <- {9999999, 100000000}, Window <- 1, MaxShift <- 1, MinGap <- 2,
  Intervals <- {1, 2}, Premium <- 2, MaxAge <- 1, MaxBundle <- 1, MaxTotal <- 3,
  Width <- 30000, MaxFaults <- 3, MaxLedger <- 2,
  registry <- stake_registry, feedStake <- stake_feedStake, total <- stake_total,
  tiers <- stake_tiers, faults <- stake_faults, rounds <- stake_rounds

\* Bounds: the executer is explored for fewer seconds, and the locks until
\* delegated weight is first out of step, which only a transfer can bring about.
MaxExecuterTime == 2

ASSUME VotersAssumption ==
  Delegation!VotingDelegationAssumption /\ Early!EarlyExecutionAssumption
ASSUME RelayersAssumption ==
  Relayer!BridgeRelayerAssumption /\ FewKeys \subseteq ValidatorKeys /\ FewNonces \subseteq Nonces
ASSUME
  /\ Ballots!BallotsAssumption
  /\ Staking!NodeStakingAssumption
  /\ Faulty!NodeStakingAssumption

MCInit ==
  /\ contract \in {"weights", "delegation", "defaults", "proposals", "archive", "locks",
                   "executer", "rotation", "relayer", "nonces", "staking", "feeds",
                   "tiers", "faults", "rounds"}
  /\ CASE contract = "faults" -> Faulty!Init
       [] contract \in {"tiers", "rounds"} -> Watched!Init
       [] OTHER -> Staking!Init
  /\ Init /\ Delegation!Init /\ Early!Init /\ Ballots!Init /\ Relayer!Init
  /\ contract = "rotation" \/ bal_rotation.keys = <<"k1">>

\* Bound: where the configuration changes, few accounts stake.
FewStake == \A s \in DelegStakers \ FewStakers : deleg_stake'[s] = 0

VoteNext ==
  \/ /\ contract = "weights" /\ Next
     /\ UNCHANGED <<delegVars, earlyVars, balVars>>
  \/ /\ \/ contract = "delegation" /\ Delegation!Next /\ FewStake
        \/ contract = "defaults" /\ Delegation!DefaultNext
     /\ UNCHANGED <<vars, earlyVars, balVars>>
  \/ /\ contract = "proposals" /\ Early!Next
     /\ UNCHANGED <<vars, delegVars, balVars>>
  \/ /\ \/ contract = "archive" /\ Ballots!ArchiveNext
        \/ contract = "locks" /\ Ballots!DelegatedExact /\ Ballots!ChainNext
        \/ contract = "executer" /\ Ballots!ExecuterNext /\ bal_now' <= MaxExecuterTime
        \/ contract = "rotation" /\ Ballots!RotationNext
     /\ UNCHANGED <<vars, delegVars, earlyVars>>

VouchNext ==
  \/ /\ \/ contract = "relayer" /\ Quorums!Next
        \/ contract = "nonces" /\ Pairs!Next
     /\ UNCHANGED stakeVars
  \/ /\ \/ contract = "staking" /\ Staking!Next
        \/ contract = "feeds" /\ Staking!FeedNext
        \/ contract = "tiers" /\ Watched!TierNext
        \/ contract = "faults" /\ Faulty!FaultNext
        \/ contract = "rounds" /\ Watched!RoundNext
     /\ UNCHANGED relayVars

MCNext ==
  /\ UNCHANGED contract
  /\ \/ VoteNext /\ UNCHANGED vouchVars
     \/ VouchNext /\ UNCHANGED voteVars

MCSpec == MCInit /\ [][MCNext]_allVars

-----------------------------------------------------------------------------

\* Delegations are well formed, and no stake votes both ways, whatever is configured
\* and synced when; under the default configuration and without syncs every
\* stake votes exactly once, and each delegate's total is the sum of what was
\* delegated to it.
StakesVoteOnce ==
  /\ Delegation!TypeOK /\ Delegation!NeverBothWays
  /\ contract = "defaults" => Delegation!DelegatedTotalsExact /\ Delegation!StakeVotesOnce

\* Early execution takes more than three quarters of the supply, after the
\* timelock and inside the window; the tally is the votes cast, the status view
\* agrees with the trigger, and only a raised supply takes the threshold back.
EarlyExecutionIsEarned ==
  /\ []Early!TypeOK /\ []Early!TallyMatchesVotes /\ []Early!StatusAgreesWithTrigger
  /\ []Early!EarlyPathReachable
  /\ Early!EarlyOnlyBySupermajority /\ Early!ThresholdLostOnlyToSupply

\* Archived and delegated votes count once and for what they were: packed words
\* and Merkle roots answer for the votes cast and no others, locked weight adds
\* up and only direct transfers put it out of step with what delegates hold, and
\* decisions are carried out in their time.
BallotsAreFaithful ==
  /\ []Ballots!TypeOK /\ []Ballots!TallyIsVotesCast /\ []Ballots!ArchiveIsFaithful
  /\ Ballots!PathsSurviveFolding /\ Ballots!FinalizedIsFinal
  /\ []Ballots!WeightsAddUp /\ []Ballots!UnitsVoteOnce /\ Ballots!OnlyTransfersDrift
  /\ Ballots!InvokedInTime /\ Ballots!RotationsSpaced

\* The relayer's records agree with its history: one message per nonce even when
\* a quorum signed two that contradict each other, bans that are final and
\* deserved, collateral that is held for its validator or was slashed, and a
\* quorum of validators in office behind every message it lets through.
RelayerRecordsExact ==
  /\ []Relayer!TypeOK /\ []Relayer!OneMessagePerNonce /\ []Relayer!BansAreFinal /\ []Relayer!CollateralConserved
  /\ Relayer!QuorumBehindAcceptance

\* Among nodes that stake on feeds only, the registry is the sum of the stakes
\* on the feeds and the total that of the registry, as
\* verify_zero_loss_accounting asks; with all calls, penalties included, the total
\* drifts for two causes only.
StakeTotalsExact ==
  /\ [](CASE contract = "faults" -> Faulty!TypeOK
          [] contract \in {"tiers", "rounds"} -> Watched!TypeOK
          [] OTHER -> Staking!TypeOK)
  /\ []( contract = "feeds" =>
            Staking!TotalMatchesRegistry /\ Staking!RegistryMatchesFeeds )
  /\ [][CASE contract = "faults" -> Faulty!DriftIsExplained
          [] contract \in {"tiers", "rounds"} -> Watched!DriftIsExplained
          [] OTHER -> Staking!DriftIsExplained]_stakeVars

\* The watched node: faults are counted and cost what they should, activity only
\* raises requirements, rounds advance, and the computations are exact.
WatchIsExact ==
  /\ [](contract = "faults" => Faulty!FaultsAreCounted)
  /\ [](contract = "rounds" => Watched!BundlesAreTheirParts)
  /\ [](contract = "tiers" /\ Watched!Init =>
          /\ Watched!ConsensusIsExact
          /\ Watched!SlashingIsGraded
          /\ Watched!SearchIsExact)
  /\ [][/\ contract = "tiers" => Watched!RequirementRises
        /\ contract = "faults" => Faulty!PenaltyEscalates
        /\ contract = "rounds" => Watched!RoundAdvances]_stakeVars

\* Both: who vouches for messages and prices answers with what was staked.
RelayersAndNodesAnswer == RelayerRecordsExact /\ StakeTotalsExact /\ WatchIsExact
=============================================================================
