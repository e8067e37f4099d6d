-------------------------- MODULE MCAdministration --------------------------
(***************************************************************************)
(* Who may change the contracts and spend from their treasuries, for model *)
(* checking: the stand-alone key recovery, the administration (RootAdmin)  *)
(* and the governance (RootGovernance) of the core contract, and the       *)
(* contracts that distribute (Distributions), one group of calls at a      *)
(* time: contract, fixed in the initial state, says which.                 *)
(***************************************************************************)
EXTENDS KeyRecovery, FiniteSets, TLC

CONSTANTS
  \* of RootAdmin: the delays, limits, settings and roles, and the bounds on
  \* tokens, the clock and rescues
  ChangeDelay, QueueDelay, RescueDelay, Inactivity, MaxTesters, HardCap, Ceilings, Bands,
  MinBand, MaxBand, FeeValues, Tokens, Supply, Roles, RoleHash, Grantees, Expiries, AdminTime,
  MaxRescues,
  \* of RootGovernance
  Hashes, Epoch, U32, MinLedgerDelay, ProposalExpiry, RollbackWindow, Configs, Scale,
  Tiers, Fees, LpShare, MaxSeq, MaxProposals,
  \* Bound: the clock of the proposals, whose votes need few ledgers
  MaxProposalSeq,
  \* the administrator and the settings a core contract starts with
  FirstAdmin, FirstCeiling, FirstBand, FirstTier

VARIABLES
  contract,
  \* the state of RootAdmin
  adm_now, adm_admin, adm_paused, adm_activity, adm_signers, adm_succession, adm_guards,
  adm_queue, adm_rescue, adm_roles,
  \* the state of RootGovernance
  gov_seq, gov_admin, gov_signers, gov_weight, gov_quorum, gov_proposal, gov_counter,
  gov_council, gov_veto, gov_override, gov_votes, gov_upgrade, gov_state, gov_wasm, gov_fees,
  \* the state of Distributions
  y_now, y_splitter, y_buyback, y_burner, y_vesting, y_lock, y_relay, y_yield,
  y_migration, y_model, y_treasury

admVars == <<adm_now, adm_admin, adm_paused, adm_activity, adm_signers, adm_succession,
             adm_guards, adm_queue, adm_rescue, adm_roles>>
govVars == <<gov_seq, gov_admin, gov_signers, gov_weight, gov_quorum, gov_proposal,
             gov_counter, gov_council, gov_veto, gov_override, gov_votes, gov_upgrade,
             gov_state, gov_wasm, gov_fees>>
payoutVars ==
  <<y_now, y_splitter, y_buyback, y_burner, y_vesting, y_lock, y_relay, y_yield,
    y_migration, y_model, y_treasury>>
allVars == <<contract, vars, admVars, govVars, payoutVars>>

\* PauseAdmin and ROLE_PAUSER are stored under one hash.
SharedHash == "ROLE_ADMIN" :> "admin" @@ "PauseAdmin" :> "pauser" @@ "ROLE_PAUSER" :> "pauser"
RoleNames == DOMAIN SharedHash

SmallBands == {<<1, 2>>, <<2, 3>>, <<2, 2>>, <<0, 2>>}
LowestBand == <<1, 2>>

\* Two signers, the same two with one of them repeated, two others, nobody, a
\* share that is no majority, and a disabled override.
SmallConfigs ==
  LET Config(list, length, threshold, enabled) ==
        [signers |-> list, length |-> length, threshold |-> threshold, enabled |-> enabled]
      rest == (Accounts \ Grantees) \union {CHOOSE a \in Grantees : TRUE}
  IN { Config(Grantees, 2, 3, TRUE), Config(Grantees, 3, 3, TRUE), Config(rest, 2, 4, TRUE),
       Config({}, 0, 3, TRUE), Config(Accounts, 3, 2, TRUE), Config(rest, 2, 3, FALSE) }

Admin == INSTANCE RootAdmin WITH
  hash <- RoleHash, MaxTime <- AdminTime, now <- adm_now, admin <- adm_admin,
  paused <- adm_paused, last_activity <- adm_activity, signers <- adm_signers,
  succession <- adm_succession, guards <- adm_guards, queue <- adm_queue,
  rescue <- adm_rescue, roles <- adm_roles

Gov == INSTANCE RootGovernance WITH
  seq <- gov_seq, admin <- gov_admin, signers <- gov_signers, weight <- gov_weight,
  quorum <- gov_quorum, proposal <- gov_proposal, counter <- gov_counter,
  council <- gov_council, veto <- gov_veto, override <- gov_override, votes <- gov_votes,
  upgrade <- gov_upgrade, state <- gov_state, wasm <- gov_wasm, fees <- gov_fees

Payout == INSTANCE Distributions WITH
  Admins <- {"adm", "adm2"}, People <- {"p1", "p2"}, Relayers <- {"r1"},
  Strategies <- {"s1", "s2"}, Tokens <- {"tokA", "tokB"}, Full <- 10,
  Shares <- {0, 3, 7, 11}, Amounts <- {0, 1, 3}, Ratios <- {0, 3, 5, 10},
  Stages <- 1..3, Cooldowns <- {0, 2}, BuybackCap <- 8, Durations <- {0, 1, 3},
  Expiries <- {0, 2}, Rates <- {0, 1, 5}, Interval <- 2, Buffer <- 2,
  Supply <- 3, MaxTime <- 4, MaxRecipients <- 2, MaxActions <- 1,
  now <- y_now, splitter <- y_splitter, buyback <- y_buyback, burner <- y_burner,
  vesting <- y_vesting, lock <- y_lock, relay <- y_relay, yield <- y_yield,
  migration <- y_migration, model <- y_model, treasury <- y_treasury

ASSUME AdministrationAssumption ==
  /\ Admin!RootAdminAssumption /\ Gov!RootGovernanceAssumption
  /\ Payout!DistributionsAssumption

\* Bounds: the clocks of allowances and of yield positions, which come in pairs.
MaxPayoutTime == 3
MaxUnwindTime == 1

MCInit ==
  /\ contract \in {"recovery", "signers", "pause", "heirs", "queue", "rescue", "roles",
                   "quorum", "cancel", "proposal", "upgrade", "fees",
                   "shares", "gateway", "buyback", "burn", "vesting", "lock", "allowances",
                   "unwind", "migrate", "rates", "treasury"}
  /\ Init /\ Admin!Init /\ Gov!Init /\ Payout!Init
  /\ adm_admin = FirstAdmin /\ gov_admin = FirstAdmin
  /\ adm_queue.ceiling = FirstCeiling /\ adm_queue.band = FirstBand /\ gov_fees.tier = FirstTier

AdminStep ==
  \/ contract = "signers" /\ Admin!SignerNext
  \/ contract = "pause" /\ Admin!PauseNext
  \/ contract = "heirs" /\ Admin!HeirNext
  \/ contract = "queue" /\ Admin!QueueNext
  \/ contract = "rescue" /\ Admin!RescueNext
  \/ contract = "roles" /\ Admin!RoleNext

GovStep ==
  \/ contract = "quorum" /\ Gov!QuorumNext
  \/ contract = "cancel" /\ Gov!CancelNext
  \/ contract = "proposal" /\ Gov!ProposalNext /\ gov_seq' <= MaxProposalSeq
  \/ contract = "upgrade" /\ Gov!UpgradeNext
  \/ contract = "fees" /\ Gov!FeeNext

PayoutStep ==
  \/ contract = "shares" /\ Payout!SharesNext
  \/ contract = "gateway" /\ Payout!GatewayNext
  \/ contract = "buyback" /\ Payout!BuybackNext
  \/ contract = "burn" /\ Payout!BurnNext
  \/ contract = "vesting" /\ Payout!VestingNext
  \/ contract = "lock" /\ Payout!LockNext
  \/ contract = "allowances" /\ Payout!AllowanceNext /\ y_now' <= MaxPayoutTime
  \/ contract = "unwind" /\ Payout!UnwindNext /\ y_now' <= MaxUnwindTime
  \/ contract = "migrate" /\ Payout!MigrateNext
  \/ contract = "rates" /\ Payout!RateNext
  \/ contract = "treasury" /\ Payout!TreasuryNext

MCNext ==
  /\ UNCHANGED contract
  /\ \/ contract = "recovery" /\ Next /\ UNCHANGED <<admVars, govVars, payoutVars>>
     \/ AdminStep /\ UNCHANGED <<vars, govVars, payoutVars>>
     \/ GovStep /\ UNCHANGED <<vars, admVars, payoutVars>>
     \/ PayoutStep /\ UNCHANGED <<vars, admVars, govVars>>

Alone(A) == A /\ UNCHANGED <<contract, admVars, govVars, payoutVars>>

MCSpec ==
  /\ MCInit /\ [][MCNext]_allVars
  /\ WF_vars(contract = "recovery" /\ Alone(Tick))
  /\ WF_vars(contract = "recovery" /\ Alone(finalize_recovery))

-----------------------------------------------------------------------------

\* Storage of the recovery and of the core holds values of the declared types.
TypesOK == TypeOK /\ Admin!TypeOK /\ Gov!TypeOK

\* Storage is well formed; in the core contract the multisig can always act,
\* the votes that carry an override are for the proposal it installs, and swap
\* fees are split without a remainder, whatever rotations, revocations and
\* cancellations came before.
RootRecordsAgree ==
  /\ TypesOK
  /\ Admin!MultisigReachable /\ Gov!VotesAreForThisProposal /\ Gov!FeesSplitCompletely

\* In the core contract an administrator is replaced by right, queued settings
\* and rescues honour their delays and the protections made meanwhile, lost
\* roles stay lost, a rotation leaves a working quorum, and the running code
\* changes only with the backing the calls ask for.
RootPowersAreBounded ==
  /\ Admin!SuccessionByRight /\ Admin!QueuedSettingsWait /\ Admin!RescuesSpareProtected
  /\ Admin!LostRolesStayLost /\ Gov!RotationLeavesAQuorum /\ Gov!CodeChangesAreBacked

\* Storage of the distributing contracts is well formed, and what they hold
\* covers what they promised: shares add
\* up, cool-downs are served, buybacks, vesting and migrations are backed,
\* allowances bound what relayers spend and positions unwind in order.
PayoutsAreCovered ==
  /\ [](/\ Payout!TypeOK /\ Payout!BuybacksAreBacked /\ Payout!BurnsAreExact
        /\ Payout!VestingIsCovered
        /\ Payout!RatesRise /\ Payout!RevenueIsShared)
  /\ Payout!SplitsAddUp /\ Payout!CooldownsAreServed /\ Payout!BurnsIgnite
  /\ Payout!AllowancesBound /\ Payout!UnwindsAreOrderly /\ Payout!MigrationsLoseNothing
=============================================================================
