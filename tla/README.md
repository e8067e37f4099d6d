# StellarFlow contracts: TLA+ models, model checking and proofs

This directory holds a verification development of the StellarFlow Soroban
contracts: TLA+ modules translated from the Rust source, TLC configurations
that check them on small instances, and TLAPS proofs that extend the most
important results to every instance. `PROJECT.json` lists the runs, the source
lines behind every definition, the mutants that show each property can fail,
the hazards the properties are aimed at and the findings.

## 1. The system

The repository is one root contract (`src/src/lib.rs`,
`TimeLockedUpgradeContract`, with its modules) and about thirty satellite
contracts under `src/contracts/`. A contract is a set of entry points over
key-value storage. What shapes every model here:

* **Atomic calls.** A call runs alone; an error or a trap anywhere in it undoes
  all its writes, those of the contracts it called included. So an entry point
  is one action, its early returns are the guards, and a failing token
  transfer disables the whole action.
* **Interleaving is between calls.** Anybody may call anything in any order, and
  time passes between calls. The hard behaviours are therefore orders of calls
  by several parties around deadlines, values read in one call and used in
  another, counters kept beside the records they count, limits of pools and
  queues, rounding, and entries that expire.
* **Two clocks.** Some parts count ledger sequences, others timestamps. Each
  module has the one its code reads; a `Tick`/`CloseLedger` action advances it.
* **Authorisation** (`require_auth`) is modelled by making the signer a
  parameter of the action.

| Component | State | Operations | Hard part | What makes it correct |
|---|---|---|---|---|
| key recovery | admin, guardian list, one pending request | request, veto, finalise, guardian changes | request outlives what it was made against | key changes only after a full window against the sitting admin |
| administration of the core | admin, signers in three stores, heirs, queue, rescues, roles, pause | transfer, change, recover, queue, execute, grant, revoke, rescue | stores that nothing reconciles, queued acts that outlive their premises | replaced by right, delays served, lost roles stay lost |
| governance of the core | one proposal slot, vetoes, override votes, staged upgrade, fee votes | propose, vote, cancel, veto, override, stage, execute, roll back | votes for one occupant of a slot counted for the next, timestamps truncated to 32 bits | code changes only with the backing asked for |
| remittance escrow | remittances, anchor bonds, pending counters, treasury | create, prove, settle, dispute, bond | several disputes drain one bond | tokens and counters always match the records |
| HTLC settlement | HTLC records, per-account quota | create, claim, settle, refund, prune | claim and refund race at the deadline | one outcome, in its own window |
| fiat escrow, timelock escrow, anchored remittance | records and balances | lock, approve, pay out, refund, escalate | overlapping windows, re-pointed anchors | no deposit leaves twice |
| split remittance | orders with legs per anchor | create, settle a leg, refund the rest | one order resolved by many parties | legs, running totals and tokens agree |
| fees | provider pool, traded volume, price samples, peak fee, flash-loan ledger, splits | deposit, withdraw, swap, sample, charge, split | decay and rounding over long sequences | within bounds, shared out completely |
| anchor collateral, commit-reveal orders | collateral, payout queue, ratio; commitments and bonds | deposit, assign, settle, set ratio; commit, reveal, forfeit | the ratio moves under promises; reveal and forfeiture race | payouts covered, a bond ends once |
| vaults, farm, compounding guard, lending, liquidation | shares, assets, samples, reserves, positions | deposit, withdraw, harvest, accrue, liquidate | share price under rounding, a pause that must follow the samples | nobody's share loses value, rewards within emission |
| wrapped assets, bridge cap, bridge vault | supply, rolling window, collateral mirror, vault and remittances | mint, burn, report, lock, unlock, remit | a mirror that lags, replayed nonces, a blockade | backing, separation of pools, one payment per nonce |
| bridge relayers, bridge rescue, bridge timelock | validator set, accepted messages, collateral; locks and votes; queued withdrawals | submit, slash; lock, vote, rescue, refund; queue, execute | contradicting messages; votes around the deadline | quorum behind every acceptance, bans final, nothing let go early |
| nodes | registry, stakes per feed, total, tiers, fault histories, rounds | stake, unstake, report, penalise, submit, heartbeat | derived totals drift, escalating penalties in a rolling window | books agree, faults counted once, rounds advance |
| voting: delegation, early execution, weight guard, archive, locks, executer, key rotation | stakes and weights, proposals, packed votes, Merkle roots, key lists | delegate, sync, vote, trigger, stage, fold, prove, execute, rotate | supply and weights move under a vote, packing and folding | every stake votes once, notice before change, proofs only of votes cast |
| distributions | recipients, buy-backs, burns, vesting, locks, allowances, positions, migrations | distribute, buy back, burn, claim, spend, unwind, migrate | promises kept in one place and balances in another | what is promised is covered |
| trading: stop-loss, pools, limit orders, market maker, positions, routers, halts | escrows, reserves, shares, order book, tick indexes, registries | place, fill, sweep, swap, deposit, split, cross, route, halt | one index kept by many calls, rounding, searches | terms honoured, nobody diluted, searches exact, halts hold |
| price oracle | admins, proposals, limits, prices, averages, fees, stakes, breaker, slippage | some hundred entry points | two-person rules, halts, buffers per ledger, reads that cost | vetted admins, averages within prices, rewards and stakes covered |

Components interact through storage of the root contract (pruning removes
records other modules wrote; the rate limiter is shared by wrapped assets and
bridge vault), through token transfers (`Balances`, external), and through
cross-contract reads (the oracle's TWAP in stop-loss, an environment action).
`PROJECT.json` lists all components, the ones not modelled too, with reasons.

## 2. Modules and their code

| Module | Code | Correspondence |
|---|---|---|
| `Custody` | – | Abstract specification: what every escrow promises a depositor. A deposit is opened once, leaves custody at most once, is returned only when its time has come, and, with `Exclusive`, never settled after that. |
| `Balances` | external SEP-41 token | `CanMove` is the condition under which a transfer does not trap, `Move` its effect; `SumOf` adds a function up over a finite set, and the lemmas about it (section 4) are proved here. |
| `KeyRecovery` | `contracts/key-recovery` | `admin`, guardians as a multiset (the code's `Vec` may repeat), the pending request; one action per entry point. |
| `RemittanceEscrow` | `contracts/remittance-escrow` | Records, bonds, `pending` counters, treasury, balances. |
| `Htlc` | `settlement/htlc.rs`, `admin/prune.rs` | Hashes are a function `Hash` on a set of pre-images. |
| `FiatEscrow` | fiat escrow of `lib.rs` | Five entry points. |
| `TimelockEscrow` | `escrow/timelock.rs`, `admin/prune.rs` | Four ways to pay out and the pruning of closed records. |
| `AnchoredRemittance` | `remittance/dispute.rs` | Principal and bond, settlement, escalation. |
| `SplitRemittance` | `contracts/split-remittance-escrow` | Orders with legs; integer split with the remainder in the last leg. |
| `WrappedAsset` | `bridge/mint.rs`, `bridge/rate_limit.rs` | Mint, burn, sliding-window limiter. |
| `BridgeCap` | `bridge/cap_guard.rs` | Ceiling arithmetic, mirror of supply, reports, permissionless sync. |
| `BridgeVault` | `bridge/escrow.rs`, `bridge/rate_limit.rs` | Vault ledger, nonces, remittances. |
| `BridgeRelayer` | `bridge/relayer.rs`, `bridge/slashing.rs` | Threshold acceptance, double-sign proofs. |
| `NodeStaking` | staking, tiers, slashing, consensus and validation of the core (`lib.rs`, `staking_tiers.rs`, `slashing.rs`, `consensus.rs`, `validation.rs`, `state_verification.rs`) | Registry, feed stakes, total; `tiers`, `faults`, `rounds`. |
| `VotingDelegation` | `voting_delegation.rs` | Stakes, direct and delegated weight, sync. |
| `EarlyExecution` | `contracts/governance-early-execution` | The proposal slot, votes, trigger, supply. |
| `WeightGuard` | `contracts/multisig-weight-guard` | Active and staged weights, lazy application. |
| `Ballots` | vote archive, voting-weight locks, executer and key rotation under `contracts/` | Hashes are terms, packed words are functions on bits. |
| `Safekeeping` | `contracts/bridge-rescue`, `bridge/timelock.rs`, `contracts/order-book`, `contracts/staking-pool`, tree of `contracts/shielded-remittance-escrow` | One record per contract. |
| `RootAdmin` | `src/admin`, `src/auth`, `recovery.rs`, `rescue.rs`, `roles.rs`, `staging.rs`, `security/pausable.rs` | Six groups of calls over one administrator. |
| `RootGovernance` | `governance.rs`, `veto.rs`, upgrades of `lib.rs`, `upgrades/rollback.rs` | Sequence number and timestamp advance together; `U32` is the width that truncates the latter. |
| `RootSettlement` | `fees.rs`, `settlement/fees.rs`, `amm/adaptive_fee.rs`, `router/remittance_fee_splitter.rs`; `settlement/anchor_collateral.rs`, `orders/commit_reveal.rs` | Fees: books of one pool, ring of samples, splits as sequences. Collateral: one corridor with its queue of payouts; a hash is what it opens to. |
| `Vaults` | `src/vaults` | Compounding vault, farm, guard, interest, liquidation. |
| `Distributions` | reward splitter, buy-back, burn engine, vesting, liquidity lock, allowances, yield unwinding, strategy migrator, rate model under `contracts/`; treasury helpers of the core | One record per contract. |
| `StopLoss` | `contracts/stop-loss-trigger` | Triggers, handler balances, oracle prices as environment. |
| `LimitBook` | `orders/limit.rs` | Orders, FIFO buckets shared by both sides, tick volumes, sorted active ticks, credits; a market order is a fold over the orders it walks. |
| `Amm` | `contracts/amm` and its halt switch | Effective reserves, tick bitmap as a function to words, half-word arithmetic, halt. |
| `Pools` | `contracts/lp-pool`, `src/amm`, `src/router` | The satellite pool, reserves and shares with the code's integer roots and floors; the core's tick index, positions and splits, simulated swap, breaker and deviation guard; the registry of pools and best path, corridor pools and their routes. |
| `OracleGovernance` | `price-oracle/lib.rs`, `auth.rs` | Admin list, hand-over, revocation, freeze, halt, destruction; proposals, votes, weights, delegation, execution. |
| `OracleFeed` | same, `validation.rs`, `twap.rs`, `callbacks.rs`, `reentrancy.rs` | Floor, bounds, deviation, liquidity threshold and backups; assets, delegates, prices, averages, guard, bypass, resumption. |
| `OracleEconomy` | same, `slashing.rs`, `admin.rs`, `slippage.rs`, `median.rs`, `math.rs` | `books` (fees, rewards, stakes), `breaker`, `slip`; the prices are published by an environment action. |
| `AdministrationProofs`, `RemittanceProofs`, `SettlementProofs`, `BridgeProofs`, `GovernanceProofs`, `OracleGovernanceProofs`, `OracleFeedProofs` | – | Theorems and proofs (section 4). |
| `MCAdministration`, `MCRemittances`, `MCSettlement`, `MCBridge`, `MCGovernance`, `MCMarkets`, `MCOracleGovernance`, `MCOracleFeed` | – | Instances for TLC (section 3). |

Names follow the source where TLA+ allows. A definition whose name ends in
`_Something` after a source name and whose comment starts with "Mutant" is a
plausible wrong version used to show that a property can fail; `PROJECT.json`
pairs them. History variables (marked so) record what a property needs and no
action reads.

`RemittanceEscrow`, `Htlc`, `FiatEscrow`, `TimelockEscrow`,
`AnchoredRemittance` and `BridgeVault` each define `ImplementsCustody`: the
refinement of `Custody` under a mapping of their records to deposits. One
abstract specification thus covers six independently written escrows.

Modelling decisions worth knowing:

* `OracleFeed`: no public entry point whitelists a provider, so providers are
  the delegates of administrators. `set_price` holds the lock that
  `notify_subscribers` takes, so a call that would change a price traps;
  only the refresh of an equal price is an action. A submission refused for the
  quorum is an action of its own that changes only a history variable, because
  the property of interest is what such calls leave behind. Averages and windows
  are temporary entries, so `Expire` may drop them at any time. The price of one
  ledger never has two submissions behind it (`OneSourcePerLedger`), so weight
  truncation has nothing to truncate; two tests of the repository expect eleven
  (see the table in section 3). `register_assets_with_config` calls a validation
  function that is defined nowhere; it is modelled from its arguments and from the
  tests that call it, and marked external.
* `BridgeVault` and the vault of `Vaults` share their token balance with other
  modules of the root contract and with whoever transfers tokens to it. Both are
  an action (`transfer_in`, `transfer_out`), with a ledger of what they brought.
* `BridgeCap`: the reports of mints and burns compare an argument with the
  verifier and ask for no signature, so anybody makes them.
* `Distributions`: a strategy may pay another amount than it reports, and a
  destination may send back part of what was deposited.
* `EarlyExecution`: the weight of a vote is asserted by the voter in the code,
  and the model admits every weight.
* Libraries without a caller (the core's part of `Pools`, the bridge timelock of `Safekeeping`,
  the treasury helpers of `Distributions`, most of the consensus functions of
  `NodeStaking`) are modelled as the functions behave for some caller; an error
  may be propagated, which undoes the call, or swallowed.
* Some satellites do not compile as written (a misspelt variable, two functions
  of one name, a missing field). They are read as what they plainly mean, and the
  module's opening comment says where. Where no such reading exists, the call is
  left out (section 6).
* Pure computations (wide multiplication, bitmap and list searches, prices of
  ticks, medians, weighted averages, packing of votes, Merkle paths, splits of a
  fee) are operators. They are compared with a plain reference definition over
  all inputs of a small range, in one state of the run, guarded by the initial
  state of their contract.

## 3. Runs

Contracts that keep separate storage and do not call each other are checked in
one run per family. The module of the run extends one of them and instantiates
the others over variables of its own; `contract`, fixed in the initial state,
says whose calls a behaviour consists of, and the other contracts rest. Since a
step of one contract neither reads nor writes the state of another, every
reachable state of a contract, and every behaviour of it, occurs; what is left
out are the products of independent states. Fairness is stated per contract
(`WF_xVars(contract = "x" /\ ...)`), so nothing is asked of the contracts that
rest. The two oracle runs do the same with `menu`: the calls of the oracle
together are beyond TLC, so a behaviour is given one selection of inputs (which
proposals, which limits, how many ledgers), each an instance of the same
module with other constants. Interactions *between* menus are therefore not
explored by TLC; the theorems of section 4 about the oracle's administration
and feed hold for the whole specification, all menus at once.

The parameters of the components that are proved about (all of `bridge`, the
escrows of `remittances` and `settlement`, delegation, early execution,
weight guard and relayers of `governance`, recovery and core of `administration`) are
CONSTANTS of the run's module, with values in its `.cfg`, so that the theorems
about the run's specification quantify over them. The others are given their
values in the run's module.

Every passing run is complete on its instance. *Bounds* says why the instance is
large enough for the interesting cases.

| Run | Property | What it shows |
|---|---|---|
| `administration` | `ProposalTargetsSittingAdmin` | a pending recovery is against the admin in office |
| | `VetoLostOnlyToRepeats` | the last guardian disappears only if it was listed more than once |
| | `ReplacedOnlyAfterWindow` | the key changes only by a request a full window old |
| | `RequestsAreDecided` | no request stays pending for ever |
| | `RootRecordsAgree` | the multisig of the core can always act after any rotation or revocation, override votes are for the proposal they install, fees split without remainder; storage well formed |
| | `RootPowersAreBounded` | the core's administrator is replaced by right only, queued settings and rescues wait and respect protections made meanwhile (the fee band can also be set at once, within the same caps), lost roles stay lost, a rotation leaves a quorum, code changes are backed |
| | `PayoutsAreCovered` | what the distributing contracts promise is covered, cool-downs are served at their shortest setting, allowances bound spending, reserves differ from tokens by what strategies misreport, migrations lose at most what sources paid beyond their reports; storage well formed |
| `remittances` | `PendingCountExact` | an anchor's counter and bond lock describe its open remittances |
| | `BooksSquare` | every token is where the records of the three remittance contracts say; storage well formed, no balance negative |
| | `ImplementsCustody` | the bonded escrow refines `Custody` |
| | `RefundedInTime` | no refund before the window ends, and one afterwards for a sender who insists, also when earlier disputes emptied the bond |
| | `YieldIsAccounted` | a share of the vault never loses value, a surplus in its balance blocks it, rewards stay within the emission and leave to their owner only, each guard's pause follows its samples, booked reserves are present but for two known causes, interest and liquidations are bounded and complete |
| `settlement` | `QuotaExact` | the quota counter is the number of open HTLCs |
| | `ImplementsCustody` | HTLCs refine `Custody` with exclusive windows |
| | `EscrowsImplementCustody` | so do the fiat escrow (exclusive) and the time-locked escrow (overlapping windows), whose four ways to pay out never both succeed; storage well formed |
| | `EverythingCloses` | expired HTLCs, locked fiat escrows and time-locked escrows close in the end |
| | `FeesAndCollateralAccounted` | fees stay in their bounds (of the volume tier, or of the volatility band where a pool opted in) and are shared out completely; an anchor's payouts are covered whatever the ratio became; a bond goes back or is forfeited, once |
| `bridge` | `CeilingIsExact` | the quotient-first ceiling is the floor of the product |
| | `FundsAccounted` | supply is the sum of balances, vault, remittances and other holdings are never paid from each other, a nonce pays once; storage well formed |
| | `OnlyReportsUnback` | only a report of supply moved elsewhere makes the mirror show the bridge under-backed |
| | `RollingLimitHolds` | what was really minted within a window never exceeds the limit in force |
| | `ExpiredIsReturned` | remittances of the vault refine `Custody`, expired ones go back whatever was re-configured, and the blockade they put on lock and unlock then ends, unless something else lies in the balance |
| | `KeptUntilDue` | rescue, timelock, order book and emission let go on their terms only, and no lock is stranded |
| `governance` | `StakesVoteOnce` | no stake votes both ways; by default every stake votes exactly once and delegates' totals are exact; storage well formed |
| | `WeightChangesAreSafe` | signer weights change with the clock only, with full notice, a cooldown apart, and leave a quorum that can be met |
| | `EarlyExecutionIsEarned` | strict supermajority of the supply of that moment, inside the window; tally and status view agree with the trigger |
| | `BallotsAreFaithful` | packed words and Merkle roots answer for the votes cast and no others, locked weight adds up and only transfers put it out of step, decisions are carried out in their time |
| | `RelayersAndNodesAnswer` | one message per nonce with a quorum behind it, bans final and deserved; stakes, registry and total agree or drift for two known causes, faults are counted and penalties escalate, rounds advance, averages and searches are exact |
| `markets` | `TriggersEndOnTheirTerms` | a trigger ends once, with its owner paid on its terms, while all sell the same asset |
| | `OrdersFilledInTurn` | buckets, volumes and tick list describe the open orders, market orders fill by price, then time (against a definition that does not use the index), and only a keeper's fill of a bid uncovers collateral |
| | `MarketMakersKeepTheirBooks` | nobody's share is diluted, reserves are held, fees stay in the pool and under their cap, a round trip gains nothing, only a swap goes below the core, net liquidity follows the positions and survives splits |
| | `SearchesAreExact` | wide arithmetic, tick searches, prices of ticks, the best route and the simulated route are what the plain definitions say; a simulated swap stops at its first tick |
| | `TradingHaltsHold` | a halt is lifted by entries of the signer list that approved, now or before, so only so often; a freeze by time or hand; what the deviation guard lets through is within its limit |
| `oracle_governance` | `AdministratorsAccounted` | storage well formed, no proposal both executed and cancelled; one administrator alone never makes a second, whatever weights and thresholds it sets |
| | `PowerIsShared` | nobody is added without two signatures or two votes, except a successor to the whole list; pause, halt and destruction take two signatures or two votes |
| | `SettledStaysSettled` | a decided proposal is never touched again |
| `oracle_feed` | `FeedIsFaithful` | averages stay within the prices behind them, the guard flag is the verdict on the newest price over the window it met, and outlives that window for one price only, a price has one source per ledger, an assigned delegate; storage well formed |
| | `ProviderUpdatesNeedBypass` | no provider's price is accepted without the bypass |
| | `SettersNeverContradict` | only a rollback, or a registration with bounds and no floor, makes floor and bounds contradict each other |
| | `EconomyIsSound` | rewards and stakes are covered until a rescue takes them, the fees of a token cover the rewards earned in it until a reward is claimed from another token's vault, unbonding waits, breaker and halt stop what they say, swaps pay for the prices they read and keep their tolerance, medians are middles |

A property of a run is a conjunction of named parts, each defined with its
comment in the module it is about; the run's module says which parts and for
which contract.

Bounds of the runs:

* `administration`: 3 accounts; guardians listed up to twice, window of 2, clock
  to 5: two full recovery requests one after the other fit. The core's delays
  are 1 and its inactivity 2 in a clock of 3, so a queued act meets a change of
  administrator before and after its delay; a band of settings at, below and
  above the hard caps; emergency signers with a repeated address, none, and no
  majority; a `U32` of 8 with an epoch of 5, so that the truncated timestamp of
  an upgrade wraps. Distributions: two recipients with shares that do and do not
  add up to `Full = 10`, amounts that leave a remainder, cool-downs of 0 and 2,
  allowances with two expiries, two strategies that pay less and more than they
  report, in a clock of one (`MaxUnwindTime`) against delays of 0, 1 and 3.
* `remittances`: two remittances with amounts above and below the bond, so a
  second dispute meets an exhausted bond; two split orders over two anchors at
  scale 4, so all remainders occur; two anchored remittances with and without
  bond; two vault holders with assets to 5 at scale 10, so that shares and fees
  round; two guards over two tokens, either of which may be reward or reserve;
  three price samples in a window of two, so that the oldest leaves.
* `settlement`: two HTLCs with a quota of 1, which is reached and freed; two fiat
  escrows with a timeout of 2 in a clock of 5, which expire in either order;
  two time-locked escrows where the deadlines of one fall into the life of the
  other; fee tiers of 5, 6 and 8 tenths, a volatility fee to 9 that exceeds them,
  and a ring of 3 samples in 5 ledgers; reserves to 7; ratios of 1, 1.2 and 1.6
  over payouts to 3, and amounts on both sides of a `MaxU32` of 35, above which
  the ratio is computed from shrunk operands; windows below, at and above the
  limits of a commitment.
* `bridge`: scale 4 instead of 10000 with capacities on both sides of it; a window
  of 2 in a clock of 4 with limits 0, 2 and 3, so the window slides and the limit
  changes inside it; two users, two tokens, a native token that changes while a
  remittance is open; tokens that others transfer in and out; rescue committees with a repeated member, and thresholds
  that are and are not reached before the window ends; emissions with and
  without decay, cap and epoch.
* `governance`: 2 keys and weights to 2 with a cooldown of 2 in a clock of 7, so
  rotations follow each other; 3 stakers, two of whom share a delegate; 2
  proposals with 2 voters each; 3 voters packed two to a word, so that packing
  crosses a word; delegation chains of 3; key lists with a repeated key; 3 keys
  and a nonce, or 2 keys and 2 nonces, with 2 payloads; 2 nodes on 2 feeds, and
  one node whose faults leave a window of 1 in 2 ledgers. The weight
  locks are explored up to the first transfer that puts delegated weight out
  of step, which `OnlyTransfersDrift` says is the only way to get there.
* `markets`: 2 triggers and 2 oracles; a largest integer of 20, so the overflow
  guards of the pool are met; three orders at two prices, or two with expiry and
  fees, at scales where quotes are rounded, half of an order is dust and a match
  leaves a tick without orders behind; ticks from -5 to 5 in words of 4 bits, so
  searches cross words and the sign; half words of 2 and 4 bits, over which the
  wide arithmetic is compared for all operands; fees of up to half a swap, so
  that they do not round to nothing; signer lists with and without a repeated
  signer, and falls below, at, just above and far above the limit; 3 positions on
  ticks of spacing 2; four pools with two ways between two assets and a cycle.
* `oracle_governance`: 3 accounts and one proposal. `oracle_feed`: 6 ledgers against
  a window of 3 with prices 12% apart (the guard trips and clears, the window
  fills, samples are dropped, and the flag outlives them); five entries in the run
  `oracle_quorum` and any number in the proofs; 4 ledgers against a submission gap of 3 with two administrators and
  two delegates; floors and ranges that do and do not fit; two tokens, between
  which the fee token changes while rewards are owed and claimed; two coordinators;
  swaps that read two prices of two ledgers, with breaker and halt; a u32 of 200
  that slippage meets.

Clocks, identifiers, supplies and integers are bounded by the constants whose
names start with `Max`, by `Supply`, `Wallet`, `Purse`, `U32Max`, `I128Max` and
`Width`, and in the run's modules by definitions marked "Bound", each used in a
guard. Percent scales (10000) are replaced by a small scale constant where only
divisibility matters; `OracleFeed` and the consensus functions keep the real
basis points. Symmetry is used only in runs without liveness, over accounts,
keys, payloads or delegates that nothing tells apart. The runs with
`CHECK_DEADLOCK FALSE` hold contracts that really stop: at the end of the
bounded clock, when all is resolved, or at the largest integer.

### Findings

Four runs are expected to fail. Each states what a doc of the repository says and
shows a behaviour of the code that contradicts it; `PROJECT.json` quotes the
line.

| Run | Property | What happens |
|---|---|---|
| `split_remittance_repeated` | `LegsArePaid` | An anchor listed in two legs is paid for the last one only, and the order closes with the rest still locked. |
| `stop_loss_both_ways` | `EscrowsCovered` | With owners on both sides of a pair, one owner's proceeds are paid out of the other's escrow. |
| `oracle_renounce` | `RenouncedIsFinal` | A hand-over pending at renouncement can still be accepted. |
| `oracle_quorum` | `QuorumReachable` | Three providers submit in one ledger and none is accepted: a refused call does not save the buffer. |

Other places where the models follow the code and a doc says something else.
No run is devoted to them; the actions show them.

| Source | The code | The doc |
|---|---|---|
| `contracts/key-recovery/src/lib.rs:288` | a guardian listed twice at initialisation can be removed although it is the last (`GuardianRemains` fails with `MaxCopies = 2`) | :277 "The last guardian cannot be removed." |
| `contracts/remittance-escrow/src/lib.rs:552` | without a treasury every dispute fails | :33 "The sender is always made whole" |
| `src/settlement/htlc.rs:512` | `next_htlc_id` returns the id assigned last | :511 "Return the next HTLC ID that will be assigned." |
| `src/escrow/timelock.rs:74` | the payout timeout is counted from the expiry | :165 "within `PAYOUT_TIMEOUT_LEDGERS` (~24 hours) of locking" |
| `src/bridge/cap_guard.rs:556` | the mint engine never calls the reports | :53 "which the engine calls as part of the same transaction" |
| `src/bridge/escrow.rs:295` | a remittance in the native token breaks the equality and blocks lock and unlock | :113 "token reserves exactly match internal balance ledger" |
| `src/lib.rs:769` | registering twice replaces the entry while the total grows | `state_verification.rs:76` "the stake registry sum must equal the global total" |
| `src/voting_delegation.rs:354` | a sync moves the whole total of a delegate by one staker's difference | :20 "sum of all voting weight delegated to them" |
| `contracts/split-remittance-escrow/src/lib.rs:305` | a leg may be settled after the deadline | `types.rs:66` "anchors must settle before this instant" |
| `src/orders/limit.rs:532` | `fill_order` does not look at the side: filling a bid pays out other makers' `sell_asset`, and the bid's own collateral stays behind with nobody entitled to it (`CollateralCovered` fails in three steps) | :502 "receives `fill_amount` of `pair.sell_asset` released from escrow" |
| `src/orders/limit.rs:654` | `match_orders` drains no tick volume, so best prices and depth include orders that are gone | :995 "Read the resting volume map entry `V_tick`" |
| `src/admin/prune.rs:89` | the index entry of an order is decoded as the order itself, which traps | :32 "Spent or cancelled limit order by ID." |
| `contracts/price-oracle/src/lib.rs:1772` | hand-over, renouncement, revocation and halt do not read the freeze | :4519 "all state-changing operations are blocked" |
| `contracts/price-oracle/src/lib.rs:1456` | a destroyed contract can be initialised again | :3496 "after this call the contract can never be used again" |
| `contracts/price-oracle/src/lib.rs:4432` | any administrator cancels any proposal | :4427 "requires the original proposer or majority vote" |
| `contracts/price-oracle/src/auth.rs:688` | two votes are required of a list of one | :684 "or majority if fewer than 5 admins" |
| `contracts/price-oracle/src/lib.rs:3912` | under veFLOW voting, votes go to entries that execution does not read | :3939 "Once the threshold is reached" the action can be executed |
| `contracts/price-oracle/src/lib.rs:2899` | a rollback may put the floor above the upper bound, or restore one of a removed asset | :836 a floor "above max bound" is invalid |
| `contracts/price-oracle/src/lib.rs:1281` | a base pair given to `initialize` never gets the existence flag | :1284 "Set persistent flag for O(1) existence check" |
| `contracts/price-oracle/src/lib.rs:2751` | the bypass also lifts the quorum and liquidity checks | :4753 lists flash-crash, price floor and price bounds only |
| `contracts/price-oracle/src/lib.rs:2392` | `set_price` takes a lock twice when the price changes, and traps | :2251 describes it as the way to set a price |
| `src/veto.rs:11` | a veto records a proposal; the emergency override does not read it (`VetoedNeverExecutes` fails) | :11 "All execution payloads are invalidated; execution becomes impossible" |
| `src/admin/mod.rs:90` | the signer count is read from an entry of another type, so one vote decides an emergency revocation, or the call traps | :88 "calculate the revocation threshold" |
| `src/vaults/autocompound.rs:155` | the fee of a flash loan is not recorded, so every later deposit, withdrawal and harvest traps | :147 "assert token reserves exactly match internal balance ledger" |
| `src/lib.rs:2404` | the entry point takes the reentrancy lock and calls a function that takes it again, so it refuses every route | :2399 "Multi-hop Route Swaps" |
| `src/lib.rs:2125` | `init_yield_farming` casts a vote on an emergency revocation | its name |
| `src/slashing.rs:178` | a feed's stake is decoded as a record where a bare number is stored, so a penalty traps for a node staked on that very feed | :135 "Deduct the exponentially scaled bond from validator stake registries" |
| `src/amm/ticks.rs:332` | `was_empty` is tested after the addition, so a tick never enters the sorted list | :331 "if this tick became initialized" |
| `contracts/amm/src/virtual_reserves.rs:173` | the post-swap value keeps the pre-swap effective reserves, so the product is compared with itself | `lib.rs:459` "re-check the effective invariant" |
| `contracts/amm_halt_switch/src/lib.rs:60` | approvals to resume are never cleared and count for the next halt; a signer listed twice counts twice (:70) | – |
| `contracts/bridge-rescue/src/lib.rs:603` | a refund is refused only once the threshold of failure proofs is met | :58 "If no validator signatures (failure proofs) have been presented" |
| `contracts/reward-splitter/src/lib.rs:380` | `update_token` and `reset_parameters` do not pass the cool-down gateway | – |
| `contracts/governance-invariants/src/lib.rs:368` | `delegate_weight` moves locked weight and leaves what delegates hold as it was | – |
| `contracts/price-oracle/src/lib.rs:2144` | `get_prices` does not read the circuit breaker | `admin.rs:13` "every price query for a high-volatility asset returns `ContractError::CircuitBreakerActive`" |
| `contracts/price-oracle/src/callbacks.rs:87` | a failing subscriber traps the update | :87 "Non-fatal: If a callback fails, the function logs the error but continues" |
| `contracts/price-oracle/src/lib.rs:4992` | `unstake_tokens` pays at once, beside the unbonding queue | `slashing.rs:129` queues it for a delay |
| `src/fees.rs:752` | `set_dynamic_fee_config` writes the fee band at once, beside the queue | `admin/action_queue.rs:3` "Enforces a mandatory 48-hour delay on sensitive admin operations — fee parameter changes and contract upgrades" |
| `src/amm/invariant.rs:192` | a pool that opted in pays the volatility fee, which its test at `amm/adaptive_fee.rs:554` takes to 150 bps | `fees.rs:28` "absolute ceiling for any protocol swap fee: 1.00%" |
| `src/settlement/anchor_collateral.rs:340` | above a volume of u32::MAX the ratio shown is computed from shrunk operands and may be off by a basis point, also upwards; nothing is decided by it | :320 "the fractional part can lose well under `1e-5` bp" |
| `src/vaults/compounding_guard.rs:47` | a breach that time alone brings about leaves the flag as it was until the next call | "compounding_paused ⟺ breached", :44 "The invariant is exact" |
| `src/vaults/compounding_guard.rs:853` | rewards are taken from the contract's whole balance of the token, in which another vault's booked reserve may lie | comment before `convert_rewards_to_reserves` "the funds come from the vault's own accrued reward balance" |
| `src/vaults/autocompound.rs:147` | any transfer of the asset to the contract blocks the vault, as the fee of a flash loan does (`SurplusBlocksTheVault`) | "assert token reserves exactly match internal balance ledger" |
| `src/vaults/autocompound.rs:638` | a harvest refused for its drawdown returns an error, which undoes the trip of the breaker | the test at :639 expects the breaker set |
| `src/vaults/liquidation.rs:73` | the bonus of a liquidation grows with the shortfall up to a maximum | `lib.rs:2088` "allocates 5% of confiscated collateral to the liquidator" |
| `src/bridge/escrow.rs:116` | the balance compared is the whole contract's: a transfer or another module's holdings block lock and unlock for as long as they are there | the comment at :113 speaks of drift of the vault's reserves |
| `src/bridge/cap_guard.rs:556` | `record_wrapped_mint` and `record_wrapped_burn` compare an argument with the verifier and ask for no signature, so anybody lowers the mirror | "Verifier-authorized"; :593 "a permissionless \"correction\" would hand anyone the ability to mint phantom headroom" |
| `contracts/yield-unwind/src/lib.rs:231` | any figure that is not negative is credited without a look at the balance | "rather than crediting reserves with a fabricated figure" |
| `contracts/strategy-migrator/src/lib.rs:183` | the sum of both balances is compared with what the source reported, so a source that pays more than it reports leaves the difference unprotected, and what a destination sends back stays with the migrator | "if the destination did not end up holding at least the amount the source released" |
| `contracts/reward-splitter/src/lib.rs:615` | a cool-down may be set to 0, also for actions that are waiting, without a cool-down of its own | – |
| `src/amm/positions.rs:122` | the gross liquidity of the upper tick is lowered, not raised, so a position on a pool without liquidity there is refused | the test at :324 expects it to open, with a tick count of 2 |
| `src/amm/ticks.rs:563` | the search counts the tick it stands on, so a simulated swap never gets past the first initialised tick | `ticks.rs:625` "crossing ticks as needed" |
| `contracts/amm/src/virtual_reserves.rs:48` | a swap may pay out of the core: its only limit is the real reserve | the heading at :35 "The virtual buffer is never paid out" |
| `contracts/amm_halt_switch/src/lib.rs:43` | `> 300` on thousandths rounded down: a fall between 30.0% and 30.1% does not halt | `:33` "if drop exceeds 30%", :39 "drop_ratio_scaled >= 300 (30.0%)" |
| `contracts/price-oracle/src/lib.rs:2751` | no second submission of a ledger is accepted, so a buffer has at most one entry (`OneSourcePerLedger`) | `test.rs:3562` and :3621 expect 13 and 12 providers to leave a buffer of 11 and a median over it |
| `contracts/price-oracle/src/lib.rs:1711` | a registration without a floor writes bounds beside a stored floor without comparing them, and takes no backup; the function that validates it exists nowhere | `:836` a floor "above max bound" is invalid |
| `contracts/price-oracle/src/lib.rs:2046` | a claim pays all that was earned, in whichever token, from the vault of the present fee token | `:1945` "Keep fee-pool accounting isolated by the fee token address" |
| `contracts/price-oracle/src/slashing.rs:231` | the first report of uptime resets the multiplier and starts the streak | `lib.rs:5077` "reset only after the relayer accumulates a full 48-hour streak" |

### Fairness

Liveness is checked under weak fairness of the clock (ledgers keep closing) and
of the one call that resolves the situation, made by the party it benefits:
`finalize_recovery` by anybody, `refund` and `refund_unsettled` by the
depositor, `open_dispute` by the sender, `timeout_refund`, `cancel_remittance`
and `refund_fiat_escrow` by anybody or the owner. `BlockadeEnds` (the vault can
lock and unlock again, unless something besides vault and remittances lies in the
native token) rests on the same `cancel_remittance`; that other modules or donors
take their tokens back is not assumed. Nothing in the contracts runs
by itself, so these assumptions say "somebody with an interest keeps asking",
and the properties say that the contract then does not stand in the way. No
fairness is assumed of counterparties: anchors, beneficiaries and guardians
may stay silent for ever.

## 4. Proofs

TLAPS proves the theorems below for every value of the constants that satisfies
the named assumptions of the modules (`KeyRecoveryAssumption`,
`RootAdminAssumption`, `HtlcAssumption` and so on: sets of numbers are numbers,
markers of absent entries are not entries, scales are positive, the sets that
are summed over are finite; the ones that say more are explained below). Where a
component is an instance of a run's module, the theorem is about the run's
specification `MCSpec`, whose parameters are constants; the step is always the
same: a step of the run is a step of the component or leaves its variables
alone (`AdminIsPart`, `GovIsPart` and the like).

| Theorem | Property | Establishes |
|---|---|---|
| `AdministrationProofs!TypesHold` | – | Every storage entry of the key-recovery contract keeps its type, for all accounts, delays and clocks. |
| `AdministrationProofs!RequestsNameTheSittingAdmin` | `ProposalTargetsSittingAdmin` | A pending request always names the admin in office and would change it. |
| `AdministrationProofs!ViewAgreesWithGuard` | – | dispute_remaining is zero exactly when finalize_recovery's guard holds, although they read different fields. |
| `AdministrationProofs!NoEarlyReplacement` | `ReplacedOnlyAfterWindow` | The admin key changes only by a request at least Delay old. |
| `AdministrationProofs!RequestsAreFrozen` | – | A pending request is never edited in place. |
| `AdministrationProofs!VetoAlwaysPossible` | – | If initialisation repeats no guardian, the guardian set is never empty. |
| `AdministrationProofs!OnlyRepeatsLoseTheVeto` | `VetoLostOnlyToRepeats` | Whatever initialisation lists, the last guardian disappears only if it was listed more than once. |
| `RemittanceProofs!TypesHold` | – | Types and non-negative balances for every number of senders, anchors and remittances. |
| `RemittanceProofs!CountersDescribeRecords` | `PendingCountExact` | Pending counters and bond locks always agree with the records. |
| `RemittanceProofs!EscrowImplementsCustody` | `ImplementsCustody` | The escrow implements Custody: initial states map to initial states and each step to a Custody step or a stutter. |
| `SettlementProofs!QuotaIsExact` | `QuotaExact` | The quota counter is the number of active records and never exceeds the maximum, for any number of accounts and HTLCs. |
| `SettlementProofs!HtlcImplementsCustody` | `ImplementsCustody` | The HTLC specification implements Custody with exclusive windows. |
| `BridgeProofs!TypesHold` | – | Supply, collateral and capacity stay in range under the full specification. |
| `BridgeProofs!CeilingAlwaysExact` | `CeilingIsExact` | The quotient-first ceiling equals the floor of the product, for every scale, collateral and capacity. |
| `BridgeProofs!ReportsAloneUnback` | `OnlyReportsUnback` | Only a report of supply moved elsewhere can take the bridge from backed to under-backed. |
| `BridgeProofs!HeadroomAlwaysEarned` | – | Room to mint grows only by collateral, by the admin's reconfiguration, or by a burn reported in the verifier's name (which the code compares and does not authenticate); never by a sync, a release or a mint. |
| `AdministrationProofs!RootRecordsAlwaysAgree` | `RootRecordsAgree` | Over the composed administration, for every set of accounts, tokens, roles and hashes: storage is well formed, the multisig of the core can always act, override votes are for the proposal they install, and swap fees split completely. |
| `AdministrationProofs!RootPowersAlwaysBounded` | `RootPowersAreBounded` | Administrators are replaced by right, queued settings and rescues serve their delays (the fee band may also be set at once, within the same caps, which the statement says), lost roles stay lost, rotations leave a quorum, and code changes only with backing. |
| `OracleGovernanceProofs!AdministratorsAreAccounted` | `AdministratorsAccounted` | For every set of accounts, weights and thresholds: administration and proposals are well formed, no proposal is both executed and cancelled, and a list of one administrator never gets a second unless it was handed over before. |
| `OracleGovernanceProofs!PowerNeedsTwo` | `PowerIsShared` | Nobody is added to the administrators, and nothing is paused, halted or destroyed, without the signatures or the votes of two; the one exception, a successor to whom the whole list was handed over a timelock ago, is in the statement. |
| `OracleGovernanceProofs!SettledIsFinal` | `SettledStaysSettled` | An executed or cancelled proposal is never executed, cancelled or voted on again. |
| `OracleFeedProofs!FeedIsAlwaysFaithful` | `FeedIsFaithful` | Averages lie in the span of the prices behind them, the price-impact flag is the last verdict on the window it met (and how long it outlives that window is stated), and every source is an assigned provider, for every set of assets, providers and window length. |
| `OracleFeedProofs!UpdatesNeedBypass` | `ProviderUpdatesNeedBypass` | No provider's update is accepted while the quorum is not bypassed. |
| `OracleFeedProofs!LimitsContradictKnowingly` | `SettersNeverContradict` | Floor and bounds come to contradict each other by a rollback or by a registration that brings bounds and no floor, and by no other call, whatever the assets, limits and backups. |
| `BridgeProofs!RollingLimitAlwaysHolds` | `RollingLimitHolds` | What was really minted within any window stays within the limit in force, however the limiter prunes its entries. |
| `BridgeProofs!FundsAreAccounted` | `FundsAccounted` | Over the composed bridge: the wrapped supply is the sum of its balances; the vault, the open remittances and what the contract holds for others are never paid from one another although they share one balance; no message pays twice. |
| `BridgeProofs!VaultImplementsCustody` | – | The bridge vault's remittances implement Custody. |
| `RemittanceProofs!EscrowBooksBalance` | – | The bonded escrow's balance is the sum of what is bonded, pending and left over, after every slash, seizure and refund. |
| `RemittanceProofs!AnchoredImplementsCustody` | – | Anchored remittances implement Custody: one resolution each, on the terms of the deposit. |
| `RemittanceProofs!BooksAreSquare` | `BooksSquare` | Every token of the three remittance contracts is accounted for in every reachable state, for all parties, amounts and shares (legs of an order naming distinct anchors). |
| `RemittanceProofs!AnchorsKeepTheirWindow` | – | No order is refunded while its anchors may still settle. |
| `SettlementProofs!EscrowsAreCustody` | `EscrowsImplementCustody` | The fiat escrow and the timelock escrow implement Custody inside the composed settlement system. |
| `GovernanceProofs!WeightsAreSafe` | `WeightChangesAreSafe` | Signer weights change with notice only, read alike before and after the application, and never lock the multisig. |
| `GovernanceProofs!EarlyIsEarned` | `EarlyExecutionIsEarned` | A proposal is executed early only on the votes and the supply of that ledger, and the tallies are the ballots cast. |
| `GovernanceProofs!StakesAlwaysVoteOnce` | `StakesVoteOnce` | Delegated and own weight add up to the stakes: none votes twice and none is lost. |
| `GovernanceProofs!RelayersAnswer` | – | One message per nonce, a quorum behind every acceptance, bans final and deserved, collateral held or slashed, for any keys, nonces, thresholds and collateral. |
| `BridgeProofs!LocksAndWithdrawalsWait` | – | For any committees, thresholds, windows and amounts: the rescue holds what is locked, a lock leaves once and with the votes or the expiry its exit takes, none is stranded, and a large withdrawal waits its full delay. |

### The inductive invariants

No invariant of a run is inductive as it stands. What had to be added says how
the code works:

* **Fresh identifiers.** Every contract that counts or sums over records
  (`RemittanceEscrow`, `Htlc`, `FiatEscrow`, `TimelockEscrow`, `BridgeVault`,
  `AnchoredRemittance`, `SplitRemittance`, `EarlyExecution`, `OracleGovernance`)
  keeps its books only because identifiers not handed out yet are unused; without
  that, a creation could overwrite an open record.
* **Recovery** (`IInv` of `AdministrationProofs`). Nothing exists before
  initialisation, and a request's deadline is its creation plus the delay.
  `VetoAlwaysPossible` assumes that initialisation repeats no guardian;
  `OnlyRepeatsLoseTheVeto` does without it and says what else can happen.
* **Administration of the core** (`AdminInv`). `MultisigReachable` is lost by a
  revocation unless one knows that the threshold was compared with the list of
  the multisig, whose members count whatever happens to them elsewhere, and that
  it is one before the first rotation (`ThresholdCounted`). A queued action knows
  its slot and has been given the delay (`SlotWaits`); what an executed rescue
  took is missing from the balance (`RescuesTaken`). That settings stay applicable
  needs the caps of the queue and of the immediate setter to be the same ones
  (`SettingsBounded`).
* **Governance of the core** (`GovInv`). Votes are for the open proposal because
  an id that was not given out has no votes (`VotesCast`). An upgrade is staged
  at a timestamp, so never below `Epoch`; with `MaxSeq < Epoch + MinLedgerDelay`
  (timestamps count seconds since 1970, sequence numbers count ledgers since the
  network started, and the bound on the latter is below the former) a stored
  timestamp below 2^32 is never passed by the sequence number, which is what
  `CodeChangesAreBacked` says of `execute_upgrade`. A rotation leaves a quorum
  because each new signer weighs one: their sum is at least their number.
* **Remittances** (`IInv`, `AnchoredInv`, `SplitInv`). Counters and locks describe
  the records; the tokens held are the sum over the open records plus bonds and
  treasury. The split orders are proved under `DistinctLists`, no order naming an
  anchor twice: the contract does not check it, and with a repeated anchor the
  books do come apart, which is the finding of `split_remittance_repeated`.
  Parties may coincide (a sender that is its own anchor) in all three.
* **Settlement** (`IInv`, `FiatInv`, `LockInv`). For the time-locked escrow the
  payout deadline of a record is never before its expiry: `timeout_refund` looks
  only at the former, and `Custody` returns nothing before the latter.
* **Bridge** (`WrappedInv`, `VaultInv`). Within the window the limiter's list is
  what was really minted, and nothing is dated in the future, so the pruning of
  old entries loses nothing that counts; nothing circulates before registration;
  a nonce is paid exactly when it is recorded as spent; what the contract holds of
  a token is vault, remittances and `elsewhere`, each of its own. The ceiling is computed
  as quotient times capacity plus remainder times capacity over the scale;
  `AllowedSupplyExact` shows by uniqueness of division that this is the floor of
  the product. The engine does not ask the guard, so no backing of the supply is
  invariant; `OnlyReportsUnback` says how the mirror comes to show it lost.
* **Voting** (`IInv`, `EarlyInv`, `DelegInv`, `DefaultInv` of `GovernanceProofs`).
  A pending weight configuration is a cooldown away from the last rotation; a
  proposal is dated by the configuration, which nobody sets twice; an account
  that delegates has no direct weight. Under the default configuration a
  delegate's total is the sum of what was given to it, which makes the
  saturating subtractions of the code exact.
* **Relayers** (`RelayInv` of `GovernanceProofs`). A message with a nonce
  is accepted exactly when the nonce is spent, so a second quorum for it is refused
  whatever it signed; a banned key is outside the set, without collateral, and
  signed a contradiction, and all collateral ever staked is held or slashed. The
  parts are inductive together: it is the refusals of `add_validator` and
  `stake_validator_collateral` for a banned key that keep a ban final. A removed
  validator keeps its collateral, so the sum runs over all keys.
* **Rescue and timelock** (`KeepInv` of `BridgeProofs`). The flag of a lock stands
  for the votes collected; a lock still held was not ready after the last vote, so
  a threshold met always ends in the rescue of the same call; committees have no
  repeated member, so a threshold is never above the number that can vote
  (`NoLockIsStranded` fails without it); before initialisation there are no
  locks. A queued large withdrawal carries the moment it was queued plus the
  delay, and only those two entries decide its execution.
* **Oracle** (`OneVoice` of `OracleGovernanceProofs`, `FeedInv` of
  `OracleFeedProofs`). Until the first hand-over at most one account is on the
  list or among the votes of any proposal; a list with one member alone says
  nothing about votes that may be waiting. A buffer of submissions has at most
  one entry, because a call refused for the quorum saves nothing, and its price
  is the one served; the average lies in the span of the prices behind it. The
  flag of the guard is tied to a history variable `judged`, the window the newest
  price met and the verdict left from before: while the window goes on it is the
  verdict on its newest price, and after an expiry what the last verdict left.

### Sums

`Balances` proves what the books need about `SumOf` (a fold of the community
modules over a finite set): the sum of a set with one element more, less or
changed, agreement, bounds, non-negativity, zero outside a subset, and a transfer
(`SumShift`). The fold is a recursive function on subsets; that it satisfies its
equation is proved by taking a least subset for which it fails (`WFMin` on the
cardinality), so no induction principle with an operator parameter is needed.

### What is only model-checked

* All liveness and `ENABLED`: `RequestsAreDecided`, `RefundedInTime`,
  `EverythingCloses`, `ExpiredIsReturned`. They are out of the prover's reach.
* The three properties of `markets` other than the stop-loss and limit book rest
  on modules with RECURSIVE operators (integer roots, searches, routes), which
  the prover cannot use; `TriggersEndOnTheirTerms` and `OrdersFilledInTurn`
  include folds over lists whose result needs induction over data.
* `PayoutsAreCovered`, `YieldIsAccounted`, `FeesAndCollateralAccounted`,
  `BallotsAreFaithful` and `EconomyIsSound` have no theorem yet (section 5). Of
  `RelayersAndNodesAnswer` the relayers are proved (`RelayersAnswer`), the staked
  nodes checked; of `KeptUntilDue` the rescue and the timelock are proved
  (`LocksAndWithdrawalsWait`), the order book, the emission and the nullifier
  tree checked. Parts of these properties compare a
  computation with a reference over a bounded range and will stay with TLC:
  Merkle paths and packed words, medians, weighted averages, splits of a fee as
  sequences, penalties that double with the number of faults.

## 5. Plan

The components that carry the protocol's logic are modelled; what is left is
proof and a few remainders.

1. Theorems to come, in the order of what they say about money: the order book
   and the emission of `KeptUntilDue`; `PayoutsAreCovered` (`VestingIsCovered`, `BuybacksAreBacked`,
   `MigrationsLoseNothing`, `AllowancesBound`), whose instances first need their
   parameters as constants; the collateral part of `FeesAndCollateralAccounted`;
   the stakes and registry of `RelayersAndNodesAnswer`; `WeightsAddUp` of
   `BallotsAreFaithful`; the coverage of rewards and stakes in `EconomyIsSound`.
2. An abstract "locked balance" specification shared by `LimitBook`, the order
   book of `Safekeeping`, `StopLoss` and the bonds of `RootSettlement`, and one of
   a distribution for the contracts of `Distributions`.
3. Compositions across contracts that share storage: the pruning of
   `admin/prune.rs` over all the records it removes; the pause of `RootAdmin`
   over the entry points that read it.

## 6. Not modelled

* Zero-knowledge verification, Merkle and Poseidon hashing, signature
  verification: cryptography is represented by abstract functions, terms and
  sets. The verifier of the shielded escrow accepts no proof, so of that
  contract only the tree of spent nullifiers is left to model.
* 256-bit arithmetic (the vendored `ethnum-patched` and its users): the market
  maker's wide products and ticks are modelled over narrower words, where the
  algorithm is the same and every operand can be tried.
* Files that no module declares and that are therefore not part of the
  contract: `flash_loan_guard`, `twap_window`, `oracle_attestation`,
  `multisig_expiry`, `expiry/*`, `keeper`, `governance_upgrade`,
  `flash_fee_engine`, `admin/timelock_cancellation`, `vaults/yield_strategy`,
  `vaults/debt_share`, `vaults/gc`.
* Calls whose source refers to functions that do not exist, where nothing says
  what they would do: `slash_for_low_liquidity`, `claim_relayer_rewards`.
* The migration of legacy keys (`upgrades/migration.rs`), whose legacy keys equal
  the live ones, and further versions of the staged upgrade that no entry point
  uses.
* Locks against reentrancy: a call is one step. Where a call takes its lock twice
  the model refuses it.
* Events, logging, error codes, storage rent and lifetimes (except where an
  expiring entry changes behaviour), compiled-code size, deployment scripts,
  JavaScript packages, Solidity companions.
* The gas-tank reimbursement at the end of a price update: the satellite is a
  stub, and the oracle's tank address is taken to be unset.
* Read-only inspectors, analytics and quotes on which no other call depends.

`PROJECT.json` lists each of these with status `not_modelled` or, where the rest
of the component is modelled, `partly`.
