---------------------------- MODULE MCSettlement ----------------------------
(***************************************************************************)
(* The three settlement contracts of the root crate, for model checking:   *)
(* the hash time-locked contracts of Htlc, the fiat payouts of FiatEscrow  *)
(* and the time-locked escrows of TimelockEscrow; and what the core        *)
(* contract charges and holds against promises (RootSettlement), a kind of *)
(* fee or promise at a time.                                               *)
(*                                                                         *)
(* They share no storage and do not call each other, so a behaviour of one *)
(* is explored while the others rest: contract, fixed in the initial       *)
(* state, says which.                                                      *)
(***************************************************************************)
EXTENDS Htlc

CONSTANTS
  p1, p2, h1, h2,   \* two secrets and their digests
  \* of FiatEscrow
  FiatAccounts, FiatAmounts, FiatTimeout, FiatGenesis, FiatMaxTime, FiatMaxIds,
  \* of TimelockEscrow
  LockSenders, LockReceivers, LockDepositors, LockAnchors, LockSelf, LockAmounts,
  LockExpiries, LockTimeout, LockMaxSeq, LockMaxIds, LockSupply

VARIABLES
  contract,   \* which of the three contracts is called
  \* the state of FiatEscrow
  fiat_now, fiat_counter, fiat_escrow,
  \* the state of TimelockEscrow
  lock_seq, lock_nextId, lock_escrow, lock_tok,
  \* the state of RootSettlement
  core_now, fee_pool, fee_position, fee_flow, fee_volume, fee_dynamic, fee_ring, fee_adaptive,
  fee_peak, fee_flash, fee_split, fee_routed,
  col_ratio, col_anchor, col_queue, col_nextPayout,
  col_treasury, col_commitment, col_active, col_bal, col_placed

fiatVars == <<fiat_now, fiat_counter, fiat_escrow>>
lockVars == <<lock_seq, lock_nextId, lock_escrow, lock_tok>>
feeVars ==
  <<fee_pool, fee_position, fee_flow, fee_volume, fee_dynamic, fee_ring, fee_adaptive,
    fee_peak, fee_flash, fee_split, fee_routed>>
colVars ==
  <<col_ratio, col_anchor, col_queue, col_nextPayout,
    col_treasury, col_commitment, col_active, col_bal, col_placed>>
coreVars == <<core_now, feeVars, colVars>>
allVars == <<contract, vars, fiatVars, lockVars, coreVars>>

-----------------------------------------------------------------------------

\* The two secrets do not collide.
MCHash == [p \in PreImages |-> IF p = p1 THEN h1 ELSE h2]

Fiat == INSTANCE FiatEscrow WITH
  Accounts <- FiatAccounts, Amounts <- FiatAmounts, Timeout <- FiatTimeout,
  Genesis <- FiatGenesis, MaxTime <- FiatMaxTime, MaxIds <- FiatMaxIds, now <- fiat_now, counter <- fiat_counter,
  escrow <- fiat_escrow

Timelock == INSTANCE TimelockEscrow WITH
  Senders <- LockSenders, Receivers <- LockReceivers, Depositors <- LockDepositors,
  Anchors <- LockAnchors, Self <- LockSelf, Amounts <- LockAmounts,
  Expiries <- LockExpiries, PayoutTimeout <- LockTimeout, MaxSeq <- LockMaxSeq,
  MaxIds <- LockMaxIds, Supply <- LockSupply, seq <- lock_seq,
  nextId <- lock_nextId, escrow <- lock_escrow, tok <- lock_tok

\* Tiers of 5, 6 and 8 parts in ten, so that small amounts bear a fee; ratios
\* of 1, 1.2 and 1.6, in tenths.  The volatility fee goes above the highest
\* tier, as 1.50% is above 1.00%.
Core == INSTANCE RootSettlement WITH
  Providers <- {"p1", "p2"}, Scale <- 10, MaxU32 <- 35, Floor <- 1, Tier <- <<5, 6, 8>>, MinPeriod <- 1,
  BandsAsked <- {<<0, 6, 1>>, <<6, 8, 2>>, <<5, 9, 1>>, <<5, 5, 1>>, <<5, 8, 0>>},
  FeesAsked <- {0, 5, 6, 8, 9}, Amounts <- {0, 2, 5}, Units <- {1, 2}, Volumes <- {1, 2, 4},
  Adaptive <- [base_fee |-> 1, max_fee |-> 9, low_volatility |-> 1, high_volatility |-> 6,
               sample_interval |-> 1, ring_len |-> 3, half_life |-> 2],
  Prices <- {2, 4, 9}, Decay <- [e \in 0..6 |-> 10 \div (e + 1)], MinDynamicFee <- 1, Profile <- 2,
  Weights <- {<<>>, <<0, 0>>, <<1>>, <<1, 2>>, <<2, 1, 1>>, <<1, 1, 0>>},
  SplitConfigs <- {<<6, 3, 1>>, <<5, 5, 0>>, <<4, 4, 4>>, <<1, 1, 8>>}, Threshold <- 4,
  Anchors <- {"x"}, Pledges <- {0, 1, 2, 3}, Default <- 12, MaxRatio <- 16,
  RatiosAsked <- {9, 10, 12, 16, 17}, Traders <- {"t1", "t2"}, Treasury <- "treasury",
  Self <- "core", Openings <- {"trade"}, Junk <- "junk", Bonds <- {0, 1, 2},
  Offsets <- {1, 2, 3, 4}, MinOffset <- 1, MaxOffset <- 3, MaxCommitments <- 1,
  Genesis <- 1, MaxTime <- 5, MaxUnits <- 3, MaxFlash <- 12, MaxReserve <- 7, MaxVolume <- 4,
  MaxCollateral <- 7, MaxPayouts <- 3, MaxIds <- 2, Supply <- 3,
  now <- core_now, pool <- fee_pool, position <- fee_position, flow <- fee_flow,
  volume <- fee_volume, dynamic <- fee_dynamic, ring <- fee_ring, adaptive <- fee_adaptive,
  peak <- fee_peak, flash <- fee_flash, split <- fee_split, routed <- fee_routed,
  ratio <- col_ratio, anchor <- col_anchor, queue <- col_queue,
  nextPayout <- col_nextPayout, treasury <- col_treasury, commitment <- col_commitment,
  active <- col_active, bal <- col_bal, placed <- col_placed

ASSUME Core!RootSettlementAssumption
ASSUME EscrowsAssumption == Fiat!FiatEscrowAssumption /\ Timelock!TimelockAssumption

\* Bound: the shares of a pool need few ledgers, and pass one only to observe a
\* second price; a pool that has opted in is used when both are observed.
MaxShareTime == 2

MCInit ==
  /\ contract \in {"htlc", "fiat", "timelock",
                   "shares", "volume", "volatility", "peak", "flash", "splits",
                   "collateral", "commitments"}
  /\ Init /\ Fiat!Init /\ Timelock!Init /\ Core!Init
  /\ fee_adaptive.opted => contract \in {"shares", "volatility"}

FeeStep ==
  \/ /\ contract = "shares" /\ Core!SharesNext /\ core_now' <= MaxShareTime
     /\ core_now' > core_now => fee_ring.prices # <<>> /\ fee_pool.total_lp_units = 0
     /\ fee_adaptive.opted /\ fee_pool' # fee_pool => fee_ring.last_observed = MaxShareTime
  \/ contract = "volume" /\ Core!DynamicNext
  \/ contract = "volatility" /\ Core!AdaptiveNext
  \/ contract = "peak" /\ Core!PeakNext
  \/ contract = "flash" /\ Core!FlashNext
  \/ contract = "splits" /\ Core!SplitNext

PromiseStep ==
  \/ contract = "collateral" /\ Core!AnchorNext /\ core_now' <= MaxShareTime
  \/ contract = "commitments" /\ Core!CommitNext

MCNext ==
  /\ UNCHANGED contract
  /\ \/ contract = "htlc" /\ Next /\ UNCHANGED <<fiatVars, lockVars, coreVars>>
     \/ contract = "fiat" /\ Fiat!Next /\ UNCHANGED <<vars, lockVars, coreVars>>
     \/ contract = "timelock" /\ Timelock!Next /\ UNCHANGED <<vars, fiatVars, coreVars>>
     \/ FeeStep /\ UNCHANGED <<vars, fiatVars, lockVars, colVars>>
     \/ PromiseStep /\ UNCHANGED <<vars, fiatVars, lockVars, feeVars>>

\* The fairness of the contract that is called: ledgers keep closing, a
\* depositor who can be refunded asks for it, and somebody submits the refunds
\* that need no credential while they stay possible.
MCSpec ==
  /\ MCInit /\ [][MCNext]_allVars
  /\ WF_vars(contract = "htlc" /\ CloseLedger)
  /\ \A a \in Accounts, i \in Ids : WF_vars(contract = "htlc" /\ refund(a, i))
  /\ WF_fiatVars(contract = "fiat" /\ Fiat!Tick)
  /\ \A i \in Fiat!Ids : WF_fiatVars(contract = "fiat" /\ Fiat!refund_fiat_escrow(i))
  /\ WF_lockVars(contract = "timelock" /\ Timelock!CloseLedger)
  /\ \A i \in Timelock!Ids : WF_lockVars(contract = "timelock" /\ Timelock!timeout_refund(i))

-----------------------------------------------------------------------------

\* The two escrows implement the custody contract as well: each is resolved
\* once, on the terms it was opened with and not before its time; of the four
\* calls that can pay a time-locked escrow out, two never both do.  Storage stays
\* well formed: among others, a fiat escrow has a lock time exactly when it was
\* locked, and the two fields that say whether a time-locked one was paid out
\* never disagree.
EscrowsImplementCustody ==
  /\ [](TypeOK /\ Fiat!TypeOK /\ Timelock!TypeOK)
  /\ Fiat!ImplementsCustody
  /\ Timelock!ImplementsCustody
  /\ []Timelock!HoldsTheOpenEscrows

\* Nothing stays open for ever: an expired HTLC, a locked fiat escrow and a
\* time-locked escrow past its payout deadline are all closed in the end, even
\* if no counterparty ever signs.
EverythingCloses ==
  ExpiredAreRefunded /\ Fiat!LockedIsResolved /\ Timelock!EveryEscrowCloses

\* Fees are charged within their bounds, shared out completely and paid out
\* once; the provider pool's books claim more than it was given by the fees of
\* single-asset deposits only, and leaving takes nothing from those who stay.
FeesAccounted ==
  /\ [](Core!BooksExceedBySwapFees /\ Core!PeakFeeIsBounded /\ Core!FlashFeesAddUp
        /\ Core!SplitsAreComplete)
  /\ Core!LeavingKeepsUnitValue /\ Core!VolumeFeeIsBounded /\ Core!VolatilityFades

\* An anchor's queued payouts are covered in full whatever the minimum ratio
\* became, its pause follows its ratio, and the ratio is compared exactly; a
\* bond is held while its order is sealed, and goes back or is forfeited once.
CollateralBacksPromises ==
  /\ [](Core!PayoutsAreCovered /\ Core!ComparisonIsExact /\ Core!BondsAreHeld)
  /\ Core!PauseFollowsRatio /\ Core!RevealedAsCommitted

\* Both, on storage that is well formed: what the core contract charges and what
\* it holds against promises.
FeesAndCollateralAccounted ==
  []Core!TypeOK /\ FeesAccounted /\ CollateralBacksPromises
=============================================================================
