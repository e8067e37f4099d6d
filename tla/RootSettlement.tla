--------------------------- MODULE RootSettlement ---------------------------
(***************************************************************************)
(* What the core contract charges and how it shares it out, and what it    *)
(* holds against a promise.                                                *)
(*                                                                         *)
(* Charged: the provider pool with its single-asset deposits               *)
(* (src/settlement/fees.rs), the fee that follows the traded volume and    *)
(* the flash-loan fees (src/fees.rs), the fee that follows the volatility  *)
(* (src/amm/adaptive_fee.rs), and the splits of a fee among several        *)
(* receivers (src/fees.rs, src/router/remittance_fee_splitter.rs).  One    *)
(* pool, one asset; amounts stay below 2^64, so checked additions succeed  *)
(* and the casts to u64 keep the value.  None of these calls moves a       *)
(* token: the pool is a set of books.                                      *)
(*                                                                         *)
(* Held: the collateral of an anchor against the payouts assigned to it in *)
(* one corridor (src/settlement/anchor_collateral.rs), and the bond of a   *)
(* trader against an order that is committed first and revealed later      *)
(* (src/orders/commit_reveal.rs).  A commitment hash is the pair of secret *)
(* and trade it was computed from, or a value that nothing hashes to:      *)
(* SHA-256 does not collide.                                               *)
(*                                                                         *)
(* Basis points are parts of Scale.  The two halves share the clock only,  *)
(* and a call of one says nothing of the variables of the other.           *)
(***************************************************************************)
EXTENDS Balances, Sequences, SequencesExt, FiniteSetsExt, TLC

CONSTANTS
  Providers, None,
  Scale,            \* 10_000
  MaxU32,           \* u32::MAX
  Floor,            \* PROTOCOL_FEE_FLOOR_BPS
  Tier,             \* FEE_TIER_5_BPS, FEE_TIER_30_BPS, FEE_TIER_100_BPS
  MinPeriod,        \* 300 seconds
  BandsAsked,       \* <<min, max, period>> asked for
  FeesAsked,        \* tiers asked for
  Amounts, Units,   \* amounts and LP units of a call
  Volumes,          \* traded volumes
  Adaptive,         \* the adaptive configuration of a pool that has opted in
  Prices,           \* observed prices
  Decay,            \* share of Scale left of a peak after so many seconds
  MinDynamicFee,    \* MIN_DYNAMIC_FEE
  Profile,          \* STANDARD_FIXED_POINT_SCALE
  Weights,          \* weight lists of a split
  SplitConfigs,     \* <<liquidity, anchor, treasury>> shares asked for
  Threshold,        \* TREASURY_DIVERSIFICATION_THRESHOLD_BPS
  \* of the promises
  Anchors, Pledges,       \* amounts of collateral and payouts
  Default, MaxRatio,      \* DEFAULT_MIN_COLLATERAL_RATIO_BPS, MAX_ALLOWED_...
  RatiosAsked,
  Traders, Treasury, Self,
  Openings,               \* what a hash may open to: pairs of secret and trade
  Junk,                   \* a hash nothing opens
  Bonds, Offsets,         \* bonds and windows asked for
  MinOffset, MaxOffset,   \* MIN_EXPIRATION_OFFSET, MAX_EXPIRATION_OFFSET
  MaxCommitments,         \* MAX_ACTIVE_COMMITMENTS
  Genesis, MaxTime, MaxUnits, MaxFlash, MaxReserve, MaxVolume,    \* bounds
  MaxCollateral, MaxPayouts, MaxIds, Supply                       \* bounds

RootSettlementAssumption ==
  /\ {Default, MaxRatio, MinOffset, MaxOffset, MaxCommitments} \subseteq Nat
  /\ Scale > 0 /\ Default \in Scale..MaxRatio /\ MaxRatio < MaxU32
  /\ Junk \notin Openings /\ Treasury \notin Traders \union {Self}
  /\ {Scale, MaxU32, Floor, MinPeriod, MinDynamicFee, Profile, Threshold, Genesis, MaxTime,
      MaxUnits, MaxFlash, MaxReserve, MaxVolume} \subseteq Nat
  /\ Floor <= Tier[1] /\ Tier[1] < Tier[2] /\ Tier[2] < Tier[3] /\ Tier[3] <= Scale
  /\ Adaptive.base_fee <= Adaptive.max_fee
  /\ Adaptive.low_volatility < Adaptive.high_volatility
  /\ \A e \in 0..MaxTime : Decay[e] \in 0..Scale

VARIABLES
  now,             \* ledger timestamp, and sequence for the commitments
  pool, position,  \* LiquidityPool, lp_units by provider
  flow,            \* what was paid in less what was taken out, and the swap fees booked
  volume, dynamic, \* VolumeHistory, DynamicFeeState
  ring, adaptive,  \* PriceObservationBuffer, AdaptiveFeeState and whether the pool opted in
  peak,            \* DynamicFeeAccumulator
  flash,           \* FlashLoanFeePool, what was recorded, times it was distributed
  split, routed,   \* the last split of a fee; the splitter's configuration and total
  ratio,           \* CorridorMinRatio
  anchor,          \* AnchorCollateralState of each anchor
  queue,           \* PayoutQueue of each anchor
  nextPayout,      \* NextPayoutId of each anchor
  treasury,        \* whether TREASURY_KEY is set
  commitment,      \* the commitments by id
  active,          \* CommitCounterKey of each trader
  bal,             \* the bond token
  placed           \* what the revealed orders say: the trades by commitment id

feeVars == <<pool, position, flow, volume, dynamic, ring, adaptive, peak, flash, split, routed>>
anchorVars == <<ratio, anchor, queue, nextPayout>>
commitVars == <<treasury, commitment, active, bal, placed>>
vars == <<now, feeVars, anchorVars, commitVars>>

LiquidityPool == [a : Nat, b : Nat, fee_pool : Nat, total_lp_units : Nat]
VolumeHistory == [previous : Nat, current : Nat, last_updated : Nat]
DynamicFeeState == [min_fee : Nat, max_fee : Nat, current_fee : Nat, period : Nat]
AdaptiveFeeState == [volatility : Nat, fee : Nat, last_updated : Nat, opted : BOOLEAN]
DynamicFeeAccumulator == [base_fee : Nat, peak_fee : Nat, current_fee : Nat, last_updated : Nat]
FlashLoanFeePool ==
  [accumulated : Nat, lp : Nat, treasury : Nat, recorded : Nat, distributed : Nat]
FeeDistributionResult == [total : Nat, weights : Seq(Nat), parts : Seq(Nat)]

FiatPayoutEntry == [id : Nat, amount : Nat, opened_at : Nat]

AnchorCollateralState ==
  [collateral_locked : Nat, volume_unsettled : Nat, assignments_paused : BOOLEAN,
   paused_at : Nat, last_paused_at : Nat, last_ratio_bps : Nat]

CommitmentState == {"Active", "Revealed", "Forfeited"}

Commitment ==
  [trader : Traders, hash : Openings \union {Junk}, bond : Nat, expires : Nat,
   committed_at : Nat, state : CommitmentState]

TypeOK ==
  /\ now \in Genesis..MaxTime
  /\ pool \in LiquidityPool /\ position \in [Providers -> Nat]
  /\ flow \in [a : Int, b : Int, fees : Int, booked : Nat]
  /\ volume \in VolumeHistory /\ dynamic \in DynamicFeeState
  /\ ring.prices \in Seq(Prices) /\ Len(ring.prices) <= Adaptive.ring_len
  /\ ring.last_observed \in 0..now /\ adaptive \in AdaptiveFeeState
  /\ peak \in DynamicFeeAccumulator /\ flash \in FlashLoanFeePool
  /\ split \in FeeDistributionResult \union {None}
  /\ routed.config \in Seq(Nat) /\ routed.total \in Nat
  /\ ratio \in Scale..MaxRatio
  /\ anchor \in [Anchors -> AnchorCollateralState]
  /\ queue \in [Anchors -> Seq(FiatPayoutEntry)] /\ nextPayout \in [Anchors -> Nat]
  /\ treasury \in BOOLEAN
  /\ commitment \in Seq(Commitment) /\ active \in [Traders -> 0..MaxCommitments]
  /\ bal \in [Traders \union {Treasury, Self} -> Nat]
  /\ placed \in [1..Len(commitment) -> Openings \union {Junk}]

Sum(s) == FoldLeft(LAMBDA x, y : x + y, 0, s)

SumUnits == MapThenSumSet(LAMBDA p : position[p], Providers)

get_anchor_state ==
  [collateral_locked |-> 0, volume_unsettled |-> 0, assignments_paused |-> FALSE,
   paused_at |-> 0, last_paused_at |-> 0, last_ratio_bps |-> 0]

Init ==
  /\ now = Genesis
  /\ pool = [a |-> 0, b |-> 0, fee_pool |-> 0, total_lp_units |-> 0]
  /\ position = [p \in Providers |-> 0]
  /\ flow = [a |-> 0, b |-> 0, fees |-> 0, booked |-> 0]
  /\ volume = [previous |-> 0, current |-> 0, last_updated |-> 0]
  /\ dynamic = [min_fee |-> Tier[1], max_fee |-> Tier[3], current_fee |-> Tier[1],
                period |-> MinPeriod]
  /\ ring = [prices |-> <<>>, last_observed |-> 0]
  /\ adaptive \in [volatility : {0}, fee : {0}, last_updated : {Genesis}, opted : BOOLEAN]
  /\ peak = [base_fee |-> 1, peak_fee |-> 0, current_fee |-> 0, last_updated |-> Genesis]
  /\ flash = [accumulated |-> 0, lp |-> 0, treasury |-> 0, recorded |-> 0, distributed |-> 0]
  /\ split = None
  /\ routed = [config |-> <<(6 * Scale) \div 10, (3 * Scale) \div 10, Scale \div 10>>, total |-> 0]
  /\ ratio = Default
  /\ anchor = [a \in Anchors |-> get_anchor_state]
  /\ queue = [a \in Anchors |-> <<>>] /\ nextPayout = [a \in Anchors |-> 0]
  /\ treasury = FALSE
  /\ commitment = <<>> /\ active = [t \in Traders |-> 0]
  /\ bal = [x \in Traders \union {Treasury, Self} |-> IF x \in Traders THEN Supply ELSE 0]
  /\ placed = <<>>

Tick ==
  /\ now < MaxTime
  /\ now' = now + 1
  /\ UNCHANGED <<feeVars, anchorVars, commitVars>>

-----------------------------------------------------------------------------
(* The fee that follows the volume. *)

Clamp(x, low, high) == IF x < low THEN low ELSE IF x > high THEN high ELSE x

\* One tier up above 1.5 times the previous volume, one down below 0.7 times.
calculate_dynamic_fee(h, d) ==
  LET fee == d.current_fee
      moved == IF 2 * h.current > 3 * h.previous
                 THEN IF fee = Tier[1] THEN Tier[2] ELSE IF fee = Tier[2] THEN Tier[3] ELSE fee
               ELSE IF 10 * h.current < 7 * h.previous
                 THEN IF fee = Tier[3] THEN Tier[2] ELSE IF fee = Tier[2] THEN Tier[1] ELSE fee
               ELSE fee
  IN IF h.previous = 0 THEN fee ELSE Clamp(moved, d.min_fee, d.max_fee)

PeriodOver == now >= volume.last_updated + dynamic.period

VolumeAfter(v) ==
  IF PeriodOver
    THEN [previous |-> volume.current, current |-> v, last_updated |-> now]
    ELSE [volume EXCEPT !.current = @ + v]

\* update_volume_and_adjust_fee
DynamicAfter(v) ==
  IF PeriodOver
    THEN [dynamic EXCEPT !.current_fee = Max({calculate_dynamic_fee(VolumeAfter(v), dynamic), Floor})]
    ELSE dynamic

update_volume_and_adjust_fee(v) ==
  /\ volume' = VolumeAfter(v)
  /\ dynamic' = DynamicAfter(v)
  /\ UNCHANGED <<now, pool, position, flow, ring, adaptive, peak, flash, split, routed>>

is_valid_protocol_fee_value(fee) == fee \in {Floor, Tier[1], Tier[2], Tier[3]}

\* The current fee is not brought into the new band.
set_dynamic_fee_config(min_fee, max_fee, period) ==
  LET low == Max({min_fee, Floor})
      high == Max({max_fee, low})
  IN /\ low <= Tier[3] /\ high <= Tier[3]
     /\ is_valid_protocol_fee_value(low) /\ is_valid_protocol_fee_value(high)
     /\ low < high /\ period >= MinPeriod
     /\ dynamic' = [dynamic EXCEPT !.min_fee = low, !.max_fee = high, !.period = period,
                                   !.current_fee = Max({@, Floor})]
     /\ UNCHANGED <<now, pool, position, flow, volume, ring, adaptive, peak, flash, split, routed>>

governance_adjust_fee_tier(fee) ==
  LET enforced == Max({fee, Floor}) IN
  /\ fee <= Tier[3]
  /\ is_valid_protocol_fee_value(enforced)
  /\ enforced \in dynamic.min_fee..dynamic.max_fee
  /\ dynamic' = [dynamic EXCEPT !.current_fee = enforced]
  /\ UNCHANGED <<now, pool, position, flow, volume, ring, adaptive, peak, flash, split, routed>>

DynamicNext ==
  \/ Tick
  \/ \E v \in Volumes :
       volume.current + v <= MaxVolume /\ update_volume_and_adjust_fee(v)
  \/ \E b \in BandsAsked : set_dynamic_fee_config(b[1], b[2], b[3])
  \/ \E f \in FeesAsked : governance_adjust_fee_tier(f)

-----------------------------------------------------------------------------
(* The fee that follows the volatility, and the decaying peak fee. *)

feeRest == <<now, pool, position, flow, volume, dynamic, flash, split, routed>>

\* An early sample is dropped without an error; the ring keeps the newest.
record_price_observation(price) ==
  LET prices == Append(ring.prices, price)
      excess == Len(prices) - Adaptive.ring_len
  IN /\ adaptive.opted
     /\ ring.prices = <<>> \/ now - ring.last_observed >= Adaptive.sample_interval
     /\ ring' = [prices |-> IF excess > 0 THEN SubSeq(prices, excess + 1, Len(prices)) ELSE prices,
                 last_observed |-> now]
     /\ UNCHANGED <<adaptive, peak, feeRest>>

isqrt(n) == CHOOSE r \in 0..n : r * r <= n /\ (r + 1) * (r + 1) > n

\* The standard deviation over the mean, in basis points; 0 for stale samples.
compute_volatility_bps ==
  LET n == Len(ring.prices)
      mean == Sum(ring.prices) \div n
      variance == Sum([i \in 1..n |-> (ring.prices[i] - mean) * (ring.prices[i] - mean)]) \div n
      stale == now - ring.last_observed > Adaptive.sample_interval * Adaptive.ring_len
  IN IF n < 2 \/ stale THEN 0 ELSE (isqrt(variance) * Scale) \div mean

fee_for_volatility(v) ==
  IF v <= Adaptive.low_volatility THEN Adaptive.base_fee
  ELSE IF v >= Adaptive.high_volatility THEN Adaptive.max_fee
  ELSE Clamp(Adaptive.base_fee
               + ((v - Adaptive.low_volatility) * (Adaptive.max_fee - Adaptive.base_fee))
                   \div (Adaptive.high_volatility - Adaptive.low_volatility),
             Adaptive.base_fee, Adaptive.max_fee)

decayed_volatility(v, elapsed) ==
  IF elapsed = 0 THEN v ELSE (v * Adaptive.half_life) \div (Adaptive.half_life + elapsed)

Effective ==
  Max({compute_volatility_bps,
       decayed_volatility(adaptive.volatility, now - adaptive.last_updated)})

\* Reading the fee stores the decayed volatility.
AdaptiveAfter ==
  [adaptive EXCEPT !.volatility = Effective, !.fee = fee_for_volatility(Effective),
                   !.last_updated = now]

resolve_adaptive_fee ==
  /\ adaptive.opted
  /\ adaptive' = AdaptiveAfter
  /\ UNCHANGED <<ring, peak, feeRest>>

\* A pool that has opted in pays the volatility fee whatever the volume fee is.
resolve_swap_fee_bps(legacy) == IF adaptive.opted THEN AdaptiveAfter.fee ELSE legacy

\* From the peak, not from the current fee: decay starts again with each call.
calculate_decayed_fee(base, top, elapsed) ==
  LET b == Max({base, MinDynamicFee}) IN
  IF top <= b \/ elapsed = 0 THEN Max({top, b}) ELSE b + ((top - b) * Decay[elapsed]) \div Scale

\* update_dynamic_fee_accumulator, then the new peak.
record_pool_trade(observed) ==
  LET decayed == calculate_decayed_fee(peak.base_fee, peak.peak_fee, now - peak.last_updated) IN
  /\ peak' = [peak EXCEPT
       !.last_updated = now,
       !.peak_fee = Max({@, observed}),
       !.current_fee = IF observed > peak.peak_fee THEN Max({observed, MinDynamicFee}) ELSE decayed]
  /\ UNCHANGED <<ring, adaptive, feeRest>>

AdaptiveNext ==
  \/ Tick \/ resolve_adaptive_fee
  \/ \E p \in Prices : record_price_observation(p)

PeakNext == Tick \/ \E f \in FeesAsked : record_pool_trade(f)

-----------------------------------------------------------------------------
(* The provider pool. *)

poolRest == <<now, ring, peak, flash, split, routed>>

record_fee(amount) ==
  /\ pool' = [pool EXCEPT !.fee_pool = @ + amount]
  /\ flow' = [flow EXCEPT !.fees = @ + amount]
  /\ UNCHANGED <<position, volume, dynamic, adaptive, poolRest>>

\* The units are the provider's own choice.
add_liquidity(p, a, b, units) ==
  /\ a > 0 /\ b > 0 /\ units > 0
  /\ pool' = [pool EXCEPT !.a = @ + a, !.b = @ + b, !.total_lp_units = @ + units]
  /\ position' = [position EXCEPT ![p] = @ + units]
  /\ flow' = [flow EXCEPT !.a = @ + a, !.b = @ + b]
  /\ UNCHANGED <<volume, dynamic, adaptive, poolRest>>

\* calculate_and_deduct_fee on the output of the constant-product formula.
compute_swap_out(amount, reserve_in, reserve_out, fee) ==
  LET raw == (reserve_out * amount) \div (reserve_in + amount)
      charged == (raw * fee) \div Scale
  IN [out |-> raw - charged, fee |-> charged]

compute_lp_shares(a, b, reserve_a, reserve_b, total) ==
  Min({(a * total) \div reserve_a, (b * total) \div reserve_b})

Other(side) == IF side = "a" THEN "b" ELSE "a"

\* Half of the amount is swapped within the pool, the rest and the proceeds are
\* deposited.  The fee is charged on the proceeds: it stays in the reserve it
\* was not taken from and is entered in the fee pool as well.  The volume fee is
\* updated whichever fee applies.
deposit_single_asset(p, amount, side) ==
  LET swapped == amount \div 2
      s == compute_swap_out(swapped, pool[side], pool[Other(side)],
                            resolve_swap_fee_bps(DynamicAfter(swapped).current_fee))
      reserve == side :> pool[side] + swapped @@ Other(side) :> pool[Other(side)] - s.out
      deposit == side :> amount - swapped @@ Other(side) :> s.out
      shares == compute_lp_shares(deposit["a"], deposit["b"], reserve["a"], reserve["b"],
                                  pool.total_lp_units)
      actual == [x \in {"a", "b"} |-> (shares * reserve[x]) \div pool.total_lp_units]
      dust == [x \in {"a", "b"} |-> deposit[x] - actual[x]]
  IN /\ pool.total_lp_units > 0
     /\ swapped > 0 /\ pool.a > 0 /\ pool.b > 0
     /\ s.out > 0 /\ reserve["a"] > 0 /\ reserve["b"] > 0
     /\ pool' = [a |-> reserve["a"] + actual["a"], b |-> reserve["b"] + actual["b"],
                 fee_pool |-> pool.fee_pool + s.fee,
                 total_lp_units |-> pool.total_lp_units + shares]
     /\ position' = [position EXCEPT ![p] = @ + shares]
     /\ flow' = [flow EXCEPT ![side] = @ + amount - dust[side], ![Other(side)] = @ - dust[Other(side)],
                             !.booked = @ + s.fee]
     /\ volume' = VolumeAfter(swapped)
     /\ dynamic' = DynamicAfter(swapped)
     /\ adaptive' = IF adaptive.opted THEN AdaptiveAfter ELSE adaptive
     /\ UNCHANGED poolRest

redeem_liquidity(p, units) ==
  LET part == [x \in {"a", "b", "fee_pool"} |-> (pool[x] * units) \div pool.total_lp_units]
  IN /\ units > 0 /\ pool.total_lp_units > 0 /\ units <= position[p]
     /\ pool' = [a |-> pool.a - part["a"], b |-> pool.b - part["b"],
                 fee_pool |-> pool.fee_pool - part["fee_pool"],
                 total_lp_units |-> pool.total_lp_units - units]
     /\ position' = [position EXCEPT ![p] = @ - units]
     /\ flow' = [flow EXCEPT !.a = @ - part["a"], !.b = @ - part["b"], !.fees = @ - part["fee_pool"]]
     /\ UNCHANGED <<volume, dynamic, adaptive, poolRest>>

\* Bound: prices are observed before anybody deposits, first a low one.
SharesNext ==
  \/ Tick
  \/ pool.fee_pool < 3 /\ record_fee(2)
  \/ /\ pool.total_lp_units = 0 /\ flow.booked = 0
     /\ record_price_observation(IF ring.prices = <<>> THEN Min(Prices) ELSE Max(Prices))
  \/ \E p \in Providers :
       \/ \E u \in 1..MaxUnits : redeem_liquidity(p, u)
       \/ /\ pool.total_lp_units < MaxUnits
          /\ pool.a + pool.b <= MaxReserve
          /\ \/ \E a, b \in Amounts, u \in Units : add_liquidity(p, a, b, u)
             \/ /\ flow.booked < 2 /\ volume.current < MaxVolume
                /\ \E n \in Amounts, side \in {"a", "b"} : deposit_single_asset(p, n, side)

-----------------------------------------------------------------------------
(* Flash-loan fees. *)

flashRest == <<now, pool, position, flow, volume, dynamic, ring, adaptive, peak, split, routed>>

record_flash_fee(amount) ==
  /\ amount > 0
  /\ flash' = [flash EXCEPT !.accumulated = @ + amount, !.recorded = @ + amount]
  /\ UNCHANGED flashRest

LpPart == flash.accumulated \div 2

distribute_flash_fees ==
  /\ flash.accumulated > 0
  /\ flash' = [flash EXCEPT !.accumulated = 0, !.lp = @ + LpPart,
                            !.treasury = @ + (flash.accumulated - LpPart),
                            !.distributed = @ + 1]
  /\ UNCHANGED flashRest

FlashNext ==
  \/ flash.recorded < MaxFlash /\ \E n \in Amounts : record_flash_fee(n)
  \/ distribute_flash_fees

-----------------------------------------------------------------------------
(* Splits of one fee. *)

splitRest == <<now, pool, position, flow, volume, dynamic, ring, adaptive, peak, flash>>

\* Every receiver but the last gets its share rounded down, the last the rest.
Shares(total, weights) ==
  LET n == Len(weights)
      share == [i \in 1..n |-> (total * weights[i]) \div Sum(weights)]
  IN [share EXCEPT ![n] = total - Sum(SubSeq(share, 1, n - 1))]

Splits(total, weights, parts) == split' = [total |-> total, weights |-> weights, parts |-> parts]

settle_flash_loan_fee(fee, shares) ==
  /\ shares # <<>> /\ Sum(shares) > 0
  /\ Splits(fee, shares, Shares(fee, shares))
  /\ UNCHANGED <<routed, splitRest>>

distribute_variable_fee_pool(amount, weights) ==
  /\ weights # <<>> /\ Sum(weights) > 0
  /\ Splits(amount * Profile, weights, Shares(amount * Profile, weights))
  /\ UNCHANGED <<routed, splitRest>>

\* FeeSplitConfig::new
set_fee_split_config(config) ==
  /\ Sum(config) = Scale
  /\ routed' = [routed EXCEPT !.config = config]
  /\ UNCHANGED <<split, splitRest>>

\* The treasury is last and takes what rounding leaves.
distribute_fees(fee) ==
  /\ fee > 0
  /\ Splits(fee, routed.config, Shares(fee, routed.config))
  /\ routed' = [routed EXCEPT !.total = @ + fee]
  /\ UNCHANGED splitRest

\* The anchor's share grows with the speed of its payout, up to the whole.
calculate_dynamic_fee_sharing_matrix(fee, base, speed) ==
  LET share == Min({(base * (Scale + speed)) \div Scale, Scale})
      weights == <<share, Scale - share>>
  IN /\ Splits(fee, weights, Shares(fee, weights))
     /\ UNCHANGED <<routed, splitRest>>

\* Only an asset above the threshold is swapped, into a basket of n assets.
trigger_treasury_diversification(value, total, n) ==
  LET part == IF total = 0 THEN 0 ELSE (value * Scale) \div total
      weights == [i \in 1..n |-> Scale \div n + (IF i <= Scale % n THEN 1 ELSE 0)]
  IN /\ n > 0 /\ part > Threshold
     /\ Splits(Scale, weights, weights)
     /\ UNCHANGED <<routed, splitRest>>

SplitNext ==
  \/ \E n \in Amounts, w \in Weights :
       settle_flash_loan_fee(n, w) \/ distribute_variable_fee_pool(n, w)
  \/ \E c \in SplitConfigs : set_fee_split_config(c)
  \/ routed.total < MaxFlash /\ \E n \in Amounts : distribute_fees(n)
  \/ \E n \in Amounts, base \in FeesAsked, speed \in {0, Scale} :
       calculate_dynamic_fee_sharing_matrix(n, base, speed)
  \/ \E v \in Amounts, t \in Amounts, n \in 1..3 : trigger_treasury_diversification(v, t, n)

-----------------------------------------------------------------------------
(* Ratios *)

\* a/b >= c/d without a product: quotients first, then the remainders turned
\* upside down, which turns the comparison around.
ratio_ge[a, b, c, d \in Nat, ge \in BOOLEAN] ==
  LET qa == a \div b
      qc == c \div d
      ra == a % b
      rc == c % d
  IN IF qa # qc THEN (IF ge THEN qa > qc ELSE qa < qc)
     ELSE IF ra = 0 /\ rc = 0 THEN TRUE
     ELSE IF ra = 0 THEN ~ge
     ELSE IF rc = 0 THEN ge
     ELSE ratio_ge[b, ra, d, rc, ~ge]

\* The ratio that is shown; 0 without volume.  The fraction is taken of numbers
\* shrunk below u32::MAX, the whole saturates, and the cast of their sum wraps.
backing_ratio_bps(locked, owed) ==
  LET shrink == owed \div MaxU32 + 1
      fraction == (((locked % owed) \div shrink) * Scale) \div (owed \div shrink)
  IN IF owed = 0 THEN 0
     ELSE IF locked \div owed > MaxU32 \div Scale THEN MaxU32
     ELSE ((locked \div owed) * Scale + fraction) % (MaxU32 + 1)

is_collateral_sufficient(locked, owed, min) ==
  IF owed = 0 THEN TRUE ELSE ratio_ge[locked, owed, min, Scale, TRUE]

Healthy(a) ==
  is_collateral_sufficient(anchor[a].collateral_locked, anchor[a].volume_unsettled, ratio)

\* The state after sync_ratio_status: paused when the ratio in force is not
\* met, resumed when it is.
sync_ratio_status(s) ==
  LET healthy == is_collateral_sufficient(s.collateral_locked, s.volume_unsettled, ratio)
      shown == [s EXCEPT !.last_ratio_bps =
                  backing_ratio_bps(s.collateral_locked, s.volume_unsettled)]
  IN IF healthy = ~s.assignments_paused THEN shown
     ELSE IF healthy THEN [shown EXCEPT !.assignments_paused = FALSE, !.paused_at = 0]
     ELSE [shown EXCEPT !.assignments_paused = TRUE, !.paused_at = now, !.last_paused_at = now]

-----------------------------------------------------------------------------
(* Anchors *)

\* The anchors of the corridor are not looked at again.
set_min_collateral_ratio_bps(min) ==
  /\ min \in Scale..MaxRatio
  /\ ratio' = min
  /\ UNCHANGED <<now, anchor, queue, nextPayout, commitVars>>

deposit_collateral(a, amount) ==
  /\ amount > 0
  /\ anchor' = [anchor EXCEPT ![a] = sync_ratio_status([@ EXCEPT !.collateral_locked = @ + amount])]
  /\ UNCHANGED <<now, ratio, queue, nextPayout, commitVars>>

\* Mutant: the collateral may go down to the volume, not to the ratio.
withdraw_collateral_Bare(a, amount) ==
  LET s == anchor[a] IN
  /\ amount > 0 /\ ~s.assignments_paused
  /\ amount <= s.collateral_locked - s.volume_unsettled
  /\ anchor' = [anchor EXCEPT ![a] = sync_ratio_status([s EXCEPT !.collateral_locked = @ - amount])]
  /\ UNCHANGED <<now, ratio, queue, nextPayout, commitVars>>

\* Whoever signs: the caller need not be the anchor, and no token moves.
withdraw_collateral(a, amount) ==
  LET s == anchor[a] IN
  /\ amount > 0 /\ ~s.assignments_paused
  /\ amount <= s.collateral_locked
  /\ is_collateral_sufficient(s.collateral_locked - amount, s.volume_unsettled, ratio)
  /\ anchor' = [anchor EXCEPT ![a] = sync_ratio_status([s EXCEPT !.collateral_locked = @ - amount])]
  /\ UNCHANGED <<now, ratio, queue, nextPayout, commitVars>>

require_anchor_assignable(a) == ~anchor[a].assignments_paused

assign_fiat_payout(a, amount) ==
  LET s == anchor[a]
      entry == [id |-> nextPayout[a] + 1, amount |-> amount, opened_at |-> now]
  IN /\ amount > 0 /\ require_anchor_assignable(a)
     /\ is_collateral_sufficient(s.collateral_locked, s.volume_unsettled + amount, ratio)
     /\ nextPayout' = [nextPayout EXCEPT ![a] = @ + 1]
     /\ queue' = [queue EXCEPT ![a] = Append(@, entry)]
     /\ anchor' = [anchor EXCEPT ![a] = sync_ratio_status([s EXCEPT !.volume_unsettled = @ + amount])]
     /\ UNCHANGED <<now, ratio, commitVars>>

\* Any position of the queue; collateral and volume go down together.
settle_fiat_payout(a, id, amount) ==
  LET s == anchor[a] IN
  \E i \in DOMAIN queue[a] :
    /\ queue[a][i].id = id /\ queue[a][i].amount = amount
    /\ amount <= s.volume_unsettled /\ amount <= s.collateral_locked
    /\ queue' = [queue EXCEPT ![a] = RemoveAt(@, i)]
    /\ anchor' = [anchor EXCEPT ![a] =
         sync_ratio_status([s EXCEPT !.volume_unsettled = @ - amount,
                                     !.collateral_locked = @ - amount])]
    /\ UNCHANGED <<now, ratio, nextPayout, commitVars>>

sync_anchor_ratio(a) ==
  /\ anchor' = [anchor EXCEPT ![a] = sync_ratio_status(@)]
  /\ UNCHANGED <<now, ratio, queue, nextPayout, commitVars>>

AnchorNext ==
  \/ Tick
  \/ \E r \in RatiosAsked : set_min_collateral_ratio_bps(r)
  \/ \E a \in Anchors :
       \/ sync_anchor_ratio(a)
       \/ \E n \in Pledges :
            \/ anchor[a].collateral_locked + n <= MaxCollateral /\ deposit_collateral(a, n)
            \/ withdraw_collateral(a, n)
            \/ nextPayout[a] < MaxPayouts /\ assign_fiat_payout(a, n)
            \/ \E id \in 1..MaxPayouts : settle_fiat_payout(a, id, n)

-----------------------------------------------------------------------------
(* Committed orders *)

Ids == 1..Len(commitment)

\* The treasury is set with the admin, once; orders can be committed before.
initialize ==
  /\ ~treasury
  /\ treasury' = TRUE
  /\ UNCHANGED <<now, anchorVars, commitment, active, bal, placed>>

\* compute_commitment is the trader's own business until the reveal.
commit(t, hash, bond, expires) ==
  /\ bond > 0
  /\ expires > now + MinOffset /\ expires <= now + MaxOffset
  /\ CanMove(bal, t, bond)
  /\ active[t] < MaxCommitments
  /\ bal' = Move(bal, t, Self, bond)
  /\ active' = [active EXCEPT ![t] = @ + 1]
  /\ commitment' = Append(commitment,
       [trader |-> t, hash |-> hash, bond |-> bond, expires |-> expires,
        committed_at |-> now, state |-> "Active"])
  /\ placed' = Append(placed, Junk)
  /\ UNCHANGED <<now, anchorVars, treasury>>

is_revealable(c) == c.state = "Active" /\ now > c.committed_at /\ now <= c.expires

is_forfeitable(c) == c.state = "Active" /\ now > c.expires

decrement_counter(t) == active' = [active EXCEPT ![t] = IF @ > 0 THEN @ - 1 ELSE 0]

\* The order is placed in the trader's name, at the trade that was committed,
\* and the whole bond goes back.  What the order itself locks is a matter of
\* the order book, and of other assets.
reveal(i, t, opening) ==
  LET c == commitment[i] IN
  /\ c.trader = t /\ is_revealable(c)
  /\ opening = c.hash
  /\ placed' = [placed EXCEPT ![i] = opening]
  /\ bal' = Move(bal, Self, t, c.bond)
  /\ commitment' = [commitment EXCEPT ![i].state = "Revealed"]
  /\ decrement_counter(t)
  /\ UNCHANGED <<now, anchorVars, treasury>>

\* Open to everyone.  Without a treasury the bond stays in the contract.
forfeit(i) ==
  LET c == commitment[i] IN
  /\ is_forfeitable(c)
  /\ bal' = IF treasury THEN Move(bal, Self, Treasury, c.bond) ELSE bal
  /\ commitment' = [commitment EXCEPT ![i].state = "Forfeited"]
  /\ decrement_counter(c.trader)
  /\ UNCHANGED <<now, anchorVars, treasury, placed>>

CommitNext ==
  \/ Tick \/ initialize
  \/ \E t \in Traders, h \in Openings \union {Junk}, b \in Bonds, o \in Offsets :
       Len(commitment) < MaxIds /\ commit(t, h, b, now + o)
  \/ \E i \in Ids : forfeit(i) \/ \E t \in Traders, o \in Openings : reveal(i, t, o)

-----------------------------------------------------------------------------
(* Properties *)

\* The units of the providers are the units of the pool.  The reserves are
\* what was paid in less what was taken out and returned as dust; the fee pool
\* is what was recorded, plus every fee that a single-asset deposit charged,
\* which the reserves hold as well: by that much, and no more, the books claim
\* more than the pool was ever given.
BooksExceedBySwapFees ==
  /\ pool.total_lp_units = SumUnits
  /\ pool.a = flow.a /\ pool.b = flow.b /\ pool.fee_pool = flow.fees + flow.booked

\* Redeeming never takes value from the providers who stay: what a unit is
\* worth of either reserve does not fall when somebody leaves.
LeavingKeepsUnitValue ==
  [][pool'.total_lp_units < pool.total_lp_units /\ pool'.total_lp_units > 0 =>
       \A x \in {"a", "b", "fee_pool"} :
         pool'[x] * pool.total_lp_units >= pool[x] * pool'.total_lp_units]_vars

\* The volume fee stays between the floor and the cap whatever bands were set,
\* and a change of the volume brings it into the band in force.
VolumeFeeIsBounded ==
  /\ [](dynamic.current_fee \in Floor..Tier[3] /\ dynamic.min_fee < dynamic.max_fee
        /\ dynamic.max_fee <= Tier[3])
  /\ [][volume' # volume /\ dynamic'.current_fee # dynamic.current_fee =>
          dynamic'.current_fee \in dynamic.min_fee..dynamic.max_fee]_vars

\* The volatility a fee is based on is never below that of the fresh samples,
\* and earlier volatility is forgotten only as fast as its half life allows:
\* within one second nothing is forgotten.
VolatilityFades ==
  [][adaptive' # adaptive =>
       /\ adaptive'.volatility >= compute_volatility_bps
       /\ adaptive.last_updated = now => adaptive'.volatility >= adaptive.volatility
       /\ adaptive'.volatility * (Adaptive.half_life + now - adaptive.last_updated)
            > adaptive.volatility * Adaptive.half_life
              - (Adaptive.half_life + now - adaptive.last_updated)
       /\ adaptive'.fee \in Adaptive.base_fee..Adaptive.max_fee]_vars

\* The decaying fee lies between its base and the highest peak ever observed.
PeakFeeIsBounded ==
  peak.current_fee # 0 =>
    peak.current_fee \in MinDynamicFee..Max({peak.peak_fee, peak.base_fee, MinDynamicFee})

\* Flash-loan fees are distributed once: what is waiting and what went either
\* way is what was recorded, and the treasury is ahead by one unit per
\* distribution at most.
FlashFeesAddUp ==
  /\ flash.accumulated + flash.lp + flash.treasury = flash.recorded
  /\ flash.treasury - flash.lp \in 0..flash.distributed

\* A fee is shared out completely: nobody gets less than the share its weight
\* earns, rounded down, and the receiver who takes the rest gets less than one
\* unit for each of the others on top of it.
SplitsAreComplete ==
  split # None =>
    /\ Sum(split.parts) = split.total
    /\ \A i \in DOMAIN split.parts :
         LET fair == (split.total * split.weights[i]) \div Sum(split.weights) IN
         split.parts[i] >= fair /\ split.parts[i] < fair + Len(split.parts)

\* What an anchor owes is what is queued, each payout under an id of its own;
\* the collateral covers it in full whatever happened to the ratio since, so
\* every queued payout can be settled, and in any order.
PayoutsAreCovered ==
  \A a \in Anchors :
    /\ anchor[a].volume_unsettled = FoldLeft(LAMBDA n, e : n + e.amount, 0, queue[a])
    /\ \A i, j \in DOMAIN queue[a] : i # j => queue[a][i].id # queue[a][j].id
    /\ anchor[a].collateral_locked >= anchor[a].volume_unsettled

\* The division-free comparison is the comparison of the products, whatever the
\* magnitudes.  The ratio that is shown is the exact one rounded down up to a
\* volume of u32::MAX, and within one basis point of it above, as long as the
\* ratio itself is below u32::MAX; so it may fall on the other side of the
\* minimum, and nothing is decided by it.
ComparisonIsExact ==
  \A a \in Anchors, w \in 1..MaxCollateral, unit \in {1, 6, 11} :
    LET c == anchor[a].collateral_locked * unit + unit - 1
        v == w * unit
        exact == (c * Scale) \div v
    IN /\ is_collateral_sufficient(c, v, ratio) <=> c * Scale >= ratio * v
       /\ exact < MaxU32 /\ v <= MaxU32 => backing_ratio_bps(c, v) = exact
       /\ exact < MaxU32 => backing_ratio_bps(c, v) \in exact - 1..exact + 1

\* Only a change of the minimum makes an anchor fall short; every call for an
\* anchor leaves its pause as its ratio demands; and while the pause lags
\* behind a raised minimum, its backing per unit owed does not get worse.
PauseFollowsRatio ==
  [][\A a \in Anchors :
       /\ Healthy(a) /\ ~Healthy(a)' => ratio' > ratio
       /\ anchor'[a] # anchor[a] => anchor'[a].assignments_paused = ~Healthy(a)'
       /\ ~Healthy(a) => anchor'[a].collateral_locked * anchor[a].volume_unsettled
                           >= anchor[a].collateral_locked * anchor'[a].volume_unsettled]_vars

\* The counter of a trader is the number of commitments that are open, and
\* the contract holds the bonds of those, and of those forfeited while there
\* was no treasury to send them to.
BondsAreHeld ==
  /\ \A t \in Traders :
       active[t] = Quantify(Ids, LAMBDA i : commitment[i].trader = t /\ commitment[i].state = "Active")
  /\ LET Bonded(s) ==
           FoldLeft(LAMBDA n, c : n + (IF c.state = s THEN c.bond ELSE 0), 0, commitment)
     IN /\ bal[Self] >= Bonded("Active")
        /\ bal[Self] + bal[Treasury] = Bonded("Active") + Bonded("Forfeited")

\* An order appears only under a commitment made in an earlier ledger, says
\* what was committed, and a commitment that has ended stays ended.
RevealedAsCommitted ==
  [][\A i \in Ids :
       /\ commitment[i].state # "Active" => commitment'[i] = commitment[i]
       /\ placed'[i] # placed[i] =>
            /\ placed'[i] = commitment[i].hash
            /\ now \in commitment[i].committed_at + 1..commitment[i].expires]_vars
=============================================================================
