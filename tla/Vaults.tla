------------------------------- MODULE Vaults -------------------------------
(***************************************************************************)
(* The vaults of the core contract (src/vaults): the auto-compounding      *)
(* vault, the liquidity farm with its harvest-and-compound route, the      *)
(* drawdown guard of the compounding strategies, the interest of a lending *)
(* pool and the liquidation of a position.                                 *)
(*                                                                         *)
(* Basis points are parts of Scale and fixed-point values parts of         *)
(* Precision, both small; amounts stay far below the width of i128, so     *)
(* checked arithmetic succeeds.  Routers and flash-loan borrowers are      *)
(* external: they deliver what they like, and what they deliver is         *)
(* measured.                                                               *)
(***************************************************************************)
EXTENDS Balances, Sequences, SequencesExt, FiniteSetsExt

CONSTANTS
  Holders, Keeper, FeeTo, Vault,
  Scale, Precision,
  FeesAsked, MaxFee,        \* performance fees; MAX_PERFORMANCE_FEE_BPS
  MaxDrawdown,              \* MAX_DRAWDOWN_BPS
  Amounts,
  Emission, Multipliers, MaxMultiplier,   \* of the farm; DEFAULT is Scale
  Prices, Limits, MaxLimit, Windows,      \* of the guard
  MaxSamples,               \* MAX_PRICE_SAMPLES
  VaultIds, Tokens, None,   \* vaults with a guard, tokens that are rewards or reserves
  RateConfig, MaxExponent, MaxTerms,      \* of the interest
  Threshold, Distressed, Bonus, Degradation, MaxBonus, SwapFee,  \* of liquidations
  MaxTime, MaxAssets, MaxFunds, MaxStakes, MaxParked  \* bounds

VaultsAssumption ==
  /\ {Scale, Precision, MaxFee, MaxDrawdown, Emission, MaxMultiplier, MaxLimit, MaxSamples,
      MaxExponent, MaxTerms, Threshold, Distressed, Bonus, Degradation, MaxBonus, SwapFee,
      MaxTime, MaxAssets, MaxFunds, MaxStakes, MaxParked} \subseteq Nat
  /\ Scale > 0 /\ Precision > 0 /\ MaxSamples > 0 /\ MaxFee <= Scale /\ SwapFee < Scale
  /\ MaxBonus <= Scale /\ Distressed <= Threshold

VARIABLES
  now,
  vault, share, bal,       \* the vault's records, shares by holder, the asset
  surplus, emptied,        \* what loans and transfers left in the vault; all shares were redeemed once
  farm, farmer, rewards,   \* the farm, its stakes; the reward token, emission, stakes made
  guard, parked,           \* the guards by vault; the contract's balances, which they share
  pool,                    \* PoolState
  debtor, quote            \* VaultPosition, the last liquidation quoted

vaultVars == <<vault, share, bal, surplus, emptied>>
farmVars == <<farm, farmer, rewards>>
guardVars == <<guard, parked>>
debtVars == <<pool, debtor, quote>>
vars == <<now, vaultVars, farmVars, guardVars, debtVars>>

-----------------------------------------------------------------------------
(* State *)

VaultConfig ==
  [assets : Nat, shares : Nat, fee : 0..MaxFee, peak : Nat, tripped : BOOLEAN, paused : BOOLEAN]

FarmingConfig == [acc : Nat, last : Nat, total : Nat, multiplier : 0..MaxMultiplier]

Farmer == [shares : Nat, debt : Nat, accrued : Nat]

CompoundingGuardConfig ==
  [reward : Tokens, reserve : Tokens, limit : 0..MaxLimit, window : Nat]

PriceSample == [price : Nat, observed_at : Nat]

PoolState == [cash : Nat, borrows : Nat, last : Nat, index : Nat]

VaultPosition == [collateral : Nat, borrowed : Nat]

LiquidationResult ==
  [liquidated : BOOLEAN, health : Nat, reward : Nat, reserve : Nat, purchase : Nat]

TypeOK ==
  /\ now \in 0..MaxTime
  /\ vault \in VaultConfig /\ share \in [Holders -> Nat]
  /\ bal \in [Holders \union {Keeper, FeeTo, Vault} -> Nat]
  /\ surplus \in Nat /\ emptied \in BOOLEAN
  /\ farm \in FarmingConfig /\ farmer \in [Holders -> Farmer]
  /\ rewards \in [pot : Nat, paid : Nat, emitted : Nat, stakes : 0..MaxStakes]
  /\ DOMAIN guard = VaultIds
  /\ \A v \in VaultIds :
       /\ guard[v].config \in CompoundingGuardConfig \union {None}
       /\ guard[v].samples \in Seq(PriceSample) /\ Len(guard[v].samples) <= MaxSamples
       /\ guard[v].paused \in BOOLEAN /\ guard[v].paused_at \in 0..now /\ guard[v].booked \in Nat
  /\ parked \in [Tokens -> Nat]
  /\ pool \in PoolState /\ debtor \in VaultPosition /\ quote \in LiquidationResult \union {None}

\* The token in which rewards have been earned before a guard is configured.
FirstReward == CHOOSE t \in Tokens : TRUE

Init ==
  /\ now = 0
  /\ vault = [assets |-> 0, shares |-> 0, fee |-> (2 * Scale) \div 10, peak |-> 0,
              tripped |-> FALSE, paused |-> FALSE]
  /\ share = [h \in Holders |-> 0]
  /\ bal = [x \in Holders \union {Keeper, FeeTo, Vault} |->
              IF x \in {FeeTo, Vault} THEN 0 ELSE MaxFunds]
  /\ surplus = 0 /\ emptied = FALSE
  /\ farm = [acc |-> 0, last |-> 0, total |-> 0, multiplier |-> Scale]
  /\ farmer = [h \in Holders |-> [shares |-> 0, debt |-> 0, accrued |-> 0]]
  /\ rewards = [pot |-> 0, paid |-> 0, emitted |-> 0, stakes |-> 0]
  /\ guard = [v \in VaultIds |->
       [config |-> None, samples |-> <<>>, paused |-> FALSE, paused_at |-> 0, booked |-> 0]]
  /\ parked = [t \in Tokens |-> IF t = FirstReward THEN MaxParked ELSE 0]
  /\ pool = [cash |-> 0, borrows |-> 0, last |-> 0, index |-> Precision]
  /\ debtor = [collateral |-> 0, borrowed |-> 0] /\ quote = None

Tick ==
  /\ now < MaxTime
  /\ now' = now + 1
  /\ UNCHANGED <<vaultVars, farmVars, guardVars, debtVars>>

-----------------------------------------------------------------------------
(* The auto-compounding vault *)

vaultRest == <<now, farmVars, guardVars, debtVars>>

set_performance_fee(fee) ==
  /\ fee <= MaxFee
  /\ vault' = [vault EXCEPT !.fee = fee]
  /\ UNCHANGED <<share, bal, surplus, emptied, vaultRest>>

\* The whole call traps unless the balance is exactly what is recorded.
assert_balance_invariant == bal[Vault] = vault.assets

\* 0 stands for a vault without shares.
calculate_share_value(assets, shares) ==
  IF shares = 0 THEN 0 ELSE (assets * Precision) \div shares

update_peak_share_value(v) ==
  [v EXCEPT !.peak = Max({@, calculate_share_value(v.assets, v.shares)})]

Minted(amount) ==
  IF vault.shares = 0 \/ vault.assets = 0 THEN amount
  ELSE (amount * vault.shares) \div vault.assets

deposit(h, amount) ==
  /\ amount > 0 /\ assert_balance_invariant
  /\ Minted(amount) > 0
  /\ CanMove(bal, h, amount)
  /\ bal' = Move(bal, h, Vault, amount)
  /\ vault' = update_peak_share_value(
       [vault EXCEPT !.assets = @ + amount, !.shares = @ + Minted(amount)])
  /\ share' = [share EXCEPT ![h] = @ + Minted(amount)]
  /\ UNCHANGED <<surplus, emptied, vaultRest>>

\* The peak is left as it is, also when the last share goes.
withdraw(h, shares) ==
  LET owed == (shares * vault.assets) \div vault.shares IN
  /\ shares > 0 /\ assert_balance_invariant
  /\ shares <= share[h]
  /\ owed > 0
  /\ share' = [share EXCEPT ![h] = @ - shares]
  /\ vault' = [vault EXCEPT !.assets = @ - owed, !.shares = @ - shares]
  /\ bal' = Move(bal, Vault, h, owed)
  /\ emptied' = (emptied \/ vault.shares = shares)
  /\ UNCHANGED <<surplus, vaultRest>>

Drawn ==
  LET value == calculate_share_value(vault.assets, vault.shares) IN
  /\ vault.shares > 0 /\ vault.peak > 0 /\ value < vault.peak
  /\ ((vault.peak - value) * Scale) \div vault.peak > MaxDrawdown

\* Nothing ever clears the breaker.
check_and_trigger_circuit_breaker ==
  /\ ~vault.tripped /\ Drawn
  /\ vault' = [vault EXCEPT !.tripped = TRUE, !.paused = TRUE]
  /\ UNCHANGED <<share, bal, surplus, emptied, vaultRest>>

\* A harvest that finds the vault drawn down is refused, and with it goes the
\* trip it made.
harvest(amount) ==
  LET fee == (amount * vault.fee) \div Scale IN
  /\ ~vault.paused /\ amount > 0
  /\ ~vault.tripped /\ ~Drawn
  /\ assert_balance_invariant
  /\ CanMove(bal, Keeper, amount)
  /\ bal' = Move(Move(bal, Keeper, Vault, amount), Vault, FeeTo, fee)
  /\ vault' = update_peak_share_value([vault EXCEPT !.assets = @ + (amount - fee)])
  /\ UNCHANGED <<share, surplus, emptied, vaultRest>>

\* The borrower brings back the amount and at least the fee; the recorded
\* assets are not touched.
flash_loan(amount, extra) ==
  LET fee == (amount * vault.fee) \div Scale IN
  /\ amount > 0 /\ CanMove(bal, Vault, amount)
  /\ extra >= fee /\ CanMove(bal, Keeper, extra)
  /\ bal' = Move(bal, Keeper, Vault, extra)
  /\ surplus' = surplus + extra
  /\ UNCHANGED <<vault, share, emptied, vaultRest>>

\* The asset reaches the contract by any other transfer.
transfer_in(amount) ==
  /\ amount > 0 /\ CanMove(bal, Keeper, amount)
  /\ bal' = Move(bal, Keeper, Vault, amount)
  /\ surplus' = surplus + amount
  /\ UNCHANGED <<vault, share, emptied, vaultRest>>

VaultNext ==
  \/ check_and_trigger_circuit_breaker
  \/ \E f \in FeesAsked : set_performance_fee(f)
  \/ \E n \in Amounts :
       \/ vault.assets + n <= MaxAssets /\ \E h \in Holders : deposit(h, n)
       \/ vault.assets + n <= MaxAssets /\ harvest(n)
       \/ \E h \in Holders : withdraw(h, n)
       \/ surplus = 0 /\ (transfer_in(n) \/ \E extra \in 0..1 : flash_loan(n, extra))

-----------------------------------------------------------------------------
(* The farm *)

farmRest == <<now, vaultVars, guardVars, debtVars>>

\* Ledgers without stakes emit nothing.
Emitted ==
  IF farm.total = 0 THEN 0 ELSE (Emission * (now - farm.last) * farm.multiplier) \div Scale

update_pool ==
  [farm EXCEPT !.last = now,
               !.acc = IF farm.total = 0 THEN @ ELSE @ + (Emitted * Precision) \div farm.total]

Earned(shares) == (shares * update_pool.acc) \div Precision

settle_user(u) ==
  LET pending == Earned(farmer[u].shares) - farmer[u].debt IN
  [farmer[u] EXCEPT !.accrued = @ + (IF pending > 0 THEN pending ELSE 0),
                    !.debt = Earned(farmer[u].shares)]

fund_rewards(amount) ==
  /\ amount > 0
  /\ rewards' = [rewards EXCEPT !.pot = @ + amount]
  /\ UNCHANGED <<farm, farmer, farmRest>>

\* Mutant: the debt is not brought up to the new stake.
stake_preauthorized_StaleDebt(u, amount) ==
  /\ amount > 0
  /\ farm' = [update_pool EXCEPT !.total = @ + amount]
  /\ farmer' = [farmer EXCEPT ![u] = [settle_user(u) EXCEPT !.shares = @ + amount]]
  /\ rewards' = [rewards EXCEPT !.emitted = @ + Emitted, !.stakes = @ + 1]
  /\ UNCHANGED farmRest

stake_preauthorized(u, amount) ==
  /\ amount > 0
  /\ farm' = [update_pool EXCEPT !.total = @ + amount]
  /\ farmer' = [farmer EXCEPT ![u] =
       [settle_user(u) EXCEPT !.shares = @ + amount,
                              !.debt = Earned(farmer[u].shares + amount)]]
  /\ rewards' = [rewards EXCEPT !.emitted = @ + Emitted, !.stakes = @ + 1]
  /\ UNCHANGED farmRest

\* What the pot cannot pay traps, and nothing is settled.
Pays(amount, stakes) ==
  /\ rewards.pot >= amount
  /\ rewards' = [pot |-> rewards.pot - amount, paid |-> rewards.paid + amount,
                 emitted |-> rewards.emitted + Emitted, stakes |-> rewards.stakes + stakes]

claim_rewards(u) ==
  /\ Pays(settle_user(u).accrued, 0)
  /\ farm' = update_pool
  /\ farmer' = [farmer EXCEPT ![u] = [settle_user(u) EXCEPT !.accrued = 0]]
  /\ UNCHANGED farmRest

exit(u) ==
  /\ Pays(settle_user(u).accrued, 0)
  /\ farm' = [update_pool EXCEPT !.total = @ - farmer[u].shares]
  /\ farmer' = [farmer EXCEPT ![u] = [shares |-> 0, debt |-> 0, accrued |-> 0]]
  /\ UNCHANGED farmRest

set_emission_multiplier(m) ==
  /\ m <= MaxMultiplier
  /\ farm' = [update_pool EXCEPT !.multiplier = m]
  /\ rewards' = [rewards EXCEPT !.emitted = @ + Emitted]
  /\ UNCHANGED <<farmer, farmRest>>

\* The view of the pending rewards brings the pool up to date as well.
pending_rewards ==
  /\ farm' = update_pool
  /\ rewards' = [rewards EXCEPT !.emitted = @ + Emitted]
  /\ UNCHANGED <<farmer, farmRest>>

\* claim_rewards, the swap through a router, stake_preauthorized, in one call.
harvest_and_compound(u, acquired, min_out) ==
  LET settled == [settle_user(u) EXCEPT !.accrued = 0] IN
  /\ ~vault.paused
  /\ settle_user(u).accrued > 0
  /\ acquired > 0 /\ acquired >= min_out
  /\ Pays(settle_user(u).accrued, 1)
  /\ farm' = [update_pool EXCEPT !.total = @ + acquired]
  /\ farmer' = [farmer EXCEPT ![u] =
       [settled EXCEPT !.shares = @ + acquired, !.debt = Earned(farmer[u].shares + acquired)]]
  /\ UNCHANGED farmRest

FarmNext ==
  \/ Tick \/ (farm.last < now /\ pending_rewards)
  \/ \E m \in Multipliers : set_emission_multiplier(m)
  \/ rewards.pot = 0 /\ rewards.paid < MaxFunds /\ \E n \in Amounts : fund_rewards(n)
  \/ \E u \in Holders :
       \/ claim_rewards(u) \/ exit(u)
       \/ \E n \in Amounts :
            /\ farm.total + n <= MaxAssets /\ rewards.stakes < MaxStakes
            /\ stake_preauthorized(u, n) \/ \E m \in {0, 2} : harvest_and_compound(u, n, m)

-----------------------------------------------------------------------------
(* The drawdown guard *)

guardRest == <<now, vaultVars, farmVars, debtVars>>

\* math::ratio_ge is the algorithm of anchor_collateral::ratio_ge, which
\* Collateral models step by step and shows to be this comparison.
ratio_ge(a, b, c, d) == a * d >= c * b

is_drawdown_exceeded(current, reference, limit) ==
  /\ current < reference
  /\ limit <= 0 \/ ~ratio_ge(limit, Scale, reference - current, reference)

\* The reference is the oldest sample, once it is old enough.
Armed(g, t) == g.samples # <<>> /\ t - Head(g.samples).observed_at >= g.config.window

evaluate(g, t) ==
  Armed(g, t) /\ is_drawdown_exceeded(Last(g.samples).price, Head(g.samples).price, g.config.limit)

sync_pause(g) ==
  IF evaluate(g, now) = g.paused THEN g
  ELSE [g EXCEPT !.paused = ~@, !.paused_at = IF g.paused THEN 0 ELSE now]

\* What is booked stays booked when the reserve token changes.
configure_guard(v, reward, reserve, limit, window) ==
  /\ reward # reserve /\ limit \in 0..MaxLimit /\ window > 0
  /\ guard' = [guard EXCEPT ![v] = sync_pause([@ EXCEPT !.config =
       [reward |-> reward, reserve |-> reserve, limit |-> limit, window |-> window]])]
  /\ UNCHANGED <<parked, guardRest>>

set_max_drawdown_bps(v, limit) ==
  /\ guard[v].config # None /\ limit \in 0..MaxLimit
  /\ guard' = [guard EXCEPT ![v] = sync_pause([@ EXCEPT !.config.limit = limit])]
  /\ UNCHANGED <<parked, guardRest>>

record_price_sample(v, price) ==
  LET samples == Append(guard[v].samples, [price |-> price, observed_at |-> now]) IN
  /\ price > 0 /\ guard[v].config # None
  /\ guard' = [guard EXCEPT ![v] = sync_pause([@ EXCEPT !.samples =
       IF Len(samples) > MaxSamples THEN Tail(samples) ELSE samples])]
  /\ UNCHANGED <<parked, guardRest>>

sync_drawdown(v) ==
  /\ guard[v].config # None
  /\ guard' = [guard EXCEPT ![v] = sync_pause(@)]
  /\ UNCHANGED <<parked, guardRest>>

\* Callable paused or not.  What is spent and what arrives are measured on the
\* contract's balances, which every vault's guard shares.
convert_rewards_to_reserves(v, amount, min_out, received) ==
  /\ amount > 0 /\ min_out > 0 /\ guard[v].config # None
  /\ parked[guard[v].config.reward] >= amount
  /\ received > 0 /\ received >= min_out
  /\ parked' = [parked EXCEPT ![guard[v].config.reward] = @ - amount,
                              ![guard[v].config.reserve] = @ + received]
  /\ guard' = [guard EXCEPT ![v].booked = @ + received]
  /\ UNCHANGED guardRest

sweep_reserves(v, amount) ==
  /\ amount > 0 /\ guard[v].config # None
  /\ amount <= guard[v].booked /\ amount <= parked[guard[v].config.reserve]
  /\ parked' = [parked EXCEPT ![guard[v].config.reserve] = @ - amount]
  /\ guard' = [guard EXCEPT ![v].booked = @ - amount]
  /\ UNCHANGED guardRest

require_compounding_allowed(v) == ~guard[v].paused

strategy_action(v) ==
  IF guard[v].config = None THEN "Hold"
  ELSE IF evaluate(guard[v], now) THEN "ConvertToReserves"
  ELSE IF Armed(guard[v], now) THEN "Reinvest" ELSE "Hold"

\* Samples, pause and limits are each vault's own, so one vault is sampled.
GuardNext ==
  LET v == CHOOSE v \in VaultIds : TRUE
      parking == CHOOSE t \in Tokens : t # FirstReward
  IN \/ Tick \/ sync_drawdown(v)
     \/ \E l \in Limits, w \in Windows : configure_guard(v, FirstReward, parking, l, w)
     \/ \E l \in Limits : set_max_drawdown_bps(v, l)
     \/ \E p \in Prices : record_price_sample(v, p)

\* Bound: no balance and no booking grows beyond MaxParked.
ReserveNext ==
  \E v \in VaultIds :
    \/ \E t, u \in Tokens :
         configure_guard(v, t, u, Max(Limits \intersect 0..MaxLimit), Max(Windows))
    \/ \E n \in Amounts, m \in {1, 2}, r \in {0, 1, 2} :
         /\ convert_rewards_to_reserves(v, n, m, r)
         /\ guard'[v].booked <= MaxParked /\ \A t \in Tokens : parked'[t] <= MaxParked
    \/ \E n \in Amounts : sweep_reserves(v, n)

-----------------------------------------------------------------------------
(* Interest and liquidation *)

debtRest == <<now, vaultVars, farmVars, guardVars>>

\* The Taylor series, each term rounded to the nearest; stops at a zero term.
taylor[x, n, term, sum \in Nat] ==
  LET t == (term * x + (Precision * n) \div 2) \div (Precision * n) IN
  IF n > MaxTerms \/ t = 0 THEN sum ELSE taylor[x, n + 1, t, sum + t]

exp_fixed_point(x) == taylor[x, 1, Precision, Precision]

calculate_utilization(p) ==
  IF p.cash + p.borrows = 0 THEN 0 ELSE (p.borrows * Scale) \div (p.cash + p.borrows)

calculate_interest_rate(u) ==
  LET kink == RateConfig.optimal IN
  IF u <= kink THEN RateConfig.base + (u * RateConfig.multiplier) \div Scale
  ELSE RateConfig.base + (kink * RateConfig.multiplier) \div Scale
         + ((u - kink) * RateConfig.jump) \div Scale

Exponent(rate, elapsed) == (rate * elapsed * Precision) \div (Scale * RateConfig.ledgers_per_year)

\* Too large an exponent is an error, and nothing accrues.
accrue_interest ==
  LET x == Exponent(calculate_interest_rate(calculate_utilization(pool)), now - pool.last)
      index == (pool.index * exp_fixed_point(x)) \div Precision
  IN /\ now > pool.last
     /\ x <= MaxExponent
     /\ pool' = [pool EXCEPT !.last = now, !.index = index,
                             !.borrows = @ + (@ * (index - pool.index)) \div pool.index]
     /\ UNCHANGED <<debtor, quote, debtRest>>

\* The caller's own bookkeeping between accruals.
Reborrow(cash, borrows) ==
  /\ pool' = [pool EXCEPT !.cash = cash, !.borrows = borrows]
  /\ UNCHANGED <<debtor, quote, debtRest>>

InterestNext ==
  \/ Tick \/ accrue_interest
  \/ pool.last = now /\ \E c, b \in Amounts : pool.borrows = 0 /\ Reborrow(c, 3 * b)

health_factor(p) == (p.collateral * Scale) \div p.borrowed

scaled_liquidator_bonus_bps(health) ==
  Min({Bonus + (IF health >= Scale THEN 0 ELSE ((Scale - health) * Degradation) \div Scale),
       MaxBonus})

\* What the quote says of the position at the two average prices.
liquidate_at_twap(collateral_price, debt_price, purchase) ==
  LET priced == [collateral |-> debtor.collateral * collateral_price,
                 borrowed |-> debtor.borrowed * debt_price]
      sound == priced.borrowed = 0 \/ health_factor(priced) >= Threshold
      reward == (purchase * scaled_liquidator_bonus_bps(health_factor(priced))) \div Scale
  IN /\ collateral_price > 0 /\ debt_price > 0
     /\ quote' = IF sound
          THEN [liquidated |-> FALSE, health |-> 0, reward |-> 0, reserve |-> 0,
                purchase |-> purchase]
          ELSE [liquidated |-> TRUE, health |-> health_factor(priced), reward |-> reward,
                reserve |-> purchase - reward, purchase |-> purchase]
     /\ UNCHANGED <<pool, debtor, debtRest>>

\* Converts up to the target, or everything, into repaid debt.
auto_deleverage(target) ==
  LET convert == IF target > 0 THEN Min({target, debtor.collateral}) ELSE debtor.collateral
      proceeds == convert - (convert * SwapFee) \div Scale
      cleared == Min({proceeds, debtor.borrowed})
      converted == IF cleared = proceeds THEN convert
                   ELSE Min({(cleared * Scale) \div (Scale - SwapFee), debtor.collateral})
  IN /\ debtor.borrowed > 0 /\ health_factor(debtor) < Distressed
     /\ debtor' = [collateral |-> debtor.collateral - converted,
                   borrowed |-> debtor.borrowed - cleared]
     /\ UNCHANGED <<pool, quote, debtRest>>

\* The position as its owner and the market made it.
Reprice(collateral, borrowed) ==
  /\ debtor.collateral + debtor.borrowed = 0
  /\ debtor' = [collateral |-> collateral, borrowed |-> borrowed]
  /\ UNCHANGED <<pool, quote, debtRest>>

LiquidationNext ==
  \/ \E c, b \in 0..MaxAssets : Reprice(c, b)
  \/ \E cp, dp \in {0, 1, 2}, n \in 1..MaxAssets : liquidate_at_twap(cp, dp, n)
  \/ \E t \in 0..MaxAssets : auto_deleverage(t)

-----------------------------------------------------------------------------
(* Properties *)

\* The recorded shares are those of the holders, and the balance exceeds the
\* recorded assets by what flash loans and plain transfers left behind, and by
\* nothing else.
VaultBooksExact ==
  /\ vault.shares = MapThenSumSet(LAMBDA h : share[h], Holders)
  /\ bal[Vault] = vault.assets + surplus

\* Invariant check: assert token reserves exactly match internal balance
\* ledger.
ReservesMatchLedger == bal[Vault] = vault.assets

\* What a flash loan or a transfer leaves in the balance blocks the vault for
\* good: from then on no deposit, withdrawal or harvest is accepted, since each
\* first asks for a balance that is exactly the recorded assets.
SurplusBlocksTheVault ==
  [][surplus > 0 => UNCHANGED <<vault.assets, vault.shares, share>>]_vars

\* The value of a share never falls while there are shares.  So the breaker
\* guards against a loss the vault cannot make: it trips only when everybody
\* has left and a new vault starts at par below the peak of the old one.
ShareValueNeverFalls ==
  /\ [][vault.shares > 0 /\ vault'.shares > 0 =>
          vault'.assets * vault.shares >= vault.assets * vault'.shares]_vars
  /\ [](vault.tripped => emptied)

\* Rewards accrued, still to be settled and paid are never more than what was
\* emitted, up to one unit for each time a stake was added, whose debt is
\* rounded down: staking, compounding and a new multiplier are not retroactive.
RewardsWithinEmission ==
  /\ farm.total = MapThenSumSet(LAMBDA u : farmer[u].shares, Holders)
  /\ rewards.paid
       + MapThenSumSet(LAMBDA u : farmer[u].accrued
                         + (farmer[u].shares * farm.acc) \div Precision - farmer[u].debt, Holders)
       <= rewards.emitted + rewards.stakes

\* What a user has earned is reduced by one thing only: a call of the user's
\* own that pays it out in full and touches nobody else's position.
Standing(u) == farmer[u].accrued + (farmer[u].shares * farm.acc) \div Precision - farmer[u].debt
EarningsAreSafe ==
  [][\A u \in Holders :
       Standing(u)' < Standing(u) =>
         /\ rewards'.paid - rewards.paid >= Standing(u)
         /\ farmer'[u].accrued = 0
         /\ \A v \in Holders \ {u} : farmer'[v] = farmer[v]]_vars

\* A paused strategy is breached at every moment; a breached one is paused from
\* the next call to its guard on, so the two differ only while time alone has
\* passed.  A pause ends when the price came back, the limit or the window was
\* changed, or new samples pushed the reference out, never by time.
PauseFollowsSamples ==
  /\ [](\A v \in VaultIds : guard[v].paused => evaluate(guard[v], now))
  /\ [][\A v \in VaultIds :
          /\ guard'[v] # guard[v] /\ guard'[v].booked = guard[v].booked =>
               guard'[v].paused = evaluate(guard'[v], now)
          /\ guard[v].paused /\ ~guard'[v].paused =>
               guard'[v].config # guard[v].config \/ guard'[v].samples # guard[v].samples]_vars

\* What the guards have booked in a token.
Booked(t) ==
  MapThenSumSet(LAMBDA v : IF guard[v].config # None /\ guard[v].config.reserve = t
                           THEN guard[v].booked ELSE 0, VaultIds)

\* The reserves booked by all guards are in the contract's balance, until a
\* guard with bookings is given another reserve token, or a conversion spends as
\* one vault's rewards a token that is another vault's reserve: both take booked
\* reserves away, and nothing else does.
BookedReservesArePresent ==
  [][(\A t \in Tokens : Booked(t) <= parked[t]) =>
       \/ \A t \in Tokens : Booked(t)' <= parked'[t]
       \/ \E v \in VaultIds :
            /\ guard[v].booked > 0
            /\ guard'[v].config.reserve # guard[v].config.reserve
       \/ \E v \in VaultIds :
            /\ guard[v].config # None /\ guard'[v].booked > guard[v].booked
            /\ Booked(guard[v].config.reward) > 0]_vars

\* Interest only grows the index, at least by simple interest at the rate in
\* force, and no debt grows faster than the index.
InterestIsBounded ==
  [][pool'.last > pool.last =>
       /\ pool'.index >= pool.index
       /\ pool'.index * Precision + Precision >= pool.index * (Precision
            + Exponent(calculate_interest_rate(calculate_utilization(pool)), now - pool.last))
       /\ pool'.borrows >= pool.borrows
       /\ pool'.borrows * pool.index <= pool.borrows * pool'.index]_vars

\* Confiscated collateral is shared out completely; the liquidator's part is
\* bounded and larger the worse the position is.
LiquidationConserves ==
  quote # None =>
    /\ quote.liquidated => quote.reward + quote.reserve = quote.purchase
    /\ quote.reward * Scale <= quote.purchase * MaxBonus
    /\ quote.liquidated /\ quote.health < Scale =>
         (quote.reward + 1) * Scale > quote.purchase * Bonus

\* De-leveraging gives up collateral for debt at par but for the fee and its
\* rounding, and a position that can repay everything does not get worse.
DeleveragingIsFair ==
  [][debtor.collateral + debtor.borrowed > 0 =>
       LET cleared == debtor.borrowed - debtor'.borrowed
           converted == debtor.collateral - debtor'.collateral
       IN /\ converted >= cleared /\ cleared >= 0
          /\ (converted - cleared) * Scale <= converted * SwapFee + Scale
          /\ debtor.collateral * (Scale - SwapFee) >= debtor.borrowed * Scale =>
               debtor'.collateral * debtor.borrowed >= debtor.collateral * debtor'.borrowed]_vars

=============================================================================
