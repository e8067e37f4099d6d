--------------------------- MODULE OracleEconomy ---------------------------
(***************************************************************************)
(* What the price oracle earns, holds and refuses                          *)
(* (contracts/price-oracle/src/lib.rs, slashing.rs, admin.rs, slippage.rs, *)
(* median.rs, math.rs, callbacks.rs): query fees and the rewards they pay, *)
(* stakes, slashes and unbonding, the circuit breaker and its              *)
(* coordinators, subscribers, and swaps under a tolerance that follows the *)
(* volatility of prices.                                                   *)
(*                                                                         *)
(* Prices are published by the feed, here by Published.  slash_for_low_    *)
(* liquidity and claim_relayer_rewards call functions that do not exist    *)
(* and are left out.                                                       *)
(***************************************************************************)
EXTENDS Balances, Sequences, SequencesExt, FiniteSetsExt, TLC

CONSTANTS
  None,
  Providers,        \* relayers: they publish, stake and earn
  Publishers,       \* the providers among them whose prices are published
  Clients,          \* accounts that read prices
  Coordinators,     \* accounts that may be given the breaker
  Tokens,           \* tokens fees and stakes may be set to
  Assets,           \* assets with prices
  Baskets,          \* sequences of assets an index is asked for
  Fees,             \* query fees set
  Amounts,          \* amounts staked, slashed, rescued
  Wallet, Purse,    \* what a provider, and a client, has of every token
  MaxAge,           \* MAX_RATE_AGE_SECONDS
  Ttl,              \* lifetime of a published price
  UnbondingDelay,   \* MIN_UNBONDING_DELAY_LEDGERS
  MaxTime,          \* bound on the clock
  Prices,           \* prices published and given to the volatility estimate
  Configs,          \* slippage configurations set
  Liquidities,      \* liquidity a swap is quoted for
  Scale,            \* BPS_SCALE
  RateScale,        \* SCALE_FACTOR
  MaxMultiplier, MinAlpha, MaxAlpha, PenaltyPerStep, PenaltyScale,
  U32Max,           \* largest u32
  MaxUpdates        \* bound on the updates of the volatilities

OracleEconomyAssumption ==
  /\ Fees \subseteq Nat /\ Amounts \subseteq Nat /\ Wallet \in Nat /\ Purse \in Nat
  /\ MaxAge \in Nat /\ Ttl \in Nat /\ UnbondingDelay \in Nat /\ MaxTime \in Nat
  /\ Prices \subseteq Nat \ {0} /\ Scale \in Nat \ {0} /\ RateScale \in Nat \ {0}
  /\ Providers \cap Clients = {} /\ Publishers \subseteq Providers

VARIABLES
  books,     \* fees, rewards, stakes and token balances; books.earned is a
             \* history: the rewards not yet claimed, by the token they were paid in
  breaker,   \* the circuit breaker and the subscribers
  slip       \* slippage configuration and volatility

vars == <<books, breaker, slip>>

Oracle == "oracle"

Accounts == Providers \cup Clients

-----------------------------------------------------------------------------
(* Reads and their fee *)

is_circuit_breaker_active == breaker.active

is_asset_circuit_breaker_active(asset) == asset \in breaker.assets

enforce_rate_map_max_age(b, at) == b.now <= at + MaxAge

is_stale(b, at) == b.now >= at + Ttl

\* Mutant: the fee is credited and not added to the vault.
process_query_fee_NoVault(b, payer, provider) ==
  IF b.query_fee = 0 THEN b
  ELSE IF b.fee_token = None THEN None
  ELSE IF ~CanMove(b.held[b.fee_token], payer, b.query_fee) THEN None
  ELSE [b EXCEPT !.held[b.fee_token] = Move(@, payer, Oracle, b.query_fee),
                 !.rewards[provider] = @ + b.query_fee,
                 !.earned[provider][b.fee_token] = @ + b.query_fee]

\* The fee of the reader is the reward of the provider of the price, and is
\* added to the vault of the token it was paid in.
process_query_fee(b, payer, provider) ==
  IF b.query_fee = 0 THEN b
  ELSE IF b.fee_token = None THEN None
  ELSE IF ~CanMove(b.held[b.fee_token], payer, b.query_fee) THEN None
  ELSE [b EXCEPT !.held[b.fee_token] = Move(@, payer, Oracle, b.query_fee),
                 !.rewards[provider] = @ + b.query_fee,
                 !.earned[provider][b.fee_token] = @ + b.query_fee,
                 !.vault[b.fee_token] = @ + b.query_fee]

\* The books after one read, or None when it is refused.
ReadPrice(b, payer, asset) ==
  IF breaker.halted \/ is_circuit_breaker_active \/ is_asset_circuit_breaker_active(asset) THEN None
  ELSE IF b.price[asset] = None THEN None
  ELSE IF ~enforce_rate_map_max_age(b, b.price[asset].at) \/ is_stale(b, b.price[asset].at) THEN None
  ELSE process_query_fee(b, payer, b.price[asset].provider)

get_price(payer, asset) ==
  /\ ReadPrice(books, payer, asset) # None
  /\ books' = ReadPrice(books, payer, asset)
  /\ UNCHANGED <<breaker, slip>>

\* An index reads, and pays for, every component; one that cannot be read
\* fails the whole call.
IndexRead(b, payer, basket) ==
  FoldLeft(LAMBDA acc, asset : IF acc = None THEN None ELSE ReadPrice(acc, payer, asset), b, basket)

get_index_price(payer, basket) ==
  /\ basket # <<>> /\ IndexRead(books, payer, basket) # None
  /\ books' = IndexRead(books, payer, basket)
  /\ UNCHANGED <<breaker, slip>>

\* The batch reads do not look at the breaker and are not paid for.
get_prices(asset) ==
  IF breaker.halted \/ books.price[asset] = None THEN None
  ELSE IF is_stale(books, books.price[asset].at) THEN None ELSE books.price[asset]

\* Rewards are paid in the token fees are paid in now.
claim_rewards(provider) ==
  LET due == books.rewards[provider]
      t == books.fee_token
  IN /\ due > 0 /\ t # None
     /\ books.vault[t] >= due /\ CanMove(books.held[t], Oracle, due)
     /\ books' = [books EXCEPT !.vault[t] = @ - due, !.rewards[provider] = 0,
                               !.earned[provider] = [u \in Tokens |-> 0],
                               !.held[t] = Move(@, Oracle, provider, due)]
     /\ UNCHANGED <<breaker, slip>>

set_fee_token(token) == books' = [books EXCEPT !.fee_token = token] /\ UNCHANGED <<breaker, slip>>

set_query_fee(fee) == fee >= 0 /\ books' = [books EXCEPT !.query_fee = fee] /\ UNCHANGED <<breaker, slip>>

\* Any amount of any token, whoever it belongs to.
rescue_tokens(token, to, amount) ==
  /\ amount > 0 /\ CanMove(books.held[token], Oracle, amount)
  /\ books' = [books EXCEPT !.held[token] = Move(@, Oracle, to, amount)]
  /\ UNCHANGED <<breaker, slip>>

\* External: the feed stores a verified price with its provider and time.
Published(asset, provider, value) ==
  /\ books' = [books EXCEPT !.price[asset] = [provider |-> provider, at |-> books.now, value |-> value]]
  /\ UNCHANGED <<breaker, slip>>

-----------------------------------------------------------------------------
(* Stakes *)

set_slash_token(token) == books' = [books EXCEPT !.slash_token = token] /\ UNCHANGED <<breaker, slip>>

stake_tokens(relayer, amount) ==
  LET t == books.slash_token
  IN /\ amount > 0 /\ t # None /\ CanMove(books.held[t], relayer, amount)
     /\ books' = [books EXCEPT !.held[t] = Move(@, relayer, Oracle, amount),
                               !.stake[relayer] = @ + amount]
     /\ UNCHANGED <<breaker, slip>>

\* A stake leaves at once: no unbonding request is looked at.
unstake_tokens(relayer, amount) ==
  LET t == books.slash_token
  IN /\ amount > 0 /\ t # None /\ amount <= books.stake[relayer]
     /\ CanMove(books.held[t], Oracle, amount)
     /\ books' = [books EXCEPT !.held[t] = Move(@, Oracle, relayer, amount),
                               !.stake[relayer] = @ - amount]
     /\ UNCHANGED <<breaker, slip>>

\* The record alone; the tokens stay where they are.
execute_slash_internal(relayer, amount) ==
  /\ amount > 0 /\ amount <= books.stake[relayer]
  /\ books' = [books EXCEPT !.stake[relayer] = @ - amount]
  /\ UNCHANGED <<breaker, slip>>

\* A released request may be replaced, and none is compared with a stake.
request_unbonding(validator, amount) ==
  LET open == books.unbonding[validator]
  IN /\ amount > 0
     /\ open # None => open.released
     /\ books' = [books EXCEPT !.unbonding[validator] =
                    [amount |-> amount, release |-> books.now + UnbondingDelay, released |-> FALSE]]
     /\ UNCHANGED <<breaker, slip>>

release_unbonded_stake(validator) ==
  LET open == books.unbonding[validator]
  IN /\ open # None
     /\ ~open.released /\ books.now >= open.release
     /\ books' = [books EXCEPT !.unbonding[validator].released = TRUE]
     /\ UNCHANGED <<breaker, slip>>

Clock == books.now < MaxTime /\ books' = [books EXCEPT !.now = @ + 1] /\ UNCHANGED <<breaker, slip>>

-----------------------------------------------------------------------------
(* The circuit breaker, missed blocks and subscribers *)

\* The role and the list are stored apart.
register_circuit_breaker_coordinator(c) ==
  /\ c \notin breaker.roles
  /\ breaker' = [breaker EXCEPT !.roles = @ \cup {c}, !.list = Append(@, c)]
  /\ UNCHANGED <<books, slip>>

remove_circuit_breaker_coordinator(c) ==
  /\ breaker' = [breaker EXCEPT !.roles = @ \ {c}, !.list = SelectSeq(@, LAMBDA d : d # c)]
  /\ UNCHANGED <<books, slip>>

trip_circuit_breaker(c) ==
  /\ c \in breaker.roles /\ ~breaker.active
  /\ breaker' = [breaker EXCEPT !.active = TRUE, !.by = c]
  /\ UNCHANGED <<books, slip>>

reset_circuit_breaker(c) ==
  /\ c \in breaker.roles /\ breaker.active
  /\ breaker' = [breaker EXCEPT !.active = FALSE]
  /\ UNCHANGED <<books, slip>>

trip_circuit_breaker_for_asset(c, asset) ==
  /\ c \in breaker.roles
  /\ breaker' = [breaker EXCEPT !.assets = @ \cup {asset}]
  /\ UNCHANGED <<books, slip>>

reset_circuit_breaker_for_asset(c, asset) ==
  /\ c \in breaker.roles
  /\ breaker' = [breaker EXCEPT !.assets = @ \ {asset}]
  /\ UNCHANGED <<books, slip>>

\* The emergency halt of the feed, which stops the batch reads too.
set_emergency_halt(status) ==
  /\ breaker' = [breaker EXCEPT !.halted = status]
  /\ UNCHANGED <<books, slip>>

subscribe(contract) ==
  /\ ~Contains(breaker.subscribers, contract)
  /\ breaker' = [breaker EXCEPT !.subscribers = Append(@, contract)]
  /\ UNCHANGED <<books, slip>>

\* The last subscriber takes the place of the one that leaves.
unsubscribe(contract) ==
  LET s == breaker.subscribers
  IN /\ Contains(s, contract)
     /\ breaker' = [breaker EXCEPT !.subscribers =
          Front([i \in 1..Len(s) |-> IF s[i] = contract THEN Last(s) ELSE s[i]])]
     /\ UNCHANGED <<books, slip>>

report_missed_blocks(relayer, blocks) ==
  /\ breaker' = [breaker EXCEPT !.missed[relayer] = Min({@ + blocks, U32Max})]
  /\ UNCHANGED <<books, slip>>

report_successful_uptime(relayer) ==
  /\ breaker' = [breaker EXCEPT !.missed[relayer] = 0, !.streak[relayer] = books.now]
  /\ UNCHANGED <<books, slip>>

get_slash_multiplier(relayer) == Min({1 + breaker.missed[relayer] \div 3, 8})

-----------------------------------------------------------------------------
(* Medians, deviations, decimals *)

\* Insertion before the first larger element, by the key of an element.
Inserted(buf, x, Key(_)) ==
  LET at == Cardinality({i \in 1..Len(buf) : Key(buf[i]) <= Key(x)})
  IN SubSeq(buf, 1, at) \o <<x>> \o SubSeq(buf, at + 1, Len(buf))

sort_stack_i128(buf) == FoldLeft(LAMBDA out, x : Inserted(out, x, LAMBDA v : v), <<>>, buf)

sort_stack_pairs(buf) == FoldLeft(LAMBDA out, x : Inserted(out, x, LAMBDA p : p[1]), <<>>, buf)

calculate_median(prices) ==
  LET buf == sort_stack_i128(prices)
      mid == Len(buf) \div 2
  IN IF buf = <<>> THEN None
     ELSE IF Len(buf) % 2 = 1 THEN buf[mid + 1]
     ELSE (buf[mid] + buf[mid + 1]) \div 2

\* The value of the pair in which the target-th element, from zero, lies.
value_at_stack(buf, target) ==
  LET Upto(i) == FoldLeft(LAMBDA n, p : n + p[2], 0, SubSeq(buf, 1, i))
      hits == {i \in 1..Len(buf) : target < Upto(i)}
  IN IF hits = {} THEN buf[Len(buf)][1] ELSE buf[Min(hits)][1]

calculate_median_compacted(pairs) ==
  LET buf == sort_stack_pairs(pairs)
      total == FoldLeft(LAMBDA n, p : n + p[2], 0, pairs)
  IN IF total = 0 THEN None
     ELSE IF total % 2 = 1 THEN value_at_stack(buf, total \div 2)
     ELSE (value_at_stack(buf, total \div 2 - 1) + value_at_stack(buf, total \div 2)) \div 2

\* The penalty in basis points for a deviation in basis points.
calculate_slashing_bps(deviation) ==
  CASE deviation <= 100 -> 0
    [] deviation \in 101..250 -> 50
    [] deviation \in 251..500 -> 150
    [] deviation \in 501..1000 -> 400
    [] OTHER -> 1000

apply_slash_cap(penalty, bond) == IF bond <= 0 THEN 0 ELSE Min({penalty, (bond * 25) \div 100})

AbsDiff(a, b) == IF a >= b THEN a - b ELSE b - a

calculate_rate_deviation_bps(expected, actual) ==
  Min({(AbsDiff(actual, expected) * Scale) \div expected, U32Max})

enforce_slippage_tolerance(expected, actual, bps) ==
  bps <= Scale /\ calculate_rate_deviation_bps(expected, actual) <= bps

calculate_min_acceptable_rate(expected, bps) == (expected * (Scale - bps)) \div Scale

calculate_max_acceptable_rate(expected, bps) == (expected * (Scale + bps)) \div Scale

\* To target decimals by way of a wider interior scale.
normalize_to_nine(value, decimals, target, interior) ==
  LET scaled == value * interior
  IN (IF decimals < target THEN scaled * 10^(target - decimals)
      ELSE scaled \div 10^(decimals - target)) \div interior

-----------------------------------------------------------------------------
(* Slippage *)

validate_slippage_tolerance(bps) == bps <= Scale

\* Nobody's authority is asked for.
set_slippage_config(c) ==
  /\ \A f \in {"base", "min", "max"} : validate_slippage_tolerance(c[f])
  /\ c.min <= c.base /\ c.base <= c.max
  /\ c.multiplier <= MaxMultiplier /\ c.alpha \in MinAlpha..MaxAlpha /\ c.threshold >= 0
  /\ slip' = [slip EXCEPT !.config = c]
  /\ UNCHANGED <<books, breaker>>

Narrow(S) == \A n \in S : n <= U32Max

\* The estimate after a price, or None when a product does not fit.
VolatilityAfter(c, m, price) ==
  IF m = None THEN [ema |-> 0, last |-> price, count |-> 0]
  ELSE LET change == calculate_rate_deviation_bps(m.last, price)
           ema == IF m.count = 0 THEN change
                  ELSE (change * c.alpha + m.ema * (Scale - c.alpha)) \div Scale
       IN IF m.count > 0 /\ ~Narrow({change * c.alpha, m.ema * (Scale - c.alpha)}) THEN None
          ELSE [ema |-> ema, last |-> price, count |-> m.count + 1]

update_volatility_metrics(asset, price) ==
  /\ VolatilityAfter(slip.config, slip.metrics[asset], price) # None
  /\ slip' = [slip EXCEPT !.metrics[asset] = VolatilityAfter(slip.config, @, price)]
  /\ UNCHANGED <<books, breaker>>

get_asset_volatility_bps(s, asset) == IF s.metrics[asset] = None THEN 0 ELSE s.metrics[asset].ema

\* A liquidity below zero becomes a large unsigned ratio and costs nothing.
LiquidityPenalty(c, liquidity) ==
  LET ratio == IF liquidity >= 0 THEN (liquidity * Scale) \div c.threshold
               ELSE -(((-liquidity) * Scale) \div c.threshold)
      deficit == Max({0, Scale - (ratio % (U32Max + 1))})
  IN IF c.threshold = 0 \/ liquidity >= c.threshold THEN 0
     ELSE (deficit * PenaltyPerStep) \div PenaltyScale

\* The tolerance grows with the larger volatility and with missing liquidity.
calculate_dynamic_slippage(s, from, to, liquidity) ==
  LET c == s.config
      factor == Max({get_asset_volatility_bps(s, from), get_asset_volatility_bps(s, to)}) * c.multiplier
      adjusted == (c.base * (Scale + factor)) \div Scale
  IN IF ~Narrow({factor, Scale + factor, c.base * (Scale + factor)}) THEN None
     ELSE Min({Max({adjusted + LiquidityPenalty(c, liquidity), c.min}), c.max})

calculate_min_output_with_slippage(amount, rate, bps) ==
  (((amount * rate) \div RateScale) * (Scale - bps)) \div Scale

\* What a swap pays, or None: what it pays is what it expected, so only a
\* minimum of the caller's own refuses it.
SwapOutput(s, from, to, amount, min_out, liquidity, p, q) ==
  LET rate == (p * RateScale) \div q
      expected == (amount * rate) \div RateScale
      bps == calculate_dynamic_slippage(s, from, to, liquidity)
  IN IF amount <= 0 \/ bps = None THEN None
     ELSE IF expected < Max({calculate_min_output_with_slippage(amount, rate, bps), min_out}) THEN None
     ELSE expected

\* Both prices are read, and paid for, first; then they are taken into the
\* volatility of their assets.  No token of the swap itself moves.
Swap(payer, from, to) ==
  LET p == books.price[from].value
      q == books.price[to].value
      first == VolatilityAfter(slip.config, slip.metrics[from], p)
      second == VolatilityAfter(slip.config, IF to = from THEN first ELSE slip.metrics[to], q)
  IN /\ IndexRead(books, payer, <<from, to>>) # None
     /\ first # None /\ second # None
     /\ books' = IndexRead(books, payer, <<from, to>>)
     /\ slip' = [slip EXCEPT !.metrics[from] = first, !.metrics[to] = second]
     /\ UNCHANGED breaker

execute_swap_with_dynamic_slippage(payer, from, to, amount, min_out, liquidity) ==
  /\ Swap(payer, from, to)
  /\ SwapOutput(slip, from, to, amount, min_out, liquidity,
                books.price[from].value, books.price[to].value) # None

execute_swap_with_manual_slippage(payer, from, to, amount, bps) ==
  Swap(payer, from, to) /\ validate_slippage_tolerance(bps) /\ amount > 0

-----------------------------------------------------------------------------

FeeNext ==
  \/ \E a \in Clients, x \in Assets : get_price(a, x)
  \/ \E a \in Clients, s \in Baskets : get_index_price(a, s)
  \/ \E p \in Providers : claim_rewards(p)
  \/ \E t \in Tokens : set_fee_token(t) \/ set_slash_token(t)
  \/ \E n \in Fees : set_query_fee(n)
  \/ \E x \in Assets, p \in Publishers, v \in Prices : Published(x, p, v)
  \/ \E p \in Providers, n \in Amounts : stake_tokens(p, n)

StakeNext ==
  \/ \E t \in Tokens : set_slash_token(t)
  \/ \E t \in Tokens, a \in Clients, n \in Amounts : rescue_tokens(t, a, n)
  \/ \E p \in Providers, n \in Amounts :
       stake_tokens(p, n) \/ unstake_tokens(p, n) \/ execute_slash_internal(p, n)
         \/ request_unbonding(p, n)
  \/ \E p \in Providers : release_unbonded_stake(p)
  \/ Clock

BreakerNext ==
  \/ \E c \in Coordinators :
       \/ register_circuit_breaker_coordinator(c) \/ remove_circuit_breaker_coordinator(c)
       \/ trip_circuit_breaker(c) \/ reset_circuit_breaker(c)
       \/ \E x \in Assets : trip_circuit_breaker_for_asset(c, x) \/ reset_circuit_breaker_for_asset(c, x)
  \/ \E x \in Assets, p \in Publishers, v \in Prices : Published(x, p, v)
  \/ \E s \in BOOLEAN : set_emergency_halt(s)

MembersNext ==
  \/ \E s \in Clients \cup Coordinators : subscribe(s) \/ unsubscribe(s)
  \/ \E p \in Providers : report_missed_blocks(p, 4) \/ report_successful_uptime(p)

SwapCalls ==
  \E a \in Clients, x, y \in Assets, n \in Amounts :
    \/ \E m \in Amounts, l \in Liquidities : execute_swap_with_dynamic_slippage(a, x, y, n, m, l)
    \/ \E b \in {0, Scale + 1} : execute_swap_with_manual_slippage(a, x, y, n, b)

\* How many prices went into the volatilities, after the first of each asset.
Updates(s) == SumOf([x \in Assets |-> IF s.metrics[x] = None THEN 0 ELSE s.metrics[x].count], Assets)

SlipNext ==
  /\ \/ \E c \in Configs : set_slippage_config(c)
     \/ \E x \in Assets, p \in Prices : update_volatility_metrics(x, p)
     \/ \E x \in Assets, p \in Publishers, v \in Prices : Published(x, p, v)
     \/ SwapCalls
  /\ Updates(slip') <= MaxUpdates

\* Swaps, and the reads they make, meeting fees, the breaker, the halt and the age of prices.
PaidSwapNext ==
  /\ \/ SwapCalls
     \/ \E x \in Assets, p \in Publishers, v \in Prices : Published(x, p, v)
     \/ \E t \in Tokens : set_fee_token(t)
     \/ \E n \in Fees : set_query_fee(n)
     \/ \E p \in Providers : claim_rewards(p)
     \/ \E c \in Coordinators :
          \/ register_circuit_breaker_coordinator(c)
          \/ trip_circuit_breaker(c) \/ reset_circuit_breaker(c)
          \/ \E x \in Assets : trip_circuit_breaker_for_asset(c, x) \/ reset_circuit_breaker_for_asset(c, x)
     \/ \E s \in BOOLEAN : set_emergency_halt(s)
     \/ Clock
  /\ Updates(slip') <= MaxUpdates

Init ==
  /\ books = [held |-> [t \in Tokens |-> [a \in Accounts \cup {Oracle} |->
                         IF a = Oracle THEN 0 ELSE IF a \in Providers THEN Wallet ELSE Purse]],
              fee_token |-> None, query_fee |-> 0, vault |-> [t \in Tokens |-> 0],
              rewards |-> [p \in Providers |-> 0], slash_token |-> None,
              earned |-> [p \in Providers |-> [t \in Tokens |-> 0]],
              stake |-> [p \in Providers |-> 0], unbonding |-> [p \in Providers |-> None],
              price |-> [x \in Assets |-> None], now |-> 0]
  /\ breaker = [list |-> <<>>, roles |-> {}, active |-> FALSE, by |-> None, assets |-> {},
                subscribers |-> <<>>, missed |-> [p \in Providers |-> 0],
                streak |-> [p \in Providers |-> None], halted |-> FALSE]
  /\ slip = [config |-> [base |-> 1, min |-> 0, max |-> Scale \div 2, multiplier |-> 1,
                         threshold |-> 2, alpha |-> MinAlpha],
             metrics |-> [x \in Assets |-> None]]

-----------------------------------------------------------------------------
(* Properties *)

TypeOK ==
  /\ books.fee_token \in Tokens \cup {None} /\ books.slash_token \in Tokens \cup {None}
  /\ \A p \in Providers : books.rewards[p] \in Nat /\ books.stake[p] \in Nat
  /\ \A t \in Tokens : books.vault[t] \in Nat /\ \A a \in DOMAIN books.held[t] : books.held[t][a] \in Nat
  /\ breaker.by \in Coordinators \cup {None} /\ breaker.assets \subseteq Assets
  /\ \A x \in Assets : slip.metrics[x] # None => slip.metrics[x].ema \in 0..U32Max

\* What providers are owed is what the vaults of all tokens hold together,
\* however often the token of the fees was changed in between, and what each
\* of them is owed is the sum of what it earned in the tokens.
RewardsMatchVaults ==
  /\ SumOf(books.rewards, Providers) = SumOf(books.vault, Tokens)
  /\ \A p \in Providers : books.rewards[p] = SumOf(books.earned[p], Tokens)

\* The vault of every token holds the unclaimed rewards earned in that token.
Isolated(b) ==
  \A t \in Tokens : b.vault[t] = SumOf([p \in Providers |-> b.earned[p][t]], Providers)

\* process_query_fee keeps the fees of a token in the vault of that token, and
\* the vaults stay apart whatever is read, paid and re-configured, until a
\* provider claims rewards it earned in a token fees are no longer paid in:
\* claim_rewards takes them from the vault of the present token, which holds
\* what others earned.
OnlyForeignClaimsMix ==
  [][Isolated(books) /\ ~Isolated(books') =>
       \E p \in Providers, t \in Tokens \ {books.fee_token} :
         books.earned[p][t] > 0 /\ books.rewards[p] > 0 /\ books'.rewards[p] = 0]_books

\* The oracle holds its vaults and, in the token of the stakes, the stakes.
Covered(b) ==
  \A t \in Tokens :
    b.held[t][Oracle] >= b.vault[t] + (IF t = b.slash_token THEN SumOf(b.stake, Providers) ELSE 0)

\* Only a rescue, or another token for the stakes, can leave the oracle without
\* what it owes: no sequence of reads, claims, stakes and slashes does.
OnlyRescueUncovers ==
  [][Covered(books) /\ ~Covered(books') =>
       \/ books'.slash_token # books.slash_token
       \/ UNCHANGED <<books.vault, books.rewards, books.stake>>]_books

\* An unbonding request is released once, not before its delay, and is not
\* replaced while it waits.
UnbondingWaits ==
  [][\A p \in Providers :
       LET open == books.unbonding[p]
       IN open # None /\ books'.unbonding[p] # open =>
            IF open.released THEN ~books'.unbonding[p].released
            ELSE books.now >= open.release /\ books'.unbonding[p] = [open EXCEPT !.released = TRUE]]_books

\* A read is paid by the reader to the provider of the price that is read: what
\* anybody's balance of rewards gains is what a reader lost in the same call.
RewardsArePaidFor ==
  [][LET gained == SumOf(books'.rewards, Providers) - SumOf(books.rewards, Providers)
     IN gained > 0 =>
          \E a \in Clients, t \in Tokens :
            books.held[t][a] - books'.held[t][a] = gained /\ t = books.fee_token]_books

\* The list of coordinators and their roles agree, the breaker in force was
\* tripped by somebody, and nobody is subscribed twice.
BreakerRecordsAgree ==
  /\ Range(breaker.list) = breaker.roles /\ IsInjective(breaker.list)
  /\ breaker.active => breaker.by # None
  /\ IsInjective(breaker.subscribers)

\* While the breaker is in force for an asset, or the contract is halted, it
\* cannot be read by itself nor in any index, whoever pays; the batch reads stop
\* for the halt and still serve it under the breaker.
TrippedReadsStop ==
  \A x \in Assets : breaker.halted \/ breaker.active \/ x \in breaker.assets =>
    /\ \A a \in Clients : ReadPrice(books, a, x) = None
    /\ \A a \in Clients, s \in Baskets : Contains(s, x) => IndexRead(books, a, s) = None
    /\ books.price[x] # None /\ ~is_stale(books, books.price[x].at) =>
         breaker.halted = (get_prices(x) = None)

\* Unsubscribing moves the last subscriber and loses nobody else.
OnlyLeaversLeave ==
  [][LET before == Range(breaker.subscribers)
         after == Range(breaker'.subscribers)
     IN Cardinality(before \ after) <= 1 /\ Len(breaker'.subscribers) = Cardinality(after)]_breaker

\* A longer absence never lowers the multiplier of a slash; only a report of
\* uptime does, and it returns to one at the first report, which starts the
\* streak: no streak of 48 hours is waited for.
AbsenceCosts ==
  [][\A p \in Providers :
       breaker'.missed[p] < breaker.missed[p] =>
         get_slash_multiplier(p)' = 1 /\ breaker'.streak[p] = books'.now]_breaker

\* Whatever the history of prices, the tolerance stays within the configured
\* bounds, and a swap pays no less than its tolerance and its caller allow; only
\* the caller's own minimum, or an overflow, refuses it.
SwapsKeepTheirTolerance ==
  \A x, y \in Assets, l \in Liquidities :
    LET bps == calculate_dynamic_slippage(slip, x, y, l)
    IN bps # None =>
         /\ bps \in slip.config.min..slip.config.max
         /\ \A n, m \in Amounts, p, q \in Prices :
              LET out == SwapOutput(slip, x, y, n, m, l, p, q)
                  expected == (n * ((p * RateScale) \div q)) \div RateScale
              IN n > 0 => IF out = None THEN m > expected
                          ELSE out >= m /\ out * Scale >= expected * (Scale - bps)

\* The estimate moves from where it was towards the last change, never past it.
VolatilityIsSmoothed ==
  [][\A x \in DOMAIN slip.metrics :
       LET m == slip.metrics[x]
           n == slip'.metrics[x]
       IN m # None /\ n # None /\ n # m /\ n.count = m.count + 1 =>
            LET change == calculate_rate_deviation_bps(m.last, n.last)
            IN IF m.count = 0 THEN n.ema = change
               ELSE n.ema \in Min({m.ema, change})..Max({m.ema, change})]_slip

\* The medians are the middle of the sorted prices, also when repeated prices are
\* counted instead of listed.
MediansAreMiddles ==
  \A len \in 1..4 : \A s \in [1..len -> 1..3] :
    LET t == SortSeq(s, <)
        middle == (t[(len + 1) \div 2] + t[len \div 2 + 1]) \div 2
        pairs == [i \in 1..len |-> <<i, s[i] - 1>>]
        listed == FlattenSeq([i \in 1..len |-> [k \in 1..s[i] - 1 |-> i]])
        upside == [i \in 1..len |-> pairs[len + 1 - i]]
    IN /\ calculate_median(s) = middle
       /\ calculate_median_compacted(pairs) = calculate_median(listed)
       /\ calculate_median_compacted(upside) = calculate_median(listed)

\* A larger deviation is never punished less; an accepted rate lies between the
\* acceptable rates of one basis point more; the interior scale changes no digit.
ComputationsAgree ==
  /\ \A d \in 0..1100 : calculate_slashing_bps(d) <= calculate_slashing_bps(d + 1)
  /\ \A n \in 0..9, b \in 0..9 : apply_slash_cap(n, b) <= n /\ 4 * apply_slash_cap(n, b) <= b
  /\ \A e \in 1..12, a \in 0..24, b \in 0..Scale - 1 :
       enforce_slippage_tolerance(e, a, b) =>
         a \in calculate_min_acceptable_rate(e, b + 1)..calculate_max_acceptable_rate(e, b + 1)
  /\ \A v \in 0..130, d \in 0..4 :
       normalize_to_nine(v, d, 2, 1000) =
         IF d < 2 THEN v * 10^(2 - d) ELSE v \div 10^(d - 2)
=============================================================================
