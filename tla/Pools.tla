-------------------------------- MODULE Pools --------------------------------
(***************************************************************************)
(* Pools and the ways through them.                                        *)
(*                                                                         *)
(* The pool library of the core contract: the tick index of concentrated   *)
(* liquidity with its positions and their splits, the simulated swap over  *)
(* ticks, and the two guards on a pool's price, the circuit breaker and    *)
(* the deviation guard.  No entry point of the core calls these functions  *)
(* yet, and TickData lacks the fee_growth_outside that positions.rs keeps  *)
(* there; it is read as having it.  An error is propagated by the caller,  *)
(* which keeps nothing, or swallowed, which keeps what was saved before.   *)
(*                                                                         *)
(* The two routers of the core contract: the dynamic router, which keeps   *)
(* the reserves of registered pools and looks for the best path of up to   *)
(* three of them, and the multi-hop router, which sends an amount through  *)
(* the corridor fee pools of a given route.  Neither moves tokens.  The    *)
(* entry point of the multi-hop router takes the reentrancy lock and then  *)
(* calls a function that takes it again, so the entry point refuses every  *)
(* route; execute_route below is that function for a caller that does not  *)
(* hold the lock.                                                          *)
(*                                                                         *)
(* The constant-product pool (contracts/lp-pool/src/lib.rs): two reserves, *)
(* shares minted in proportion to deposits and burnt by withdrawals, and   *)
(* swaps along x * y = k without a fee.  It keeps books only and moves no  *)
(* tokens.  Every product and sum is checked against the width of i128,    *)
(* and a call that would overflow fails.  Extending the time-to-live of    *)
(* storage entries changes no value and is left out.                       *)
(*                                                                         *)
(* The three share no storage, and a call of one says nothing of the       *)
(* variables of the others.                                                *)
(***************************************************************************)
EXTENDS Integers, Sequences, SequencesExt, FiniteSetsExt

CONSTANTS
  Owners, None,
  Spacings, MinTick, MaxTick,          \* MIN_TICK_INDEX, MAX_TICK_INDEX
  MaxTicks,                            \* MAX_TICKS_PER_POOL
  Deltas, Fees,                        \* liquidity and fees asked for
  GrowthScale, U128, U64,              \* FEE_GROWTH_SCALE; 2^128; 2^64
  BaseUp, BaseDown, PriceScale,        \* TICK_BASE, TICK_BASE_PRECISION, PRICE_SCALE
  BpsScale, FeeBps,                    \* 10 000; fees of simulated swaps
  Admins, Prices, Configs,             \* of the circuit breaker
  DeviationConfigs,                    \* of the deviation guard
  MaxDeviation, Oracles,               \* MAX_DEVIATION_BPS_CEILING; averages, or None
  MaxPositions, MaxGross, MaxGrowth, MaxLedger,  \* bounds; gross liquidity in all
  \* of the routers
  Callers, Admin,
  Edges,                               \* pools that may be registered, with their reserves
  Assets, Amounts, Minimums,
  MaxRouteDepth, MaxCandidatePools,    \* 3, 32
  Impacts, RouterConfigs,              \* tolerances of a call; configurations
  Routes, MaxRouteHops,                \* routes of the multi-hop router; 8
  Corridors,                           \* initial corridor pools
  RouteFeeBps, MinTransfer,            \* 30; MIN_TRANSFER_AMOUNT
  MaxReserve,                          \* bound
  \* of the constant-product pool
  Users,                               \* liquidity providers and traders
  Tokens,                              \* token addresses a call may name
  Deposits,                            \* amounts, shares and bounds of a call, zero included
  I128Max                              \* largest representable amount

PoolsAssumption ==
  /\ Spacings \subseteq Int /\ MinTick \in Int /\ MaxTick \in Int /\ Deltas \subseteq Int
  /\ Fees \subseteq Nat /\ Prices \subseteq Int
  /\ {GrowthScale, U128, U64, MaxTicks, BaseUp, BaseDown, PriceScale, BpsScale, MaxPositions, MaxGross,
      MaxGrowth, MaxLedger, MaxRouteDepth, MaxCandidatePools, MaxRouteHops, MaxReserve}
       \subseteq Nat \ {0}
  /\ Amounts \subseteq Nat /\ Minimums \subseteq Nat /\ Impacts \subseteq Nat
  /\ RouteFeeBps \in 0..BpsScale /\ MinTransfer \in Nat
  /\ None \notin Tokens /\ Deposits \subseteq Nat /\ I128Max \in Nat

VARIABLES
  index,         \* TickIndexMeta, tick data and the tick list, or None
  positions,     \* by id, with the counter
  placed,        \* history: liquidity placed at a tick other than by a position
  guard,         \* both configurations, last price, freeze, ledger
  registry,      \* pool addresses in order of registration
  stored,        \* the edge of a pool, or None
  router,        \* RouterConfig
  corridor,      \* corridor fee pool of an asset
  tokens,        \* <<TokenA, TokenB>>, None before initialize
  reserve_a,     \* PoolReserves.reserve_a
  reserve_b,     \* PoolReserves.reserve_b
  total_shares,  \* PoolReserves.total_shares
  shares         \* UserShares(user)

coreVars == <<index, positions, placed, guard>>
routeVars == <<registry, stored, router, corridor>>
poolVars == <<tokens, reserve_a, reserve_b, total_shares, shares>>
vars == <<coreVars, routeVars, poolVars>>

SumOver(S, f(_)) == FoldSet(LAMBDA x, n : f(x) + n, 0, S)

-----------------------------------------------------------------------------
(* The tick list: a sorted sequence, and the search in it *)

\* The first place at or after which the target would stand, counted from 0.
RECURSIVE TickPlace(_, _, _, _)
TickPlace(list, target, lo, hi) ==
  LET mid == lo + (hi - lo) \div 2
  IN IF lo >= hi THEN lo
     ELSE IF list[mid + 1] = target THEN mid
     ELSE IF list[mid + 1] < target THEN TickPlace(list, target, mid + 1, hi)
     ELSE TickPlace(list, target, lo, mid)

binary_search_tick(list, target) == TickPlace(list, target, 0, Len(list))

\* None when the list is full, even for a tick that is in it.
insert_tick_sorted(list, tick) ==
  LET pos == binary_search_tick(list, tick)
  IN IF Len(list) >= MaxTicks THEN None
     ELSE IF pos < Len(list) /\ list[pos + 1] = tick THEN list ELSE InsertAt(list, pos + 1, tick)

remove_tick_sorted(list, tick) ==
  LET pos == binary_search_tick(list, tick)
  IN IF pos < Len(list) /\ list[pos + 1] = tick THEN RemoveAt(list, pos + 1) ELSE list

\* Mutant: a search downward looks at the place it found only.
find_next_initialized_tick_Above(list, tick, up) ==
  LET pos == binary_search_tick(list, tick)
  IN IF pos < Len(list) THEN list[pos + 1] ELSE None

\* The tick itself counts, in either direction.
find_next_initialized_tick(list, tick, up) ==
  LET pos == binary_search_tick(list, tick)
  IN IF up THEN IF pos < Len(list) THEN list[pos + 1] ELSE None
     ELSE IF pos < Len(list) /\ list[pos + 1] = tick THEN tick
     ELSE IF pos > 0 THEN list[pos] ELSE None

-----------------------------------------------------------------------------
(* Prices and the simulated swap *)

\* A tick's price is multiplied up or divided down one tick at a time.
RECURSIVE tick_to_price(_)
tick_to_price(tick) ==
  IF tick = 0 THEN PriceScale
  ELSE IF tick > 0 THEN (tick_to_price(tick - 1) * BaseUp) \div BaseDown
  ELSE (tick_to_price(tick + 1) * BaseDown) \div BaseUp

\* Newton's iteration from above.
RECURSIVE Newton(_, _, _)
Newton(val, x, y) == IF y >= x THEN x ELSE Newton(val, y, (y + val \div y) \div 2)

integer_sqrt(val) == IF val = 0 THEN 0 ELSE Newton(val, val, (val + 1) \div 2)

RootGap(a, b) == LET ra == integer_sqrt(a)
                     rb == integer_sqrt(b) IN IF rb > ra THEN rb - ra ELSE ra - rb

compute_step_input(a, b, liquidity) == (liquidity * RootGap(a, b)) \div PriceScale

\* None when a price has root 0.
compute_step_output(a, b, liquidity) ==
  LET product == integer_sqrt(a) * integer_sqrt(b)
  IN IF product = 0 THEN None ELSE (liquidity * PriceScale * RootGap(a, b)) \div product

range_efficiency_bps(lower, upper) ==
  ((tick_to_price(upper) - tick_to_price(lower)) * BpsScale) \div tick_to_price(lower)

get_tick_data(idx, tick) ==
  IF tick \in DOMAIN idx.data THEN idx.data[tick] ELSE [net |-> 0, gross |-> 0, outside |-> 0]

\* An i64 read as a u64.
AsU64(n) == n % U64

\* One step to the next initialized tick: what it takes in, puts out, and the
\* liquidity beyond.  Going up over a tick with negative net liquidity overflows,
\* or wraps when there is less liquidity than that.
SwapStep(idx, s, up, fee) ==
  LET found == find_next_initialized_tick(idx.list, s.tick, up)
      next == IF found # None THEN found ELSE IF up THEN MaxTick ELSE MinTick
      step_in == compute_step_input(tick_to_price(s.tick), tick_to_price(next), s.liquidity)
      step_out == compute_step_output(tick_to_price(s.tick), tick_to_price(next), s.liquidity)
      net_in == step_in - (step_in * fee) \div BpsScale
      consumed == Min({s.left, net_in})
      edge == next \in {MinTick, MaxTick}
      net == get_tick_data(idx, next).net
      beyond == IF edge THEN s.liquidity
                ELSE IF up THEN s.liquidity + AsU64(net)
                ELSE Max({0, s.liquidity - AsU64(-net)})
  IN IF step_out = None \/ beyond >= U64 THEN [s EXCEPT !.failed = TRUE] ELSE
     [left |-> s.left - consumed, tick |-> next, liquidity |-> beyond,
      out |-> s.out + (IF net_in > 0 THEN (step_out * consumed) \div net_in ELSE 0),
      steps |-> Append(s.steps, [from |-> s.tick, to |-> next, taken |-> consumed]),
      crossings |-> s.crossings + (IF edge THEN 0 ELSE 1), done |-> edge, failed |-> FALSE]

\* The loop runs while something is left, one step more than there are ticks.
simulate_swap_across_ticks(idx, tick, liquidity, amount, up, fee) ==
  LET start == [left |-> amount, tick |-> tick, liquidity |-> liquidity, out |-> 0,
                steps |-> <<>>, crossings |-> 0, done |-> FALSE, failed |-> FALSE]
      end == FoldLeft(LAMBDA s, i : IF s.left = 0 \/ s.done \/ s.failed THEN s
                                    ELSE SwapStep(idx, s, up, fee),
                      start, [i \in 1..idx.count + 1 |-> i])
  IN IF amount = 0 \/ liquidity = 0 THEN None ELSE IF end.failed THEN None ELSE end

-----------------------------------------------------------------------------
(* Liquidity *)

initialize_tick_index(spacing) ==
  /\ index = None /\ spacing > 0
  /\ index' = [spacing |-> spacing, current |-> 0, active |-> 0, count |-> 0, growth |-> 0,
               list |-> <<>>, data |-> <<>>]
  /\ UNCHANGED <<positions, placed, guard>>

\* The index after placing delta at the tick, or None when refused.  Whether the
\* tick was empty is asked after the placement, when it no longer is, so no tick
\* ever enters the list.
place_liquidity(idx, tick, delta) ==
  LET old == get_tick_data(idx, tick)
      size == IF delta < 0 THEN -delta ELSE delta
      active == IF tick <= idx.current THEN idx.active + delta ELSE idx.active
      gross == old.gross + delta
      was_empty == gross = 0 /\ delta > 0
      is_empty == gross = 0 /\ delta < 0
      data == [t \in DOMAIN idx.data \cup {tick} |->
                 IF t = tick THEN [old EXCEPT !.net = @ + delta, !.gross = gross] ELSE idx.data[t]]
      list == IF was_empty THEN insert_tick_sorted(idx.list, tick)
              ELSE IF is_empty THEN remove_tick_sorted(idx.list, tick) ELSE idx.list
  IN IF \/ tick % idx.spacing # 0 \/ tick \notin MinTick..MaxTick
        \/ gross < 0 \/ active < 0 \/ list = None
     THEN None
     ELSE [idx EXCEPT !.active = active, !.data = data, !.list = list,
             !.count = IF was_empty THEN @ + 1 ELSE IF is_empty THEN Max({0, @ - 1}) ELSE @]

\* A tick seen for the first time at or below the price starts with all growth.
ensure_tick_initialized(idx, tick) ==
  IF tick \in DOMAIN idx.data THEN idx
  ELSE [idx EXCEPT !.data = [t \in DOMAIN @ \cup {tick} |->
         IF t \in DOMAIN @ THEN @[t]
         ELSE [net |-> 0, gross |-> 0,
               outside |-> IF tick <= idx.current THEN idx.growth ELSE 0]]]

\* A library caller places liquidity at a tick of its own.
place(tick, delta) ==
  /\ index # None
  /\ LET next == place_liquidity(index, tick, delta)
     IN next # None /\ index' = next
  /\ placed' = [placed EXCEPT ![tick] = @ + delta]
  /\ UNCHANGED <<positions, guard>>

accrue_fee_growth(amount) ==
  /\ index # None /\ amount > 0 /\ index.active > 0
  /\ LET growth == index.growth + (amount * GrowthScale) \div index.active
     IN growth < U128 /\ index' = [index EXCEPT !.growth = growth]
  /\ UNCHANGED <<positions, placed, guard>>

\* Subtraction wraps.
get_fee_growth_inside(idx, lower, upper) ==
  LET below == IF idx.current >= lower THEN get_tick_data(idx, lower).outside
               ELSE idx.growth - get_tick_data(idx, lower).outside
      above == IF idx.current < upper THEN get_tick_data(idx, upper).outside
               ELSE idx.growth - get_tick_data(idx, upper).outside
  IN (idx.growth - below - above) % U128

split_fee(amount) ==
  LET lp == (amount * 4) \div 5 IN [lp |-> lp, treasury |-> amount - lp]

Position(owner, lower, upper, liquidity, last, owed) ==
  [owner |-> owner, lower |-> lower, upper |-> upper, liquidity |-> liquidity, last |-> last,
   owed |-> owed]

\* The upper tick's gross liquidity is reduced, so the position is refused unless
\* enough of it stands there already.
open_position(owner, lower, upper, liquidity) ==
  /\ index # None /\ lower < upper /\ liquidity > 0 /\ positions.next <= MaxPositions
  /\ LET ready == ensure_tick_initialized(ensure_tick_initialized(index, lower), upper)
         half == place_liquidity(ready, lower, liquidity)
         full == IF half = None THEN None ELSE place_liquidity(half, upper, -liquidity)
     IN /\ full # None
        /\ index' = full
        /\ positions' = [next |-> positions.next + 1,
             at |-> [positions.at EXCEPT ![positions.next] =
                       Position(owner, lower, upper, liquidity,
                                get_fee_growth_inside(full, lower, upper), 0)]]
  /\ UNCHANGED <<placed, guard>>

\* What a position is owed: what is recorded and its share of the growth since.
TotalOwed(idx, p) ==
  p.owed + (((get_fee_growth_inside(idx, p.lower, p.upper) - p.last) % U128) * p.liquidity)
             \div GrowthScale

split_position(owner, id, mid) ==
  /\ index # None /\ positions.at[id] # None /\ positions.at[id].owner = owner
  /\ positions.next + 1 <= MaxPositions
  /\ LET p == positions.at[id]
         lower == (p.liquidity * (mid - p.lower)) \div (p.upper - p.lower)
         upper == p.liquidity - lower
         owed == TotalOwed(index, p)
         owed_lower == (owed * (mid - p.lower)) \div (p.upper - p.lower)
         i1 == place_liquidity(ensure_tick_initialized(index, mid), p.lower, -upper)
         i2 == IF i1 = None THEN None ELSE place_liquidity(i1, mid, upper - lower)
         i3 == IF i2 = None THEN None ELSE place_liquidity(i2, p.upper, lower)
     IN /\ mid > p.lower /\ mid < p.upper /\ mid % index.spacing = 0
        /\ lower > 0 /\ upper > 0
        /\ i3 # None
        /\ index' = i3
        /\ positions' = [next |-> positions.next + 2,
             at |-> [positions.at EXCEPT ![id] = None,
               ![positions.next] = Position(owner, p.lower, mid, lower,
                                     get_fee_growth_inside(i3, p.lower, mid), owed_lower),
               ![positions.next + 1] = Position(owner, mid, p.upper, upper,
                                     get_fee_growth_inside(i3, mid, p.upper), owed - owed_lower)]]
  /\ UNCHANGED <<placed, guard>>

TickNext ==
  /\ \/ \E s \in Spacings : initialize_tick_index(s)
     \/ \E t \in MinTick..MaxTick, d \in Deltas : place(t, d)
     \/ \E n \in Fees : accrue_fee_growth(n)
     \/ \E o \in Owners, l, u \in MinTick..MaxTick, n \in Deltas : open_position(o, l, u, n)
     \/ \E o \in Owners, i \in 1..MaxPositions, t \in MinTick..MaxTick : split_position(o, i, t)
  /\ SumOver(DOMAIN index'.data, LAMBDA t : index'.data[t].gross) <= MaxGross
  /\ index'.growth <= MaxGrowth

-----------------------------------------------------------------------------
(* The circuit breaker and the deviation guard *)

validate_circuit_breaker_config(c) ==
  c.max_deviation_bps \in 1..MaxDeviation /\ c.cooldown_ledgers > 0

\* Rounded down; None for a price that is not positive.
calculate_price_deviation_bps(base, price) ==
  IF base <= 0 \/ price <= 0 THEN None
  ELSE ((IF price >= base THEN price - base ELSE base - price) * BpsScale) \div base

compute_spot_price_from_reserves(a, b) == IF a = 0 \/ b = 0 THEN None ELSE (b * PriceScale) \div a

set_circuit_breaker_config(caller, c) ==
  /\ caller = guard.admin /\ validate_circuit_breaker_config(c)
  /\ guard' = [guard EXCEPT !.config = c]

CooldownOver(g) == g.now >= g.frozen_at + g.config.cooldown_ledgers

is_pool_trading_allowed(g) == ~g.frozen \/ CooldownOver(g)

Deviates(g, price) ==
  /\ g.config.enabled /\ g.last # None
  /\ calculate_price_deviation_bps(g.last, price) > g.config.max_deviation_bps

\* After the cool-down the first price is taken as it is.
Acceptable(g, price) ==
  price > 0 /\ IF g.frozen THEN CooldownOver(g) ELSE ~Deviates(g, price)

AcceptPrice(price) ==
  /\ Acceptable(guard, price)
  /\ guard' = [guard EXCEPT !.frozen = FALSE, !.by = None, !.last = price]

\* The freeze is saved before the error is returned: it stays where the caller
\* swallows the error.
TripBreaker(price) ==
  /\ price > 0 /\ ~guard.frozen /\ Deviates(guard, price)
  /\ guard' = [guard EXCEPT !.frozen = TRUE, !.frozen_at = guard.now, !.by = None]

\* Mutant: a price that breaks the limit is the next baseline all the same.
check_and_update_spot_price_Kept(price) ==
  /\ price > 0 /\ ~guard.frozen
  /\ guard' = [guard EXCEPT !.last = price]

check_and_update_spot_price(price) == AcceptPrice(price) \/ TripBreaker(price)

manual_freeze_pool(caller) ==
  /\ caller \in {guard.admin, guard.emergency}
  /\ guard' = [guard EXCEPT !.frozen = TRUE, !.frozen_at = guard.now, !.by = caller]

manual_unfreeze_pool(caller) ==
  /\ caller \in {guard.admin, guard.emergency}
  /\ guard' = [guard EXCEPT !.frozen = FALSE, !.by = None]

validate_oracle_deviation_config(c) == c.max_deviation_bps \in 1..MaxDeviation

set_oracle_deviation_config(caller, c) ==
  /\ caller = guard.admin /\ validate_oracle_deviation_config(c)
  /\ guard' = [guard EXCEPT !.oracle = c]

\* Whether the deviation guard lets a trade at the spot price pass: without an
\* average there is nothing to compare with.
enforce_oracle_deviation_guard(config, spot, twap) ==
  IF ~config.enabled \/ twap = None THEN TRUE
  ELSE IF twap <= 0 THEN TRUE
  ELSE IF spot <= 0 THEN FALSE
  ELSE calculate_price_deviation_bps(twap, spot) <= config.max_deviation_bps

enforce_swap_oracle_guard(config, reserve_in, reserve_out, twap) ==
  LET spot == compute_spot_price_from_reserves(reserve_in, reserve_out)
  IN IF spot = None THEN FALSE ELSE enforce_oracle_deviation_guard(config, spot, twap)

Ledger == guard.now < MaxLedger /\ guard' = [guard EXCEPT !.now = @ + 1]

BreakerNext ==
  /\ \/ \E c \in Admins, k \in Configs : set_circuit_breaker_config(c, k)
     \/ \E c \in Admins, k \in DeviationConfigs : set_oracle_deviation_config(c, k)
     \/ \E p \in Prices : check_and_update_spot_price(p)
     \/ \E c \in Admins : manual_freeze_pool(c) \/ manual_unfreeze_pool(c)
     \/ Ledger
  /\ UNCHANGED <<index, positions, placed>>

-----------------------------------------------------------------------------

-----------------------------------------------------------------------------
(* Quotes *)

validate_edge(e) ==
  /\ e.asset_in # e.asset_out
  /\ e.reserve_in > 0 /\ e.reserve_out > 0 /\ e.fee_bps <= BpsScale

\* What one pool gives for the amount, or None.
quote_hop(e, amount) ==
  LET net == (amount * (BpsScale - e.fee_bps)) \div BpsScale
      out == (e.reserve_out * net) \div (e.reserve_in + net)
      k_before == e.reserve_in * e.reserve_out
      k_after == (e.reserve_in + amount) * (e.reserve_out - out)
  IN IF amount = 0 \/ ~validate_edge(e) \/ net = 0 THEN None
     ELSE IF out = 0 \/ out >= e.reserve_out \/ k_after < k_before THEN None
     ELSE [pool |-> e.pool, asset_in |-> e.asset_in, asset_out |-> e.asset_out,
           amount_in |-> amount, amount_out |-> out, k_before |-> k_before, k_after |-> k_after]

\* Along the path, with the effective price against the spot price of every hop.
quote_path(edges, path, amount) ==
  LET Hop(acc, i) ==
        IF acc = None THEN None
        ELSE LET hop == quote_hop(edges[i], acc.running)
             IN IF hop = None THEN None
                ELSE [running |-> hop.amount_out, hops |-> Append(acc.hops, hop),
                      ideal |-> (acc.ideal * edges[i].reserve_out) \div edges[i].reserve_in,
                      k0 |-> acc.k0 * hop.k_before, k1 |-> acc.k1 * hop.k_after]
      end == FoldLeft(Hop, [running |-> amount, hops |-> <<>>, ideal |-> amount, k0 |-> 1, k1 |-> 1],
                      path)
  IN IF end = None THEN None
     ELSE [hops |-> end.hops, amount_out |-> end.running, k0 |-> end.k0, k1 |-> end.k1,
           impact |-> IF end.ideal > end.running
                      THEN ((end.ideal - end.running) * BpsScale) \div end.ideal ELSE 0]

\* The better of two quotes, the earlier one when they are equal.
consider(best, quote) ==
  IF quote = None THEN best
  ELSE IF best = None THEN quote
  ELSE IF quote.amount_out > best.amount_out THEN quote ELSE best

\* The paths in the order in which the nested loops over first, second and third
\* hop meet them.
RoutePaths(n) ==
  FlattenSeq([i \in 1..n |->
    <<<<i>>>> \o FlattenSeq([j \in 1..n |-> <<<<i, j>>>> \o [k \in 1..n |-> <<i, j, k>>]])])

\* No pool twice, every hop continues the one before, and the second does not
\* lead back to where the path starts.
IsCandidate(edges, p, source, destination, max_hops) ==
  /\ edges[p[1]].asset_in = source /\ edges[p[Len(p)]].asset_out = destination
  /\ Len(p) <= max_hops /\ IsInjective(p)
  /\ \A h \in 2..Len(p) :
       edges[p[h]].asset_in = edges[p[h - 1]].asset_out /\ edges[p[h]].asset_out # source

find_best_route(edges, source, destination, amount, max_hops) ==
  IF amount = 0 \/ source = destination \/ max_hops \notin 1..MaxRouteDepth THEN None
  ELSE FoldLeft(LAMBDA best, p : consider(best, quote_path(edges, p, amount)), None,
         SelectSeq(RoutePaths(Len(edges)),
                   LAMBDA p : IsCandidate(edges, p, source, destination, max_hops)))

-----------------------------------------------------------------------------
(* The dynamic router *)

registered_pool_edges ==
  LET known == SelectSeq(registry, LAMBDA p : stored[p] # None)
  IN [i \in 1..Len(known) |-> stored[known[i]]]

\* A pool registered again has its reserves overwritten.
register_pool(caller, edge) ==
  /\ caller = Admin /\ validate_edge(edge)
  /\ stored[edge.pool] = None => Len(registry) < MaxCandidatePools
  /\ registry' = IF stored[edge.pool] = None THEN Append(registry, edge.pool) ELSE registry
  /\ stored' = [stored EXCEPT ![edge.pool] = edge]
  /\ UNCHANGED <<router, corridor>>

remove_pool(caller, pool) ==
  /\ caller = Admin /\ stored[pool] # None
  /\ stored' = [stored EXCEPT ![pool] = None]
  /\ registry' = SelectSeq(registry, LAMBDA p : p # pool)
  /\ UNCHANGED <<router, corridor>>

set_router_config(caller, c) ==
  /\ caller = Admin /\ c.max_hops \in 1..MaxRouteDepth /\ c.max_price_impact_bps <= BpsScale
  /\ router' = c /\ UNCHANGED <<registry, stored, corridor>>

\* The reentrancy lock is taken and released by the call, which calls nobody.
execute_swap(source, destination, amount, min_out, max_impact) ==
  /\ router.enabled
  /\ LET quote == find_best_route(registered_pool_edges, source, destination, amount,
                                  router.max_hops)
         Apply(s, hop) == [s EXCEPT ![hop.pool].reserve_in = @ + hop.amount_in,
                                    ![hop.pool].reserve_out = @ - hop.amount_out]
     IN /\ quote # None
        /\ quote.amount_out >= min_out
        /\ quote.impact <= Min({max_impact, router.max_price_impact_bps})
        /\ quote.k1 >= quote.k0
        /\ stored' = FoldLeft(Apply, stored, quote.hops)
  /\ UNCHANGED <<registry, router, corridor>>

-----------------------------------------------------------------------------
(* The multi-hop router *)

validate_route(route) ==
  /\ Len(route) \in 1..MaxRouteHops
  /\ \A i \in 1..Len(route) :
       route[i].amount_in > 0 /\ (i > 1 => route[i - 1].asset_out = route[i].asset_in)

\* What a corridor pool gives and keeps for the amount.
HopOutput(pool, amount) ==
  LET out == (amount * pool.variable) \div (pool.collected + amount)
      fee == (out * RouteFeeBps) \div BpsScale
  IN [out |-> out - fee, fee |-> fee]

check_min_transfer(amount) == amount >= MinTransfer

\* The amount is collected and the fee added; what comes out is not taken from
\* the pool it is computed from.
execute_single_hop(pools, step, amount) ==
  LET got == HopOutput(pools[step.asset_in], amount)
  IN IF amount = 0 \/ ~check_min_transfer(amount) THEN None
     ELSE [out |-> got.out, fee |-> got.fee,
           pools |-> [pools EXCEPT ![step.asset_in].collected = @ + amount,
                                   ![step.asset_in].variable = @ + got.fee]]

\* Every hop with its own minimum; an error anywhere keeps nothing.
RouteResult(pools, route) ==
  LET Hop(acc, step) ==
        IF acc = None THEN None
        ELSE LET got == execute_single_hop(acc.pools, step,
                          IF acc.hops = 0 THEN step.amount_in ELSE acc.out)
             IN IF got = None THEN None
                ELSE IF got.out < step.min_amount_out THEN None
                ELSE [out |-> got.out, fees |-> acc.fees + got.fee, pools |-> got.pools,
                      hops |-> acc.hops + 1]
  IN IF ~validate_route(route) THEN None
     ELSE FoldLeft(Hop, [out |-> 0, fees |-> 0, pools |-> pools, hops |-> 0], route)

execute_route(route) ==
  /\ LET result == RouteResult(corridor, route)
     IN result # None /\ corridor' = result.pools
  /\ UNCHANGED <<registry, stored, router>>

\* The same hops over pools that are not written, and the price impact against
\* pools that do not notice the amount; an impact below zero traps.
simulate_route(pools, route, tolerance) ==
  LET Ideal(n, i) ==
        LET pool == pools[route[i].asset_in]
            in == IF i = 1 THEN route[1].amount_in ELSE n
            out == IF pool.collected > 0 THEN (in * pool.variable) \div pool.collected ELSE in
        IN out - (out * RouteFeeBps) \div BpsScale
      Real(acc, i) ==
        IF acc = None THEN None
        ELSE LET in == IF i = 1 THEN route[1].amount_in ELSE acc.out
                 pool == pools[route[i].asset_in]
             IN IF pool.collected + in = 0 THEN None
                ELSE LET got == HopOutput(pool, in)
                     IN [out |-> got.out, fees |-> acc.fees + got.fee]
      hops == [i \in 1..Len(route) |-> i]
      ideal == FoldLeft(Ideal, 0, hops)
      end == FoldLeft(Real, [out |-> 0, fees |-> 0], hops)
  IN IF ~validate_route(route) \/ tolerance > BpsScale THEN None
     ELSE IF end = None THEN None
     ELSE IF ideal > 0 /\ ideal < end.out THEN None
     ELSE [out |-> end.out, fees |-> end.fees,
           impact |-> IF ideal > 0 THEN ((ideal - end.out) * BpsScale) \div ideal ELSE 0,
           floor |-> (end.out * (BpsScale - tolerance)) \div BpsScale]

RouterNext ==
  \/ \E c \in Callers, e \in Edges : register_pool(c, e)
  \/ \E c \in Callers, p \in DOMAIN stored : remove_pool(c, p)
  \/ \E c \in Callers, k \in RouterConfigs : set_router_config(c, k)
  \/ \E s, d \in Assets, n \in Amounts, m \in Minimums, i \in Impacts :
       /\ execute_swap(s, d, n, m, i)
       /\ \A p \in DOMAIN stored' : stored'[p] # None => stored'[p].reserve_in <= MaxReserve

RouteNext ==
  /\ \E r \in Routes : execute_route(r)
  /\ \A a \in Assets : corridor'[a].collected <= MaxReserve

-----------------------------------------------------------------------------
(* The constant-product pool *)

Fits(n) == n <= I128Max

\* Newton's iteration from x = value while it decreases.
isqrt(value) ==
  LET newton[x \in 1..value] ==
        LET y == (x + value \div x) \div 2 IN IF y < x THEN newton[y] ELSE x
  IN  IF value < 2 THEN value ELSE newton[value]

\* Shares minted for a deposit.
SharesFor(amount_a, amount_b) ==
  IF total_shares = 0 THEN isqrt(amount_a * amount_b)
  ELSE Min({(amount_a * total_shares) \div reserve_a, (amount_b * total_shares) \div reserve_b})

\* None of the products the computation of SharesFor checks overflows.
SharesFit(amount_a, amount_b) ==
  IF total_shares = 0 THEN Fits(amount_a * amount_b)
  ELSE Fits(amount_a * total_shares) /\ Fits(amount_b * total_shares)

initialize(a, b) ==
  /\ tokens = None
  /\ tokens' = <<a, b>>
  /\ UNCHANGED <<reserve_a, reserve_b, total_shares, shares>>

deposit(u, amount_a, amount_b) ==
  LET minted == SharesFor(amount_a, amount_b)
  IN  /\ amount_a > 0 /\ amount_b > 0
      /\ tokens # None
      /\ SharesFit(amount_a, amount_b)
      /\ minted > 0
      /\ Fits(reserve_a + amount_a) /\ Fits(reserve_b + amount_b) /\ Fits(total_shares + minted)
      /\ reserve_a' = reserve_a + amount_a
      /\ reserve_b' = reserve_b + amount_b
      /\ total_shares' = total_shares + minted
      /\ shares' = [shares EXCEPT ![u] = @ + minted]
      /\ UNCHANGED tokens

\* What burning shares pays out of one reserve.
Payout(reserve, burnt) == (reserve * burnt) \div total_shares

withdraw(u, burnt) ==
  LET amount_a == Payout(reserve_a, burnt)
      amount_b == Payout(reserve_b, burnt)
  IN  /\ burnt > 0
      /\ tokens # None
      /\ burnt <= shares[u]
      /\ Fits(reserve_a * burnt) /\ Fits(reserve_b * burnt)
      /\ amount_a > 0 /\ amount_b > 0
      /\ amount_a <= reserve_a /\ amount_b <= reserve_b
      /\ reserve_a' = reserve_a - amount_a
      /\ reserve_b' = reserve_b - amount_b
      /\ total_shares' = total_shares - burnt
      /\ shares' = [shares EXCEPT ![u] = @ - burnt]
      /\ UNCHANGED tokens

AmountOut(reserve_in, reserve_out, amount_in) ==
  (reserve_out * amount_in) \div (reserve_in + amount_in)

swap(token_in, amount_in, min_amount_out) ==
  LET a_in == token_in = tokens[1]
      reserve_in == IF a_in THEN reserve_a ELSE reserve_b
      reserve_out == IF a_in THEN reserve_b ELSE reserve_a
      amount_out == AmountOut(reserve_in, reserve_out, amount_in)
  IN  /\ amount_in > 0
      /\ tokens # None
      /\ token_in \in {tokens[1], tokens[2]}
      /\ reserve_in > 0 /\ reserve_out > 0
      /\ Fits(reserve_in + amount_in) /\ Fits(reserve_out * amount_in)
      /\ amount_out > 0
      /\ min_amount_out > 0
      /\ amount_out >= min_amount_out
      /\ amount_out <= reserve_out
      /\ reserve_a' = IF a_in THEN reserve_a + amount_in ELSE reserve_a - amount_out
      /\ reserve_b' = IF a_in THEN reserve_b - amount_out ELSE reserve_b + amount_in
      /\ UNCHANGED <<tokens, total_shares, shares>>

PoolNext ==
  \/ \E a, b \in Tokens : initialize(a, b)
  \/ \E u \in Users, m, n \in Deposits : deposit(u, m, n)
  \/ \E u \in Users, n \in Deposits : withdraw(u, n)
  \/ \E t \in Tokens, m, n \in Deposits : swap(t, m, n)

-----------------------------------------------------------------------------

Init ==
  /\ index = None /\ positions = [next |-> 1, at |-> [i \in 1..MaxPositions |-> None]]
  /\ placed = [t \in MinTick..MaxTick |-> 0]
  /\ \E a, e \in Admins :
       guard = [config |-> CHOOSE c \in Configs : validate_circuit_breaker_config(c) /\ c.enabled,
                last |-> None, frozen |-> FALSE, frozen_at |-> 0, by |-> None, now |-> 0,
                oracle |-> CHOOSE c \in DeviationConfigs : validate_oracle_deviation_config(c) /\ c.enabled,
                admin |-> a, emergency |-> e]
  /\ registry = <<>> /\ stored = [p \in {e.pool : e \in Edges} |-> None]
  /\ router = [max_price_impact_bps |-> BpsScale \div 2, max_hops |-> MaxRouteDepth, enabled |-> TRUE]
  /\ corridor \in Corridors
  /\ tokens = None
  /\ reserve_a = 0
  /\ reserve_b = 0
  /\ total_shares = 0
  /\ shares = [u \in Users |-> 0]

OpenIds == {i \in 1..MaxPositions : positions.at[i] # None}

\* Every storage entry is well formed; every stored pool can be quoted, whatever
\* was swapped through it, and the reserves and shares of the pool stay within i128.
TypeOK ==
  /\ index # None => index.active \in Nat /\ index.growth \in 0..U128 - 1
                     /\ \A t \in DOMAIN index.data : index.data[t].gross \in Nat
  /\ \A i \in OpenIds : positions.at[i].liquidity > 0 /\ positions.at[i].owed \in Nat
  /\ validate_circuit_breaker_config(guard.config) /\ guard.oracle \in DeviationConfigs
  /\ guard.frozen \in BOOLEAN
  /\ \A p \in DOMAIN stored : stored[p] # None => validate_edge(stored[p]) /\ stored[p].pool = p
  /\ router.max_hops \in 1..MaxRouteDepth
  /\ \A a \in Assets : corridor[a].collected \in Nat /\ corridor[a].variable \in Nat
  /\ tokens \in (Tokens \X Tokens) \union {None}
  /\ {reserve_a, reserve_b, total_shares} \subseteq 0..I128Max
  /\ shares \in [Users -> 0..I128Max]

\* The net liquidity of a tick is what positions and direct placements put there,
\* however positions were split, and the active liquidity is the net liquidity at
\* and below the price.
NetFollowsPositions ==
  index # None =>
    /\ \A t \in MinTick..MaxTick :
         get_tick_data(index, t).net =
           placed[t]
           + SumOver({i \in OpenIds : positions.at[i].lower = t}, LAMBDA i : positions.at[i].liquidity)
           - SumOver({i \in OpenIds : positions.at[i].upper = t}, LAMBDA i : positions.at[i].liquidity)
    /\ index.active = SumOver({t \in DOMAIN index.data : t <= index.current},
                              LAMBDA t : index.data[t].net)

\* Growth inside two adjoining ranges is the growth inside both together, through
\* every difference that wraps, so that a split neither earns nor loses fees.
GrowthIsAdditive ==
  index # None =>
    \A l, m, u \in DOMAIN index.data :
      (l < m /\ m < u) =>
        (get_fee_growth_inside(index, l, m) + get_fee_growth_inside(index, m, u)) % U128
          = get_fee_growth_inside(index, l, u)

\* A split leaves liquidity and fees with the same owner, to the last unit.
SplitsConserve ==
  [][\A i \in OpenIds : positions'.at[i] = None =>
       LET p == positions.at[i]
           a == positions'.at[positions.next]
           b == positions'.at[positions.next + 1]
       IN /\ a.owner = p.owner /\ b.owner = p.owner
          /\ a.lower = p.lower /\ a.upper = b.lower /\ b.upper = p.upper
          /\ a.liquidity + b.liquidity = p.liquidity
          /\ a.owed + b.owed = TotalOwed(index, p)]_vars

\* Lists a search may meet: sorted, without repeats.
Sorted(list) == \A i \in 1..Len(list) - 1 : list[i] < list[i + 1]

SortedLists ==
  {list \in UNION {[1..n -> MinTick + 1..MaxTick - 1] : n \in 0..3} : Sorted(list)}

\* The index whose list has exactly these ticks, each with the same net liquidity.
IndexOf(list, net) ==
  [list |-> list, count |-> Len(list),
   data |-> [t \in Range(list) |-> [net |-> net, gross |-> 1, outside |-> 0]]]

\* Searches, insertions up to the limit and removals in the tick list agree with
\* the set of its ticks, the root is the integer root, and efficiency grows with the range.
TickSearchExact ==
  /\ \A list \in SortedLists, t \in MinTick..MaxTick :
       /\ LET longer == insert_tick_sorted(list, t)
          IN IF Len(list) >= MaxTicks THEN longer = None
             ELSE Sorted(longer) /\ Range(longer) = Range(list) \cup {t}
       /\ Sorted(remove_tick_sorted(list, t)) /\ Range(remove_tick_sorted(list, t)) = Range(list) \ {t}
       /\ LET above == {u \in Range(list) : u >= t}
              below == {u \in Range(list) : u <= t}
          IN /\ find_next_initialized_tick(list, t, TRUE) = IF above = {} THEN None ELSE Min(above)
             /\ find_next_initialized_tick(list, t, FALSE) = IF below = {} THEN None ELSE Max(below)
  /\ \A n \in 0..PriceScale * BaseUp : integer_sqrt(n)^2 <= n /\ n < (integer_sqrt(n) + 1)^2
  /\ \A l, u \in MinTick..MaxTick : l < u => range_efficiency_bps(l, u) > 0

\* A simulated swap takes no more than is offered, and takes what its steps say.
\* Since the search counts the tick it stands on, the swap never gets past the
\* first initialized tick it meets: the iterations that are left cross the same
\* tick again for nothing, adding its liquidity every time, although the
\* documentation says that ticks are crossed as needed.
SwapStopsAtFirstTick ==
  \A list \in SortedLists, t \in MinTick..MaxTick, n \in Deltas, up \in BOOLEAN, f \in FeeBps,
    net \in {1, -1, -PriceScale - 4} :
    n > 0 =>
      LET s == simulate_swap_across_ticks(IndexOf(list, net), t, PriceScale, n, up, f)
          first == find_next_initialized_tick(list, t, up)
      IN s # None =>
         /\ s.left \in 0..n
         /\ n - s.left = FoldLeft(LAMBDA k, x : k + x.taken, 0, s.steps)
         /\ first # None =>
              /\ s.tick = first
              /\ \A i \in 2..Len(s.steps) : s.steps[i] = [from |-> first, to |-> first, taken |-> 0]

\* The guards agree: trading is allowed exactly when some price would be taken, a
\* frozen pool resumes by time or by hand only, and while the breaker is enabled
\* the accepted price moves by more than the limit in the first step after a
\* freeze only.
FreezesAreHonoured ==
  /\ [][(guard.frozen /\ ~guard'.frozen) => (CooldownOver(guard) \/ guard'.last = guard.last)]_vars
  /\ [][(guard'.last # guard.last /\ guard.last # None /\ guard.config.enabled
         /\ calculate_price_deviation_bps(guard.last, guard'.last) > guard.config.max_deviation_bps)
          => guard.frozen]_vars
  /\ [](is_pool_trading_allowed(guard) <=> \E p \in Prices : Acceptable(guard, p))

\* Whatever an administrator configured, and whatever the breaker of the same pool
\* was told, the deviation guard while enabled lets no trade pass whose spot price
\* is further from a positive average than one basis point above the ceiling: it
\* rounds the distance down.
AverageIsRespected ==
  \A a, b \in Deposits, o \in Oracles \ {None} :
    (guard.oracle.enabled /\ o > 0 /\ enforce_swap_oracle_guard(guard.oracle, a, b, o)) =>
      LET spot == compute_spot_price_from_reserves(a, b)
      IN (IF spot > o THEN spot - o ELSE o - spot) * BpsScale < (MaxDeviation + 1) * o

\* The registry lists the stored pools, each once.
RegistryExact ==
  /\ Range(registry) = {p \in DOMAIN stored : stored[p] # None}
  /\ Len(registry) = Cardinality(Range(registry))

\* Paths of distinct pools from source to destination that do not come back to
\* the source.
Paths(edges, source, destination, n) ==
  {p \in UNION {[1..k -> 1..Len(edges)] : k \in 1..n} :
     /\ IsInjective(p)
     /\ edges[p[1]].asset_in = source /\ edges[p[Len(p)]].asset_out = destination
     /\ \A i \in 1..Len(p) - 1 :
          edges[p[i]].asset_out = edges[p[i + 1]].asset_in /\ edges[p[i]].asset_out # source}

\* The route that is found gives the most of all paths, and one is found whenever
\* a path can be quoted.
BestRouteIsBest ==
  \A s, d \in Assets, n \in Amounts, h \in 1..MaxRouteDepth :
    (s # d /\ n > 0) =>
      LET edges == registered_pool_edges
          outs == {quote_path(edges, p, n) : p \in Paths(edges, s, d, h)} \ {None}
          best == find_best_route(edges, s, d, n, h)
      IN IF outs = {} THEN best = None
         ELSE best \in outs /\ best.amount_out = Max({q.amount_out : q \in outs})

\* What a pool holds of an asset, counted over all pools.
Total(s, a) ==
  FoldSet(LAMBDA p, n : n + (IF s[p] = None THEN 0
                             ELSE (IF s[p].asset_in = a THEN s[p].reserve_in ELSE 0)
                                  + (IF s[p].asset_out = a THEN s[p].reserve_out ELSE 0)),
          0, DOMAIN s)

\* A swap (a step that changes stored pools but registers none) passes on exactly
\* what each hop gave: of one asset the pools gain an amount that was brought, of
\* another they lose what comes out, of every other they hold what they held; and
\* no pool's product falls.
HopsAreConserved ==
  [][(registry' = registry /\ stored' # stored
      /\ \A p \in DOMAIN stored : stored'[p] # stored[p] => stored'[p] \notin Edges)
      => /\ \E s, d \in Assets :
              /\ Total(stored', s) - Total(stored, s) \in Amounts \ {0}
              /\ Total(stored', d) < Total(stored, d)
              /\ \A a \in Assets \ {s, d} : Total(stored', a) = Total(stored, a)
         /\ \A p \in DOMAIN stored : stored'[p] # None =>
              stored'[p].reserve_in * stored'[p].reserve_out
                >= stored[p].reserve_in * stored[p].reserve_out]_vars

\* A route that passes no asset twice and is executed gives what its simulation
\* said, and charges the fees it said.
SimulationIsExact ==
  \A r \in Routes :
    LET done == RouteResult(corridor, r)
        told == simulate_route(corridor, r, 0)
    IN (done # None /\ told # None /\ IsInjective([i \in 1..Len(r) |-> r[i].asset_in])) =>
         told.out = done.out /\ told.fees = done.fees /\ told.floor = done.out

\* total_shares is the sum of every UserShares entry, as the comment on
\* PoolReserves says.
SharesAddUp == total_shares = MapThenSumSet(LAMBDA u : shares[u], Users)

\* The pool is empty of shares exactly when both reserves are empty: no
\* sequence of swaps and withdrawals leaves shares with nothing behind them,
\* and none leaves a reserve nobody has shares in for the next first deposit.
EmptyTogether ==
  /\ (total_shares = 0) <=> (reserve_a = 0)
  /\ (total_shares = 0) <=> (reserve_b = 0)

\* Deposits and withdrawals dilute nobody: what a share stands for in either
\* asset never falls, although shares and payouts are rounded and a deposit
\* may be off the pool's ratio.
NobodyIsDiluted ==
  [][ total_shares' # total_shares /\ total_shares > 0 /\ total_shares' > 0
      => /\ reserve_a' * total_shares >= reserve_a * total_shares'
         /\ reserve_b' * total_shares >= reserve_b * total_shares' ]_vars

\* "the pool's constant product k can only stay the same or grow" in a swap,
\* and a swap never empties the reserve it pays from.
ProductNeverFalls ==
  [][ total_shares' = total_shares /\ total_shares > 0
      => /\ reserve_a' * reserve_b' >= reserve_a * reserve_b
         /\ reserve_a' > 0 /\ reserve_b' > 0 ]_vars

\* The first deposit mints the geometric mean of the two amounts rounded
\* down, which is what Newton's iteration has to compute.
FirstDepositMintsMean ==
  [][ total_shares = 0 /\ total_shares' > 0
      => /\ total_shares' * total_shares' <= reserve_a' * reserve_b'
         /\ (total_shares' + 1) * (total_shares' + 1) > reserve_a' * reserve_b' ]_vars
==============================================================================
