----------------------------- MODULE MCMarkets -----------------------------
(***************************************************************************)
(* Trading, for model checking: the triggers of StopLoss, the orders of    *)
(* LimitBook (once three that do not expire, and once two that may, with a *)
(* treasury for the fees), the market maker of Amm with its tick bitmap,   *)
(* its wide arithmetic and its halt switch, and the constant-product pool, *)
(* the positions, the price guards and the two routers of Pools.           *)
(*                                                                         *)
(* They share no storage and do not call each other, so a behaviour of one *)
(* is explored while the others rest: contract, fixed in the initial       *)
(* state, says which.                                                      *)
(***************************************************************************)
EXTENDS StopLoss, TLC

CONSTANTS o1, o2, xlm, usd   \* owners and assets of the triggers

VARIABLES
  contract,   \* which contract is called
  \* the state of Pools
  pool_tokens, pool_reserve_a, pool_reserve_b, pool_total_shares, pool_shares,
  cor_index, cor_positions, cor_placed, cor_guard,
  rt_registry, rt_stored, rt_router, rt_corridor,
  \* the state of LimitBook
  ord_now, ord_treasury, ord_next_id, ord_book, ord_credit, ord_balance,
  \* the state of Amm
  amm_pool, amm_held, amm_words, amm_spacing, amm_probe, amm_halt

poolVars ==
  <<pool_tokens, pool_reserve_a, pool_reserve_b, pool_total_shares, pool_shares>>
ordVars == <<ord_now, ord_treasury, ord_next_id, ord_book, ord_credit, ord_balance>>
ammVars == <<amm_pool, amm_held, amm_words, amm_spacing, amm_probe, amm_halt>>
corVars == <<cor_index, cor_positions, cor_placed, cor_guard>>
rtVars == <<rt_registry, rt_stored, rt_router, rt_corridor>>
allVars == <<contract, vars, poolVars, ordVars, ammVars, corVars, rtVars>>

-----------------------------------------------------------------------------

Request(owner, sell, buy, amount, stop, condition, low, high, out) ==
  [owner |-> owner, sell_asset |-> sell, buy_asset |-> buy, sell_amount |-> amount,
   stop_price |-> stop, condition |-> condition, min_fill_price |-> low,
   max_fill_price |-> high, min_amount_out |-> out, active |-> TRUE]

\* Triggers that all sell the same asset.  Two are refused: an empty sale, and
\* a fill corridor whose bounds are reversed.
OneWay ==
  { Request(o1, xlm, usd, 2, 2, "PriceBelow", 2, 3, 1), Request(o1, xlm, usd, 1, 3, "PriceAbove", 1, 3, 1),
    Request(o2, xlm, usd, 1, 1, "PriceBelow", 1, 2, 0), Request(o2, xlm, usd, 2, 3, "PriceBelow", 2, 3, 2),
    Request(o2, xlm, usd, 0, 1, "PriceBelow", 1, 2, 0), Request(o2, xlm, usd, 1, 1, "PriceBelow", 2, 1, 0) }

\* What one owner sells is what the other buys.
BothWays ==
  { Request(o1, xlm, usd, 2, 2, "PriceBelow", 2, 3, 1),
    Request(o2, usd, xlm, 1, 2, "PriceBelow", 1, 3, 1) }

\* Every maker sells or buys one asset for the other.
OnePair == {[sell_asset |-> xlm, buy_asset |-> usd]}

\* m1 has n of what the pair sells and m2 has one less of what it is paid with.
MCWallets(n) == xlm :> ("m1" :> n @@ "m2" :> 0) @@ usd :> ("m1" :> 0 @@ "m2" :> n - 1)

Orders == INSTANCE LimitBook WITH
  Accounts <- {"m1", "m2"}, Book <- "book", Treasuries <- {}, Pairs <- OnePair,
  Ticks <- {1, 2}, PriceScale <- 2, Amounts <- {1, 3}, Expiries <- {0},
  FeeBps <- 1, DustBps <- 1, BpsScale <- 2, Wallets <- MCWallets(3),
  MaxOrders <- 3, MaxLedger <- 1, now <- ord_now, treasury <- ord_treasury,
  next_id <- ord_next_id, book <- ord_book, credit <- ord_credit, balance <- ord_balance

\* The same storage with a treasury and orders that may expire.
Expiring == INSTANCE LimitBook WITH
  Accounts <- {"m1", "m2"}, Book <- "book", Treasuries <- {"m2"}, Pairs <- OnePair,
  Ticks <- {1, 2}, PriceScale <- 2, Amounts <- {0, 1, 3}, Expiries <- {0, 1},
  FeeBps <- 1, DustBps <- 1, BpsScale <- 2, Wallets <- MCWallets(4),
  MaxOrders <- 3, MaxLedger <- 2, now <- ord_now, treasury <- ord_treasury,
  next_id <- ord_next_id, book <- ord_book, credit <- ord_credit, balance <- ord_balance

\* Bound: orders that may expire.
MaxExpiring == 2

\* Half of what is brought is the highest fee, which the volatility exceeds and one
\* of the two configurations may not; one signer may be listed twice; a drop is measured in tenths,
\* and the price of a tick is half as much again as that of the one below.
Market == INSTANCE Amm WITH
  Users <- {"u1", "u2"}, Cores <- {0, 2}, Amounts <- {0, 1, 3}, Minimums <- {0, 2}, Wallet <- 3,
  HalfBits <- 4, MaxFeeBps <- 2, BpsScale <- 4,
  FeeConfigs <- {[f_base |-> 0, f_scalar |-> 1], [f_base |-> 3, f_scalar |-> 0]}, Sigmas <- {3},
  MinTick <- -5, MaxTick <- 5, Spacings <- {0, 1, 2, 4}, MaxTickSpacing <- 3, WordBits <- 4,
  PowTable <- <<24, 36, 81>>, PriceOne <- 16, 
  SignerLists <- {<<"s1", "s2", "s3">>, <<"s1", "s1", "s2">>}, Required <- 2,
  Liquidities <- {0, 6, 7, 10}, Baseline <- 10, DropScale <- 10, DropLimit <- 3, MaxX <- 6,
  pool <- amm_pool, held <- amm_held, words <- amm_words, spacing <- amm_spacing,
  probe <- amm_probe, halt <- amm_halt

\* The wide arithmetic alone, on words of four bits.
Words == INSTANCE Amm WITH
  Users <- {}, Cores <- {}, Amounts <- {}, Minimums <- {}, Wallet <- 0, HalfBits <- 2,
  MaxFeeBps <- 0, BpsScale <- 1, FeeConfigs <- {}, Sigmas <- {}, MinTick <- 0, MaxTick <- 0,
  Spacings <- {1}, MaxTickSpacing <- 1, WordBits <- 1, PowTable <- <<1>>, PriceOne <- 1,
  SignerLists <- {<<>>}, Required <- 0, Liquidities <- {}, Baseline <- 0, DropScale <- 1,
  DropLimit <- 1, MaxX <- 0, pool <- amm_pool, held <- amm_held, words <- amm_words,
  spacing <- amm_spacing, probe <- amm_probe, halt <- amm_halt

BreakerConfigs ==
  { [max_deviation_bps |-> 3, cooldown_ledgers |-> 2, enabled |-> TRUE],
    [max_deviation_bps |-> 1, cooldown_ledgers |-> 1, enabled |-> FALSE],
    [max_deviation_bps |-> 0, cooldown_ledgers |-> 2, enabled |-> TRUE] }

MCDeviations ==
  { [max_deviation_bps |-> 5, enabled |-> TRUE], [max_deviation_bps |-> 1, enabled |-> FALSE],
    [max_deviation_bps |-> 6, enabled |-> TRUE] }

Edge(p, i, o, x, y) ==
  [pool |-> p, asset_in |-> i, asset_out |-> o, reserve_in |-> x, reserve_out |-> y, fee_bps |-> 1]

\* Two ways from A to C, a pool back from C to B, one pool with other reserves,
\* and one that is refused.
MCEdges ==
  { Edge("p1", "A", "B", 4, 6), Edge("p2", "B", "C", 5, 5), Edge("p3", "A", "C", 3, 4),
    Edge("p4", "C", "B", 4, 8), Edge("p2", "B", "C", 3, 3), Edge("p3", "A", "A", 3, 3) }

Step(i, o, n, m) == [asset_in |-> i, asset_out |-> o, amount_in |-> n, min_amount_out |-> m]

\* Routes of one, two and three hops, one that passes A twice and one with a gap.
MCRoutes ==
  {<<Step("A", "B", n, m)>> : n \in {0, 2, 4}, m \in {0, 2}}
  \cup {<<Step("A", "B", 4, 0), Step("B", "C", 1, m)>> : m \in {0, 1}}
  \cup {<<Step("A", "B", 4, 0), Step("B", "A", 1, 0), Step("A", "C", 1, 0)>>,
        <<Step("B", "A", 4, 1), Step("C", "A", 1, 1)>>}

MCRouterConfigs ==
  { [max_price_impact_bps |-> 9, max_hops |-> 2, enabled |-> TRUE],
    [max_price_impact_bps |-> 4, max_hops |-> 3, enabled |-> FALSE],
    [max_price_impact_bps |-> 11, max_hops |-> 4, enabled |-> TRUE] }

Pools == INSTANCE Pools WITH
  Owners <- {o1, o2}, Spacings <- {0, 2}, MinTick <- -2, MaxTick <- 2, MaxTicks <- 2,
  Deltas <- {-2, 2}, U64 <- 16,
  Fees <- {0, 1}, GrowthScale <- 2, U128 <- 3, BaseUp <- 3, BaseDown <- 2, PriceScale <- 16,
  BpsScale <- 10, FeeBps <- {0, 3}, Admins <- {"a1", "a2", "a3"}, Prices <- {0, 8, 10, 16},
  Configs <- BreakerConfigs, DeviationConfigs <- MCDeviations, MaxDeviation <- 5, Oracles <- {None, 0, 8, 10, 16}, MaxPositions <- 3,
  MaxGross <- 4, MaxGrowth <- 2, MaxLedger <- 5,
  Callers <- {"admin", "other"}, Admin <- "admin", Edges <- MCEdges, Assets <- {"A", "B", "C"},
  Amounts <- {0, 4}, Minimums <- {0, 2}, MaxRouteDepth <- 3, MaxCandidatePools <- 3,
  Impacts <- {2, 9}, RouterConfigs <- MCRouterConfigs, Routes <- MCRoutes, MaxRouteHops <- 3,
  Corridors <- [{"A", "B", "C"} -> {[collected |-> 0, variable |-> 5], [collected |-> 3, variable |-> 6]}],
  RouteFeeBps <- 2, MinTransfer <- 1, MaxReserve <- 14,
  Users <- {"u1", "u2"}, Tokens <- {"ta", "tb"}, Deposits <- {0, 1, 2, 5}, I128Max <- 20,
  index <- cor_index, positions <- cor_positions, placed <- cor_placed, guard <- cor_guard,
  registry <- rt_registry, stored <- rt_stored, router <- rt_router, corridor <- rt_corridor,
  tokens <- pool_tokens, reserve_a <- pool_reserve_a, reserve_b <- pool_reserve_b,
  total_shares <- pool_total_shares, shares <- pool_shares

\* The computations on ticks, over more of them.
WideTicks == INSTANCE Pools WITH
  Owners <- {}, Spacings <- {}, MinTick <- -4, MaxTick <- 4, MaxTicks <- 3,
  Deltas <- {1, 4}, U64 <- 64, DeviationConfigs <- {},
  Fees <- {}, GrowthScale <- 1, U128 <- 1, BaseUp <- 3, BaseDown <- 2, PriceScale <- 16,
  BpsScale <- 10, FeeBps <- {0, 3}, Admins <- {}, Prices <- {}, Configs <- {},
  MaxDeviation <- 1, Oracles <- {}, MaxPositions <- 1, MaxGross <- 1, MaxGrowth <- 1,
  MaxLedger <- 1,
  Callers <- {}, Admin <- None, Edges <- {}, Assets <- {}, Amounts <- {}, Minimums <- {},
  MaxRouteDepth <- 1, MaxCandidatePools <- 1, Impacts <- {}, RouterConfigs <- {}, Routes <- {},
  MaxRouteHops <- 1, Corridors <- {}, RouteFeeBps <- 0, MinTransfer <- 0, MaxReserve <- 1,
  Users <- {}, Tokens <- {}, Deposits <- {}, I128Max <- 0,
  index <- cor_index, positions <- cor_positions, placed <- cor_placed, guard <- cor_guard,
  registry <- rt_registry, stored <- rt_stored, router <- rt_router, corridor <- rt_corridor,
  tokens <- pool_tokens, reserve_a <- pool_reserve_a, reserve_b <- pool_reserve_b,
  total_shares <- pool_total_shares, shares <- pool_shares

ASSUME
  /\ StopLossAssumption /\ Pools!PoolsAssumption
  /\ Orders!LimitBookAssumption /\ Expiring!LimitBookAssumption
  /\ Market!AmmAssumption /\ Words!AmmAssumption

MCInit ==
  /\ contract \in {"triggers", "pool", "orders", "expiring", "amm", "ticks", "halt", "words",
                   "positions", "breaker", "router", "routes"}
  /\ Init /\ Pools!Init /\ Market!Init
  /\ IF contract = "orders" THEN Orders!Init ELSE Expiring!Init
  /\ contract # "ticks" => amm_spacing = 1
  /\ contract # "halt" => amm_halt.signers = <<"s1", "s2", "s3">>
  /\ contract # "breaker" => cor_guard.admin = "a1" /\ cor_guard.emergency = "a2"
  /\ contract # "routes" => \A a \in DOMAIN rt_corridor : rt_corridor[a].collected = 0

\* Bound: ticks with liquidity that no position placed.
MaxPlaced == 1

MCNext ==
  /\ UNCHANGED contract
  /\ \/ /\ contract = "triggers" /\ Next
        /\ UNCHANGED <<poolVars, ordVars, ammVars, corVars, rtVars>>
     \/ /\ contract = "pool" /\ Pools!PoolNext
        /\ UNCHANGED <<vars, ordVars, ammVars, corVars, rtVars>>
     \/ /\ \/ contract = "orders" /\ Orders!Next
           \/ contract = "expiring" /\ Expiring!Next /\ ord_next_id' <= MaxExpiring
        /\ UNCHANGED <<vars, poolVars, ammVars, corVars, rtVars>>
     \/ /\ \/ contract = "amm" /\ Market!PoolNext
           \/ contract = "ticks" /\ Market!BitmapNext
           \/ contract = "halt" /\ Market!HaltNext
           \/ contract = "words" /\ Words!ComputeNext
        /\ UNCHANGED <<vars, poolVars, ordVars, corVars, rtVars>>
     \/ /\ \/ /\ contract = "positions" /\ Pools!TickNext
              /\ Cardinality({t \in DOMAIN cor_placed' : cor_placed'[t] # 0}) <= MaxPlaced
           \/ contract = "breaker" /\ Pools!BreakerNext
        /\ UNCHANGED <<vars, poolVars, ordVars, ammVars, rtVars>>
     \/ /\ \/ contract = "router" /\ Pools!RouterNext
           \/ contract = "routes" /\ Pools!RouteNext
        /\ UNCHANGED <<vars, poolVars, ordVars, ammVars, corVars>>

MCSpec == MCInit /\ [][MCNext]_allVars

-----------------------------------------------------------------------------

BookCalled == contract \in {"orders", "expiring"}

\* While all triggers sell the same asset, the handler covers every escrow, and
\* a trigger ends once, with its owner paid on the terms it was placed with.
TriggersEndOnTheirTerms == []TypeOK /\ []EscrowsCovered /\ SettledOnOwnersTerms

\* Nobody's share of the pool is diluted: shares add up and are backed by both
\* reserves, deposits and withdrawals never lower what a share stands for, and
\* swaps never lower the product of the reserves.
SharesKeepTheirValue ==
  /\ []Pools!SharesAddUp /\ []Pools!EmptyTogether
  /\ Pools!NobodyIsDiluted /\ Pools!ProductNeverFalls /\ Pools!FirstDepositMintsMean

\* The index of the book is exact after every sequence of placements, fills,
\* matches, purges and cancellations, so a market order fills by price, then
\* time; and what open orders lock and past matches credited stays covered
\* through rounding, dust, fees and sweeps: a keeper's fill of a bid is the one
\* step that takes the cover away.
OrdersFilledInTurn ==
  /\ [](BookCalled => Expiring!TypeOK /\ Expiring!BookIndexExact /\ Expiring!PriceTimePriority)
  /\ Expiring!OnlyBidFillsUncover

\* The pool dilutes nobody; the market maker holds what it records, trades
\* without loss on its effective reserves and keeps its core from everyone but
\* traders; liquidity and fees of positions survive every split.
MarketMakersKeepTheirBooks ==
  /\ []Pools!TypeOK /\ SharesKeepTheirValue
  /\ [](contract \in {"amm", "ticks", "halt"} => Market!TypeOK)
  /\ [](contract = "amm" => Market!ReservesAreHeld /\ Market!RoundTripsPay)
  /\ Market!CoreIsKept /\ Market!FeeIsCapped
  /\ [](contract = "positions" =>
          Pools!NetFollowsPositions /\ Pools!GrowthIsAdditive)
  /\ Pools!SplitsConserve

\* What is searched or computed in clever ways is what the plain definition says:
\* wide products and quotients, the next tick in the bitmap and in the list, the
\* tick of a price, integer roots, the best route and the simulated one.
SearchesAreExact ==
  /\ [](contract = "words" => Words!WideArithmeticExact)
  /\ [](contract = "ticks" /\ amm_spacing \in {1, 2} => Market!SearchFindsNearest)
  /\ [](contract = "ticks" /\ amm_words = <<>> => Market!PricesInvert)
  /\ [](contract = "breaker" /\ cor_guard.now = 0 /\ cor_guard.last = None =>
          WideTicks!TickSearchExact /\ WideTicks!SwapStopsAtFirstTick)
  /\ [](contract = "router" => Pools!RegistryExact /\ Pools!BestRouteIsBest)
  /\ [](contract = "routes" => Pools!SimulationIsExact)
  /\ Pools!HopsAreConserved

\* Trading stops when it must and resumes when it may: a halt is lifted by
\* approvals only, and no more often than there are signers left, a freeze by time
\* or by hand; and no trade passes the deviation guard far from the average.
TradingHaltsHold ==
  /\ Market!HaltsAreLiftedByQuorum /\ Pools!FreezesAreHonoured
  /\ [](contract = "breaker" => Pools!AverageIsRespected)
=============================================================================
