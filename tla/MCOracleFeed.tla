---------------------------- MODULE MCOracleFeed ----------------------------
(***************************************************************************)
(* The price feed of the oracle, for model checking.  All calls together   *)
(* are beyond TLC, so each behaviour is given one menu of calls: menu,     *)
(* fixed in the initial state.                                             *)
(*                                                                         *)
(*   "prices"     several prices over several ledgers, two delegates;      *)
(*   "providers"  two administrators appointing delegates, with an asset   *)
(*                given to initialize, liquidity and community prices;     *)
(*   "limits"     floors, bounds, deviations, their rollbacks, and         *)
(*                registrations;                                           *)
(*   "fees"       reads and their fees, rewards, and the stakes they share *)
(*                a token with;                                            *)
(*   "stakes"     stakes, slashes and unbonding;                           *)
(*   "breaker"    the circuit breaker and its coordinators;                *)
(*   "members"    subscribers and missed blocks;                           *)
(*   "slippage"   volatility and the swaps it governs;                     *)
(*   "swaps"      swaps paying for the prices they read, under the breaker *)
(*                and the halt, with prices growing old.                   *)
(*                                                                         *)
(* Assets, halts, the bypass and the expiry of averages are part of the    *)
(* first three; the others are calls of OracleEconomy.                     *)
(***************************************************************************)
EXTENDS OracleFeed, TLC

CONSTANTS m1, m2, m3, d1, d2, d3

VARIABLES
  menu,                   \* the calls that are made
  books, breaker, slip    \* the state of OracleEconomy

economyVars == <<books, breaker, slip>>

allVars == <<menu, vars, economyVars>>

\* Bounds admins may set: two valid ranges and one upside down.
MCRanges == {[min |-> 90, max |-> 105], [min |-> 90, max |-> 120], [min |-> 110, max |-> 100]}

\* The menus tell these administrators apart by nothing, nor these delegates.
Symmetry == Permutations({m1, m2}) \union Permutations({d1, d2})

P == INSTANCE OracleFeed WITH
  Admins <- {m3}, Delegates <- {d1, d2}, Community <- {}, Prices <- {100, 112},
  Floors <- {}, Ranges <- {}, Deviations <- {}, Depths <- {}, MaxLedger <- 5

A == INSTANCE OracleFeed WITH
  Admins <- {m1, m2}, Delegates <- {d1, d2}, Prices <- {0, 100},
  Floors <- {}, Ranges <- {}, Deviations <- {}, MaxLedger <- 3

L == INSTANCE OracleFeed WITH
  Admins <- {m3}, Delegates <- {d3}, Community <- {}, Prices <- {100}, Depths <- {},
  MaxLedger <- 2

\* The initial state with the asset among the pairs given to initialize.
Listed == INSTANCE OracleFeed WITH BaseAssets <- Assets

\* The economy: two tokens and two providers for the fees, small scales for the
\* slippage so that roundings and the limit of a u32 are met.
F == INSTANCE OracleEconomy WITH
  Providers <- {"p", "q"}, Publishers <- {"p", "q"}, Clients <- {"c"}, Coordinators <- {}, Tokens <- {"t", "u"},
  Assets <- {"x"}, Baskets <- {<<"x", "x">>}, Fees <- {1}, Amounts <- {1},
  Wallet <- 1, Purse <- 2, MaxAge <- 0, Ttl <- 1, UnbondingDelay <- 1, MaxTime <- 1, Prices <- {1},
  Configs <- {}, Liquidities <- {}, Scale <- 10, RateScale <- 1, MaxMultiplier <- 0,
  MinAlpha <- 1, MaxAlpha <- 5, PenaltyPerStep <- 0, PenaltyScale <- 1, U32Max <- 9,
  MaxUpdates <- 0

B == INSTANCE OracleEconomy WITH
  Providers <- {"p", "q"}, Publishers <- {"p", "q"}, Clients <- {"c"}, Coordinators <- {"k", "l"}, Tokens <- {"t", "u"},
  Assets <- {"x", "y"}, Baskets <- {<<>>, <<"x">>, <<"x", "y">>}, Fees <- {0}, Amounts <- {1},
  Wallet <- 0, Purse <- 0, MaxAge <- 1, Ttl <- 2, UnbondingDelay <- 1, MaxTime <- 0, Prices <- {1},
  Configs <- {}, Liquidities <- {}, Scale <- 10, RateScale <- 1, MaxMultiplier <- 0,
  MinAlpha <- 1, MaxAlpha <- 5, PenaltyPerStep <- 0, PenaltyScale <- 1, U32Max <- 9,
  MaxUpdates <- 0

MCSlippages ==
  {[base |-> 2, min |-> 1, max |-> 6, multiplier |-> 4, threshold |-> 3, alpha |-> 4],
   [base |-> 2, min |-> 3, max |-> 6, multiplier |-> 0, threshold |-> 0, alpha |-> 1]}

S == INSTANCE OracleEconomy WITH
  Providers <- {"p", "q"}, Publishers <- {"p"}, Clients <- {"c"}, Coordinators <- {}, Tokens <- {"t", "u"},
  Assets <- {"x", "y"}, Baskets <- {}, Fees <- {0}, Amounts <- {0, 7},
  Wallet <- 0, Purse <- 0, MaxAge <- 1, Ttl <- 2, UnbondingDelay <- 1, MaxTime <- 0, Prices <- {2, 8},
  Configs <- MCSlippages, Liquidities <- {-1, 1}, Scale <- 10, RateScale <- 10,
  MaxMultiplier <- 5, MinAlpha <- 1, MaxAlpha <- 5, PenaltyPerStep <- 2, PenaltyScale <- 5,
  U32Max <- 200, MaxUpdates <- 3

W == INSTANCE OracleEconomy WITH
  Providers <- {"p", "q"}, Publishers <- {"p"}, Clients <- {"c"}, Coordinators <- {"k"},
  Tokens <- {"t", "u"}, Assets <- {"x", "y"}, Baskets <- {<<"x", "y">>}, Fees <- {1}, Amounts <- {7},
  Wallet <- 0, Purse <- 2, MaxAge <- 0, Ttl <- 1, UnbondingDelay <- 1, MaxTime <- 1, Prices <- {8},
  Configs <- {}, Liquidities <- {1}, Scale <- 10, RateScale <- 10, MaxMultiplier <- 5,
  MinAlpha <- 1, MaxAlpha <- 5, PenaltyPerStep <- 2, PenaltyScale <- 5, U32Max <- 200,
  MaxUpdates <- 1

ASSUME F!OracleEconomyAssumption /\ B!OracleEconomyAssumption /\ S!OracleEconomyAssumption /\ W!OracleEconomyAssumption

MCInit ==
  \/ menu \in {"prices", "limits"} /\ Init /\ F!Init
  \/ menu = "providers" /\ Listed!Init /\ F!Init
  \/ menu \in {"fees", "stakes"} /\ Init /\ F!Init
  \/ menu \in {"breaker", "members"} /\ Init /\ B!Init
  \/ menu = "slippage" /\ Init /\ S!Init
  \/ menu = "swaps" /\ Init /\ W!Init

MCNext ==
  /\ UNCHANGED menu
  /\ \/ /\ UNCHANGED economyVars
        /\ \/ menu = "prices" /\ P!Next
           \/ menu = "providers" /\ A!Next
           \/ menu = "limits" /\ L!Next
     \/ /\ UNCHANGED vars
        /\ \/ menu = "fees" /\ F!FeeNext
           \/ menu = "stakes" /\ F!StakeNext
           \/ menu = "breaker" /\ B!BreakerNext
           \/ menu = "members" /\ B!MembersNext
           \/ menu = "slippage" /\ S!SlipNext
           \/ menu = "swaps" /\ W!PaidSwapNext

MCSpec == MCInit /\ [][MCNext]_allVars

-----------------------------------------------------------------------------

\* Rewards are backed by what readers paid, token by token until a claim mixes
\* the tokens, and stakes by what was staked; the breaker stops what it says and its records agree; swaps keep
\* their tolerance; medians and deviations are what their definitions say.
EconomyIsSound ==
  /\ [](menu \in {"fees", "stakes"} => F!TypeOK /\ F!RewardsMatchVaults)
  /\ [](menu \in {"breaker", "members"} => B!TypeOK /\ B!BreakerRecordsAgree /\ B!TrippedReadsStop)
  /\ [](menu = "swaps" => W!TypeOK /\ W!RewardsMatchVaults /\ W!TrippedReadsStop)
  /\ [](menu = "slippage" => S!TypeOK /\ S!SwapsKeepTheirTolerance)
  /\ [](menu = "slippage" /\ S!Init => S!MediansAreMiddles /\ S!ComputationsAgree)
  /\ F!OnlyForeignClaimsMix /\ F!OnlyRescueUncovers /\ F!UnbondingWaits /\ F!RewardsArePaidFor
  /\ B!OnlyLeaversLeave /\ B!AbsenceCosts
  /\ S!VolatilityIsSmoothed
=============================================================================
