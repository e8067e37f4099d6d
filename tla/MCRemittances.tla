---------------------------- MODULE MCRemittances ----------------------------
(***************************************************************************)
(* Money held for others, for model checking: the three contracts that     *)
(* escrow a remittance for an anchor, which are the bonded escrow of       *)
(* RemittanceEscrow, the split orders of SplitRemittance and the anchored  *)
(* remittances of AnchoredRemittance; and the vault, the farm, the guard,  *)
(* the lending pool and the liquidations of Vaults, one at a time.         *)
(*                                                                         *)
(* They share no storage and do not call each other, so a behaviour of one *)
(* is explored while the others rest: contract, fixed in the initial       *)
(* state, says which.                                                      *)
(***************************************************************************)
EXTENDS RemittanceEscrow

CONSTANTS
  \* of SplitRemittance: parties, window, scale and shares, totals, destination
  \* lists, and the bounds on tokens, orders and the clock
  SplitSenders, SplitAnchors, Window, BpsDenom, Bps, Totals, SplitLists,
  SplitSupply, MaxOrders, SplitTime,
  \* of AnchoredRemittance: parties, principals and bonds, processing window, and
  \* the bounds on the clock, remittances and tokens
  AnchSenders, AnchAnchors, Destinations, Principals, Bonds, DisputeExpiry,
  AnchTime, AnchIds, AnchSupply

VARIABLES
  contract,   \* which contract is called
  \* the state of SplitRemittance
  split_now, split_tok, split_initialized, split_order, split_released,
  split_remaining, split_next_id,
  \* the state of AnchoredRemittance
  anch_now, anch_counter, anch_remittance, anch_destination, anch_tok,
  \* the state of Vaults
  y_now, y_vault, y_share, y_bal, y_surplus, y_emptied, y_farm, y_farmer,
  y_rewards, y_guard, y_parked, y_pool, y_debtor, y_quote

splitVars ==
  <<split_now, split_tok, split_initialized, split_order, split_released,
    split_remaining, split_next_id>>
anchoredVars ==
  <<anch_now, anch_counter, anch_remittance, anch_destination, anch_tok>>
yieldVars ==
  <<y_now, y_vault, y_share, y_bal, y_surplus, y_emptied, y_farm, y_farmer,
    y_rewards, y_guard, y_parked, y_pool, y_debtor, y_quote>>
allVars == <<contract, vars, splitVars, anchoredVars, yieldVars>>

-----------------------------------------------------------------------------

Dest(anchor, bps) == [anchor |-> anchor, bps |-> bps]

\* Destination lists.  Some are refused: an empty list, shares that do not add
\* up, and a share of zero.  In the first set an anchor is named at most once,
\* in the second it may receive through two legs.
Distinct ==
  { <<>>, <<Dest("x", 4)>>, <<Dest("x", 1), Dest("y", 3)>>,
    <<Dest("y", 2), Dest("x", 2)>>, <<Dest("x", 1), Dest("y", 1)>>,
    <<Dest("x", 0), Dest("y", 4)>> }
Repeated == Distinct \union {<<Dest("x", 1), Dest("y", 1), Dest("x", 2)>>}

Split == INSTANCE SplitRemittance WITH
  Senders <- SplitSenders, Anchors <- SplitAnchors, Amounts <- Totals,
  Splits <- SplitLists, Supply <- SplitSupply, MaxTime <- SplitTime,
  now <- split_now, tok <- split_tok, initialized <- split_initialized,
  order <- split_order, released <- split_released,
  remaining <- split_remaining, next_id <- split_next_id

Anchored == INSTANCE AnchoredRemittance WITH
  Senders <- AnchSenders, Anchors <- AnchAnchors, MaxTime <- AnchTime,
  MaxIds <- AnchIds, Supply <- AnchSupply, now <- anch_now,
  counter <- anch_counter, remittance <- anch_remittance,
  destination <- anch_destination, tok <- anch_tok

Yield == INSTANCE Vaults WITH
  Holders <- {"u1", "u2"}, Keeper <- "keeper", FeeTo <- "fees", Vault <- "vault",
  Scale <- 10, Precision <- 20, FeesAsked <- {0, 5, 6}, MaxFee <- 5, MaxDrawdown <- 1,
  Amounts <- {0, 1, 2, 3}, Emission <- 3, Multipliers <- {5, 21}, MaxMultiplier <- 20,
  Prices <- {0, 7, 8, 10}, Limits <- {0, 2, 20, 21}, MaxLimit <- 20, Windows <- {0, 2},
  MaxSamples <- 3, VaultIds <- {"v1", "v2"}, Tokens <- {"usd", "rwd"},
  RateConfig <- [base |-> 1, multiplier |-> 4, jump |-> 10, optimal |-> 6, ledgers_per_year |-> 2],
  MaxExponent <- 60, MaxTerms <- 20,
  Threshold <- 12, Distressed <- 11, Bonus <- 2, Degradation <- 6, MaxBonus <- 7, SwapFee <- 1,
  MaxTime <- 4, MaxAssets <- 5, MaxFunds <- 4, MaxStakes <- 3, MaxParked <- 3,
  now <- y_now, vault <- y_vault, share <- y_share, bal <- y_bal,
  surplus <- y_surplus, emptied <- y_emptied, farm <- y_farm,
  farmer <- y_farmer, rewards <- y_rewards, guard <- y_guard,
  parked <- y_parked, pool <- y_pool, debtor <- y_debtor, quote <- y_quote

ASSUME Yield!VaultsAssumption
ASSUME SplitAssumption == Split!SplitRemittanceAssumption
ASSUME AnchAssumption == Anchored!AnchoredAssumption

\* Bounds: the farm is explored for fewer ledgers and with smaller stakes.
MaxFarmTime == 3
MaxFarm == 3

MCInit ==
  /\ contract \in {"escrow", "split", "anchored",
                   "vault", "farm", "guard", "reserves", "interest", "liquidation"}
  /\ Init /\ Split!Init /\ Anchored!Init /\ Yield!Init

YieldStep ==
  \/ contract = "vault" /\ Yield!VaultNext
  \/ contract = "farm" /\ Yield!FarmNext /\ y_now' <= MaxFarmTime /\ y_farm'.total <= MaxFarm
  \/ contract = "guard" /\ Yield!GuardNext
  \/ contract = "reserves" /\ Yield!ReserveNext
  \/ contract = "interest" /\ Yield!InterestNext
  \/ contract = "liquidation" /\ Yield!LiquidationNext

MCNext ==
  /\ UNCHANGED contract
  /\ \/ contract = "escrow" /\ Next /\ UNCHANGED <<splitVars, anchoredVars, yieldVars>>
     \/ contract = "split" /\ Split!Next /\ UNCHANGED <<vars, anchoredVars, yieldVars>>
     \/ contract = "anchored" /\ Anchored!Next /\ UNCHANGED <<vars, splitVars, yieldVars>>
     \/ YieldStep /\ UNCHANGED <<vars, splitVars, anchoredVars>>

\* The fairness of the contract that is called: ledgers keep closing, and a
\* sender who may dispute a remittance, or take back an order, does so.
MCSpec ==
  /\ MCInit /\ [][MCNext]_allVars
  /\ WF_vars(contract = "escrow" /\ Tick)
  /\ \A s \in Senders, i \in Ids : WF_vars(contract = "escrow" /\ open_dispute(s, i))
  /\ WF_splitVars(contract = "split" /\ Split!Tick)
  /\ \A s \in SplitSenders, i \in Split!Ids :
       WF_splitVars(contract = "split" /\ Split!refund_unsettled(s, i))

-----------------------------------------------------------------------------

\* Every storage entry of the three remittance contracts is well formed, and no
\* balance is negative.
TypesOK == TypeOK /\ Split!TypeOK /\ Anchored!TypeOK

\* Storage is well formed, and every token the three contracts hold, or have
\* paid out, is where their records say: refunds can always be paid, rounding
\* loses nothing, and no party is out of pocket for more than what is still
\* open.
BooksSquare ==
  /\ TypesOK /\ BooksBalance
  /\ Split!LegsAddUp /\ Split!HoldsTheRemaining /\ Split!BalancesFollowLegs
  /\ Anchored!EveryPartySquare

\* Before its window has ended only the anchor takes anything out of a split
\* order, and no anchored remittance is escalated; once it has ended, a sender
\* who insists gets the remittance or order resolved (from the bonded escrow as
\* soon as a treasury is configured).
RefundedInTime ==
  /\ Split!AnchorsHaveTheirWindow /\ Anchored!ImplementsCustody
  /\ DisputesAreHonoured /\ Split!OrdersAreResolved

\* Storage is well formed; the vault's books agree with its holders and its
\* balance, which anything left over blocks for good; the value of a share never
\* falls, rewards stay within what was emitted and only their owner's calls take
\* them, the pause follows the price samples, the guards' booked reserves lie in
\* the balance they share but for two named exceptions, interest and
\* liquidations are bounded and complete.
YieldIsAccounted ==
  /\ []Yield!TypeOK
  /\ [](contract = "vault" => Yield!VaultBooksExact)
  /\ [](contract = "farm" => Yield!RewardsWithinEmission)
  /\ [](contract = "liquidation" => Yield!LiquidationConserves)
  /\ Yield!ShareValueNeverFalls /\ Yield!SurplusBlocksTheVault /\ Yield!EarningsAreSafe
  /\ Yield!PauseFollowsSamples /\ Yield!BookedReservesArePresent
  /\ Yield!InterestIsBounded /\ Yield!DeleveragingIsFair

\* Every anchor of a split order receives what its legs say, and what is locked
\* is what no leg has released (DataKey::RemainingLocked, OrderStatus::Completed).
LegsArePaid == Split!BalancesFollowLegs
==============================================================================
