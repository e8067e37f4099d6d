----------------------------- MODULE LimitBook -----------------------------
(***************************************************************************)
(* The limit order book of the core contract (src/orders/limit.rs).        *)
(*                                                                         *)
(* An ask locks the asset it sells, a bid the asset it pays with.  An open *)
(* order stands in the bucket of its price, which bids and asks share, and *)
(* its volume in the tick volume of its side; the prices with a tick       *)
(* volume are kept sorted, best first.  Orders leave by a keeper's fill,   *)
(* by the crossing of an ask with a bid, by a market order that sweeps one *)
(* side, or by their maker's cancellation, and a remainder too small to    *)
(* matter is purged and refunded.                                          *)
(*                                                                         *)
(* filled_amount is what original lacks in remaining and never read, and   *)
(* the two assertions on fills follow from truncating division; neither is *)
(* kept.  The time-to-live of storage entries is not modelled.             *)
(***************************************************************************)
EXTENDS Balances, SequencesExt

CONSTANTS
  Accounts,      \* makers, takers and fillers
  Book,          \* the contract's own address
  Treasuries,    \* accounts initialize may name as the treasury
  None,          \* no treasury, no record, or transfers that do not succeed
  Pairs,         \* AssetPair: records with sell_asset and buy_asset
  Ticks,         \* prices in buy_asset per sell_asset, in units of 1/PriceScale
  PriceScale,    \* PRICE_SCALE
  Amounts,       \* amounts a caller may pass
  Expiries,      \* expiry ledgers a maker may name, 0 for none
  FeeBps,        \* PROTOCOL_FEE_BPS
  DustBps,       \* ORDER_DUST_BPS
  BpsScale,      \* BPS_SCALE
  Wallets,       \* tokens of each asset every account starts with
  MaxOrders,     \* bound on the orders ever placed
  MaxLedger      \* bound on the ledger sequence

PairAssets == {p.sell_asset : p \in Pairs} \union {p.buy_asset : p \in Pairs}
Sides == {"Sell", "Buy"}
Ids == 0..(MaxOrders - 1)

LimitBookAssumption ==
  /\ Book \notin Accounts /\ Treasuries \subseteq Accounts /\ None \notin Accounts
  /\ Ticks \subseteq Int /\ Amounts \subseteq Int /\ Expiries \subseteq Nat
  /\ PriceScale \in Nat \ {0} /\ BpsScale \in Nat \ {0}
  /\ FeeBps \in 0..BpsScale /\ DustBps \in Nat
  /\ Wallets \in [PairAssets -> [Accounts -> Nat]]
  /\ {MaxOrders, MaxLedger} \subseteq Nat

VARIABLES
  now,        \* ledger sequence
  treasury,   \* TREASURY_KEY
  next_id,    \* OrderStorageKey::NextOrderId
  book,       \* orders, buckets, tick volumes and active ticks
  credit,     \* OrderStorageKey::Balance(owner, asset)
  balance     \* token balances per asset (external)

vars == <<now, treasury, next_id, book, credit, balance>>

LimitOrder ==
  [maker : Accounts, pair : Pairs, side : Sides, tick : Ticks,
   original : Nat, remaining : Nat, expiry : Expiries, active : BOOLEAN]

\* Mutant: the quote is rounded up.
quote_amount_RoundedUp(amount, tick) == (amount * tick + PriceScale - 1) \div PriceScale

quote_amount(amount, tick) == (amount * tick) \div PriceScale
protocol_fee(amount) == (amount * FeeBps) \div BpsScale

\* What an order locks for an amount still to be traded, and in which asset.
LockedFor(o, amount) == IF o.side = "Buy" THEN quote_amount(amount, o.tick) ELSE amount
LockedAsset(o) == IF o.side = "Buy" THEN o.pair.buy_asset ELSE o.pair.sell_asset

IsOpen(o) == o # None /\ o.active
Expired(o) == o.expiry # 0 /\ now > o.expiry

-----------------------------------------------------------------------------
\* Token transfers of one call: they succeed in order, or the call fails.

Transfer(asset, from, to, amount) ==
  [asset |-> asset, from |-> from, to |-> to, amount |-> amount]

Apply(bal, t) ==
  IF bal = None THEN None
  ELSE IF ~CanMove(bal[t.asset], t.from, t.amount) THEN None
  ELSE [bal EXCEPT ![t.asset] = Move(@, t.from, t.to, t.amount)]

AfterTransfers(transfers) == FoldLeft(Apply, balance, transfers)

\* The release of locked collateral, left out when there is nothing to release.
Release(o, amount) ==
  IF LockedFor(o, amount) = 0 THEN <<>>
  ELSE << Transfer(LockedAsset(o), Book, o.maker, LockedFor(o, amount)) >>

-----------------------------------------------------------------------------
\* The book: buckets, tick volumes and active ticks.

Better(side, s, t) == IF side = "Buy" THEN s > t ELSE s < t

add_tick_liquidity(b, p, side, t, amount) ==
  [b EXCEPT !.volume[p, side, t] = @ + amount,
            !.ticks[p, side] =
              IF b.volume[p, side, t] = 0
              THEN SortSeq(Append(@, t), LAMBDA x, y : Better(side, x, y)) ELSE @]

remove_tick_liquidity(b, p, side, t, amount) ==
  LET left == IF b.volume[p, side, t] <= amount THEN 0 ELSE b.volume[p, side, t] - amount
  IN  [b EXCEPT !.volume[p, side, t] = left,
                !.ticks[p, side] = IF left = 0 THEN Remove(@, t) ELSE @]

PlaceInBook(b, id, o) ==
  add_tick_liquidity(
    [b EXCEPT !.order[id] = o, !.bucket[o.pair, o.tick] = Append(@, id)],
    o.pair, o.side, o.tick, o.original)

is_dust_remainder(remaining, original) == remaining * BpsScale < original * DustBps

\* What a fill leaves behind as dust; zero when it closes the order or leaves
\* a remainder that keeps resting.
DustAfter(o, amount) ==
  LET left == o.remaining - amount
  IN  IF is_dust_remainder(left, o.original) THEN left ELSE 0

apply_partial_fill(b, id, amount) ==
  LET o == b.order[id]
      left == o.remaining - amount
      after == [o EXCEPT !.remaining = left, !.active = left > 0]
      purged == DustAfter(o, amount) > 0
  IN  [b EXCEPT !.order[id] = IF purged THEN None ELSE after,
                !.bucket[o.pair, o.tick] = IF purged \/ left = 0 THEN Remove(@, id) ELSE @]

\* A fill that also drains the tick volume by what it took and purged.
FillAndDrain(b, id, amount) ==
  LET o == b.order[id]
  IN  remove_tick_liquidity(apply_partial_fill(b, id, amount), o.pair, o.side, o.tick,
                            amount + DustAfter(o, amount))

cancel_order_inner(b, id) ==
  LET o == b.order[id]
  IN  remove_tick_liquidity(
        [b EXCEPT !.order[id].remaining = 0, !.order[id].active = FALSE,
                  !.bucket[o.pair, o.tick] = Remove(@, id)],
        o.pair, o.side, o.tick, o.remaining)

-----------------------------------------------------------------------------

Init ==
  /\ now = 1
  /\ treasury = None
  /\ next_id = 0
  /\ book = [order |-> [i \in Ids |-> None],
             bucket |-> [x \in Pairs \X Ticks |-> <<>>],
             volume |-> [x \in Pairs \X Sides \X Ticks |-> 0],
             ticks |-> [x \in Pairs \X Sides |-> <<>>]]
  /\ credit = [s \in PairAssets |-> [a \in Accounts |-> 0]]
  /\ balance = [s \in PairAssets |-> [a \in Accounts \union {Book} |->
                                    IF a = Book THEN 0 ELSE Wallets[s][a]]]

NextLedger ==
  /\ now < MaxLedger
  /\ now' = now + 1
  /\ UNCHANGED <<treasury, next_id, book, credit, balance>>

\* The part of initialize the book depends on; orders may precede it.
initialize(t) ==
  /\ treasury = None
  /\ treasury' = t
  /\ UNCHANGED <<now, next_id, book, credit, balance>>

PlaceOrder(m, p, side, t, amount, expiry) ==
  LET o == [maker |-> m, pair |-> p, side |-> side, tick |-> t, original |-> amount,
            remaining |-> amount, expiry |-> expiry, active |-> TRUE]
  IN  /\ next_id \in Ids
      /\ amount > 0
      /\ t > 0
      /\ CanMove(balance[LockedAsset(o)], m, LockedFor(o, amount))
      /\ balance' = [balance EXCEPT ![LockedAsset(o)] = Move(@, m, Book, LockedFor(o, amount))]
      /\ next_id' = next_id + 1
      /\ book' = PlaceInBook(book, next_id, o)
      /\ UNCHANGED <<now, treasury, credit>>

place_order_with_expiry(m, p, t, amount, expiry) == PlaceOrder(m, p, "Sell", t, amount, expiry)

place_buy_order(m, p, t, amount) == PlaceOrder(m, p, "Buy", t, amount, 0)

\* fill_order and execute_partial_fill.  The side of the order is not looked
\* at: the filler pays the maker in buy_asset and takes sell_asset from the
\* contract whether or not the order locked any.
fill_order(f, id, amount) ==
  LET o == book.order[id]
      after == AfterTransfers(
                 << Transfer(o.pair.buy_asset, f, o.maker, quote_amount(amount, o.tick)),
                    Transfer(o.pair.sell_asset, Book, f, amount) >>
                 \o Release(o, DustAfter(o, amount)))
  IN  /\ amount > 0
      /\ IsOpen(o)
      /\ ~Expired(o)
      /\ amount <= o.remaining
      /\ after # None
      /\ balance' = after
      /\ book' = FillAndDrain(book, id, amount)
      /\ UNCHANGED <<now, treasury, next_id, credit>>

\* Credits of one call: a sequence of <<account, asset, amount>>.
Credit(credits) ==
  FoldLeft(LAMBDA c, x : [c EXCEPT ![x[2]][x[1]] = @ + x[3]], credit, credits)

\* Anyone may cross an ask with a bid.  Neither expiry is looked at and no tick
\* volume is drained.  Without a treasury the fees stay in the contract.
match_orders(sid, bid, amount) ==
  LET seller == book.order[sid]
      buyer == book.order[bid]
      base == seller.pair.sell_asset
      quote == seller.pair.buy_asset
      paid == quote_amount(amount, seller.tick)
      improvement == quote_amount(amount, buyer.tick) - paid
  IN  /\ amount > 0
      /\ IsOpen(seller) /\ IsOpen(buyer)
      /\ seller.side = "Sell" /\ buyer.side = "Buy"
      /\ seller.pair = buyer.pair
      /\ buyer.tick >= seller.tick
      /\ amount <= seller.remaining /\ amount <= buyer.remaining
      /\ book' = apply_partial_fill(apply_partial_fill(book, sid, amount), bid, amount)
      /\ credit' = Credit(
           << <<seller.maker, quote, paid - protocol_fee(paid)>>,
              <<buyer.maker, base, amount - protocol_fee(amount)>>,
              <<buyer.maker, quote, improvement>>,
              <<seller.maker, base, LockedFor(seller, DustAfter(seller, amount))>>,
              <<buyer.maker, quote, LockedFor(buyer, DustAfter(buyer, amount))>> >>
           \o IF treasury = None THEN <<>>
              ELSE << <<treasury, quote, protocol_fee(paid)>>,
                      <<treasury, base, protocol_fee(amount)>> >>)
      /\ UNCHANGED <<now, treasury, next_id, balance>>

\* cancel_order (one id) and cancel_orders_batch.  A batch that names an id
\* twice fails, and the order of the rest makes no difference.
CancelOrders(m, ids) ==
  LET sequence == SetToSeq(ids)
      after == AfterTransfers(FoldLeft(
                 LAMBDA s, i : s \o Release(book.order[i], book.order[i].remaining),
                 <<>>, sequence))
  IN  /\ \A i \in ids : IsOpen(book.order[i]) /\ book.order[i].maker = m
      /\ after # None
      /\ balance' = after
      /\ book' = FoldLeft(cancel_order_inner, book, sequence)
      /\ UNCHANGED <<now, treasury, next_id, credit>>

withdraw_balance(a, asset, amount) ==
  /\ amount > 0
  /\ amount <= credit[asset][a]
  /\ CanMove(balance[asset], Book, amount)
  /\ credit' = [credit EXCEPT ![asset][a] = @ - amount]
  /\ balance' = [balance EXCEPT ![asset] = Move(@, Book, a, amount)]
  /\ UNCHANGED <<now, treasury, next_id, book>>

-----------------------------------------------------------------------------
\* Market orders.

\* The resting orders of one side a market order walks, in the order it does:
\* tick by tick, and first in first out at each.
Walk(p, side) ==
  LET eligible(i) ==
        LET o == book.order[i]
        IN  IsOpen(o) /\ o.remaining > 0 /\ ~Expired(o) /\ o.side = side
  IN  FoldLeft(LAMBDA s, t : s \o SelectSeq(book.bucket[p, t], eligible),
               <<>>, book.ticks[p, side])

\* The fills of a market order: pairs of an order and the amount taken from it.
Fills(p, side, amount) ==
  LET take(acc, i) ==
        LET q == Min({acc.left, book.order[i].remaining})
        IN  IF q = 0 THEN acc
            ELSE [left |-> acc.left - q, fills |-> Append(acc.fills, <<i, q>>)]
  IN  FoldLeft(take, [left |-> amount, fills |-> <<>>], Walk(p, side)).fills

\* The transfers of one fill of a market order by the taker.
MarketTransfers(taker, i, amount) ==
  LET o == book.order[i]
      paid == quote_amount(amount, o.tick)
      trade == IF o.side = "Sell"
               THEN << Transfer(o.pair.buy_asset, taker, o.maker, paid),
                       Transfer(o.pair.sell_asset, Book, taker, amount) >>
               ELSE << Transfer(o.pair.sell_asset, taker, o.maker, amount),
                       Transfer(o.pair.buy_asset, Book, taker, paid) >>
  IN  trade \o Release(o, DustAfter(o, amount))

\* A market buy sweeps the asks and a market sell the bids.
match_market_order(taker, p, amount, side) ==
  LET fills == Fills(p, side, amount)
      after == AfterTransfers(FoldLeft(
                 LAMBDA s, x : s \o MarketTransfers(taker, x[1], x[2]), <<>>, fills))
  IN  /\ amount > 0
      /\ fills # <<>>
      /\ after # None
      /\ balance' = after
      /\ book' = FoldLeft(LAMBDA b, x : FillAndDrain(b, x[1], x[2]), book, fills)
      /\ UNCHANGED <<now, treasury, next_id, credit>>

Next ==
  \/ NextLedger
  \/ \E t \in Treasuries : initialize(t)
  \/ \E m \in Accounts, p \in Pairs, t \in Ticks, n \in Amounts :
       \/ \E e \in Expiries : place_order_with_expiry(m, p, t, n, e)
       \/ place_buy_order(m, p, t, n)
  \/ \E f \in Accounts, i \in Ids, n \in Amounts : fill_order(f, i, n)
  \/ \E i, j \in Ids, n \in Amounts : match_orders(i, j, n)
  \/ \E m \in Accounts, ids \in SUBSET Ids \ {{}} : CancelOrders(m, ids)
  \/ \E a \in Accounts, s \in PairAssets, n \in Amounts : withdraw_balance(a, s, n)
  \/ \E a \in Accounts, p \in Pairs, n \in Amounts, s \in Sides : match_market_order(a, p, n, s)

Spec == Init /\ [][Next]_vars

-----------------------------------------------------------------------------

\* Records are well formed, and no balance, credit or volume is negative.
TypeOK ==
  /\ now \in 1..MaxLedger
  /\ treasury \in Treasuries \union {None}
  /\ next_id \in 0..MaxOrders
  /\ book.order \in [Ids -> LimitOrder \union {None}]
  /\ book.bucket \in [Pairs \X Ticks -> Seq(Ids)]
  /\ book.volume \in [Pairs \X Sides \X Ticks -> Nat]
  /\ book.ticks \in [Pairs \X Sides -> Seq(Ticks)]
  /\ credit \in [PairAssets -> [Accounts -> Nat]]
  /\ balance \in [PairAssets -> [Accounts \union {Book} -> Nat]]

\* The open orders of one side and price.
Resting(p, side, t) ==
  { i \in Ids : LET o == book.order[i]
                IN  IsOpen(o) /\ o.pair = p /\ o.side = side /\ o.tick = t }

RestingVolume(p, side, t) ==
  MapThenSumSet(LAMBDA i : book.order[i].remaining, Resting(p, side, t))

\* No open order is lost to the book and no closed one lingers in it: each
\* bucket lists exactly the open orders of its price, oldest first, the active
\* ticks are in price order and are those with a volume, and the volume of a
\* tick is never less than what rests there.
BookIndexExact ==
  \A p \in Pairs :
    /\ \A t \in Ticks :
         LET bucket == book.bucket[p, t]
         IN  /\ ToSet(bucket) = Resting(p, "Buy", t) \union Resting(p, "Sell", t)
             /\ \A k \in 1..(Len(bucket) - 1) : bucket[k] < bucket[k + 1]
    /\ \A side \in Sides :
         LET ticks == book.ticks[p, side]
         IN  /\ ToSet(ticks) = {t \in Ticks : book.volume[p, side, t] > 0}
             /\ \A k \in 1..(Len(ticks) - 1) : Better(side, ticks[k], ticks[k + 1])
             /\ \A t \in Ticks : book.volume[p, side, t] >= RestingVolume(p, side, t)

\* The order of fills the module doc promises, stated without the index: an
\* order that can be filled gets what is left of the amount after every such
\* order with a better price, or with the same price and a smaller id.
FillByRank(p, side, amount, i) ==
  LET fillable == {j \in Ids : LET o == book.order[j]
                               IN  IsOpen(o) /\ o.pair = p /\ o.side = side /\ ~Expired(o)}
      o(j) == book.order[j]
      ahead == {j \in fillable : \/ Better(side, o(j).tick, o(i).tick)
                                 \/ o(j).tick = o(i).tick /\ j < i}
      left == amount - MapThenSumSet(LAMBDA j : o(j).remaining, ahead)
  IN  IF i \notin fillable THEN 0 ELSE Max({0, Min({left, o(i).remaining})})

\* A market order fills by price, then time, as the index is kept by every
\* sequence of placements, fills, matches, purges and cancellations.
PriceTimePriority ==
  \A p \in Pairs, side \in Sides, n \in Amounts :
    LET fills == Fills(p, side, n)
        filled(i) == MapThenSumSet(LAMBDA k : fills[k][2],
                                   {k \in DOMAIN fills : fills[k][1] = i})
    IN  \A i \in Ids : filled(i) = FillByRank(p, side, n, i)

\* What the contract owes in an asset: the collateral of open orders and the
\* credits of earlier matches.
Owed(asset) ==
  MapThenSumSet(LAMBDA i : LockedFor(book.order[i], book.order[i].remaining),
    {i \in Ids : IsOpen(book.order[i]) /\ LockedAsset(book.order[i]) = asset})
  + MapThenSumSet(LAMBDA a : credit[asset][a], Accounts)

\* The module doc: an order's collateral is locked until it is filled or its
\* maker cancels "at any time", so the contract holds what all of them lock and
\* what past matches credited.
CollateralCovered == \A s \in PairAssets : balance[s][Book] >= Owed(s)

\* Rounding, dust, fees, sweeps and matches never take from the collateral of
\* others: only a bid filled against the contract's own sell_asset does.
OnlyBidFillsUncover ==
  [][ <<book, credit, balance>>' = <<book, credit, balance>>
      \/ (CollateralCovered => CollateralCovered')
      \/ \E i \in Ids : LET o == book.order[i]
                       IN  /\ IsOpen(o) /\ o.side = "Buy"
                           /\ book'.order[i] # o
                           /\ balance'[o.pair.sell_asset][Book] < balance[o.pair.sell_asset][Book]
    ]_vars
=============================================================================
