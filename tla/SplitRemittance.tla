-------------------------- MODULE SplitRemittance --------------------------
(***************************************************************************)
(* Split remittances (contracts/split-remittance-escrow/src/lib.rs).       *)
(*                                                                         *)
(* One escrowed amount is split over the legs of an order; each leg's      *)
(* anchor collects its own share, and after the settlement window the      *)
(* sender takes back what is left.  The order record (persistent storage)  *)
(* and the two running balances per order (instance storage) are separate  *)
(* entries written by the same calls.                                      *)
(***************************************************************************)
EXTENDS Balances, FiniteSetsExt, Sequences

CONSTANTS
  Senders,      \* remitting accounts
  Anchors,      \* destination anchors
  Self,         \* the contract's own address
  None,         \* no order under an id
  Window,       \* SETTLE_WINDOW_SECS, in clock ticks
  BpsDenom,     \* BPS_DENOM
  Bps,          \* shares a destination may be given
  Amounts,      \* totals a sender may remit
  Splits,       \* destination lists senders may pass
  Supply,       \* tokens each sender starts with
  MaxOrders,    \* bound on the orders ever created
  MaxTime       \* bound on the clock

LegStatus == {"Pending", "Settled", "Refunded"}
OrderStatus == {"Open", "Completed", "Refunded"}

Leg == [anchor : Anchors, amount : Nat, status : LegStatus]

Order ==
  [sender : Senders, total_amount : Nat, deadline : Nat, status : OrderStatus,
   legs : Seq(Leg)]

SplitRemittanceAssumption ==
  /\ Self \notin Senders \union Anchors
  /\ Window \in Nat /\ BpsDenom \in Nat \ {0} /\ Bps \subseteq Nat /\ Amounts \subseteq Nat
  /\ Supply \in Nat /\ MaxOrders \in Nat /\ MaxTime \in Nat
  /\ Splits \subseteq Seq([anchor : Anchors, bps : Bps])
  /\ None \notin Order

Ids == 0..(MaxOrders - 1)
Accounts == Senders \union Anchors \union {Self}

VARIABLES
  now,         \* env.ledger().timestamp()
  tok,         \* balances of the escrowed token
  initialized, \* DataKey::Initialized
  order,       \* DataKey::Order(id)
  released,    \* DataKey::PartialReleased(id)
  remaining,   \* DataKey::RemainingLocked(id)
  next_id      \* DataKey::NextOrderId

vars == <<now, tok, initialized, order, released, remaining, next_id>>

\* Share of leg i; the last one absorbs the rounding remainder.
LegAmount(total, dests, i) ==
  LET part == [j \in DOMAIN dests |-> (total * dests[j].bps) \div BpsDenom]
      n == Len(dests)
  IN  IF i = n THEN total - SumOf(part, 1..(n - 1)) ELSE part[i]

\* build_legs succeeds.
ValidSplit(total, dests) ==
  /\ dests # <<>>
  /\ \A i \in DOMAIN dests : dests[i].bps \in 1..BpsDenom
  /\ \A i \in DOMAIN dests : LegAmount(total, dests, i) > 0
  /\ SumOf([i \in DOMAIN dests |-> dests[i].bps], DOMAIN dests) = BpsDenom

Legs(total, dests) ==
  [i \in DOMAIN dests |->
     [anchor |-> dests[i].anchor, amount |-> LegAmount(total, dests, i), status |-> "Pending"]]

HasOrder(id) == order[id] # None

LegsOf(id, anchor) == {i \in DOMAIN order[id].legs : order[id].legs[i].anchor = anchor}

\* The amounts of the legs that have one of the statuses.
AmountsIn(legs, statuses) ==
  [i \in DOMAIN legs |-> IF legs[i].status \in statuses THEN legs[i].amount ELSE 0]

LegSum(id, statuses) ==
  SumOf(AmountsIn(order[id].legs, statuses), DOMAIN order[id].legs)

-----------------------------------------------------------------------------

Init ==
  /\ now = 0
  /\ tok = [a \in Accounts |-> IF a \in Senders THEN Supply ELSE 0]
  /\ initialized = FALSE
  /\ order = [id \in Ids |-> None]
  /\ released = [id \in Ids |-> 0]
  /\ remaining = [id \in Ids |-> 0]
  /\ next_id = 0

\* The ledger closes and its clock moves on.
Tick ==
  /\ now < MaxTime
  /\ now' = now + 1
  /\ UNCHANGED <<tok, initialized, order, released, remaining, next_id>>

initialize ==
  /\ ~initialized
  /\ initialized' = TRUE
  /\ UNCHANGED <<now, tok, order, released, remaining, next_id>>

create_split_order(sender, total, dests) ==
  /\ initialized
  /\ total > 0
  /\ ValidSplit(total, dests)
  /\ CanMove(tok, sender, total)
  /\ next_id \in Ids
  /\ tok' = Move(tok, sender, Self, total)
  /\ order' = [order EXCEPT ![next_id] =
                 [sender |-> sender, total_amount |-> total, deadline |-> now + Window,
                  status |-> "Open", legs |-> Legs(total, dests)]]
  /\ released' = [released EXCEPT ![next_id] = 0]
  /\ remaining' = [remaining EXCEPT ![next_id] = total]
  /\ next_id' = next_id + 1
  /\ UNCHANGED <<now, initialized>>

\* The order after every pending leg of an anchor is marked settled.
Settled(id, anchor) ==
  LET legs == [i \in DOMAIN order[id].legs |->
                 IF i \in LegsOf(id, anchor)
                 THEN [order[id].legs[i] EXCEPT !.status = "Settled"]
                 ELSE order[id].legs[i]]
      all == \A i \in DOMAIN legs : legs[i].status = "Settled"
  IN  [order[id] EXCEPT !.legs = legs, !.status = IF all THEN "Completed" ELSE @]

\* Mutant: a settled leg may be collected again.
settle_leg_Again(anchor, id) ==
  LET amount == order[id].legs[Max(LegsOf(id, anchor))].amount
  IN  /\ initialized
      /\ HasOrder(id)
      /\ order[id].status = "Open"
      /\ LegsOf(id, anchor) # {}
      /\ CanMove(tok, Self, amount)
      /\ tok' = Move(tok, Self, anchor, amount)
      /\ released' = [released EXCEPT ![id] = @ + amount]
      /\ remaining' = [remaining EXCEPT ![id] = @ - amount]
      /\ order' = [order EXCEPT ![id] = Settled(id, anchor)]
      /\ UNCHANGED <<now, initialized, next_id>>

\* The loop visits every leg of the anchor and keeps the amount of the last.
settle_leg(anchor, id) ==
  LET amount == order[id].legs[Max(LegsOf(id, anchor))].amount
  IN  /\ initialized
      /\ HasOrder(id)
      /\ order[id].status = "Open"
      /\ LegsOf(id, anchor) # {}
      /\ \A i \in LegsOf(id, anchor) : order[id].legs[i].status = "Pending"
      /\ CanMove(tok, Self, amount)
      /\ tok' = Move(tok, Self, anchor, amount)
      /\ released' = [released EXCEPT ![id] = @ + amount]
      /\ remaining' = [remaining EXCEPT ![id] = @ - amount]
      /\ order' = [order EXCEPT ![id] = Settled(id, anchor)]
      /\ UNCHANGED <<now, initialized, next_id>>

\* The order after its pending legs are marked refunded.
Refunded(id) ==
  [order[id] EXCEPT !.status = "Refunded",
     !.legs = [i \in DOMAIN order[id].legs |->
                 IF order[id].legs[i].status = "Pending"
                 THEN [order[id].legs[i] EXCEPT !.status = "Refunded"]
                 ELSE order[id].legs[i]]]

refund_unsettled(sender, id) ==
  /\ initialized
  /\ HasOrder(id)
  /\ order[id].sender = sender
  /\ order[id].status = "Open"
  /\ now >= order[id].deadline
  /\ remaining[id] > 0
  /\ CanMove(tok, Self, remaining[id])
  /\ tok' = Move(tok, Self, sender, remaining[id])
  /\ order' = [order EXCEPT ![id] = Refunded(id)]
  /\ remaining' = [remaining EXCEPT ![id] = 0]
  /\ UNCHANGED <<now, initialized, released, next_id>>

Next ==
  \/ Tick
  \/ initialize
  \/ \E s \in Senders, t \in Amounts, d \in Splits : create_split_order(s, t, d)
  \/ \E a \in Anchors, id \in Ids : settle_leg(a, id)
  \/ \E s \in Senders, id \in Ids : refund_unsettled(s, id)

Spec == Init /\ [][Next]_vars

-----------------------------------------------------------------------------

\* Balances are never negative, and order records are well formed: an order is
\* completed exactly when its last leg is settled, and an open one has no
\* refunded leg.
TypeOK ==
  /\ now \in 0..MaxTime
  /\ tok \in [Accounts -> Nat]
  /\ initialized \in BOOLEAN
  /\ released \in [Ids -> Nat] /\ remaining \in [Ids -> Nat]
  /\ next_id \in 0..MaxOrders
  /\ order \in [Ids -> Order \union {None}]
  /\ \A id \in Ids : HasOrder(id) =>
       /\ order[id].status = "Completed" <=>
            \A i \in DOMAIN order[id].legs : order[id].legs[i].status = "Settled"
       /\ order[id].status = "Open" =>
            \A i \in DOMAIN order[id].legs : order[id].legs[i].status # "Refunded"

\* The legs of an order always add up to what was escrowed for it, whatever
\* was lost in rounding the shares.
LegsAddUp ==
  \A id \in Ids : HasOrder(id) => LegSum(id, LegStatus) = order[id].total_amount

\* The contract holds exactly what the running balances of all orders say is
\* locked.
HoldsTheRemaining ==
  tok[Self] = SumOf(remaining, Ids)

\* The comment on RemainingLocked and the statuses: what has been released is
\* the amount of the settled legs, and what is locked that of the pending
\* ones, so a completed order locks nothing.
BalancesFollowLegs ==
  \A id \in Ids : HasOrder(id) =>
    /\ released[id] = LegSum(id, {"Settled"})
    /\ remaining[id] = LegSum(id, {"Pending"})

\* Before the window has ended nobody but an anchor takes anything out.
AnchorsHaveTheirWindow ==
  [][ \A id \in Ids :
        /\ HasOrder(id) /\ now < order[id].deadline
        /\ remaining'[id] < remaining[id]
        => \E a \in Anchors : tok'[a] - tok[a] = remaining[id] - remaining'[id] ]_vars

\* Once the window can end, every order is completed or refunded in the end.
OrdersAreResolved ==
  \A id \in Ids :
    (HasOrder(id) /\ order[id].deadline <= MaxTime) 
      ~> (HasOrder(id) /\ order[id].status # "Open")
=============================================================================
