------------------------------ MODULE StopLoss ------------------------------
(***************************************************************************)
(* Stop-loss triggers (contracts/stop-loss-trigger/src/lib.rs).            *)
(*                                                                         *)
(* Owners escrow an asset with the handler and name the price at which it  *)
(* is to be sold; any keeper may fire a trigger once the oracle's TWAP has *)
(* crossed that price, and the handler pays the owner in the other asset.  *)
(* Escrows and pool liquidity of an asset lie in one and the same token    *)
(* balance of the handler.                                                 *)
(*                                                                         *)
(* The oracle is another contract: its TWAP changes, or becomes            *)
(* unavailable, between any two calls.  All triggers use one feed.  The    *)
(* keeper's claimed_twap must equal the TWAP read, so it is not a          *)
(* parameter of the action.                                                *)
(***************************************************************************)
EXTENDS Balances, FiniteSets, FiniteSetsExt

CONSTANTS
  Owners,        \* trigger owners, pool funders and the admin
  Handler,       \* the contract's own address
  Assets,        \* token contracts
  Requests,      \* the triggers owners may ask for, sound or not
  Oracles,       \* price-oracle contracts the admin may register
  None,          \* no TWAP, no configuration, or no trigger under an id
  Prices,        \* TWAPs the oracles may publish, in units of 1/PriceScale
  PriceScale,    \* PRICE_SCALE
  Amounts,       \* pool deposits
  Supply,        \* tokens of each asset every owner starts with
  MaxTriggers    \* bound on the triggers ever registered

StopLossAssumption ==
  /\ \A t \in Requests : t.owner \in Owners /\ {t.sell_asset, t.buy_asset} \subseteq Assets
  /\ Handler \notin Owners
  /\ PriceScale \in Nat \ {0} /\ Prices \subseteq Nat /\ Amounts \subseteq Nat
  /\ Supply \in Nat /\ MaxTriggers \in Nat

Ids == 0..(MaxTriggers - 1)
Conditions == {"PriceBelow", "PriceAbove"}

VARIABLES
  balance,    \* balance of every account, per asset
  config,     \* DataKey::Config
  twap,       \* what each oracle's get_twap returns
  triggers,   \* DataKey::Trigger(id)
  next_id     \* DataKey::NextTriggerId

vars == <<balance, config, twap, triggers, next_id>>

StopLossTrigger ==
  [owner : Owners, sell_asset : Assets, buy_asset : Assets, sell_amount : Nat,
   stop_price : Nat, condition : Conditions, min_fill_price : Nat,
   max_fill_price : Nat, min_amount_out : Nat, active : BOOLEAN]

\* validate_trigger_params succeeds.
ValidParams(t) ==
  /\ t.sell_amount > 0
  /\ t.stop_price > 0
  /\ t.min_fill_price > 0
  /\ t.max_fill_price >= t.min_fill_price
  /\ t.min_amount_out >= 0

IsActive(id) == triggers[id] # None /\ triggers[id].active

\* Mutant: the two directions are swapped.
Breached_Swapped(t, price) ==
  \/ t.condition = "PriceBelow" /\ price >= t.stop_price
  \/ t.condition = "PriceAbove" /\ price <= t.stop_price

Breached(t, price) ==
  \/ t.condition = "PriceBelow" /\ price <= t.stop_price
  \/ t.condition = "PriceAbove" /\ price >= t.stop_price

\* Amount of buy_asset due at a fill price; the division truncates.
Proceeds(t, price) == (t.sell_amount * price) \div PriceScale

-----------------------------------------------------------------------------

Init ==
  /\ balance = [s \in Assets |-> [a \in Owners \union {Handler} |->
                                   IF a = Handler THEN 0 ELSE Supply]]
  /\ config = None
  /\ twap = [o \in Oracles |-> None]
  /\ triggers = [id \in Ids |-> None]
  /\ next_id = 0

\* The price oracle publishes a new average, or loses its buffer.
OracleUpdate(o, price) ==
  /\ twap' = [twap EXCEPT ![o] = price]
  /\ UNCHANGED <<balance, config, triggers, next_id>>

initialize(a, o) ==
  /\ config = None
  /\ config' = [admin |-> a, oracle |-> o]
  /\ UNCHANGED <<balance, twap, triggers, next_id>>

set_oracle(a, o) ==
  /\ config # None
  /\ config.admin = a
  /\ config' = [config EXCEPT !.oracle = o]
  /\ UNCHANGED <<balance, twap, triggers, next_id>>

register_trigger(t) ==
  /\ next_id \in Ids
  /\ t.active
  /\ ValidParams(t)
  /\ CanMove(balance[t.sell_asset], t.owner, t.sell_amount)
  /\ balance' = [balance EXCEPT ![t.sell_asset] = Move(@, t.owner, Handler, t.sell_amount)]
  /\ triggers' = [triggers EXCEPT ![next_id] = t]
  /\ next_id' = next_id + 1
  /\ UNCHANGED <<config, twap>>

execute_trigger(id) ==
  LET t == triggers[id]
      price == twap[config.oracle]
  IN  /\ config # None
      /\ IsActive(id)
      /\ price # None
      /\ Breached(t, price)
      /\ price \in t.min_fill_price..t.max_fill_price
      /\ Proceeds(t, price) >= t.min_amount_out
      /\ CanMove(balance[t.buy_asset], Handler, Proceeds(t, price))
      /\ balance' = [balance EXCEPT ![t.buy_asset] = Move(@, Handler, t.owner, Proceeds(t, price))]
      /\ triggers' = [triggers EXCEPT ![id].active = FALSE]
      /\ UNCHANGED <<config, twap, next_id>>

cancel_trigger(owner, id) ==
  /\ IsActive(id)
  /\ triggers[id].owner = owner
  /\ CanMove(balance[triggers[id].sell_asset], Handler, triggers[id].sell_amount)
  /\ balance' = [balance EXCEPT ![triggers[id].sell_asset] =
                   Move(@, Handler, owner, triggers[id].sell_amount)]
  /\ triggers' = [triggers EXCEPT ![id].active = FALSE]
  /\ UNCHANGED <<config, twap, next_id>>

fund_pool(funder, asset, amount) ==
  /\ amount > 0
  /\ CanMove(balance[asset], funder, amount)
  /\ balance' = [balance EXCEPT ![asset] = Move(@, funder, Handler, amount)]
  /\ UNCHANGED <<config, twap, triggers, next_id>>

Next ==
  \/ \E o \in Oracles, price \in Prices \union {None} : OracleUpdate(o, price)
  \/ \E a \in Owners, o \in Oracles : initialize(a, o) \/ set_oracle(a, o)
  \/ \E t \in Requests : register_trigger(t)
  \/ \E id \in Ids : execute_trigger(id)
  \/ \E o \in Owners, id \in Ids : cancel_trigger(o, id)
  \/ \E o \in Owners, s \in Assets, n \in Amounts : fund_pool(o, s, n)

Spec == Init /\ [][Next]_vars

-----------------------------------------------------------------------------

\* Balances never go negative and trigger records are well formed.
TypeOK ==
  /\ balance \in [Assets -> [Owners \union {Handler} -> Nat]]
  /\ config \in [admin : Owners, oracle : Oracles] \union {None}
  /\ twap \in [Oracles -> Prices \union {None}]
  /\ triggers \in [Ids -> StopLossTrigger \union {None}]
  /\ next_id \in 0..MaxTriggers

Escrowed(asset) ==
  MapThenSumSet(LAMBDA id : triggers[id].sell_amount,
                {id \in Ids : IsActive(id) /\ triggers[id].sell_asset = asset})

\* The module doc: escrowed funds stay locked in the handler until the trigger
\* fires or its owner cancels, so the handler's balance of every asset covers
\* the escrows of all unfired triggers.
EscrowsCovered == \A s \in Assets : balance[s][Handler] >= Escrowed(s)

\* A trigger leaves the active state exactly once, and then its owner alone
\* has been paid: the whole escrow back, or at least min_amount_out of the
\* other asset at a fill price inside the corridor and past the stop price.
SettledOnOwnersTerms ==
  [][ \A id \in Ids :
        LET t == triggers[id]
            gain(s) == balance'[s][t.owner] - balance[s][t.owner]
        IN  IsActive(id) /\ ~IsActive(id)' =>
              /\ \A o \in Owners \ {t.owner}, s \in Assets : balance'[s][o] = balance[s][o]
              /\ \/ gain(t.sell_asset) = t.sell_amount
                 \/ /\ gain(t.buy_asset) >= t.min_amount_out
                    /\ gain(t.buy_asset) * PriceScale <= t.sell_amount * t.max_fill_price
                    /\ (gain(t.buy_asset) + 1) * PriceScale > t.sell_amount * t.min_fill_price
                    /\ IF t.condition = "PriceBelow"
                       THEN gain(t.buy_asset) * PriceScale <= t.sell_amount * t.stop_price
                       ELSE (gain(t.buy_asset) + 1) * PriceScale > t.sell_amount * t.stop_price
      ]_vars
=============================================================================
