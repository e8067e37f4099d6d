---------------------------- MODULE WrappedAsset ----------------------------
(***************************************************************************)
(* The wrapped-asset engine of the bridge: supply, balances and the        *)
(* rolling mint limit of one asset (src/bridge/mint.rs,                    *)
(* src/bridge/rate_limit.rs).  Storage is keyed by the asset code and no   *)
(* call touches two assets, so one asset stands for all.                   *)
(*                                                                         *)
(* The code keeps the recorded mints as a list of (timestamp, amount); it  *)
(* only ever sums the entries younger than the window and drops the rest,  *)
(* so the list is kept as the amount recorded per timestamp.               *)
(***************************************************************************)
EXTENDS Integers, FiniteSets, Balances

CONSTANTS
  Holders,        \* accounts that can hold the asset
  Controllers,    \* addresses the admin may appoint as bridge controller
  None,           \* an absent storage entry
  Amounts,        \* amounts offered to mint and burn
  Caps,           \* rolling limits and supply ceilings offered
  Window,         \* WINDOW_SECONDS
  Genesis,        \* ledger time at which the contract goes live
  MaxTime         \* bound: last ledger time explored

Config == [controller : Controllers, max_supply : Caps, total_supply : Int]

(***************************************************************************)
(* now.saturating_sub(WINDOW_SECONDS) is 0 in the first day of time, and   *)
(* an entry recorded at 0 would be outside of its own window: the limiter  *)
(* relies on ledger time being seconds since 1970.                         *)
(***************************************************************************)
WrappedAssetAssumption ==
  /\ IsFiniteSet(Holders) /\ None \notin Config
  /\ Amounts \subseteq Int /\ Caps \subseteq Int
  /\ Window \in Nat \ {0} /\ Genesis \in Nat \ {0} /\ MaxTime \in Nat /\ Genesis <= MaxTime

Times == Genesis..MaxTime

VARIABLES
  now,        \* env.ledger().timestamp()
  config,     \* BridgeStorageKey::Config: None or controller and supply bounds
  balance,    \* BridgeStorageKey::Balance(holder), 0 when absent
  cap,        \* RateLimitKey::Cap, None when the admin set no limit
  recent,     \* RateLimitKey::Mints, summed per timestamp
  minted      \* history: every successful mint, summed per timestamp

vars == <<now, config, balance, cap, recent, minted>>

Registered == config # None

-----------------------------------------------------------------------------

Init ==
  /\ now = Genesis
  /\ config = None
  /\ balance = [h \in Holders |-> 0]
  /\ cap = None
  /\ recent = [t \in Times |-> 0]
  /\ minted = [t \in Times |-> 0]

Tick ==
  /\ now < MaxTime
  /\ now' = now + 1
  /\ UNCHANGED <<config, balance, cap, recent, minted>>

\* Admin only, like the next two.
register_wrapped_asset(controller, max_supply) ==
  /\ max_supply > 0
  /\ ~Registered
  /\ config' = [controller |-> controller, max_supply |-> max_supply, total_supply |-> 0]
  /\ UNCHANGED <<now, balance, cap, recent, minted>>

set_bridge_controller(new_controller) ==
  /\ Registered
  /\ config' = [config EXCEPT !.controller = new_controller]
  /\ UNCHANGED <<now, balance, cap, recent, minted>>

\* May be set before the asset exists, and lowered below what was just minted.
set_limit(max_rolling_amount) ==
  /\ max_rolling_amount > 0
  /\ cap' = max_rolling_amount
  /\ UNCHANGED <<now, config, balance, recent, minted>>

\* Mutant: the window is one second short.
InWindow_Short(t) == t > now - Window + 1

\* entry.timestamp > now.saturating_sub(WINDOW_SECONDS)
InWindow(t) == t > (IF now < Window THEN 0 ELSE now - Window)

EffectiveCap(fallback) == IF cap = None THEN fallback ELSE cap

\* Enforce the limit on the entries still in the window, drop the others and
\* record this one.
enforce_and_record(amount, fallback) ==
  LET rolling == SumOf(recent, {t \in Times : InWindow(t)})
  IN /\ EffectiveCap(fallback) > 0
     /\ rolling + amount <= EffectiveCap(fallback)
     /\ recent' = [t \in Times |->
                     (IF InWindow(t) THEN recent[t] ELSE 0)
                     + (IF t = now THEN amount ELSE 0)]

\* mint (controller signs) and mint_for_bridge (the validator quorum stands in)
\* differ only in whose signature is asked for.
mint(controller, to, amount) ==
  /\ amount > 0
  /\ Registered
  /\ config.controller = controller
  /\ config.total_supply + amount <= config.max_supply
  /\ enforce_and_record(amount, config.max_supply)
  /\ balance' = [balance EXCEPT ![to] = @ + amount]
  /\ config' = [config EXCEPT !.total_supply = @ + amount]
  /\ minted' = [minted EXCEPT ![now] = @ + amount]
  /\ UNCHANGED <<now, cap>>

\* Burning gives nothing back to the rolling limit.
burn(controller, from, amount) ==
  /\ amount > 0
  /\ Registered
  /\ config.controller = controller
  /\ amount <= balance[from]
  /\ balance' = [balance EXCEPT ![from] = @ - amount]
  /\ config' = [config EXCEPT !.total_supply = @ - amount]
  /\ UNCHANGED <<now, cap, recent, minted>>

Next ==
  \/ Tick
  \/ \E c \in Controllers, m \in Caps : register_wrapped_asset(c, m)
  \/ \E c \in Controllers : set_bridge_controller(c)
  \/ \E m \in Caps : set_limit(m)
  \/ \E c \in Controllers, h \in Holders, x \in Amounts : mint(c, h, x)
  \/ \E c \in Controllers, h \in Holders, x \in Amounts : burn(c, h, x)

Spec == Init /\ [][Next]_vars

-----------------------------------------------------------------------------

\* Balances, supply and recorded mints are never negative.
TypeOK ==
  /\ now \in Times
  /\ config \in Config \cup {None}
  /\ balance \in [Holders -> Nat]
  /\ cap \in Caps \cup {None}
  /\ recent \in [Times -> Nat] /\ minted \in [Times -> Nat]

\* The invariant the code states but cannot afford to check: total_supply is
\* the sum of the individual balances, and stays within max_supply.
SupplyIsBalances ==
  Registered => /\ config.total_supply = SumOf(balance, Holders)
                /\ config.total_supply \in 0..config.max_supply

\* Whatever was dropped from the list and whenever the limit was changed, a mint
\* never brings what was really minted within the last window above the limit in
\* force.
RollingLimitHolds ==
  [][minted' # minted =>
       SumOf(minted', {t \in Times : now - Window < t /\ t <= now})
         <= EffectiveCap(config.max_supply)]_vars
=============================================================================
