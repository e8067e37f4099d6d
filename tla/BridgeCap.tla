----------------------------- MODULE BridgeCap -----------------------------
(***************************************************************************)
(* The collateral-backed cap on wrapped supply (src/bridge/cap_guard.rs),  *)
(* next to the total_supply of the mint engine (src/bridge/mint.rs) that   *)
(* it mirrors.  State is per asset; one asset stands for all.              *)
(*                                                                         *)
(* The mint engine never calls the guard: its mints and burns reach the    *)
(* mirror only when the verifier reports them, or through the              *)
(* permissionless sync.  That a sync passes the engine's real total_supply *)
(* is the caller's word, so the model lets it pass any amount.             *)
(***************************************************************************)
EXTENDS Integers

CONSTANTS
  Verifiers,     \* addresses the admin may appoint to report
  None,          \* an absent storage entry
  Bps,           \* BPS_DENOMINATOR
  Capacities,    \* capacity_bps values offered
  Amounts,       \* amounts offered
  MaxAmount      \* stands for i128::MAX

ASSUME BridgeCapAssumption ==
  /\ Bps \in Nat \ {0}
  /\ Capacities \subseteq Int /\ Amounts \subseteq Int
  /\ MaxAmount \in Nat
  /\ None \notin [verifier : Verifiers, capacity_bps : 0..Bps]

VARIABLES
  config,     \* BridgeCapKey::Config: None or the verifier and the capacity
  supply,     \* BridgeCapKey::WrappedSupply, the mirror S_wrapped
  locked,     \* BridgeCapKey::LockedCollateral, C_locked
  total       \* total_supply in the mint engine

vars == <<config, supply, locked, total>>

Configured == config # None

Config == [verifier : Verifiers, capacity_bps : 0..Bps]

\* Mutant: the remainder is scaled and rounded up.
allowed_supply_RoundedUp(coll, capacity) ==
  (coll \div Bps) * capacity + ((coll % Bps) * capacity + Bps - 1) \div Bps

\* Quotient first, so that no product exceeds the collateral itself.
allowed_supply(coll, capacity) ==
  (coll \div Bps) * capacity + ((coll % Bps) * capacity) \div Bps

mint_ceiling == allowed_supply(locked, config.capacity_bps)

\* A sum past i128::MAX counts as a breach.
mint_exceeds_cap(delta) ==
  supply + delta > MaxAmount \/ supply + delta > mint_ceiling

require_mint_allowed(delta) ==
  /\ Configured
  /\ delta > 0
  /\ ~mint_exceeds_cap(delta)

-----------------------------------------------------------------------------

Init ==
  /\ config = None
  /\ supply = 0
  /\ locked = 0
  /\ total = 0

\* Admin only.  Capacity may be lowered under a live supply.
configure_cap_guard(verifier, capacity) ==
  /\ capacity \in 0..Bps
  /\ config' = [verifier |-> verifier, capacity_bps |-> capacity]
  /\ UNCHANGED <<supply, locked, total>>

ByVerifier(v) == Configured /\ config.verifier = v

deposit_locked_collateral(verifier, amount) ==
  /\ ByVerifier(verifier)
  /\ amount > 0
  /\ locked + amount <= MaxAmount
  /\ locked' = locked + amount
  /\ UNCHANGED <<config, supply, total>>

\* Mutant: the test is made against the ceiling before the release.
release_locked_collateral_Late(amount) ==
  /\ Configured
  /\ amount > 0
  /\ amount <= locked
  /\ locked >= supply
  /\ locked' = locked - amount
  /\ UNCHANGED <<config, supply, total>>

\* Admin only.
release_locked_collateral(amount) ==
  /\ Configured
  /\ amount > 0
  /\ amount <= locked
  /\ locked - amount >= supply
  /\ locked' = locked - amount
  /\ UNCHANGED <<config, supply, total>>

mint_within_cap(verifier, delta) ==
  /\ ByVerifier(verifier)
  /\ require_mint_allowed(delta)
  /\ supply' = supply + delta
  /\ UNCHANGED <<config, locked, total>>

\* Mirrors a mint that has happened; the cap is not consulted here.  The verifier
\* is named by the caller and does not sign, here and in the next call: whoever
\* calls names the one that is configured.
record_wrapped_mint(verifier, delta) ==
  /\ ByVerifier(verifier)
  /\ delta > 0
  /\ supply + delta <= MaxAmount
  /\ supply' = supply + delta
  /\ UNCHANGED <<config, locked, total>>

record_wrapped_burn(verifier, delta) ==
  /\ ByVerifier(verifier)
  /\ delta > 0
  /\ delta <= supply
  /\ supply' = supply - delta
  /\ UNCHANGED <<config, locked, total>>

\* Permissionless; an equal observation succeeds and writes nothing.
sync_wrapped_supply(observed) ==
  /\ Configured
  /\ observed >= supply
  /\ supply' = observed
  /\ UNCHANGED <<config, locked, total>>

\* The engine's own mint and burn, with its cap and limits left out.
engine_mint(amount) ==
  /\ amount > 0
  /\ total + amount <= MaxAmount
  /\ total' = total + amount
  /\ UNCHANGED <<config, supply, locked>>

engine_burn(amount) ==
  /\ amount > 0
  /\ amount <= total
  /\ total' = total - amount
  /\ UNCHANGED <<config, supply, locked>>

GuardNext ==
  \/ \E v \in Verifiers, c \in Capacities : configure_cap_guard(v, c)
  \/ \E v \in Verifiers, x \in Amounts : deposit_locked_collateral(v, x)
  \/ \E x \in Amounts : release_locked_collateral(x)
  \/ \E v \in Verifiers, x \in Amounts : mint_within_cap(v, x)
  \/ \E v \in Verifiers, x \in Amounts : record_wrapped_burn(v, x)

\* Reports of supply that moved without asking the guard first.
Report ==
  \/ \E v \in Verifiers, x \in Amounts : record_wrapped_mint(v, x)
  \/ \E x \in 0..MaxAmount : sync_wrapped_supply(x)

Next ==
  \/ GuardNext
  \/ Report
  \/ \E x \in Amounts : engine_mint(x)
  \/ \E x \in Amounts : engine_burn(x)

Spec == Init /\ [][Next]_vars

-----------------------------------------------------------------------------

\* Amounts stay within i128 and the capacity within 0 to 100 %.
TypeOK ==
  /\ config \in Config \cup {None}
  /\ supply \in 0..MaxAmount
  /\ locked \in 0..MaxAmount
  /\ total \in 0..MaxAmount

\* The quotient-first ceiling is the exact floor of the documented product.
CeilingIsExact ==
  Configured => mint_ceiling = (locked * config.capacity_bps) \div Bps

\* The supply the guard knows of does not exceed the collateral.
SupplyIsBacked == supply <= locked

\* Reports aside, which come from anybody, no call takes what the guard knows of
\* from backed to under-backed.  It says nothing of the engine's total_supply.
OnlyReportsUnback ==
  [][SupplyIsBacked /\ ~SupplyIsBacked' => Report]_vars

Headroom == IF Configured /\ mint_ceiling > supply THEN mint_ceiling - supply ELSE 0

\* The permissionless sync "can only ever tighten the guard, never loosen it":
\* headroom grows only by collateral, by a decision of the admin, or by a burn
\* somebody reports in the verifier's name, which needs no signature.
HeadroomIsEarned ==
  [][Headroom' > Headroom =>
       \/ locked' > locked
       \/ \E v \in Verifiers, x \in Amounts : record_wrapped_burn(v, x)
       \/ config' # config]_vars
=============================================================================
