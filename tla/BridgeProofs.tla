---------------------------- MODULE BridgeProofs ----------------------------
(***************************************************************************)
(* Proofs about the bridge: the cap guard, the wrapped asset and the vault *)
(* with its remittances, for every value of the parameters of MCBridge.    *)
(***************************************************************************)
EXTENDS MCBridge, Sequences, Balances, TLAPS

\* What \div and % mean on naturals.
LEMMA DivMod ==
  ASSUME NEW a \in Nat, NEW b \in Nat \ {0}
  PROVE  /\ a \div b \in Nat
         /\ a % b \in 0..(b - 1)
         /\ a = b * (a \div b) + (a % b)
  OBVIOUS

\* A quotient is determined by the remainder's range.
LEMMA DivUnique ==
  ASSUME NEW b \in Nat \ {0}, NEW k \in Nat, NEW r \in 0..(b - 1)
  PROVE  (b * k + r) \div b = k
<1> DEFINE a == b * k + r
           q == a \div b
<1>1. a \in Nat
  OBVIOUS
<1>2. q \in Nat /\ a % b \in 0..(b - 1) /\ a = b * q + (a % b)
  BY <1>1, DivMod
<1>3. b * (k - q) = (a % b) - r
  BY <1>2
<1>4. k - q < 1
  <2>1. SUFFICES ASSUME k - q >= 1 PROVE FALSE
    BY <1>2
  <2>2. b * (k - q) >= b
    BY <2>1, <1>2
  <2> QED
    BY <2>2, <1>2, <1>3
<1>5. q - k < 1
  <2>1. SUFFICES ASSUME q - k >= 1 PROVE FALSE
    BY <1>2
  <2>2. b * (q - k) >= b
    BY <2>1, <1>2
  <2>3. b * (q - k) = r - (a % b)
    BY <1>2
  <2> QED
    BY <2>2, <2>3, <1>2
<1> QED
  BY <1>2, <1>4, <1>5

\* \div is monotone.
LEMMA DivMonotone ==
  ASSUME NEW a \in Nat, NEW c \in Nat, NEW b \in Nat \ {0}, a <= c
  PROVE  a \div b <= c \div b
<1> DEFINE p == a \div b
           q == c \div b
<1>1. /\ p \in Nat /\ a % b \in 0..(b - 1) /\ a = b * p + (a % b)
      /\ q \in Nat /\ c % b \in 0..(b - 1) /\ c = b * q + (c % b)
  BY DivMod
<1>2. SUFFICES ASSUME p - q >= 1 PROVE FALSE
  BY <1>1
<1>3. b * (p - q) >= b
  BY <1>1, <1>2
<1>4. b * (p - q) = a - c + (c % b) - (a % b)
  BY <1>1
<1> QED
  BY <1>1, <1>3, <1>4

\* The quotient-first evaluation of allowed_supply loses nothing.
LEMMA AllowedSupplyExact ==
  ASSUME NEW l \in Nat, NEW c \in Nat
  PROVE  allowed_supply(l, c) = (l * c) \div Bps
<1> USE BridgeCapAssumption
<1> DEFINE q == l \div Bps
           m == l % Bps
           n == m * c
           d == n \div Bps
<1>1. q \in Nat /\ m \in 0..(Bps - 1) /\ l = Bps * q + m
  BY DivMod
<1>2. n \in Nat
  BY <1>1
<1>3. d \in Nat /\ n % Bps \in 0..(Bps - 1) /\ n = Bps * d + (n % Bps)
  BY <1>2, DivMod
<1>4. l * c = Bps * (q * c + d) + (n % Bps)
  <2>1. l * c = Bps * (q * c) + n
    BY <1>1
  <2> QED
    BY <2>1, <1>1, <1>3
<1>5. q * c + d \in Nat
  BY <1>1, <1>3
<1>6. (l * c) \div Bps = q * c + d
  BY <1>3, <1>4, <1>5, DivUnique
<1> QED
  BY <1>6 DEF allowed_supply

\* A capacity of at most 100 % never allows more than the collateral, and more
\* collateral never allows less.
LEMMA AllowedSupplyBounds ==
  ASSUME NEW l \in Nat, NEW k \in Nat, k <= l, NEW c \in 0..Bps
  PROVE  /\ allowed_supply(l, c) \in 0..l
         /\ allowed_supply(k, c) \in 0..allowed_supply(l, c)
<1> USE BridgeCapAssumption
<1>1. l * c \in Nat /\ k * c \in Nat /\ Bps * l + 0 \in Nat
  OBVIOUS
<1>2. l * c <= Bps * l + 0 /\ k * c <= l * c
  OBVIOUS
<1>3. (l * c) \div Bps <= (Bps * l + 0) \div Bps
  BY <1>1, <1>2, DivMonotone
<1>4. (Bps * l + 0) \div Bps = l
  BY DivUnique
<1>5. (k * c) \div Bps <= (l * c) \div Bps
  BY <1>1, <1>2, DivMonotone
<1>6. (l * c) \div Bps \in Nat /\ (k * c) \div Bps \in Nat
  BY <1>1, DivMod
<1>7. allowed_supply(l, c) = (l * c) \div Bps /\ allowed_supply(k, c) = (k * c) \div Bps
  <2>1. c \in Nat
    OBVIOUS
  <2> HIDE BridgeCapAssumption
  <2> QED
    BY <2>1, AllowedSupplyExact
<1> HIDE BridgeCapAssumption
<1> QED
  BY <1>3, <1>4, <1>5, <1>6, <1>7

-----------------------------------------------------------------------------

\* TypeOK is inductive under the full specification.
LEMMA TypeStep == TypeOK /\ [Next]_vars => TypeOK'
<1> SUFFICES ASSUME TypeOK, [Next]_vars PROVE TypeOK'
  OBVIOUS
<1> USE BridgeCapAssumption
<1>1. ASSUME NEW v \in Verifiers, NEW c \in Capacities, configure_cap_guard(v, c)
      PROVE  TypeOK'
  BY <1>1 DEF configure_cap_guard, TypeOK, Config
<1>2. ASSUME NEW v \in Verifiers, NEW x \in Amounts, deposit_locked_collateral(v, x)
      PROVE  TypeOK'
  <2>1. locked' \in 0..MaxAmount /\ UNCHANGED <<config, supply, total>>
    BY <1>2 DEF deposit_locked_collateral, TypeOK
  <2> QED
    BY <2>1 DEF TypeOK
<1>3. ASSUME NEW x \in Amounts, release_locked_collateral(x) PROVE TypeOK'
  BY <1>3 DEF release_locked_collateral, TypeOK
<1>4. ASSUME NEW v \in Verifiers, NEW x \in Amounts, mint_within_cap(v, x)
      PROVE  TypeOK'
  <2>1. supply + x <= MaxAmount /\ x > 0 /\ supply' = supply + x
    BY <1>4 DEF mint_within_cap, require_mint_allowed, mint_exceeds_cap, TypeOK
  <2> QED
    BY <2>1, <1>4 DEF mint_within_cap, TypeOK
<1>5. ASSUME NEW v \in Verifiers, NEW x \in Amounts, record_wrapped_burn(v, x)
      PROVE  TypeOK'
  <2>1. /\ supply \in 0..MaxAmount /\ x \in Int /\ x > 0 /\ x <= supply
        /\ supply' = supply - x /\ MaxAmount \in Nat
    <3>1. x > 0 /\ x <= supply /\ supply' = supply - x
      BY <1>5 DEF record_wrapped_burn
    <3>2. supply \in 0..MaxAmount
      BY DEF TypeOK
    <3> QED
      BY <3>1, <3>2
  <2>2. supply' \in 0..MaxAmount
    BY <2>1
  <2> QED
    BY <2>2, <1>5 DEF record_wrapped_burn, TypeOK
<1>6. ASSUME NEW v \in Verifiers, NEW x \in Amounts, record_wrapped_mint(v, x)
      PROVE  TypeOK'
  BY <1>6 DEF record_wrapped_mint, TypeOK
<1>7. ASSUME NEW x \in 0..MaxAmount, sync_wrapped_supply(x) PROVE TypeOK'
  BY <1>7 DEF sync_wrapped_supply, TypeOK
<1>8. ASSUME NEW x \in Amounts, engine_mint(x) \/ engine_burn(x) PROVE TypeOK'
  BY <1>8 DEF engine_mint, engine_burn, TypeOK
<1>9. CASE UNCHANGED vars
  BY <1>9 DEF vars, TypeOK
<1> QED
  BY <1>1, <1>2, <1>3, <1>4, <1>5, <1>6, <1>7, <1>8, <1>9 DEF Next, GuardNext, Report

LEMMA TypeInit == Init => TypeOK
  BY BridgeCapAssumption DEF Init, TypeOK

\* Amounts stay within i128 and the capacity within 0 to 100 %, whoever calls what.
THEOREM TypesHold == Spec => []TypeOK
  BY TypeInit, TypeStep, PTL DEF Spec

\* For every collateral, capacity and scale, the overflow-free evaluation gives
\* the floor of the documented product.
THEOREM CeilingAlwaysExact == Spec => []CeilingIsExact
<1>1. TypeOK => CeilingIsExact
  BY AllowedSupplyExact, BridgeCapAssumption
  DEF TypeOK, CeilingIsExact, mint_ceiling, Configured, Config
<1> QED
  BY <1>1, TypesHold, PTL

-----------------------------------------------------------------------------

\* A mint the guard lets through leaves the supply within the collateral.
LEMMA MintIsBacked ==
  ASSUME TypeOK, NEW v \in Verifiers, NEW x \in Amounts, mint_within_cap(v, x)
  PROVE  SupplyIsBacked'
<1> USE BridgeCapAssumption
<1>1. locked \in Nat /\ config.capacity_bps \in 0..Bps /\ supply \in Nat /\ config # None
  BY DEF mint_within_cap, ByVerifier, Configured, TypeOK, Config
<1>2. mint_ceiling \in 0..locked
  <2>1. PICK l \in Nat, c \in 0..Bps : l = locked /\ c = config.capacity_bps
    BY <1>1
  <2>2. allowed_supply(l, c) \in 0..l
    BY AllowedSupplyBounds
  <2> QED
    BY <2>1, <2>2 DEF mint_ceiling
<1>3. supply + x <= mint_ceiling /\ supply' = supply + x /\ locked' = locked
  BY <1>1, <1>2 DEF mint_within_cap, require_mint_allowed, mint_exceeds_cap
<1> QED
  BY <1>1, <1>2, <1>3 DEF SupplyIsBacked

\* No call of the guard itself takes the bridge from backed to under-backed.
LEMMA GuardKeepsBacking ==
  ASSUME TypeOK, SupplyIsBacked, GuardNext
  PROVE  SupplyIsBacked'
<1> USE BridgeCapAssumption
<1>1. ASSUME NEW v \in Verifiers, NEW c \in Capacities, configure_cap_guard(v, c)
      PROVE  SupplyIsBacked'
  BY <1>1 DEF configure_cap_guard, SupplyIsBacked
<1>2. ASSUME NEW v \in Verifiers, NEW x \in Amounts, deposit_locked_collateral(v, x)
      PROVE  SupplyIsBacked'
  <2>1. x > 0 /\ x \in Int /\ locked' = locked + x /\ supply' = supply
    BY <1>2 DEF deposit_locked_collateral
  <2>2. supply \in Int /\ locked \in Int
    BY DEF TypeOK
  <2> QED
    BY <2>1, <2>2 DEF SupplyIsBacked
<1>3. ASSUME NEW x \in Amounts, release_locked_collateral(x) PROVE SupplyIsBacked'
  BY <1>3 DEF release_locked_collateral, SupplyIsBacked, TypeOK
<1>4. ASSUME NEW v \in Verifiers, NEW x \in Amounts, mint_within_cap(v, x)
      PROVE  SupplyIsBacked'
  BY <1>4, MintIsBacked
<1>5. ASSUME NEW v \in Verifiers, NEW x \in Amounts, record_wrapped_burn(v, x)
      PROVE  SupplyIsBacked'
  BY <1>5 DEF record_wrapped_burn, SupplyIsBacked, TypeOK
<1> QED
  BY <1>1, <1>2, <1>3, <1>4, <1>5 DEF GuardNext

\* Of the calls on the guard, only a report of supply that moved elsewhere, which
\* anybody may file, takes what the guard knows of from backed to under-backed.
THEOREM ReportsAloneUnback == Spec => OnlyReportsUnback
<1>1. TypeOK /\ [Next]_vars => [SupplyIsBacked /\ ~SupplyIsBacked' => Report]_vars
  <2> SUFFICES ASSUME TypeOK, Next, SupplyIsBacked, ~SupplyIsBacked' PROVE Report
    OBVIOUS
  <2>1. ~GuardNext
    BY GuardKeepsBacking
  <2>2. ASSUME NEW x \in Amounts, engine_mint(x) \/ engine_burn(x) PROVE FALSE
    BY <2>2 DEF engine_mint, engine_burn, SupplyIsBacked
  <2> QED
    BY <2>1, <2>2 DEF Next
<1> QED
  BY <1>1, TypesHold, PTL DEF Spec, OnlyReportsUnback

-----------------------------------------------------------------------------

\* A saturating difference grows with its first argument and shrinks with its
\* second.
LEMMA RoomShrinks ==
  ASSUME NEW c \in Nat, NEW d \in Nat, NEW s \in Nat, NEW t \in Nat, d <= c, t >= s
  PROVE  /\ (IF c > s THEN c - s ELSE 0) \in Nat
         /\ (IF d > t THEN d - t ELSE 0) <= (IF c > s THEN c - s ELSE 0)
         /\ (IF d > t THEN d - t ELSE 0) \in Nat
<1>1. CASE c > s /\ d > t
  BY <1>1
<1>2. CASE c > s /\ ~(d > t)
  BY <1>2
<1>3. CASE ~(c > s)
  BY <1>3
<1> QED
  BY <1>1, <1>2, <1>3

\* A step that keeps the configuration and neither adds collateral nor lowers
\* the supply does not add headroom.
LEMMA HeadroomShrinks ==
  ASSUME TypeOK, TypeOK', config' = config, locked' <= locked, supply' >= supply
  PROVE  ~(Headroom' > Headroom)
<1> USE BridgeCapAssumption
<1>1. CASE ~Configured
  BY <1>1 DEF Headroom, Configured
<1>2. CASE Configured
  <2>1. /\ locked \in Nat /\ locked' \in Nat /\ supply \in Nat /\ supply' \in Nat
        /\ config.capacity_bps \in 0..Bps
    BY <1>2 DEF TypeOK, Config, Configured
  <2>2. mint_ceiling = allowed_supply(locked, config.capacity_bps)
        /\ mint_ceiling' = allowed_supply(locked', config.capacity_bps)
    BY DEF mint_ceiling
  <2>3. mint_ceiling \in Nat /\ mint_ceiling' \in 0..mint_ceiling
    <3> HIDE BridgeCapAssumption
    <3>1. /\ allowed_supply(locked, config.capacity_bps) \in 0..locked
          /\ allowed_supply(locked', config.capacity_bps)
               \in 0..allowed_supply(locked, config.capacity_bps)
      BY <2>1, AllowedSupplyBounds
    <3> QED
      BY <2>1, <2>2, <3>1
  <2>4. PICK c \in Nat, d \in Nat : c = mint_ceiling /\ d = mint_ceiling' /\ d <= c
    BY <2>3
  <2>5. /\ Headroom = IF c > supply THEN c - supply ELSE 0
        /\ Headroom' = IF d > supply' THEN d - supply' ELSE 0
    BY <1>2, <2>4 DEF Headroom, Configured
  <2>6. PICK s \in Nat, t \in Nat : s = supply /\ t = supply' /\ t >= s
    BY <2>1
  <2>7. /\ (IF c > s THEN c - s ELSE 0) \in Nat
        /\ (IF d > t THEN d - t ELSE 0) <= (IF c > s THEN c - s ELSE 0)
        /\ (IF d > t THEN d - t ELSE 0) \in Nat
    BY <2>4, <2>6, RoomShrinks
  <2>8. Headroom \in Nat /\ Headroom' \in Nat /\ Headroom' <= Headroom
    BY <2>5, <2>6, <2>7
  <2> QED
    BY <2>8
<1> QED
  BY <1>1, <1>2

\* Room to mint comes from collateral, from the admin, or from a burn somebody
\* reports in the verifier's name (record_wrapped_burn compares an argument and
\* asks for no signature); neither the sync nor a release nor a mint creates any.
THEOREM HeadroomAlwaysEarned == Spec => HeadroomIsEarned
<1> DEFINE Burn == \E v \in Verifiers, x \in Amounts : record_wrapped_burn(v, x)
<1>1. TypeOK /\ TypeOK' /\ [Next]_vars =>
        [Headroom' > Headroom => locked' > locked \/ Burn \/ config' # config]_vars
  <2> SUFFICES ASSUME TypeOK, TypeOK', Next, ~Burn, config' = config, ~(locked' > locked)
               PROVE  ~(Headroom' > Headroom)
    OBVIOUS
  <2> USE BridgeCapAssumption
  <2>1. locked' <= locked
    BY DEF TypeOK
  <2>2. ASSUME NEW v \in Verifiers, NEW c \in Capacities, configure_cap_guard(v, c)
        PROVE  supply' >= supply
    BY <2>2 DEF configure_cap_guard, TypeOK
  <2>3. ASSUME NEW v \in Verifiers, NEW x \in Amounts, deposit_locked_collateral(v, x)
        PROVE  supply' >= supply
    BY <2>3 DEF deposit_locked_collateral, TypeOK
  <2>4. ASSUME NEW x \in Amounts, release_locked_collateral(x) PROVE supply' >= supply
    BY <2>4 DEF release_locked_collateral, TypeOK
  <2>5. ASSUME NEW v \in Verifiers, NEW x \in Amounts,
               mint_within_cap(v, x) \/ record_wrapped_mint(v, x)
        PROVE  supply' >= supply
    BY <2>5 DEF mint_within_cap, require_mint_allowed, record_wrapped_mint, TypeOK
  <2>6. ASSUME NEW x \in 0..MaxAmount, sync_wrapped_supply(x) PROVE supply' >= supply
    BY <2>6 DEF sync_wrapped_supply, TypeOK
  <2>7. ASSUME NEW x \in Amounts, engine_mint(x) \/ engine_burn(x)
        PROVE  supply' >= supply
    BY <2>7 DEF engine_mint, engine_burn, TypeOK
  <2>8. supply' >= supply
    BY <2>2, <2>3, <2>4, <2>5, <2>6, <2>7 DEF Next, GuardNext, Report
  <2> QED
    BY <2>1, <2>8, HeadroomShrinks
<1> QED
  BY <1>1, TypesHold, PTL DEF Spec, HeadroomIsEarned

-----------------------------------------------------------------------------
(***************************************************************************)
(* The wrapped asset.                                                      *)
(***************************************************************************)

\* An instance of Balances adds up what Balances adds up.
LEMMA WrappedSum ==
  ASSUME NEW f, NEW S
  PROVE  Wrapped!SumOf(f, S) = SumOf(f, S)
BY DEF Wrapped!SumOf, SumOf, Wrapped!MapThenSumSet, MapThenSumSet,
       Wrapped!MapThenFoldSet, MapThenFoldSet

\* The parameters of the wrapped asset.
LEMMA WrappedFacts ==
  /\ IsFiniteSet(Holders) /\ IsFiniteSet(Wrapped!Times) /\ None \notin Wrapped!Config
  /\ MintAmounts \subseteq Int /\ Caps \subseteq Int
  /\ MintWindow \in Nat \ {0} /\ Genesis \in Nat \ {0} /\ MintTime \in Nat
  /\ Wrapped!Times = Genesis..MintTime /\ Genesis <= MintTime
<1>1. IsFiniteSet(Genesis..MintTime)
  BY WrappedAssumption, FS_Interval DEF Wrapped!WrappedAssetAssumption
<1>2. IsFiniteSet(Holders)
  BY WrappedAssumption, Zenon
  DEF Wrapped!WrappedAssetAssumption, Wrapped!IsFiniteSet, IsFiniteSet
<1> QED
  BY <1>1, <1>2, WrappedAssumption DEF Wrapped!WrappedAssetAssumption, Wrapped!Times

(***************************************************************************)
(* The inductive invariant of the asset: nothing circulates before it is   *)
(* registered; within the window the limiter's list is what was minted,    *)
(* and nothing is dated in the future, which holds as the clock moves on   *)
(* because the window only ever loses its oldest second.                   *)
(***************************************************************************)
NothingUnregistered == ~Wrapped!Registered => \A h \in Holders : wrapped_balance[h] = 0

ListIsComplete ==
  \A t \in Wrapped!Times :
    /\ t > wrapped_now => wrapped_recent[t] = 0 /\ wrapped_minted[t] = 0
    /\ Wrapped!InWindow(t) => wrapped_recent[t] = wrapped_minted[t]

WrappedInv ==
  /\ Wrapped!TypeOK
  /\ NothingUnregistered
  /\ Wrapped!SupplyIsBalances
  /\ ListIsComplete

LEMMA WrappedInit == Wrapped!Init => WrappedInv
<1> SUFFICES ASSUME Wrapped!Init PROVE WrappedInv
  OBVIOUS
<1>1. Wrapped!TypeOK
  BY WrappedFacts DEF Wrapped!Init, Wrapped!TypeOK
<1>2. NothingUnregistered /\ Wrapped!SupplyIsBalances /\ ListIsComplete
  BY WrappedFacts DEF Wrapped!Init, NothingUnregistered, Wrapped!SupplyIsBalances,
     ListIsComplete, Wrapped!Registered
<1> QED
  BY <1>1, <1>2 DEF WrappedInv

\* The sum of the balances changes by as much as the one that changes.
LEMMA BalancesShift ==
  \A f \in [Holders -> Nat], g \in [Holders -> Nat], h \in Holders :
    (\A k \in Holders : k # h => g[k] = f[k])
    => /\ SumOf(f, Holders) \in Nat /\ SumOf(g, Holders) \in Nat
       /\ SumOf(g, Holders) = SumOf(f, Holders) + g[h] - f[h]
BY WrappedFacts, SumShift

\* enforce_and_record keeps the list complete: what it drops is outside of the
\* window, and what it adds is what the history adds.
LEMMA RecordingKeepsList ==
  ASSUME WrappedInv, NEW x \in MintAmounts, x > 0,
         wrapped_recent' = [t \in Wrapped!Times |->
                              (IF Wrapped!InWindow(t) THEN wrapped_recent[t] ELSE 0)
                              + (IF t = wrapped_now THEN x ELSE 0)],
         wrapped_minted' = [wrapped_minted EXCEPT ![wrapped_now] = @ + x],
         wrapped_now' = wrapped_now
  PROVE  /\ wrapped_recent' \in [Wrapped!Times -> Nat]
         /\ wrapped_minted' \in [Wrapped!Times -> Nat]
         /\ ListIsComplete'
<1> USE WrappedFacts
<1>1. /\ wrapped_now \in Wrapped!Times /\ wrapped_now \in Nat /\ x \in Nat
      /\ wrapped_recent \in [Wrapped!Times -> Nat]
      /\ wrapped_minted \in [Wrapped!Times -> Nat]
      /\ \A t \in Wrapped!Times : t \in Nat
  BY DEF WrappedInv, Wrapped!TypeOK
<1>2. /\ wrapped_recent' \in [Wrapped!Times -> Nat]
      /\ wrapped_minted' \in [Wrapped!Times -> Nat]
  BY <1>1, SMTT(30)
<1>3. ASSUME NEW t \in Wrapped!Times
      PROVE  /\ t > wrapped_now => wrapped_recent'[t] = 0 /\ wrapped_minted'[t] = 0
             /\ Wrapped!InWindow(t)' => wrapped_recent'[t] = wrapped_minted'[t]
  <2>1. Wrapped!InWindow(t)' <=> Wrapped!InWindow(t)
    BY DEF Wrapped!InWindow
  <2>2. wrapped_minted'[t] = IF t = wrapped_now THEN wrapped_minted[t] + x ELSE wrapped_minted[t]
    BY <1>1
  <2>3. wrapped_recent'[t] = (IF Wrapped!InWindow(t) THEN wrapped_recent[t] ELSE 0)
                             + (IF t = wrapped_now THEN x ELSE 0)
    BY <1>1
  <2>4. /\ t > wrapped_now => wrapped_recent[t] = 0 /\ wrapped_minted[t] = 0
        /\ Wrapped!InWindow(t) => wrapped_recent[t] = wrapped_minted[t]
    BY DEF WrappedInv, ListIsComplete
  <2> QED
    BY <1>1, <2>1, <2>2, <2>3, <2>4
<1> QED
  BY <1>2, <1>3 DEF ListIsComplete

\* Within the window the code looks at, the list adds up to what was minted in
\* the last window.
LEMMA RollingIsMinted ==
  ASSUME WrappedInv
  PROVE  SumOf(wrapped_recent, {t \in Wrapped!Times : Wrapped!InWindow(t)})
           = SumOf(wrapped_minted, {t \in Wrapped!Times : wrapped_now - MintWindow < t /\ t <= wrapped_now})
<1> DEFINE A == {t \in Wrapped!Times : Wrapped!InWindow(t)}
           L == {t \in Wrapped!Times : wrapped_now - MintWindow < t /\ t <= wrapped_now}
<1> USE WrappedFacts
<1>1. /\ wrapped_now \in Nat
      /\ \A t \in Wrapped!Times : t \in Nat \ {0} /\ wrapped_minted[t] \in Nat
  BY DEF WrappedInv, Wrapped!TypeOK
<1>2. /\ L \in SUBSET A /\ IsFiniteSet(A)
      /\ \A t \in A \ L : t > wrapped_now
      /\ \A t \in A : t \in Wrapped!Times /\ Wrapped!InWindow(t)
  BY <1>1, FS_Subset DEF Wrapped!InWindow
<1> HIDE DEF A, L
<1>3. \A t \in A : wrapped_recent[t] = wrapped_minted[t]
  BY <1>2 DEF WrappedInv, ListIsComplete
<1>4. /\ \A t \in A \ L : wrapped_minted[t] = 0
      /\ \A t \in A : wrapped_minted[t] \in Int
  BY <1>1, <1>2 DEF WrappedInv, ListIsComplete
<1>5. SumOf(wrapped_recent, A) = SumOf(wrapped_minted, A)
  BY <1>2, <1>3, SumAgree
<1>6. SumOf(wrapped_minted, A) = SumOf(wrapped_minted, L)
  BY <1>2, <1>4, SumZeroOutside
<1> QED
  BY <1>5, <1>6 DEF A, L

\* Every call on the wrapped asset keeps its invariant.
LEMMA WrappedStep == WrappedInv /\ [Wrapped!Next]_wrappedVars => WrappedInv'
<1> SUFFICES ASSUME WrappedInv, [Wrapped!Next]_wrappedVars PROVE WrappedInv'
  OBVIOUS
<1> USE WrappedFacts
<1>0. /\ wrapped_now \in Wrapped!Times /\ wrapped_now \in Nat
      /\ wrapped_config \in Wrapped!Config \cup {None}
      /\ wrapped_balance \in [Holders -> Nat]
      /\ wrapped_cap \in Caps \cup {None}
      /\ wrapped_recent \in [Wrapped!Times -> Nat] /\ wrapped_minted \in [Wrapped!Times -> Nat]
      /\ NothingUnregistered /\ Wrapped!SupplyIsBalances /\ ListIsComplete
  BY DEF WrappedInv, Wrapped!TypeOK
<1>0a. ASSUME UNCHANGED <<wrapped_now, wrapped_recent, wrapped_minted>> PROVE ListIsComplete'
  BY <1>0, <1>0a DEF ListIsComplete, Wrapped!InWindow
<1>1. CASE Wrapped!Tick
  <2>1. /\ wrapped_now' = wrapped_now + 1 /\ wrapped_now' \in Wrapped!Times
        /\ UNCHANGED <<wrapped_config, wrapped_balance, wrapped_cap, wrapped_recent, wrapped_minted>>
    BY <1>0, <1>1 DEF Wrapped!Tick
  <2>2. ListIsComplete'
    <3> SUFFICES ASSUME NEW t \in Wrapped!Times
                 PROVE  /\ t > wrapped_now' => wrapped_recent[t] = 0 /\ wrapped_minted[t] = 0
                        /\ Wrapped!InWindow(t)' => wrapped_recent[t] = wrapped_minted[t]
      BY <2>1 DEF ListIsComplete
    <3>1. t \in Nat
      OBVIOUS
    <3>2. Wrapped!InWindow(t)' => Wrapped!InWindow(t)
      BY <1>0, <2>1, <3>1 DEF Wrapped!InWindow
    <3> QED
      BY <1>0, <2>1, <3>1, <3>2 DEF ListIsComplete
  <2> QED
    BY <1>0, <2>1, <2>2
    DEF WrappedInv, Wrapped!TypeOK, NothingUnregistered, Wrapped!SupplyIsBalances, Wrapped!Registered
<1>2. ASSUME NEW c \in Controllers, NEW m \in Caps, Wrapped!register_wrapped_asset(c, m)
      PROVE  WrappedInv'
  <2>1. /\ m > 0 /\ ~Wrapped!Registered
        /\ wrapped_config' = [controller |-> c, max_supply |-> m, total_supply |-> 0]
        /\ UNCHANGED <<wrapped_now, wrapped_balance, wrapped_cap, wrapped_recent, wrapped_minted>>
    BY <1>2 DEF Wrapped!register_wrapped_asset
  <2>2. wrapped_config' \in Wrapped!Config
    BY <2>1 DEF Wrapped!Config
  <2>3. SumOf(wrapped_balance, Holders) = 0
    BY <1>0, <2>1, SumZero DEF NothingUnregistered
  <2>4. Wrapped!SupplyIsBalances'
    BY <2>1, <2>3, WrappedSum DEF Wrapped!SupplyIsBalances
  <2>5. Wrapped!Registered'
    BY <2>2 DEF Wrapped!Registered
  <2> QED
    BY <1>0, <1>0a, <2>1, <2>2, <2>4, <2>5 DEF WrappedInv, Wrapped!TypeOK, NothingUnregistered
<1>3. ASSUME NEW c \in Controllers, Wrapped!set_bridge_controller(c) PROVE WrappedInv'
  <2>1. /\ wrapped_config \in Wrapped!Config
        /\ wrapped_config' = [wrapped_config EXCEPT !.controller = c]
        /\ UNCHANGED <<wrapped_now, wrapped_balance, wrapped_cap, wrapped_recent, wrapped_minted>>
    BY <1>0, <1>3 DEF Wrapped!set_bridge_controller, Wrapped!Registered
  <2>2. /\ wrapped_config' \in Wrapped!Config
        /\ wrapped_config'.total_supply = wrapped_config.total_supply
        /\ wrapped_config'.max_supply = wrapped_config.max_supply
    BY <2>1 DEF Wrapped!Config
  <2>3. Wrapped!Registered /\ Wrapped!Registered'
    BY <2>1, <2>2 DEF Wrapped!Registered
  <2>4. Wrapped!SupplyIsBalances'
    BY <1>0, <2>1, <2>2, <2>3 DEF Wrapped!SupplyIsBalances
  <2> QED
    BY <1>0, <1>0a, <2>1, <2>2, <2>3, <2>4 DEF WrappedInv, Wrapped!TypeOK, NothingUnregistered
<1>4. ASSUME NEW m \in Caps, Wrapped!set_limit(m) PROVE WrappedInv'
  BY <1>0, <1>0a, <1>4
  DEF Wrapped!set_limit, WrappedInv, Wrapped!TypeOK, NothingUnregistered,
      Wrapped!SupplyIsBalances, Wrapped!Registered
<1>5. ASSUME NEW c \in Controllers, NEW h \in Holders, NEW x \in MintAmounts, Wrapped!mint(c, h, x)
      PROVE  WrappedInv'
  <2>1. /\ x > 0 /\ x \in Int /\ Wrapped!Registered
        /\ wrapped_config.total_supply + x <= wrapped_config.max_supply
        /\ wrapped_config' = [wrapped_config EXCEPT !.total_supply = @ + x]
        /\ wrapped_balance' = [wrapped_balance EXCEPT ![h] = @ + x]
        /\ wrapped_minted' = [wrapped_minted EXCEPT ![wrapped_now] = @ + x]
        /\ wrapped_recent' = [t \in Wrapped!Times |->
                              (IF Wrapped!InWindow(t) THEN wrapped_recent[t] ELSE 0)
                              + (IF t = wrapped_now THEN x ELSE 0)]
        /\ wrapped_now' = wrapped_now /\ wrapped_cap' = wrapped_cap
    BY <1>5 DEF Wrapped!mint, Wrapped!enforce_and_record
  <2>2. /\ wrapped_recent' \in [Wrapped!Times -> Nat]
        /\ wrapped_minted' \in [Wrapped!Times -> Nat]
        /\ ListIsComplete'
    <3> HIDE WrappedFacts
    <3> QED  BY <2>1, RecordingKeepsList
  <2>3. wrapped_config \in Wrapped!Config
    BY <1>0, <2>1 DEF Wrapped!Registered
  <2>4. /\ wrapped_config' \in Wrapped!Config
        /\ wrapped_config'.total_supply = wrapped_config.total_supply + x
        /\ wrapped_config'.max_supply = wrapped_config.max_supply
        /\ wrapped_config.total_supply \in Int /\ wrapped_config.max_supply \in Int
    BY <2>1, <2>3 DEF Wrapped!Config
  <2>5. /\ wrapped_balance' \in [Holders -> Nat] /\ wrapped_balance'[h] = wrapped_balance[h] + x
        /\ \A k \in Holders : k # h => wrapped_balance'[k] = wrapped_balance[k]
        /\ wrapped_balance[h] \in Nat
    BY <1>0, <2>1
  <2>6. /\ SumOf(wrapped_balance, Holders) \in Nat
        /\ SumOf(wrapped_balance', Holders) = SumOf(wrapped_balance, Holders) + x
    <3>1. /\ SumOf(wrapped_balance, Holders) \in Nat
          /\ SumOf(wrapped_balance', Holders)
               = SumOf(wrapped_balance, Holders) + wrapped_balance'[h] - wrapped_balance[h]
      BY <1>0, <2>5, BalancesShift
    <3> QED
      BY <2>1, <2>5, <3>1
  <2>7. Wrapped!SupplyIsBalances'
    BY <1>0, <2>1, <2>4, <2>6, WrappedSum DEF Wrapped!SupplyIsBalances
  <2>8. NothingUnregistered'
    BY <2>4 DEF NothingUnregistered, Wrapped!Registered
  <2> QED
    BY <1>0, <2>1, <2>2, <2>4, <2>5, <2>7, <2>8 DEF WrappedInv, Wrapped!TypeOK
<1>6. ASSUME NEW c \in Controllers, NEW h \in Holders, NEW x \in MintAmounts, Wrapped!burn(c, h, x)
      PROVE  WrappedInv'
  <2>1. /\ x > 0 /\ x \in Int /\ Wrapped!Registered /\ x <= wrapped_balance[h]
        /\ wrapped_config' = [wrapped_config EXCEPT !.total_supply = @ - x]
        /\ wrapped_balance' = [wrapped_balance EXCEPT ![h] = @ - x]
        /\ UNCHANGED <<wrapped_now, wrapped_cap, wrapped_recent, wrapped_minted>>
    BY <1>6 DEF Wrapped!burn
  <2>2. wrapped_config \in Wrapped!Config
    BY <1>0, <2>1 DEF Wrapped!Registered
  <2>3. /\ wrapped_config' \in Wrapped!Config
        /\ wrapped_config'.total_supply = wrapped_config.total_supply - x
        /\ wrapped_config'.max_supply = wrapped_config.max_supply
        /\ wrapped_config.total_supply \in Int /\ wrapped_config.max_supply \in Int
    BY <2>1, <2>2 DEF Wrapped!Config
  <2>4. /\ wrapped_balance' \in [Holders -> Nat] /\ wrapped_balance'[h] = wrapped_balance[h] - x
        /\ \A k \in Holders : k # h => wrapped_balance'[k] = wrapped_balance[k]
        /\ wrapped_balance[h] \in Nat
    BY <1>0, <2>1
  <2>5. /\ SumOf(wrapped_balance', Holders) \in Nat /\ SumOf(wrapped_balance, Holders) \in Nat
        /\ SumOf(wrapped_balance', Holders) = SumOf(wrapped_balance, Holders) - x
    <3>1. /\ SumOf(wrapped_balance, Holders) \in Nat /\ SumOf(wrapped_balance', Holders) \in Nat
          /\ SumOf(wrapped_balance', Holders)
               = SumOf(wrapped_balance, Holders) + wrapped_balance'[h] - wrapped_balance[h]
      BY <1>0, <2>4, BalancesShift
    <3> QED
      BY <2>1, <2>4, <3>1
  <2>6. Wrapped!SupplyIsBalances'
    BY <1>0, <2>1, <2>3, <2>5, WrappedSum DEF Wrapped!SupplyIsBalances
  <2>7. NothingUnregistered'
    BY <2>3 DEF NothingUnregistered, Wrapped!Registered
  <2> QED
    BY <1>0, <1>0a, <2>1, <2>3, <2>4, <2>6, <2>7 DEF WrappedInv, Wrapped!TypeOK
<1>7. CASE UNCHANGED wrappedVars
  BY <1>0, <1>0a, <1>7
  DEF wrappedVars, WrappedInv, Wrapped!TypeOK, NothingUnregistered, Wrapped!SupplyIsBalances,
      Wrapped!Registered
<1> QED
  BY <1>1, <1>2, <1>3, <1>4, <1>5, <1>6, <1>7 DEF Wrapped!Next

\* What is minted at one time adds as much to the sum over any set of times
\* that includes it.
LEMMA TimesShift ==
  \A f \in [Wrapped!Times -> Nat], g \in [Wrapped!Times -> Nat],
     L \in SUBSET Wrapped!Times, t \in Wrapped!Times :
    t \in L /\ (\A k \in Wrapped!Times : k # t => g[k] = f[k])
    => SumOf(f, L) \in Int /\ SumOf(g, L) = SumOf(f, L) + g[t] - f[t]
<1> SUFFICES ASSUME NEW f \in [Wrapped!Times -> Nat], NEW g \in [Wrapped!Times -> Nat],
                    NEW L \in SUBSET Wrapped!Times, NEW t \in Wrapped!Times, t \in L,
                    \A k \in Wrapped!Times : k # t => g[k] = f[k]
             PROVE  SumOf(f, L) \in Int /\ SumOf(g, L) = SumOf(f, L) + g[t] - f[t]
  OBVIOUS
<1>1. IsFiniteSet(L)
  BY WrappedFacts, FS_Subset
<1>2. /\ \A k \in L : f[k] \in Int
      /\ \A k \in L \ {t} : g[k] = f[k]
      /\ g[t] \in Int
  OBVIOUS
<1> QED
  BY <1>1, <1>2, SumUpdate, SumInt

\* Whatever was dropped from the limiter's list and whenever the limit was
\* changed, no mint takes the last window above the limit in force.
LEMMA MintWithinLimit ==
  ASSUME WrappedInv, Wrapped!Next, wrapped_minted' # wrapped_minted
  PROVE  SumOf(wrapped_minted', {t \in Wrapped!Times : wrapped_now - MintWindow < t /\ t <= wrapped_now})
           <= Wrapped!EffectiveCap(wrapped_config.max_supply)
<1> DEFINE L == {t \in Wrapped!Times : wrapped_now - MintWindow < t /\ t <= wrapped_now}
           rolling == SumOf(wrapped_recent, {t \in Wrapped!Times : Wrapped!InWindow(t)})
<1>1. PICK c \in Controllers, h \in Holders, x \in MintAmounts : Wrapped!mint(c, h, x)
  BY DEF Wrapped!Next, Wrapped!Tick, Wrapped!register_wrapped_asset, Wrapped!set_bridge_controller,
     Wrapped!set_limit, Wrapped!burn
<1>2. /\ x > 0 /\ rolling + x <= Wrapped!EffectiveCap(wrapped_config.max_supply)
      /\ wrapped_minted' = [wrapped_minted EXCEPT ![wrapped_now] = @ + x]
  BY <1>1, WrappedSum DEF Wrapped!mint, Wrapped!enforce_and_record
<1>3. rolling = SumOf(wrapped_minted, L)
  BY RollingIsMinted
<1>4. /\ wrapped_now \in Wrapped!Times /\ wrapped_minted \in [Wrapped!Times -> Nat]
      /\ x \in Int /\ wrapped_now \in Nat
  BY WrappedFacts DEF WrappedInv, Wrapped!TypeOK
<1>5. /\ wrapped_minted' \in [Wrapped!Times -> Nat]
      /\ wrapped_minted'[wrapped_now] = wrapped_minted[wrapped_now] + x
      /\ \A k \in Wrapped!Times : k # wrapped_now => wrapped_minted'[k] = wrapped_minted[k]
      /\ wrapped_minted[wrapped_now] \in Nat
  BY <1>2, <1>4
<1>6. L \in SUBSET Wrapped!Times /\ wrapped_now \in L
  BY <1>4, WrappedFacts
<1> HIDE DEF L, rolling
<1>7. /\ SumOf(wrapped_minted, L) \in Int
      /\ SumOf(wrapped_minted', L)
           = SumOf(wrapped_minted, L) + wrapped_minted'[wrapped_now] - wrapped_minted[wrapped_now]
  BY <1>4, <1>5, <1>6, TimesShift
<1>8. SumOf(wrapped_minted', L) = rolling + x
  BY <1>3, <1>4, <1>5, <1>7
<1>9. SumOf(wrapped_minted', L) <= Wrapped!EffectiveCap(wrapped_config.max_supply)
  BY <1>2, <1>8
<1> QED
  BY <1>9 DEF L

\* The wrapped asset is a component of the bridge: a step of the bridge is a step
\* of it or leaves it alone.
LEMMA WrappedIsPart == MCSpec => Wrapped!Spec
<1>1. MCInit => Wrapped!Init
  BY DEF MCInit
<1>2. [MCNext]_allVars => [Wrapped!Next]_Wrapped!vars
  BY DEF MCNext, allVars, wrappedVars, Wrapped!vars
<1> QED
  BY <1>1, <1>2, PTL DEF MCSpec, Wrapped!Spec

\* The supply of the wrapped asset is the sum of its balances and within its
\* ceiling, and the limiter's list is what was minted in its window.
LEMMA WrappedAlways == Wrapped!Spec => []WrappedInv
<1>1. WrappedInv /\ [Wrapped!Next]_Wrapped!vars => WrappedInv'
  BY WrappedStep DEF Wrapped!vars, wrappedVars
<1> QED
  BY <1>1, WrappedInit, PTL DEF Wrapped!Spec

\* A mint never brings what was really minted within the last window above the
\* limit in force, however the admin moves the limit and whatever was burnt or
\* dropped from the list in between.
THEOREM RollingLimitAlwaysHolds == MCSpec => RollingLimitHolds
<1>1. WrappedInv /\ [Wrapped!Next]_Wrapped!vars =>
        [wrapped_minted' # wrapped_minted =>
           Wrapped!SumOf(wrapped_minted', {t \in Wrapped!Times : wrapped_now - MintWindow < t /\ t <= wrapped_now})
             <= Wrapped!EffectiveCap(wrapped_config.max_supply)]_Wrapped!vars
  BY MintWithinLimit, WrappedSum
<1> QED
  BY <1>1, WrappedIsPart, WrappedAlways, PTL DEF RollingLimitHolds, Wrapped!RollingLimitHolds, Wrapped!Spec

-----------------------------------------------------------------------------
(***************************************************************************)
(* The vault and its remittances.                                          *)
(***************************************************************************)

LEMMA VaultSum ==
  ASSUME NEW f, NEW S
  PROVE  Vault!SumOf(f, S) = SumOf(f, S)
BY DEF Vault!SumOf, SumOf, Vault!MapThenSumSet, MapThenSumSet,
       Vault!MapThenFoldSet, MapThenFoldSet

\* The parameters of the vault.
LEMMA VaultFacts ==
  /\ Self \notin Users /\ None \notin Tokens /\ None \notin Vault!Remittance /\ None \notin Vault!Deposit
  /\ VaultAmounts \subseteq Int /\ Lifetimes \subseteq Nat
  /\ VaultWindow \in Nat \ {0} /\ Genesis \in Nat \ {0} /\ VaultTime \in Nat
  /\ MaxIds \in Nat /\ Supply \in Nat /\ Genesis <= VaultTime
  /\ Vault!Ids = 0..(MaxIds - 1) /\ IsFiniteSet(Vault!Ids) /\ Vault!Times = Genesis..VaultTime
<1>1. IsFiniteSet(0..(MaxIds - 1))
  BY VaultAssumption, FS_Interval DEF Vault!BridgeVaultAssumption
<1> QED
  BY <1>1, VaultAssumption DEF Vault!BridgeVaultAssumption, Vault!Ids, Vault!Times

Holding == [Tokens -> [Users \cup {Self} -> Nat]]

\* A transfer of one token between the contract and a user, seen from the
\* contract's balances.
LEMMA TransferIn ==
  ASSUME NEW bal \in Holding, NEW t \in Tokens, NEW u \in Users, NEW x \in Nat,
         Vault!CanMove(bal[t], u, x)
  PROVE  /\ Vault!MoveOf(bal, t, u, Self, x) \in Holding
         /\ \A k \in Tokens : Vault!MoveOf(bal, t, u, Self, x)[k][Self]
                                = bal[k][Self] + (IF k = t THEN x ELSE 0)
<1> DEFINE b == [bal[t] EXCEPT ![u] = @ - x, ![Self] = @ + x]
<1>1. bal[t] \in [Users \cup {Self} -> Nat] /\ bal[t][u] >= x /\ Self # u
  BY VaultFacts DEF Holding, Vault!CanMove
<1>2. b \in [Users \cup {Self} -> Nat] /\ b[Self] = bal[t][Self] + x
  BY <1>1
<1>3. Vault!MoveOf(bal, t, u, Self, x) = [bal EXCEPT ![t] = b]
  BY DEF Vault!MoveOf, Vault!Move
<1> HIDE DEF b
<1> QED
  BY <1>1, <1>2, <1>3 DEF Holding

LEMMA TransferOut ==
  ASSUME NEW bal \in Holding, NEW t \in Tokens, NEW u \in Users, NEW x \in Nat,
         Vault!CanMove(bal[t], Self, x)
  PROVE  /\ Vault!MoveOf(bal, t, Self, u, x) \in Holding
         /\ \A k \in Tokens : Vault!MoveOf(bal, t, Self, u, x)[k][Self]
                                = bal[k][Self] - (IF k = t THEN x ELSE 0)
<1> DEFINE b == [bal[t] EXCEPT ![Self] = @ - x, ![u] = @ + x]
<1>1. bal[t] \in [Users \cup {Self} -> Nat] /\ bal[t][Self] >= x /\ Self # u
  BY VaultFacts DEF Holding, Vault!CanMove
<1>2. b \in [Users \cup {Self} -> Nat] /\ b[Self] = bal[t][Self] - x
  BY <1>1
<1>3. Vault!MoveOf(bal, t, Self, u, x) = [bal EXCEPT ![t] = b]
  BY DEF Vault!MoveOf, Vault!Move
<1> HIDE DEF b
<1> QED
  BY <1>1, <1>2, <1>3 DEF Holding

(***************************************************************************)
(* The inductive invariant of the vault: identifiers from RemittanceNonce  *)
(* on are unused, or a creation could erase an open claim, and a nonce is  *)
(* paid exactly when it is recorded as spent.                              *)
(***************************************************************************)
UnusedIds == \A i \in Vault!Ids : i >= vault_nextId => vault_remittance[i] = None

PaidIsSpent ==
  /\ vault_paid \in [Nonces -> Nat]
  /\ \A n \in Nonces : vault_paid[n] = IF n \in vault_spent THEN 1 ELSE 0

VaultInv ==
  /\ Vault!TypeOK
  /\ UnusedIds
  /\ Vault!PoolsAreSeparate
  /\ PaidIsSpent

\* The amounts of a well-formed remittance are not negative, so neither is what
\* it claims.
LEMMA RemittanceAmounts ==
  \A r \in Vault!Remittance :
    /\ r.amount \in Nat /\ r.amount > 0 /\ r.fee \in Nat
    /\ r.primary \in Tokens /\ r.fee_token \in Tokens \cup {None}
    /\ r.sender \in Users /\ r.recipient \in Users /\ r.expires_at \in Nat
    /\ r.released \in BOOLEAN /\ r.refunded \in BOOLEAN
<1>1. \A x \in {y \in VaultAmounts : y > 0} : x \in Nat /\ x > 0
  BY VaultFacts
<1>2. \A x \in {y \in VaultAmounts : y >= 0} : x \in Nat
  BY VaultFacts
<1> QED
  BY <1>1, <1>2 DEF Vault!Remittance

LEMMA ClaimType ==
  ASSUME NEW i \in Vault!Ids, vault_remittance[i] \in Vault!Remittance \cup {None},
         NEW t \in Tokens
  PROVE  Vault!Claim(i, t) \in Nat
<1>1. CASE Vault!Open(i)
  <2>1. vault_remittance[i] \in Vault!Remittance
    BY <1>1 DEF Vault!Open, Vault!Exists
  <2>2. vault_remittance[i].amount \in Nat /\ vault_remittance[i].fee \in Nat
    BY <2>1, RemittanceAmounts
  <2> QED
    BY <2>2 DEF Vault!Claim
<1>2. CASE ~Vault!Open(i)
  BY <1>2 DEF Vault!Claim
<1> QED
  BY <1>1, <1>2

LEMMA ClaimsShift ==
  \A f \in [Vault!Ids -> Nat], g \in [Vault!Ids -> Nat], i \in Vault!Ids :
    (\A j \in Vault!Ids : j # i => g[j] = f[j])
    => /\ SumOf(f, Vault!Ids) \in Nat /\ SumOf(g, Vault!Ids) \in Nat
       /\ SumOf(g, Vault!Ids) = SumOf(f, Vault!Ids) + g[i] - f[i]
<1>1. IsFiniteSet(Vault!Ids)
  BY VaultFacts
<1> QED
  BY <1>1, SumShift

\* A step that touches one remittance changes what is owed by what it changes
\* in the claim of that remittance.
LEMMA OwedShift ==
  ASSUME vault_remittance \in [Vault!Ids -> Vault!Remittance \cup {None}],
         vault_remittance' \in [Vault!Ids -> Vault!Remittance \cup {None}],
         NEW i \in Vault!Ids, \A j \in Vault!Ids : j # i => vault_remittance'[j] = vault_remittance[j],
         NEW t \in Tokens
  PROVE  /\ Vault!Owed(t) \in Nat /\ Vault!Owed(t)' \in Nat
         /\ Vault!Owed(t)' = Vault!Owed(t) + Vault!Claim(i, t)' - Vault!Claim(i, t)
<1> DEFINE f == [j \in Vault!Ids |-> Vault!Claim(j, t)]
           g == [j \in Vault!Ids |-> Vault!Claim(j, t)']
<1>1. \A j \in Vault!Ids : Vault!Claim(j, t) \in Nat
  BY ClaimType
<1>2. \A j \in Vault!Ids : Vault!Claim(j, t)' \in Nat
  <2> SUFFICES ASSUME NEW j \in Vault!Ids PROVE Vault!Claim(j, t)' \in Nat
    OBVIOUS
  <2>1. CASE Vault!Open(j)'
    <3>1. vault_remittance'[j] \in Vault!Remittance
      BY <2>1 DEF Vault!Open, Vault!Exists
    <3>2. vault_remittance'[j].amount \in Nat /\ vault_remittance'[j].fee \in Nat
      BY <3>1, RemittanceAmounts
    <3> QED
      BY <3>2 DEF Vault!Claim
  <2>2. CASE ~Vault!Open(j)'
    BY <2>2 DEF Vault!Claim
  <2> QED
    BY <2>1, <2>2
<1>3. \A j \in Vault!Ids : j # i => Vault!Claim(j, t)' = Vault!Claim(j, t)
  BY DEF Vault!Claim, Vault!Open, Vault!Exists
<1>4. /\ f \in [Vault!Ids -> Nat] /\ g \in [Vault!Ids -> Nat]
      /\ \A j \in Vault!Ids : j # i => g[j] = f[j]
      /\ f[i] = Vault!Claim(i, t) /\ g[i] = Vault!Claim(i, t)'
  BY <1>1, <1>2, <1>3
<1>5. Vault!Owed(t) = SumOf(f, Vault!Ids) /\ Vault!Owed(t)' = SumOf(g, Vault!Ids)
  BY VaultSum DEF Vault!Owed
<1> HIDE DEF f, g
<1> QED
  BY <1>4, <1>5, ClaimsShift

\* Paying a remittance out takes from the contract exactly what it claims, in
\* each token.
LEMMA PaysTheClaim ==
  ASSUME Vault!TypeOK, NEW i \in Vault!Ids, Vault!Open(i), NEW u \in Users, Vault!PayOut(i, u)
  PROVE  /\ vault_tok' \in Holding
         /\ \A k \in Tokens : vault_tok'[k][Self] = vault_tok[k][Self] - Vault!Claim(i, k)
<1> DEFINE r == vault_remittance[i]
           sent == Vault!MoveOf(vault_tok, r.primary, Self, u, r.amount)
<1>1. r \in Vault!Remittance
  BY DEF Vault!TypeOK, Vault!Open, Vault!Exists
<1>2. /\ r.amount \in Nat /\ r.fee \in Nat
      /\ r.primary \in Tokens /\ r.fee_token \in Tokens \cup {None}
  BY <1>1, RemittanceAmounts
<1>3. vault_tok \in Holding
  BY DEF Vault!TypeOK, Holding
<1>4. Vault!CanMove(vault_tok[r.primary], Self, r.amount)
  BY DEF Vault!PayOut
<1>5. /\ sent \in Holding
      /\ \A k \in Tokens : sent[k][Self] = vault_tok[k][Self] - (IF k = r.primary THEN r.amount ELSE 0)
  BY <1>2, <1>3, <1>4, TransferOut
<1>6. \A k \in Tokens : Vault!Claim(i, k) = (IF r.primary = k THEN r.amount ELSE 0)
                                           + (IF r.fee_token = k THEN r.fee ELSE 0)
  BY DEF Vault!Claim
<1>7. \A k \in Tokens : vault_tok[k][Self] \in Nat
  BY <1>3 DEF Holding
<1>8. CASE r.fee_token = None
  <2>1. vault_tok' = sent
    BY <1>8 DEF Vault!PayOut
  <2>2. \A k \in Tokens : r.fee_token # k
    BY <1>8, VaultFacts
  <2> HIDE DEF r, sent
  <2> QED
    BY <1>2, <1>5, <1>6, <1>7, <2>1, <2>2
<1>9. CASE r.fee_token # None
  <2>1. /\ Vault!CanMove(sent[r.fee_token], Self, r.fee)
        /\ vault_tok' = Vault!MoveOf(sent, r.fee_token, Self, u, r.fee)
        /\ r.fee_token \in Tokens
    BY <1>2, <1>9 DEF Vault!PayOut
  <2> HIDE DEF r, sent
  <2>2. /\ vault_tok' \in Holding
        /\ \A k \in Tokens : vault_tok'[k][Self] = sent[k][Self] - (IF k = r.fee_token THEN r.fee ELSE 0)
    BY <1>2, <1>5, <2>1, TransferOut
  <2> QED
    BY <1>2, <1>5, <1>6, <1>7, <2>2
<1> QED
  BY <1>8, <1>9

\* Closing an open remittance while paying it out keeps the two pools apart.
LEMMA ClosingKeepsInv ==
  ASSUME VaultInv, NEW i \in Vault!Ids, Vault!Open(i), NEW u \in Users, Vault!PayOut(i, u),
         \/ vault_remittance' = [vault_remittance EXCEPT ![i].released = TRUE]
         \/ vault_remittance' = [vault_remittance EXCEPT ![i].refunded = TRUE],
         UNCHANGED <<vault_now, vault_native, vault_processor, vault_vault, vault_recent,
                     vault_spent, vault_paid, vault_nextId, vault_elsewhere>>
  PROVE  VaultInv'
<1>0. /\ Vault!TypeOK /\ UnusedIds /\ Vault!PoolsAreSeparate /\ PaidIsSpent
      /\ vault_remittance \in [Vault!Ids -> Vault!Remittance \cup {None}]
      /\ vault_remittance[i] \in Vault!Remittance
  BY DEF VaultInv, Vault!TypeOK, Vault!Open, Vault!Exists
<1>1. /\ \A j \in Vault!Ids : j # i => vault_remittance'[j] = vault_remittance[j]
      /\ vault_remittance'[i] \in Vault!Remittance
      /\ vault_remittance'[i].released \/ vault_remittance'[i].refunded
  <2> DEFINE r == vault_remittance[i]
  <2>1. /\ [r EXCEPT !.released = TRUE] \in Vault!Remittance /\ [r EXCEPT !.released = TRUE].released
        /\ [r EXCEPT !.refunded = TRUE] \in Vault!Remittance /\ [r EXCEPT !.refunded = TRUE].refunded
    BY <1>0 DEF Vault!Remittance
  <2>2. \/ vault_remittance' = [vault_remittance EXCEPT ![i] = [r EXCEPT !.released = TRUE]]
        \/ vault_remittance' = [vault_remittance EXCEPT ![i] = [r EXCEPT !.refunded = TRUE]]
    OBVIOUS
  <2> QED
    BY <1>0, <2>1, <2>2
<1>2. vault_remittance' \in [Vault!Ids -> Vault!Remittance \cup {None}]
  BY <1>0, <1>1
<1>3. \A k \in Tokens : Vault!Claim(i, k)' = 0
  BY <1>1 DEF Vault!Claim, Vault!Open
<1>4. /\ vault_tok' \in Holding
      /\ \A k \in Tokens : vault_tok'[k][Self] = vault_tok[k][Self] - Vault!Claim(i, k)
  BY <1>0, PaysTheClaim
<1>5. ASSUME NEW k \in Tokens
      PROVE  vault_tok'[k][Self] = vault_vault'[k] + Vault!Owed(k)' + vault_elsewhere'[k]
  <2>1. /\ Vault!Owed(k) \in Nat /\ Vault!Owed(k)' \in Nat
        /\ Vault!Owed(k)' = Vault!Owed(k) + Vault!Claim(i, k)' - Vault!Claim(i, k)
    BY <1>0, <1>1, <1>2, OwedShift
  <2>2. Vault!Claim(i, k) \in Nat
          /\ vault_vault[k] \in Nat /\ vault_elsewhere[k] \in Nat
    BY <1>0, ClaimType DEF Vault!TypeOK
  <2>3. vault_tok[k][Self] = vault_vault[k] + Vault!Owed(k) + vault_elsewhere[k]
    BY <1>0 DEF Vault!PoolsAreSeparate
  <2> QED
    BY <1>3, <1>4, <2>1, <2>2, <2>3
<1>6. Vault!PoolsAreSeparate'
  BY <1>5 DEF Vault!PoolsAreSeparate
<1>7. UnusedIds'
  BY <1>0, <1>1, VaultFacts DEF UnusedIds
<1> QED
  BY <1>0, <1>2, <1>4, <1>6, <1>7 DEF VaultInv, Vault!TypeOK, Holding, PaidIsSpent

LEMMA VaultInit == Vault!Init => VaultInv
<1> SUFFICES ASSUME Vault!Init PROVE VaultInv
  OBVIOUS
<1> USE VaultFacts
<1>1. Vault!TypeOK
  <2>1. /\ vault_tok \in [Tokens -> [Users \cup {Self} -> Nat]]
        /\ vault_recent \in [Tokens -> [Vault!Times -> Nat]]
    BY DEF Vault!Init
  <2>2. vault_remittance \in [Vault!Ids -> Vault!Remittance \cup {None}]
    BY DEF Vault!Init
  <2>3. /\ vault_now \in Vault!Times /\ vault_nextId \in 0..MaxIds
        /\ vault_vault \in [Tokens -> Nat] /\ vault_elsewhere \in [Tokens -> Nat]
    BY DEF Vault!Init
  <2>4. vault_spent = {} /\ vault_native = None /\ vault_processor \in BOOLEAN
    BY DEF Vault!Init
  <2> QED
    BY <2>1, <2>2, <2>3, <2>4 DEF Vault!TypeOK
<1>2. UnusedIds /\ PaidIsSpent
  BY DEF Vault!Init, UnusedIds, PaidIsSpent
<1>3. ASSUME NEW k \in Tokens PROVE vault_tok[k][Self] = vault_vault[k] + Vault!Owed(k) + vault_elsewhere[k]
  <2> DEFINE f == [i \in Vault!Ids |-> Vault!Claim(i, k)]
  <2>1. \A i \in Vault!Ids : f[i] = 0
    BY DEF Vault!Init, Vault!Claim, Vault!Open, Vault!Exists
  <2>2. Vault!Owed(k) = SumOf(f, Vault!Ids)
    BY VaultSum DEF Vault!Owed
  <2> HIDE DEF f
  <2>3. Vault!Owed(k) = 0
    BY <2>1, <2>2, SumZero
  <2> QED
    BY <2>3 DEF Vault!Init
<1> QED
  BY <1>1, <1>2, <1>3 DEF VaultInv, Vault!PoolsAreSeparate

\* A step that leaves the records alone leaves what is owed alone.
LEMMA OwedSame ==
  ASSUME vault_remittance' = vault_remittance
  PROVE  \A k \in Tokens : Vault!Owed(k)' = Vault!Owed(k)
BY DEF Vault!Owed, Vault!Claim, Vault!Open, Vault!Exists

\* What is owed is never negative.
LEMMA OwedType ==
  ASSUME vault_remittance \in [Vault!Ids -> Vault!Remittance \cup {None}], NEW k \in Tokens
  PROVE  Vault!Owed(k) \in Nat
<1> DEFINE f == [i \in Vault!Ids |-> Vault!Claim(i, k)]
<1>1. \A i \in Vault!Ids : f[i] \in Nat
  BY ClaimType
<1>2. Vault!Owed(k) = SumOf(f, Vault!Ids)
  BY VaultSum DEF Vault!Owed
<1> HIDE DEF f
<1> QED
  BY <1>1, <1>2, SumNat, VaultFacts

\* Every call on the vault, and every tick, keeps its invariant.
LEMMA VaultStep == VaultInv /\ [Vault!Next]_vaultVars => VaultInv'
<1> SUFFICES ASSUME VaultInv, [Vault!Next]_vaultVars PROVE VaultInv'
  OBVIOUS
<1>0. /\ vault_now \in Vault!Times
      /\ vault_native \in Tokens \cup {None} /\ vault_processor \in BOOLEAN
      /\ vault_vault \in [Tokens -> Nat] /\ vault_elsewhere \in [Tokens -> Nat]
      /\ vault_recent \in [Tokens -> [Vault!Times -> Nat]]
      /\ vault_spent \subseteq Nonces
      /\ vault_nextId \in 0..MaxIds
      /\ vault_remittance \in [Vault!Ids -> Vault!Remittance \cup {None}]
      /\ vault_tok \in Holding
      /\ UnusedIds /\ Vault!PoolsAreSeparate /\ PaidIsSpent
  BY DEF VaultInv, Vault!TypeOK, Holding
<1>0a. ASSUME UNCHANGED <<vault_vault, vault_spent, vault_paid, vault_nextId, vault_remittance, vault_tok,
                        vault_elsewhere>>
       PROVE  UnusedIds' /\ Vault!PoolsAreSeparate' /\ PaidIsSpent'
  BY <1>0, <1>0a, OwedSame DEF UnusedIds, Vault!PoolsAreSeparate, PaidIsSpent
<1>1. CASE Vault!Tick
  <2>1. vault_now' \in Vault!Times
    BY <1>0, <1>1, VaultFacts DEF Vault!Tick
  <2> QED
    BY <1>0, <1>0a, <1>1, <2>1
    DEF Vault!Tick, Vault!settings, Vault!unlocks, VaultInv, Vault!TypeOK, Holding
<1>2. ASSUME NEW t \in Tokens, Vault!configure(t) PROVE VaultInv'
  BY <1>0, <1>0a, <1>2 DEF Vault!configure, Vault!unlocks, VaultInv, Vault!TypeOK, Holding
<1>3. CASE Vault!register_processor
  BY <1>0, <1>0a, <1>3 DEF Vault!register_processor, Vault!unlocks, VaultInv, Vault!TypeOK, Holding
<1>4. ASSUME NEW u \in Users, NEW x \in VaultAmounts, Vault!lock_tokens(u, x) PROVE VaultInv'
  <2>1. /\ x > 0 /\ vault_native # None
        /\ Vault!CanMove(vault_tok[vault_native], u, x)
        /\ vault_tok' = Vault!MoveOf(vault_tok, vault_native, u, Self, x)
        /\ vault_vault' = [vault_vault EXCEPT ![vault_native] = @ + x]
        /\ UNCHANGED <<vault_now, vault_native, vault_processor, vault_recent, vault_spent,
                       vault_paid, vault_nextId, vault_remittance, vault_elsewhere>>
    BY <1>4 DEF Vault!lock_tokens, Vault!settings, Vault!unlocks
  <2>2. vault_native \in Tokens /\ x \in Nat
    BY <1>0, <2>1, VaultFacts
  <2>3. /\ vault_tok' \in Holding
        /\ \A k \in Tokens : vault_tok'[k][Self] = vault_tok[k][Self] + (IF k = vault_native THEN x ELSE 0)
    BY <1>0, <2>1, <2>2, TransferIn
  <2>4. /\ vault_vault' \in [Tokens -> Nat]
        /\ \A k \in Tokens : vault_vault'[k] = vault_vault[k] + (IF k = vault_native THEN x ELSE 0)
    BY <1>0, <2>1, <2>2
  <2>5. ASSUME NEW k \in Tokens PROVE vault_tok'[k][Self] = vault_vault'[k] + Vault!Owed(k)' + vault_elsewhere'[k]
    <3>1. /\ Vault!Owed(k)' = Vault!Owed(k) /\ Vault!Owed(k) \in Nat
          /\ vault_vault[k] \in Nat /\ vault_elsewhere[k] \in Nat
          /\ vault_tok[k][Self] = vault_vault[k] + Vault!Owed(k) + vault_elsewhere[k]
      BY <1>0, <2>1, OwedSame, OwedType DEF Vault!PoolsAreSeparate
    <3> QED
      BY <2>1, <2>2, <2>3, <2>4, <3>1
  <2>6. Vault!PoolsAreSeparate'
    BY <2>5 DEF Vault!PoolsAreSeparate
  <2>7. UnusedIds' /\ PaidIsSpent'
    BY <1>0, <2>1 DEF UnusedIds, PaidIsSpent
  <2> QED
    BY <1>0, <2>1, <2>3, <2>4, <2>6, <2>7 DEF VaultInv, Vault!TypeOK, Holding
<1>5. ASSUME NEW n \in Nonces, NEW u \in Users, NEW x \in VaultAmounts, Vault!unlock_tokens(n, u, x)
      PROVE  VaultInv'
  <2> DEFINE row == [s \in Vault!Times |-> (IF Vault!InWindow(s) THEN vault_recent[vault_native][s] ELSE 0)
                                          + (IF s = vault_now THEN x ELSE 0)]
  <2>1. /\ x > 0 /\ vault_native # None
        /\ n \notin vault_spent /\ vault_spent' = vault_spent \cup {n}
        /\ x <= vault_vault[vault_native]
        /\ Vault!CanMove(vault_tok[vault_native], Self, x)
        /\ vault_tok' = Vault!MoveOf(vault_tok, vault_native, Self, u, x)
        /\ vault_vault' = [vault_vault EXCEPT ![vault_native] = @ - x]
        /\ vault_recent' = [vault_recent EXCEPT ![vault_native] = row]
        /\ vault_paid' = [vault_paid EXCEPT ![n] = @ + 1]
        /\ UNCHANGED <<vault_now, vault_native, vault_processor, vault_nextId, vault_remittance, vault_elsewhere>>
    BY <1>5 DEF Vault!unlock_tokens, Vault!spend_nonce, Vault!enforce_and_record, Vault!settings
  <2>2. vault_native \in Tokens /\ x \in Nat
    BY <1>0, <2>1, VaultFacts
  <2>3. /\ vault_tok' \in Holding
        /\ \A k \in Tokens : vault_tok'[k][Self] = vault_tok[k][Self] - (IF k = vault_native THEN x ELSE 0)
    BY <1>0, <2>1, <2>2, TransferOut
  <2>4. /\ vault_vault' \in [Tokens -> Nat]
        /\ \A k \in Tokens : vault_vault'[k] = vault_vault[k] - (IF k = vault_native THEN x ELSE 0)
    BY <1>0, <2>1, <2>2
  <2>5. ASSUME NEW k \in Tokens PROVE vault_tok'[k][Self] = vault_vault'[k] + Vault!Owed(k)' + vault_elsewhere'[k]
    <3>1. /\ Vault!Owed(k)' = Vault!Owed(k) /\ Vault!Owed(k) \in Nat
          /\ vault_vault[k] \in Nat /\ vault_elsewhere[k] \in Nat
          /\ vault_tok[k][Self] = vault_vault[k] + Vault!Owed(k) + vault_elsewhere[k]
      BY <1>0, <2>1, OwedSame, OwedType DEF Vault!PoolsAreSeparate
    <3> QED
      BY <2>1, <2>2, <2>3, <2>4, <3>1
  <2>6. Vault!PoolsAreSeparate'
    BY <2>5 DEF Vault!PoolsAreSeparate
  <2>7. UnusedIds' /\ PaidIsSpent' /\ vault_spent' \subseteq Nonces
    BY <1>0, <2>1 DEF UnusedIds, PaidIsSpent
  <2>8. row \in [Vault!Times -> Nat]
    BY <1>0, <2>2
  <2> HIDE DEF row
  <2>9. vault_recent' \in [Tokens -> [Vault!Times -> Nat]]
    BY <1>0, <2>1, <2>2, <2>8
  <2> QED
    BY <1>0, <2>1, <2>3, <2>4, <2>6, <2>7, <2>9 DEF VaultInv, Vault!TypeOK, Holding
<1>6. ASSUME NEW s \in Users, NEW r \in Users, NEW t \in Tokens, NEW ft \in Tokens \cup {None},
             NEW x \in VaultAmounts, NEW f \in VaultAmounts, NEW d \in Lifetimes,
             Vault!create_remittance(s, r, t, x, ft, f, vault_now + d)
      PROVE  VaultInv'
  <2> DEFINE rec == [sender |-> s, recipient |-> r, primary |-> t, amount |-> x,
                     fee_token |-> ft, fee |-> f, expires_at |-> vault_now + d,
                     released |-> FALSE, refunded |-> FALSE]
             funded == Vault!MoveOf(vault_tok, t, s, Self, x)
  <2>1. /\ x > 0 /\ f >= 0 /\ (ft = None => f = 0) /\ vault_nextId < MaxIds
        /\ Vault!CanMove(vault_tok[t], s, x)
        /\ ft = None => vault_tok' = funded
        /\ ft # None => Vault!CanMove(funded[ft], s, f) /\ vault_tok' = Vault!MoveOf(funded, ft, s, Self, f)
        /\ vault_nextId' = vault_nextId + 1
        /\ vault_remittance' = [vault_remittance EXCEPT ![vault_nextId] = rec]
        /\ UNCHANGED <<vault_now, vault_native, vault_processor, vault_vault, vault_recent, vault_spent, vault_paid,
                       vault_elsewhere>>
    BY <1>6 DEF Vault!create_remittance, Vault!settings, Vault!unlocks
  <2>2. x \in Nat /\ f \in Nat /\ vault_now + d \in Nat /\ vault_nextId \in Vault!Ids
    <3>1. x > 0 /\ f >= 0 /\ vault_nextId < MaxIds
      BY <2>1
    <3>2. x \in Int /\ f \in Int /\ d \in Nat
      BY VaultFacts
    <3>3. vault_now \in Nat
      BY <1>0, VaultFacts
    <3>4. vault_nextId \in 0..MaxIds /\ MaxIds \in Nat /\ Vault!Ids = 0..(MaxIds - 1)
      BY <1>0, VaultFacts
    <3> QED
      BY <3>1, <3>2, <3>3, <3>4
  <2>3. rec \in Vault!Remittance
    BY <2>1, <2>2 DEF Vault!Remittance
  <2>4. /\ rec.primary = t /\ rec.amount = x /\ rec.fee_token = ft /\ rec.fee = f
        /\ ~rec.released /\ ~rec.refunded /\ rec # None
    BY <2>3, VaultFacts
  <2> HIDE DEF rec
  <2>5. /\ vault_remittance' \in [Vault!Ids -> Vault!Remittance \cup {None}]
        /\ vault_remittance'[vault_nextId] = rec
        /\ \A j \in Vault!Ids : j # vault_nextId => vault_remittance'[j] = vault_remittance[j]
    BY <1>0, <2>1, <2>2, <2>3
  <2>6. /\ funded \in Holding
        /\ \A k \in Tokens : funded[k][Self] = vault_tok[k][Self] + (IF k = t THEN x ELSE 0)
    BY <1>0, <2>1, <2>2, TransferIn
  <2> HIDE DEF funded
  <2>7. /\ vault_tok' \in Holding
        /\ \A k \in Tokens : vault_tok'[k][Self]
             = vault_tok[k][Self] + (IF k = t THEN x ELSE 0) + (IF k = ft THEN f ELSE 0)
    <3>0. \A k \in Tokens : vault_tok[k][Self] \in Nat
      BY <1>0 DEF Holding
    <3>1. CASE ft = None
      <4>1. \A k \in Tokens : k # ft
        BY <3>1, VaultFacts
      <4> QED
        BY <2>1, <2>2, <2>6, <3>0, <3>1, <4>1
    <3>2. CASE ft # None
      <4>1. ft \in Tokens /\ Vault!CanMove(funded[ft], s, f) /\ vault_tok' = Vault!MoveOf(funded, ft, s, Self, f)
        BY <2>1, <3>2
      <4>2. /\ vault_tok' \in Holding
            /\ \A k \in Tokens : vault_tok'[k][Self] = funded[k][Self] + (IF k = ft THEN f ELSE 0)
        BY <2>2, <2>6, <4>1, TransferIn
      <4> QED
        BY <2>6, <4>2
    <3> QED
      BY <3>1, <3>2
  <2>7a. PICK i \in Vault!Ids : i = vault_nextId
    BY <2>2
  <2>8. ASSUME NEW k \in Tokens PROVE vault_tok'[k][Self] = vault_vault'[k] + Vault!Owed(k)' + vault_elsewhere'[k]
    <3>1. /\ Vault!Owed(k) \in Nat /\ Vault!Owed(k)' \in Nat
          /\ Vault!Owed(k)' = Vault!Owed(k) + Vault!Claim(i, k)' - Vault!Claim(i, k)
      BY <1>0, <2>5, <2>7a, OwedShift
    <3>2. vault_remittance[i] = None
      BY <1>0, <2>7a, VaultFacts DEF UnusedIds
    <3>3. Vault!Claim(i, k) = 0
      BY <3>2 DEF Vault!Claim, Vault!Open, Vault!Exists
    <3>4. Vault!Claim(i, k)' = (IF t = k THEN x ELSE 0) + (IF ft = k THEN f ELSE 0)
      <4>1. vault_remittance'[i] = rec
        BY <2>5, <2>7a
      <4> QED
        BY <2>4, <4>1 DEF Vault!Claim, Vault!Open, Vault!Exists
    <3>5.
          /\ vault_vault[k] \in Nat /\ vault_elsewhere[k] \in Nat
          /\ vault_tok[k][Self] = vault_vault[k] + Vault!Owed(k) + vault_elsewhere[k]
      BY <1>0 DEF Vault!PoolsAreSeparate
    <3> QED
      BY <2>1, <2>2, <2>7, <3>1, <3>3, <3>4, <3>5
  <2>9. Vault!PoolsAreSeparate'
    BY <2>8 DEF Vault!PoolsAreSeparate
  <2>10. UnusedIds' /\ PaidIsSpent' /\ vault_nextId' \in 0..MaxIds
    <3>1. PaidIsSpent'
      BY <1>0, <2>1 DEF PaidIsSpent
    <3>2. vault_nextId' \in 0..MaxIds
      BY <1>0, <2>1, VaultFacts
    <3>3. ASSUME NEW j \in Vault!Ids, j >= vault_nextId' PROVE vault_remittance'[j] = None
      <4>0. j \in Nat /\ vault_nextId \in Nat /\ j >= vault_nextId + 1
        BY <1>0, <2>1, <3>3, VaultFacts
      <4>1. j # vault_nextId /\ j >= vault_nextId
        BY <4>0
      <4> QED
        BY <1>0, <2>5, <4>1 DEF UnusedIds
    <3> QED
      BY <3>1, <3>2, <3>3 DEF UnusedIds
  <2> QED
    BY <1>0, <2>1, <2>5, <2>7, <2>9, <2>10 DEF VaultInv, Vault!TypeOK, Holding
<1>7. ASSUME NEW i \in Vault!Ids, Vault!release_remittance(i) \/ Vault!cancel_remittance(i)
      PROVE  VaultInv'
  <2>1. /\ Vault!Open(i)
        /\ Vault!PayOut(i, vault_remittance[i].recipient) \/ Vault!PayOut(i, vault_remittance[i].sender)
        /\ \/ vault_remittance' = [vault_remittance EXCEPT ![i].released = TRUE]
           \/ vault_remittance' = [vault_remittance EXCEPT ![i].refunded = TRUE]
        /\ UNCHANGED <<vault_now, vault_native, vault_processor, vault_vault, vault_recent,
                       vault_spent, vault_paid, vault_nextId, vault_elsewhere>>
    BY <1>7 DEF Vault!release_remittance, Vault!cancel_remittance, Vault!settings, Vault!unlocks
  <2>2. vault_remittance[i].recipient \in Users /\ vault_remittance[i].sender \in Users
    BY <1>0, <2>1, RemittanceAmounts DEF Vault!Open, Vault!Exists
  <2> QED
    BY <2>1, <2>2, ClosingKeepsInv
<1>8. CASE UNCHANGED vaultVars
  BY <1>0, <1>0a, <1>8 DEF vaultVars, VaultInv, Vault!TypeOK, Holding
<1>9. ASSUME NEW u \in Users, NEW t \in Tokens, NEW x \in VaultAmounts,
             Vault!transfer_in(u, t, x) \/ Vault!transfer_out(u, t, x)
      PROVE  VaultInv'
  <2>0. PICK d \in {x, -x} :
          /\ \/ d = x /\ Vault!transfer_in(u, t, x)
             \/ d = -x /\ Vault!transfer_out(u, t, x)
    BY <1>9
  <2>1. /\ x > 0
        /\ UNCHANGED <<vault_now, vault_native, vault_processor, vault_vault, vault_recent,
                       vault_spent, vault_paid, vault_nextId, vault_remittance>>
    BY <1>9 DEF Vault!transfer_in, Vault!transfer_out, Vault!settings, Vault!unlocks
  <2>2. x \in Nat /\ d \in Int
    BY <2>1, VaultFacts
  <2>3. /\ vault_tok' \in Holding
        /\ \A k \in Tokens : vault_tok'[k][Self] = vault_tok[k][Self] + (IF k = t THEN d ELSE 0)
    <3>0. \A k \in Tokens : vault_tok[k][Self] \in Nat
      BY <1>0 DEF Holding
    <3>1. CASE d = x /\ Vault!transfer_in(u, t, x)
      BY <1>0, <2>2, <3>1, TransferIn DEF Vault!transfer_in
    <3>2. CASE d = -x /\ Vault!transfer_out(u, t, x)
      <4>1. /\ vault_tok' \in Holding
            /\ \A k \in Tokens : vault_tok'[k][Self] = vault_tok[k][Self] - (IF k = t THEN x ELSE 0)
        BY <1>0, <2>2, <3>2, TransferOut DEF Vault!transfer_out
      <4> QED
        BY <2>2, <3>0, <3>2, <4>1
    <3> QED
      BY <2>0, <3>1, <3>2
  <2>4. /\ vault_elsewhere' \in [Tokens -> Nat]
        /\ \A k \in Tokens : vault_elsewhere'[k] = vault_elsewhere[k] + (IF k = t THEN d ELSE 0)
    <3>1. CASE d = x /\ Vault!transfer_in(u, t, x)
      BY <1>0, <2>2, <3>1 DEF Vault!transfer_in
    <3>2. CASE d = -x /\ Vault!transfer_out(u, t, x)
      BY <1>0, <2>2, <3>2 DEF Vault!transfer_out
    <3> QED
      BY <2>0, <3>1, <3>2
  <2>5. ASSUME NEW k \in Tokens
        PROVE  vault_tok'[k][Self] = vault_vault'[k] + Vault!Owed(k)' + vault_elsewhere'[k]
    <3>1. /\ Vault!Owed(k)' = Vault!Owed(k) /\ Vault!Owed(k) \in Nat /\ vault_vault[k] \in Nat
          /\ vault_elsewhere[k] \in Nat
          /\ vault_tok[k][Self] = vault_vault[k] + Vault!Owed(k) + vault_elsewhere[k]
      BY <1>0, <2>1, OwedSame, OwedType DEF Vault!PoolsAreSeparate
    <3> QED
      BY <2>1, <2>2, <2>3, <2>4, <3>1
  <2>6. Vault!PoolsAreSeparate'
    BY <2>5 DEF Vault!PoolsAreSeparate
  <2>7. UnusedIds' /\ PaidIsSpent'
    BY <1>0, <2>1 DEF UnusedIds, PaidIsSpent
  <2> QED
    BY <1>0, <2>1, <2>3, <2>4, <2>6, <2>7 DEF VaultInv, Vault!TypeOK, Holding
<1> QED
  BY <1>1, <1>2, <1>3, <1>4, <1>5, <1>6, <1>7, <1>8, <1>9 DEF Vault!Next

LEMMA VaultIsPart == MCSpec => Vault!Spec
<1>1. MCInit => Vault!Init
  BY DEF MCInit
<1>2. [MCNext]_allVars => [Vault!Next]_Vault!vars
  BY DEF MCNext, allVars, vaultVars, Vault!vars
<1> QED
  BY <1>1, <1>2, PTL DEF MCSpec, Vault!Spec

LEMMA CapIsPart == MCSpec => Spec
<1>1. MCInit => Init
  BY DEF MCInit
<1>2. [MCNext]_allVars => [Next]_vars
  BY DEF MCNext, allVars
<1> QED
  BY <1>1, <1>2, PTL DEF MCSpec, Spec

LEMMA VaultAlways == Vault!Spec => []VaultInv
<1>1. VaultInv /\ [Vault!Next]_Vault!vars => VaultInv'
  BY VaultStep DEF Vault!vars, vaultVars
<1> QED
  BY <1>1, VaultInit, PTL DEF Vault!Spec

\* Every token of the bridge is accounted for, in any number of tokens,
\* remittances, holders and messages: the supply of the wrapped asset is the sum
\* of its balances; the vault, the remittances and what the core contract holds
\* for others are never paid out of one another, although they share one balance;
\* and no message of the other chain is paid twice.
THEOREM FundsAreAccounted == MCSpec => []FundsAccounted
<1>1. VaultInv => Vault!NoncePaysOnce
  BY DEF VaultInv, PaidIsSpent, Vault!NoncePaysOnce
<1>2. TypeOK /\ WrappedInv /\ VaultInv => FundsAccounted
  BY <1>1 DEF WrappedInv, VaultInv, FundsAccounted, TypesOK
<1> QED
  BY <1>2, CapIsPart, TypesHold, WrappedIsPart, WrappedAlways, VaultIsPart, VaultAlways, PTL

-----------------------------------------------------------------------------

\* The image of a well-formed remittance of the vault under the refinement
\* mapping, field by field.
LEMMA VaultDeposit ==
  ASSUME NEW r \in Vault!Remittance
  PROVE  /\ Vault!DepositOf(r) =
              [owner |-> r.sender, payee |-> r.recipient, amount |-> r.amount,
               refundable_at |-> r.expires_at + 1,
               status |-> IF r.released THEN "settled"
                          ELSE IF r.refunded THEN "returned" ELSE "held"]
         /\ Vault!DepositOf(r) # None
<1>1. r # None
  BY VaultFacts
<1>2. /\ r.sender \in Users /\ r.recipient \in Users /\ r.expires_at + 1 \in Nat
      /\ r.amount \in {x \in VaultAmounts : x > 0}
  BY RemittanceAmounts DEF Vault!Remittance
<1>3. Vault!DepositOf(r) =
        [owner |-> r.sender, payee |-> r.recipient, amount |-> r.amount,
         refundable_at |-> r.expires_at + 1,
         status |-> IF r.released THEN "settled"
                    ELSE IF r.refunded THEN "returned" ELSE "held"]
  BY <1>1 DEF Vault!DepositOf
<1>4. Vault!DepositOf(r) \in Vault!Deposit
  BY <1>2, <1>3 DEF Vault!Deposit
<1> QED
  BY <1>3, <1>4, VaultFacts

\* The vault's remittances implement the custody contract with exclusive windows
\* for every value of the constants: each is released or returned at most once,
\* on the terms it was created with, never released after it expired and never
\* returned before.
THEOREM VaultImplementsCustody == MCSpec => Vault!ImplementsCustody
<1> DEFINE D == [i \in Vault!Ids |-> Vault!DepositOf(vault_remittance[i])]
<1>1. Vault!Init => Vault!C!Init
  BY VaultFacts DEF Vault!Init, Vault!C!Init, Vault!DepositOf
<1>2. VaultInv /\ [Vault!Next]_Vault!vars => [Vault!C!Next]_Vault!C!vars
  <2> SUFFICES ASSUME VaultInv, [Vault!Next]_Vault!vars PROVE [Vault!C!Next]_Vault!C!vars
    OBVIOUS
  <2>0. /\ vault_now \in Nat /\ UnusedIds /\ vault_nextId \in Nat
        /\ vault_remittance \in [Vault!Ids -> Vault!Remittance \cup {None}]
    BY VaultFacts DEF VaultInv, Vault!TypeOK
  <2>1. CASE Vault!Tick
    <3>1. Vault!C!Advance
      BY <2>0, <2>1 DEF Vault!Tick, Vault!C!Advance
    <3> QED
      BY <3>1 DEF Vault!C!Next
  <2>2. ASSUME UNCHANGED <<vault_now, vault_remittance>> PROVE [Vault!C!Next]_Vault!C!vars
    BY <2>2 DEF Vault!C!vars
  <2>3. ASSUME NEW s \in Users, NEW r \in Users, NEW t \in Tokens, NEW ft \in Tokens \cup {None},
               NEW x \in VaultAmounts, NEW f \in VaultAmounts, NEW d \in Lifetimes,
               Vault!create_remittance(s, r, t, x, ft, f, vault_now + d)
        PROVE  [Vault!C!Next]_Vault!C!vars
    <3> DEFINE rec == [sender |-> s, recipient |-> r, primary |-> t, amount |-> x,
                       fee_token |-> ft, fee |-> f, expires_at |-> vault_now + d,
                       released |-> FALSE, refunded |-> FALSE]
    <3>1. /\ x > 0 /\ f >= 0 /\ vault_nextId < MaxIds /\ vault_now' = vault_now
          /\ vault_remittance' = [vault_remittance EXCEPT ![vault_nextId] = rec]
      BY <2>3 DEF Vault!create_remittance
    <3>2. vault_now + d \in Nat /\ vault_nextId \in Vault!Ids
      BY <2>0, <3>1, VaultFacts
    <3>3. rec \in Vault!Remittance
      BY <3>1, <3>2 DEF Vault!Remittance
    <3>4. rec.sender = s /\ rec.recipient = r /\ rec.amount = x /\ ~rec.released /\ ~rec.refunded
      OBVIOUS
    <3> HIDE DEF rec
    <3>5. PICK i \in Vault!Ids : i = vault_nextId
      BY <3>2
    <3>6. vault_remittance[i] = None
      BY <2>0, <3>5 DEF UnusedIds
    <3>7. D[i] = None /\ D' = [D EXCEPT ![i] = Vault!DepositOf(rec)] /\ D'[i] = Vault!DepositOf(rec)
      BY <2>0, <3>1, <3>5, <3>6 DEF Vault!DepositOf
    <3>8. /\ Vault!DepositOf(rec) # None /\ Vault!DepositOf(rec).status = "held"
          /\ Vault!DepositOf(rec).amount >= 0
          /\ Vault!DepositOf(rec).owner \in Users /\ Vault!DepositOf(rec).payee \in Users
      BY <3>1, <3>3, <3>4, VaultDeposit, VaultFacts
    <3>9. Vault!C!Open(i)
      BY <3>1, <3>7, <3>8 DEF Vault!C!Open
    <3> QED
      BY <3>9 DEF Vault!C!Next
  <2>4. ASSUME NEW i \in Vault!Ids, Vault!Open(i), NEW st \in {"settled", "returned"},
               vault_remittance' = IF st = "settled"
                                   THEN [vault_remittance EXCEPT ![i].released = TRUE]
                                   ELSE [vault_remittance EXCEPT ![i].refunded = TRUE]
        PROVE  /\ D[i] # None /\ D[i].status = "held"
               /\ D[i].refundable_at = vault_remittance[i].expires_at + 1
               /\ D' = [D EXCEPT ![i].status = st]
    <3> DEFINE r == vault_remittance[i]
               q == vault_remittance'[i]
    <3>1. r \in Vault!Remittance /\ ~r.released /\ ~r.refunded
      BY <2>0, <2>4 DEF Vault!Open, Vault!Exists
    <3>2. q = IF st = "settled" THEN [r EXCEPT !.released = TRUE] ELSE [r EXCEPT !.refunded = TRUE]
      BY <2>0, <2>4
    <3>3. /\ q \in Vault!Remittance
          /\ q.sender = r.sender /\ q.recipient = r.recipient /\ q.amount = r.amount
          /\ q.expires_at = r.expires_at
          /\ st = "settled" => q.released
          /\ st = "returned" => ~q.released /\ q.refunded
      BY <3>1, <3>2 DEF Vault!Remittance
    <3>4. \A j \in Vault!Ids : j # i => vault_remittance'[j] = vault_remittance[j]
      BY <2>0, <2>4
    <3>5. /\ D[i] = Vault!DepositOf(r) /\ D'[i] = Vault!DepositOf(q)
          /\ \A j \in Vault!Ids : j # i => D'[j] = D[j]
      BY <3>4
    <3> HIDE DEF r, q
    <3>6. Vault!DepositOf(q) = [Vault!DepositOf(r) EXCEPT !.status = st] /\ Vault!DepositOf(r) # None
          /\ Vault!DepositOf(r).status = "held"
          /\ Vault!DepositOf(r).refundable_at = r.expires_at + 1
      BY <3>1, <3>3, VaultDeposit
    <3>7. D' = [D EXCEPT ![i].status = st]
      BY <3>5, <3>6
    <3> QED
      BY <3>5, <3>6, <3>7 DEF r
  <2>5. ASSUME NEW i \in Vault!Ids, Vault!release_remittance(i) PROVE [Vault!C!Next]_Vault!C!vars
    <3>1. /\ Vault!Open(i) /\ vault_now <= vault_remittance[i].expires_at /\ vault_now' = vault_now
          /\ vault_remittance' = [vault_remittance EXCEPT ![i].released = TRUE]
      BY <2>5 DEF Vault!release_remittance
    <3>2. /\ D[i] # None /\ D[i].status = "held"
          /\ D[i].refundable_at = vault_remittance[i].expires_at + 1
          /\ D' = [D EXCEPT ![i].status = "settled"]
      BY <2>4, <3>1
    <3>3. vault_remittance[i].expires_at \in Nat
      BY <2>0, <3>1, RemittanceAmounts DEF Vault!Open, Vault!Exists
    <3>4. vault_now < D[i].refundable_at
      BY <2>0, <3>1, <3>2, <3>3
    <3>5. Vault!C!Settle(i)
      BY <3>1, <3>2, <3>4 DEF Vault!C!Settle, Vault!C!Held
    <3> QED
      BY <3>5 DEF Vault!C!Next
  <2>6. ASSUME NEW i \in Vault!Ids, Vault!cancel_remittance(i) PROVE [Vault!C!Next]_Vault!C!vars
    <3>1. /\ Vault!Open(i) /\ vault_now > vault_remittance[i].expires_at /\ vault_now' = vault_now
          /\ vault_remittance' = [vault_remittance EXCEPT ![i].refunded = TRUE]
      BY <2>6 DEF Vault!cancel_remittance
    <3>2. /\ D[i] # None /\ D[i].status = "held"
          /\ D[i].refundable_at = vault_remittance[i].expires_at + 1
          /\ D' = [D EXCEPT ![i].status = "returned"]
      BY <2>4, <3>1
    <3>3. vault_remittance[i].expires_at \in Nat
      BY <2>0, <3>1, RemittanceAmounts DEF Vault!Open, Vault!Exists
    <3>4. vault_now >= D[i].refundable_at
      BY <2>0, <3>1, <3>2, <3>3
    <3>5. Vault!C!Return(i)
      BY <3>1, <3>2, <3>4 DEF Vault!C!Return, Vault!C!Held
    <3> QED
      BY <3>5 DEF Vault!C!Next
  <2>7. CASE UNCHANGED Vault!vars
    BY <2>2, <2>7 DEF Vault!vars
  <2> QED
    BY <2>1, <2>2, <2>3, <2>5, <2>6, <2>7
    DEF Vault!Next, Vault!configure, Vault!register_processor, Vault!lock_tokens, Vault!unlock_tokens,
        Vault!transfer_in, Vault!transfer_out
<1> QED
  BY <1>1, <1>2, VaultIsPart, VaultAlways, PTL DEF Vault!Spec, Vault!ImplementsCustody, Vault!C!Spec
-----------------------------------------------------------------------------
(***************************************************************************)
(* The rescue and the timelock of Safekeeping.  That no lock is stranded   *)
(* needs the check of initialize for repeated addresses: the threshold is  *)
(* compared with the length of the list, and only distinct admins make a   *)
(* list of that length a committee that can reach it.  A flag stands for   *)
(* the votes of the validators; the invariant says that it always does,    *)
(* and that a lock still held was not ready after the last vote.           *)
(***************************************************************************)

KeepLock ==
  [sender : KeepSenders, amount : Nat, status : {"Locked", "Rescued", "CancelledExpired"},
   confirmed : BOOLEAN, at : Nat, votes : SUBSET Keep!People, approvals : SUBSET Keep!People]

RescueStorage ==
  [initialized : BOOLEAN, admins : SUBSET Keep!People, threshold : Nat,
   validators : SUBSET Keep!People, validator_threshold : Nat, locks : Seq(KeepLock),
   bal : [KeepSenders \union {"self"} -> Nat]]

\* The lock agrees with the votes, the approvals and the clock n.
LockGood(r, lock, n) ==
  /\ lock.votes \subseteq r.validators /\ lock.approvals \subseteq r.admins
  /\ lock.confirmed <=> Cardinality(lock.votes) >= r.validator_threshold
  /\ lock.status = "Rescued" => lock.confirmed /\ Cardinality(lock.approvals) >= r.threshold
  /\ lock.status = "CancelledExpired" => ~lock.confirmed /\ lock.at + KeepTimeout <= n
  /\ lock.status = "Locked" => ~ (lock.confirmed /\ Cardinality(lock.approvals) >= r.threshold)

\* What is held for each lock.
HeldFor(locks) ==
  [i \in 1..MaxLocks |->
     IF i \in DOMAIN locks /\ locks[i].status = "Locked" THEN locks[i].amount ELSE 0]

Appointed(r) ==
  /\ IsFiniteSet(r.admins) /\ IsFiniteSet(r.validators)
  /\ r.initialized => r.threshold \in 1..Cardinality(r.admins) /\ r.validator_threshold # 0
  /\ ~r.initialized => r.locks = <<>>

RescueSound(r, n) ==
  /\ r \in RescueStorage /\ Len(r.locks) <= MaxLocks
  /\ Appointed(r)
  /\ \A i \in DOMAIN r.locks : LockGood(r, r.locks[i], n)
  /\ r.bal["self"] = SumOf(HeldFor(r.locks), 1..MaxLocks)

QueueStorage ==
  [withdrawal : [KeepSenders -> Keep!QueuedWithdrawal \union {None}],
   governance : KeepSenders \union {None}, keys : [sequence : Nat, set : KeySets] \union {None}]

QueueSound(q) ==
  /\ q \in QueueStorage
  /\ \A s \in KeepSenders :
       q.withdrawal[s] # None /\ q.withdrawal[s].amount > KeepLarge =>
         q.withdrawal[s].execute_after = q.withdrawal[s].at + KeepDelay

KeepInv == k_now \in 0..KeepMaxTime /\ RescueSound(k_rescue, k_now) /\ QueueSound(k_queue)

KeepNext == Keep!RescueNext \/ Keep!TimelockNext \/ Keep!BookNext \/ Keep!EmissionNext

LEMMA KeepSum ==
  ASSUME NEW f, NEW S
  PROVE  Keep!SumOf(f, S) = SumOf(f, S)
BY DEF Keep!SumOf, SumOf, Keep!MapThenSumSet, MapThenSumSet, Keep!MapThenFoldSet, MapThenFoldSet

LEMMA KeepCount ==
  ASSUME NEW S
  PROVE  Keep!Cardinality(S) = Cardinality(S)
BY DEF Keep!Cardinality, Cardinality, Keep!IsFiniteSet, IsFiniteSet

LEMMA KeepFacts ==
  /\ KeepTimeout \in Nat /\ KeepDelay \in Nat /\ KeepLarge \in Nat /\ KeepSupply \in Nat
  /\ KeepMaxTime \in Nat /\ MaxLocks \in Nat /\ KeepAmounts \subseteq Int
  /\ "self" \notin KeepSenders /\ None \notin Keep!QueuedWithdrawal /\ KeepThresholds \subseteq Nat
  /\ \A c \in Committees : c \in Seq({c[i] : i \in DOMAIN c})
  /\ IsFiniteSet(1..MaxLocks)
<1>1. /\ KeepTimeout \in Nat /\ KeepDelay \in Nat /\ KeepLarge \in Nat /\ KeepSupply \in Nat
      /\ KeepMaxTime \in Nat /\ MaxLocks \in Nat /\ KeepAmounts \subseteq Int
      /\ "self" \notin KeepSenders /\ None \notin Keep!QueuedWithdrawal
      /\ KeepThresholds \subseteq Nat
  BY SafesAssumption DEF Keep!SafekeepingAssumption
<1>2. \A c \in Committees : c \in Seq({c[i] : i \in DOMAIN c})
  BY SafesAssumption DEF Keep!SafekeepingAssumption, Keep!ToSet
<1> QED
  BY <1>1, <1>2, FS_Interval

\* A list without repetitions has as many members as entries.
LEMMA DistinctSize ==
  ASSUME NEW T, NEW s \in Seq(T), \A i, j \in DOMAIN s : s[i] = s[j] => i = j
  PROVE  LET S == {s[i] : i \in DOMAIN s} IN IsFiniteSet(S) /\ Cardinality(S) = Len(s)
<1> DEFINE S == {s[i] : i \in DOMAIN s}
<1>1. Len(s) \in Nat /\ DOMAIN s = 1..Len(s)
  OBVIOUS
<1>2. s \in [1..Len(s) -> S]
  BY <1>1
<1>3. s \in Bijection(1..Len(s), S)
  BY <1>1, <1>2 DEF Bijection, Surjection, Injection, IsInjective
<1>4. ExistsBijection(1..Len(s), S)
  BY <1>3 DEF ExistsBijection
<1>5. IsFiniteSet(1..Len(s)) /\ Cardinality(1..Len(s)) = Len(s)
  BY <1>1, FS_Interval, SMTT(30)
<1> QED
  BY <1>4, <1>5, FS_Bijection

\* The type of what is held, and what one entry contributes.
LEMMA HeldType ==
  ASSUME NEW P \in Seq(KeepLock), Len(P) <= MaxLocks
  PROVE  /\ HeldFor(P) \in [1..MaxLocks -> Nat] /\ DOMAIN P \subseteq 1..MaxLocks
         /\ \A i \in 1..MaxLocks : i \notin DOMAIN P => HeldFor(P)[i] = 0
         /\ \A i \in DOMAIN P :
              HeldFor(P)[i] = IF P[i].status = "Locked" THEN P[i].amount ELSE 0
<1>1. \A i \in DOMAIN P : P[i] \in KeepLock
  BY P \in Seq(KeepLock)
<1>2. \A l \in KeepLock : l.amount \in Nat
  BY DEF KeepLock
<1>3. DOMAIN P \subseteq 1..MaxLocks
  BY KeepFacts
<1>4. HeldFor(P) = [i \in 1..MaxLocks |->
        IF i \in DOMAIN P /\ P[i].status = "Locked" THEN P[i].amount ELSE 0]
  BY DEF HeldFor
<1>5. \A i \in DOMAIN P : P[i].amount \in Nat
  BY <1>1, <1>2
<1>6. HeldFor(P) \in [1..MaxLocks -> Nat]
  BY <1>4, <1>5
<1> QED
  BY <1>3, <1>4, <1>6

\* The two lists differ in one entry at most.
SameElse(P, R, id) ==
  /\ \A i \in 1..MaxLocks : i # id => (i \in DOMAIN R <=> i \in DOMAIN P)
  /\ \A i \in DOMAIN P : i # id => R[i] = P[i]

\* Writing one entry shifts what is held by what that entry held and holds.
LEMMA HeldShift ==
  ASSUME NEW P \in Seq(KeepLock), NEW R \in Seq(KeepLock), Len(P) <= MaxLocks, Len(R) <= MaxLocks,
         NEW id \in 1..MaxLocks, SameElse(P, R, id)
  PROVE  LET D == 1..MaxLocks
         IN /\ SumOf(HeldFor(P), D) \in Nat /\ SumOf(HeldFor(R), D) \in Nat
            /\ SumOf(HeldFor(R), D) = SumOf(HeldFor(P), D) + HeldFor(R)[id] - HeldFor(P)[id]
            /\ HeldFor(P)[id] <= SumOf(HeldFor(P), D)
            /\ HeldFor(P)[id] \in Nat /\ HeldFor(R)[id] \in Nat
<1>1. PICK f : f = HeldFor(P)
  OBVIOUS
<1>2. PICK g : g = HeldFor(R)
  OBVIOUS
<1>3. f \in [1..MaxLocks -> Nat] /\ g \in [1..MaxLocks -> Nat]
  BY <1>1, <1>2, HeldType
<1>4. ASSUME NEW i \in 1..MaxLocks, i # id  PROVE g[i] = f[i]
  <2>1. CASE i \in DOMAIN P
    <3>1. i \in DOMAIN R /\ R[i] = P[i]
      BY <1>4, <2>1 DEF SameElse
    <3>2. /\ f[i] = IF P[i].status = "Locked" THEN P[i].amount ELSE 0
          /\ g[i] = IF R[i].status = "Locked" THEN R[i].amount ELSE 0
      BY <1>1, <1>2, <2>1, <3>1, HeldType
    <3> QED
      BY <3>1, <3>2
  <2>2. CASE i \notin DOMAIN P
    <3>1. i \notin DOMAIN R
      BY <1>4, <2>2 DEF SameElse
    <3> QED
      BY <1>1, <1>2, <2>2, <3>1, HeldType
  <2> QED
    BY <2>1, <2>2
<1>5. IsFiniteSet(1..MaxLocks)
  BY KeepFacts
<1>6. \A x \in 1..MaxLocks : f[x] \in Nat /\ g[x] \in Nat
  BY <1>3
<1>7. /\ SumOf(f, 1..MaxLocks) \in Nat /\ SumOf(g, 1..MaxLocks) \in Nat
      /\ SumOf(g, 1..MaxLocks) = SumOf(f, 1..MaxLocks) + g[id] - f[id]
  BY <1>3, <1>4, <1>5, SumShift
<1>8. f[id] <= SumOf(f, 1..MaxLocks)
  BY <1>5, <1>6, SumBound
<1> QED
  BY <1>1, <1>2, <1>6, <1>7, <1>8

\* The list with one lock written.
WithLock(P, id, lock) == [P EXCEPT ![id] = lock]

\* A locked entry is replaced, by one that is still locked or that has left.
LEMMA LockReplaced ==
  ASSUME NEW P \in Seq(KeepLock), Len(P) <= MaxLocks, NEW id \in DOMAIN P, P[id].status = "Locked",
         NEW lock \in KeepLock, lock.amount = P[id].amount, NEW R, R = WithLock(P, id, lock)
  PROVE  LET held == SumOf(HeldFor(P), 1..MaxLocks)
         IN /\ R \in Seq(KeepLock) /\ Len(R) = Len(P) /\ DOMAIN R = DOMAIN P /\ R[id] = lock
            /\ \A i \in DOMAIN P : i # id => R[i] = P[i]
            /\ held \in Nat /\ lock.amount \in Nat /\ lock.amount <= held
            /\ lock.status = "Locked" => SumOf(HeldFor(R), 1..MaxLocks) = held
            /\ lock.status # "Locked" => SumOf(HeldFor(R), 1..MaxLocks) = held - lock.amount
<1>1. /\ R \in Seq(KeepLock) /\ Len(R) = Len(P) /\ DOMAIN R = DOMAIN P /\ R[id] = lock
      /\ \A i \in DOMAIN P : i # id => R[i] = P[i]
  BY DEF WithLock
<1>2. id \in 1..MaxLocks
  BY KeepFacts
<1>3. /\ HeldFor(P)[id] = lock.amount
      /\ HeldFor(R)[id] = IF lock.status = "Locked" THEN lock.amount ELSE 0
  <2>1. HeldFor(P)[id] = lock.amount
    BY HeldType
  <2>2. id \in DOMAIN R /\ Len(R) <= MaxLocks
    BY <1>1
  <2>3. HeldFor(R)[id] = IF R[id].status = "Locked" THEN R[id].amount ELSE 0
    BY <1>1, <2>2, HeldType
  <2> QED
    BY <1>1, <2>1, <2>3
<1>4. SameElse(P, R, id) /\ Len(R) <= MaxLocks /\ R \in Seq(KeepLock)
  BY <1>1 DEF SameElse
<1>5. /\ SumOf(HeldFor(P), 1..MaxLocks) \in Nat /\ SumOf(HeldFor(R), 1..MaxLocks) \in Nat
      /\ SumOf(HeldFor(R), 1..MaxLocks)
           = SumOf(HeldFor(P), 1..MaxLocks) + HeldFor(R)[id] - HeldFor(P)[id]
      /\ HeldFor(P)[id] <= SumOf(HeldFor(P), 1..MaxLocks)
      /\ HeldFor(P)[id] \in Nat /\ HeldFor(R)[id] \in Nat
  BY <1>2, <1>4, HeldShift
<1> QED
  BY <1>1, <1>3, <1>5

\* The balances after the lock is written: its tokens leave unless it stays locked.
Settles(c, lock, b) ==
  /\ lock.status = "Locked" => b = c
  /\ lock.status # "Locked" =>
       b = [c EXCEPT !["self"] = @ - lock.amount, ![lock.sender] = @ + lock.amount]

\* The contract with these locks and balances.
Written(r, R, b) == [r EXCEPT !.locks = R, !.bal = b]

\* One lock is written, and leaves with its tokens unless it stays locked.
LEMMA LockWritten ==
  ASSUME NEW n \in Nat, NEW r, RescueSound(r, n), NEW id \in DOMAIN r.locks, r.locks[id].status = "Locked",
         NEW lock \in KeepLock, LockGood(r, lock, n),
         lock.sender = r.locks[id].sender, lock.amount = r.locks[id].amount,
         NEW R, R = WithLock(r.locks, id, lock),
         NEW b, Settles(r.bal, lock, b),
         NEW q, q = Written(r, R, b)
  PROVE  RescueSound(q, n)
<1>1. PICK P : P = r.locks
  OBVIOUS
<1>2. /\ r \in RescueStorage /\ P \in Seq(KeepLock) /\ Len(P) <= MaxLocks /\ Appointed(r)
      /\ r.bal \in [KeepSenders \union {"self"} -> Nat]
      /\ r.bal["self"] = SumOf(HeldFor(P), 1..MaxLocks)
  BY <1>1 DEF RescueSound, RescueStorage
<1>3. \A i \in DOMAIN P : LockGood(r, P[i], n)
  BY <1>1 DEF RescueSound
<1>4. lock.amount \in Nat /\ lock.sender \in KeepSenders /\ lock.sender # "self"
  BY KeepFacts DEF KeepLock
<1>5. /\ R \in Seq(KeepLock) /\ Len(R) = Len(P) /\ DOMAIN R = DOMAIN P /\ R[id] = lock
      /\ \A i \in DOMAIN P : i # id => R[i] = P[i]
      /\ lock.amount <= r.bal["self"]
      /\ lock.status = "Locked" => SumOf(HeldFor(R), 1..MaxLocks) = r.bal["self"]
      /\ lock.status # "Locked" => SumOf(HeldFor(R), 1..MaxLocks) = r.bal["self"] - lock.amount
  <2>1. id \in DOMAIN P /\ P[id].status = "Locked" /\ lock.amount = P[id].amount
        /\ R = WithLock(P, id, lock)
    BY <1>1
  <2> QED
    BY <1>2, <2>1, LockReplaced
<1>9. b \in [KeepSenders \union {"self"} -> Nat] /\ b["self"] = SumOf(HeldFor(R), 1..MaxLocks)
  <2>1. PICK c : c = r.bal
    OBVIOUS
  <2>2. c \in [KeepSenders \union {"self"} -> Nat] /\ c["self"] \in Nat /\ c["self"] >= lock.amount
    BY <1>2, <1>5, <2>1
  <2>3. CASE lock.status = "Locked"
    BY <1>2, <1>5, <2>3 DEF Settles
  <2>4. CASE lock.status # "Locked"
    <3>1. b = [c EXCEPT !["self"] = @ - lock.amount, ![lock.sender] = @ + lock.amount]
      BY <2>1, <2>4 DEF Settles
    <3>2. b \in [KeepSenders \union {"self"} -> Nat] /\ b["self"] = c["self"] - lock.amount
      BY <1>4, <2>2, <3>1
    <3> QED
      BY <1>5, <2>1, <2>4, <3>2
  <2> QED
    BY <2>3, <2>4
<1>10. /\ q \in RescueStorage /\ q.locks = R /\ q.bal = b
       /\ q.admins = r.admins /\ q.validators = r.validators /\ q.threshold = r.threshold
       /\ q.validator_threshold = r.validator_threshold /\ q.initialized = r.initialized
  BY <1>2, <1>5, <1>9 DEF RescueStorage, Written
<1>11. Appointed(q)
  <2>1. r.initialized
    <3>1. P # <<>>
      BY <1>1
    <3> QED
      BY <1>1, <1>2, <3>1 DEF Appointed
  <2> QED
    BY <1>2, <1>10, <2>1 DEF Appointed
<1>12. \A i \in DOMAIN q.locks : LockGood(q, q.locks[i], n)
  <2>1. \A l : LockGood(q, l, n) <=> LockGood(r, l, n)
    BY <1>10 DEF LockGood
  <2> QED
    BY <1>3, <1>5, <1>10, <2>1
<1> QED
  BY <1>2, <1>5, <1>9, <1>10, <1>11, <1>12 DEF RescueSound

\* A lock of which only the votes, the approvals and the flag were written.
LEMMA LockKept ==
  ASSUME NEW n \in Nat, NEW r, RescueSound(r, n), NEW id \in DOMAIN r.locks, r.locks[id].status = "Locked",
         NEW lock \in KeepLock, LockGood(r, lock, n), lock.status = "Locked",
         lock.sender = r.locks[id].sender, lock.amount = r.locks[id].amount,
         NEW q, q = [r EXCEPT !.locks[id] = lock]
  PROVE  RescueSound(q, n)
<1>1. Settles(r.bal, lock, r.bal)
  BY DEF Settles
<1>2. r \in RescueStorage
  BY DEF RescueSound
<1>3. q = Written(r, WithLock(r.locks, id, lock), r.bal)
  BY <1>2 DEF WithLock, Written, RescueStorage
<1>4. PICK R : R = WithLock(r.locks, id, lock)
  OBVIOUS
<1>5. PICK b : b = r.bal
  OBVIOUS
<1>6. Settles(r.bal, lock, b)
  BY <1>1, <1>5
<1>7. q = Written(r, R, b)
  BY <1>3, <1>4, <1>5
<1> QED
  BY <1>4, <1>6, <1>7, LockWritten, SMTT(30)

\* Paid keeps the rescue sound when the status it writes is due.
LEMMA LockPaid ==
  ASSUME NEW n \in Nat, NEW r, RescueSound(r, n), NEW id \in DOMAIN r.locks, r.locks[id].status = "Locked",
         NEW lock \in KeepLock, NEW st \in {"Rescued", "CancelledExpired"},
         LockGood(r, [lock EXCEPT !.status = st], n),
         lock.sender = r.locks[id].sender, lock.amount = r.locks[id].amount
  PROVE  RescueSound(Keep!Paid(r, id, lock, st), n)
<1>1. PICK l : l = [lock EXCEPT !.status = st]
  OBVIOUS
<1>2. /\ l \in KeepLock /\ l.status = st /\ l.status # "Locked"
      /\ l.sender = lock.sender /\ l.amount = lock.amount
  BY <1>1 DEF KeepLock
<1>3. PICK b : b = [r.bal EXCEPT !["self"] = @ - l.amount, ![l.sender] = @ + l.amount]
  OBVIOUS
<1>4. Settles(r.bal, l, b)
  BY <1>2, <1>3 DEF Settles
<1>5. r \in RescueStorage
  BY DEF RescueSound
<1>6. PICK R : R = WithLock(r.locks, id, l)
  OBVIOUS
<1>7. PICK q : q = Keep!Paid(r, id, lock, st)
  OBVIOUS
<1>8. q = [r EXCEPT !.locks = [r.locks EXCEPT ![id] = l],
                    !.bal = [r.bal EXCEPT !["self"] = @ - l.amount, ![l.sender] = @ + l.amount]]
  BY <1>1, <1>2, <1>5, <1>7 DEF Keep!Paid, Keep!Move, Keep!House, RescueStorage
<1>9. q = Written(r, R, b)
  BY <1>3, <1>6, <1>8 DEF WithLock, Written
<1>10. LockGood(r, l, n) /\ l.sender = r.locks[id].sender /\ l.amount = r.locks[id].amount
  BY <1>1, <1>2
<1>11. RescueSound(q, n)
  BY <1>2, <1>4, <1>6, <1>9, <1>10, LockWritten
<1> QED
  BY <1>7, <1>11

\* A vote or an approval is counted, and rescues when it completes both.
LEMMA RescuePerformed ==
  ASSUME NEW n \in Nat, NEW r, RescueSound(r, n), NEW id \in DOMAIN r.locks, r.locks[id].status = "Locked",
         NEW lock \in KeepLock, lock.status = "Locked",
         lock.votes \subseteq r.validators, lock.approvals \subseteq r.admins,
         lock.confirmed <=> Cardinality(lock.votes) >= r.validator_threshold,
         lock.sender = r.locks[id].sender, lock.amount = r.locks[id].amount
  PROVE  RescueSound(Keep!perform_rescue(r, id, lock), n)
<1>1. CASE lock.confirmed /\ Cardinality(lock.approvals) >= r.threshold
  <2>1. Keep!is_ready_for_rescue(r, lock)
    BY <1>1, KeepCount DEF Keep!is_ready_for_rescue
  <2>2. PICK l : l = [lock EXCEPT !.status = "Rescued"]
    OBVIOUS
  <2>3. /\ l.status = "Rescued" /\ l.votes = lock.votes /\ l.approvals = lock.approvals
        /\ l.confirmed = lock.confirmed
    BY <2>2 DEF KeepLock
  <2>4. LockGood(r, l, n)
    BY <1>1, <2>3 DEF LockGood
  <2>5. RescueSound(Keep!Paid(r, id, lock, "Rescued"), n)
    BY <2>2, <2>4, LockPaid
  <2> QED
    BY <2>1, <2>5 DEF Keep!perform_rescue
<1>2. CASE ~ (lock.confirmed /\ Cardinality(lock.approvals) >= r.threshold)
  <2>1. ~Keep!is_ready_for_rescue(r, lock)
    BY <1>2, KeepCount DEF Keep!is_ready_for_rescue
  <2>2. LockGood(r, lock, n)
    BY <1>2 DEF LockGood
  <2>3. PICK q : q = [r EXCEPT !.locks[id] = lock]
    OBVIOUS
  <2>4. RescueSound(q, n)
    BY <2>2, <2>3, LockKept
  <2> QED
    BY <2>1, <2>3, <2>4 DEF Keep!perform_rescue
<1> QED
  BY <1>1, <1>2

\* The clock only makes locks older.
LEMMA RescueTicks ==
  ASSUME NEW n \in Nat, NEW m \in Nat, n <= m, NEW r, RescueSound(r, n)
  PROVE  RescueSound(r, m)
<1>1. \A i \in DOMAIN r.locks : r.locks[i] \in KeepLock
  <2>1. r.locks \in Seq(KeepLock)
    BY DEF RescueSound, RescueStorage
  <2> QED
    BY <2>1
<1>2. ASSUME NEW l \in KeepLock, LockGood(r, l, n)  PROVE LockGood(r, l, m)
  <2>1. l.at \in Nat
    BY DEF KeepLock
  <2>2. l.at + KeepTimeout <= n => l.at + KeepTimeout <= m
    BY <2>1, KeepFacts
  <2> QED
    BY <1>2, <2>2 DEF LockGood
<1>3. \A i \in DOMAIN r.locks : LockGood(r, r.locks[i], m)
  BY <1>1, <1>2 DEF RescueSound
<1> QED
  BY <1>3 DEF RescueSound

LEMMA RescueInitialized ==
  ASSUME KeepInv, NEW a \in Committees, NEW v \in Committees, NEW t \in KeepThresholds,
         NEW u \in KeepThresholds, Keep!initialize(a, t, v, u)
  PROVE  RescueSound(k_rescue', k_now)
<1>1. PICK A : A = {a[i] : i \in DOMAIN a}
  OBVIOUS
<1>2. PICK V : V = {v[i] : i \in DOMAIN v}
  OBVIOUS
<1>3. a \in Seq(A) /\ v \in Seq(V)
  BY <1>1, <1>2, KeepFacts
<1>4. (\A i, j \in DOMAIN a : a[i] = a[j] => i = j) /\ (\A i, j \in DOMAIN v : v[i] = v[j] => i = j)
  BY DEF Keep!initialize, Keep!has_duplicate_addresses, Keep!IsInjective
<1>5. IsFiniteSet(A) /\ Cardinality(A) = Len(a)
  BY <1>1, <1>3, <1>4, DistinctSize
<1>6. IsFiniteSet(V)
  BY <1>2, <1>3, <1>4, DistinctSize
<1>7. A \subseteq Keep!People /\ V \subseteq Keep!People
  BY <1>1, <1>2 DEF Keep!People, Keep!ToSet
<1>8. /\ ~k_rescue.initialized /\ t # 0 /\ t <= Len(a) /\ u # 0
      /\ k_rescue' = [k_rescue EXCEPT !.initialized = TRUE, !.admins = A, !.threshold = t,
                                      !.validators = V, !.validator_threshold = u]
  BY <1>1, <1>2 DEF Keep!initialize, Keep!ToSet
<1>9. /\ k_rescue \in RescueStorage /\ k_rescue.locks = <<>>
      /\ k_rescue.bal["self"] = SumOf(HeldFor(k_rescue.locks), 1..MaxLocks)
  BY <1>8 DEF KeepInv, RescueSound, Appointed
<1>10. t \in Nat /\ u \in Nat /\ Len(a) \in Nat
  BY <1>3, KeepFacts
<1>11. PICK q : q = k_rescue'
  OBVIOUS
<1>12. /\ q \in RescueStorage /\ q.locks = <<>> /\ q.bal = k_rescue.bal /\ q.initialized = TRUE
       /\ q.admins = A /\ q.validators = V /\ q.threshold = t /\ q.validator_threshold = u
  BY <1>7, <1>8, <1>9, <1>10, <1>11 DEF RescueStorage
<1>13. Appointed(q)
  BY <1>5, <1>6, <1>8, <1>10, <1>12 DEF Appointed
<1>14. RescueSound(q, k_now)
  BY <1>9, <1>12, <1>13, KeepFacts DEF RescueSound
<1> QED
  BY <1>11, <1>14

LEMMA RescueLocks ==
  ASSUME KeepInv, NEW s \in KeepSenders, NEW x \in KeepAmounts, Keep!lock_tokens(s, x)
  PROVE  RescueSound(k_rescue', k_now)
<1>1. PICK P : P = k_rescue.locks
  OBVIOUS
<1>2. PICK c : c = k_rescue.bal
  OBVIOUS
<1>3. PICK l : l = [sender |-> s, amount |-> x, status |-> "Locked", confirmed |-> FALSE,
                    at |-> k_now, votes |-> {}, approvals |-> {}]
  OBVIOUS
<1>4. PICK b : b = [c EXCEPT ![s] = @ - x, !["self"] = @ + x]
  OBVIOUS
<1>5. PICK R : R = Append(P, l)
  OBVIOUS
<1>6. PICK q : q = k_rescue'
  OBVIOUS
<1>7. /\ k_rescue.initialized /\ x > 0 /\ c[s] >= x /\ Len(P) < MaxLocks
      /\ q = [k_rescue EXCEPT !.bal = b, !.locks = R]
  BY <1>1, <1>2, <1>3, <1>4, <1>5, <1>6
  DEF Keep!lock_tokens, Keep!CanMove, Keep!Move, Keep!House
<1>8. /\ k_rescue \in RescueStorage /\ Appointed(k_rescue) /\ k_now \in Nat
      /\ \A i \in DOMAIN P : LockGood(k_rescue, P[i], k_now)
      /\ c["self"] = SumOf(HeldFor(P), 1..MaxLocks)
  BY <1>1, <1>2, KeepFacts DEF KeepInv, RescueSound
<1>9. P \in Seq(KeepLock) /\ c \in [KeepSenders \union {"self"} -> Nat]
  BY <1>1, <1>2, <1>8 DEF RescueStorage
<1>10. x \in Nat
  BY <1>7, KeepFacts
<1>11. l \in KeepLock
  BY <1>3, <1>8, <1>10 DEF KeepLock
<1>12. /\ R \in Seq(KeepLock) /\ Len(R) = Len(P) + 1 /\ Len(P) \in Nat /\ Len(R) <= MaxLocks
       /\ DOMAIN P = 1..Len(P) /\ DOMAIN R = 1..Len(P) + 1 /\ R[Len(P) + 1] = l
       /\ \A i \in DOMAIN P : R[i] = P[i]
  BY <1>5, <1>7, <1>9, <1>11, KeepFacts
<1>13. PICK id : id = Len(P) + 1
  OBVIOUS
<1>14. id \in 1..MaxLocks /\ id \notin DOMAIN P /\ id \in DOMAIN R /\ R[id] = l
  BY <1>7, <1>12, <1>13, KeepFacts
<1>15. SameElse(P, R, id)
  BY <1>12, <1>13 DEF SameElse
<1>16. HeldFor(P)[id] = 0 /\ HeldFor(R)[id] = x
  <2>1. HeldFor(P)[id] = 0
    <3>1. P \in Seq(KeepLock) /\ Len(P) <= MaxLocks
      BY <1>7, <1>9, <1>12, KeepFacts
    <3> QED
      BY <1>14, <3>1, HeldType
  <2>2. R[id].status = "Locked" /\ R[id].amount = x
    BY <1>3, <1>14
  <2> QED
    BY <1>12, <1>14, <2>1, <2>2, HeldType
<1>17. /\ SumOf(HeldFor(P), 1..MaxLocks) \in Nat
       /\ SumOf(HeldFor(R), 1..MaxLocks)
           = SumOf(HeldFor(P), 1..MaxLocks) + HeldFor(R)[id] - HeldFor(P)[id]
  <2>1. /\ P \in Seq(KeepLock) /\ R \in Seq(KeepLock) /\ Len(P) <= MaxLocks /\ Len(R) <= MaxLocks
        /\ id \in 1..MaxLocks
    BY <1>7, <1>9, <1>12, <1>14, KeepFacts
  <2> QED
    BY <1>15, <2>1, HeldShift
<1>18. SumOf(HeldFor(R), 1..MaxLocks) = c["self"] + x
  BY <1>8, <1>10, <1>16, <1>17
<1>19. b \in [KeepSenders \union {"self"} -> Nat] /\ b["self"] = c["self"] + x
  BY <1>4, <1>7, <1>9, <1>10, KeepFacts, SMTT(30)
<1>20. /\ q \in RescueStorage /\ q.locks = R /\ q.bal = b
       /\ q.admins = k_rescue.admins /\ q.validators = k_rescue.validators
       /\ q.threshold = k_rescue.threshold /\ q.initialized = k_rescue.initialized
       /\ q.validator_threshold = k_rescue.validator_threshold
  BY <1>7, <1>8, <1>12, <1>19 DEF RescueStorage
<1>21. Appointed(q)
  BY <1>7, <1>8, <1>20 DEF Appointed
<1>22. LockGood(q, l, k_now)
  <2>1. Cardinality({}) = 0
    BY FS_EmptySet
  <2>2. q.threshold \in Nat /\ q.threshold # 0 /\ q.validator_threshold \in Nat
        /\ q.validator_threshold # 0
    <3>1. q.threshold \in Nat /\ q.validator_threshold \in Nat
      BY <1>20 DEF RescueStorage
    <3>2. q.threshold \in 1..Cardinality(q.admins) /\ q.validator_threshold # 0
      BY <1>7, <1>20, <1>21 DEF Appointed
    <3> QED
      BY <3>1, <3>2
  <2>3. l.votes = {} /\ l.approvals = {} /\ l.confirmed = FALSE /\ l.status = "Locked"
    BY <1>3
  <2>4. ~ (Cardinality(l.votes) >= q.validator_threshold)
    BY <2>1, <2>2, <2>3
  <2> QED
    BY <2>3, <2>4 DEF LockGood
<1>23. \A i \in DOMAIN q.locks : LockGood(q, q.locks[i], k_now)
  <2>1. \A m : LockGood(q, m, k_now) <=> LockGood(k_rescue, m, k_now)
    BY <1>20 DEF LockGood
  <2>2. \A i \in DOMAIN R : i \in DOMAIN P \/ i = id
    BY <1>12, <1>13
  <2> QED
    BY <1>8, <1>12, <1>14, <1>20, <1>22, <2>1, <2>2
<1>24. RescueSound(q, k_now)
  BY <1>12, <1>18, <1>19, <1>20, <1>21, <1>23 DEF RescueSound
<1> QED
  BY <1>6, <1>24

\* The lock that an action reads, and what the invariant says of it.
LEMMA LockRead ==
  ASSUME KeepInv, NEW id \in DOMAIN k_rescue.locks
  PROVE  /\ k_now \in Nat /\ RescueSound(k_rescue, k_now) /\ k_rescue \in RescueStorage
         /\ k_rescue.locks[id] \in KeepLock /\ LockGood(k_rescue, k_rescue.locks[id], k_now)
         /\ IsFiniteSet(k_rescue.admins) /\ IsFiniteSet(k_rescue.validators)
         /\ k_rescue.initialized
         /\ k_rescue.threshold \in Nat /\ k_rescue.validator_threshold \in Nat
         /\ k_rescue.admins \subseteq Keep!People /\ k_rescue.validators \subseteq Keep!People
<1>1. /\ k_now \in Nat /\ RescueSound(k_rescue, k_now) /\ k_rescue \in RescueStorage
      /\ LockGood(k_rescue, k_rescue.locks[id], k_now) /\ Appointed(k_rescue)
  BY KeepFacts DEF KeepInv, RescueSound
<1>2. /\ k_rescue.locks \in Seq(KeepLock)
      /\ k_rescue.threshold \in Nat /\ k_rescue.validator_threshold \in Nat
      /\ k_rescue.admins \subseteq Keep!People /\ k_rescue.validators \subseteq Keep!People
  BY <1>1 DEF RescueStorage
<1>3. k_rescue.locks[id] \in KeepLock
  BY <1>2
<1>4. IsFiniteSet(k_rescue.admins) /\ IsFiniteSet(k_rescue.validators)
  BY <1>1 DEF Appointed
<1>5. k_rescue.locks # <<>>
  OBVIOUS
<1>6. k_rescue.initialized
  BY <1>1, <1>5 DEF Appointed
<1> QED
  BY <1>1, <1>2, <1>3, <1>4, <1>6

LEMMA RescueVotes ==
  ASSUME KeepInv, NEW v \in Keep!People, NEW id \in DOMAIN k_rescue.locks,
         Keep!submit_failure_proof(v, id)
  PROVE  RescueSound(k_rescue', k_now)
<1>1. PICK lock : lock = k_rescue.locks[id]
  OBVIOUS
<1>2. /\ k_now \in Nat /\ RescueSound(k_rescue, k_now) /\ lock \in KeepLock
      /\ LockGood(k_rescue, lock, k_now) /\ IsFiniteSet(k_rescue.validators)
      /\ k_rescue.validator_threshold \in Nat /\ k_rescue.validators \subseteq Keep!People
  BY <1>1, LockRead
<1>3. PICK l : l = [lock EXCEPT !.votes = lock.votes \union {v},
         !.confirmed = lock.confirmed
           \/ Keep!Cardinality(lock.votes \union {v}) >= k_rescue.validator_threshold]
  OBVIOUS
<1>4. /\ v \in k_rescue.validators /\ lock.status = "Locked"
      /\ k_rescue' = Keep!perform_rescue(k_rescue, id, l)
  BY <1>1, <1>3 DEF Keep!submit_failure_proof
<1>5. lock.votes \subseteq k_rescue.validators /\ lock.approvals \subseteq k_rescue.admins
      /\ (lock.confirmed <=> Cardinality(lock.votes) >= k_rescue.validator_threshold)
  BY <1>2 DEF LockGood
<1>6. /\ lock.votes \union {v} \subseteq k_rescue.validators
      /\ Cardinality(lock.votes \union {v}) >= Cardinality(lock.votes)
      /\ Cardinality(lock.votes \union {v}) \in Nat /\ Cardinality(lock.votes) \in Nat
  <2>1. lock.votes \union {v} \subseteq k_rescue.validators /\ lock.votes \subseteq lock.votes \union {v}
    BY <1>4, <1>5
  <2>2. IsFiniteSet(lock.votes \union {v})
    BY <1>2, <2>1, FS_Subset
  <2>3. IsFiniteSet(lock.votes) /\ Cardinality(lock.votes) <= Cardinality(lock.votes \union {v})
    BY <2>1, <2>2, FS_Subset
  <2>4. Cardinality(lock.votes \union {v}) \in Nat /\ Cardinality(lock.votes) \in Nat
    BY <2>2, <2>3, FS_CardinalityType
  <2> QED
    BY <2>1, <2>3, <2>4
<1>7. PICK w : w = lock.votes \union {v}
  OBVIOUS
<1>8. PICK d : d = (lock.confirmed \/ Cardinality(w) >= k_rescue.validator_threshold)
  OBVIOUS
<1>9. d \in BOOLEAN /\ (d <=> Cardinality(w) >= k_rescue.validator_threshold)
  <2>1. Cardinality(lock.votes) >= k_rescue.validator_threshold =>
          Cardinality(w) >= k_rescue.validator_threshold
    BY <1>2, <1>6, <1>7
  <2>2. (lock.confirmed \/ Cardinality(w) >= k_rescue.validator_threshold)
          <=> Cardinality(w) >= k_rescue.validator_threshold
    BY <1>5, <2>1
  <2>3. d \in BOOLEAN
    BY <1>8
  <2> QED
    BY <1>8, <2>2, <2>3
<1>10. l = [lock EXCEPT !.votes = w, !.confirmed = d]
  BY <1>3, <1>7, <1>8, KeepCount
<1>11. /\ l \in KeepLock /\ l.status = lock.status /\ l.sender = lock.sender /\ l.amount = lock.amount
       /\ l.votes = w /\ l.approvals = lock.approvals /\ l.confirmed = d
  BY <1>2, <1>6, <1>7, <1>9, <1>10 DEF KeepLock
<1>12. RescueSound(Keep!perform_rescue(k_rescue, id, l), k_now)
  BY <1>1, <1>2, <1>4, <1>5, <1>6, <1>7, <1>9, <1>11, RescuePerformed
<1> QED
  BY <1>4, <1>12

LEMMA RescueApproves ==
  ASSUME KeepInv, NEW a \in Keep!People, NEW id \in DOMAIN k_rescue.locks,
         Keep!approve_rescue(a, id)
  PROVE  RescueSound(k_rescue', k_now)
<1>1. PICK lock : lock = k_rescue.locks[id]
  OBVIOUS
<1>2. /\ k_now \in Nat /\ RescueSound(k_rescue, k_now) /\ lock \in KeepLock
      /\ LockGood(k_rescue, lock, k_now) /\ k_rescue.admins \subseteq Keep!People
  BY <1>1, LockRead
<1>3. PICK w : w = lock.approvals \union {a}
  OBVIOUS
<1>4. PICK l : l = [lock EXCEPT !.approvals = w]
  OBVIOUS
<1>5. /\ a \in k_rescue.admins /\ lock.status = "Locked"
      /\ k_rescue' = Keep!perform_rescue(k_rescue, id, l)
  BY <1>1, <1>3, <1>4 DEF Keep!approve_rescue
<1>6. lock.votes \subseteq k_rescue.validators /\ w \subseteq k_rescue.admins
      /\ (lock.confirmed <=> Cardinality(lock.votes) >= k_rescue.validator_threshold)
  BY <1>2, <1>3, <1>5 DEF LockGood
<1>7. /\ l \in KeepLock /\ l.status = lock.status /\ l.sender = lock.sender /\ l.amount = lock.amount
      /\ l.votes = lock.votes /\ l.approvals = w /\ l.confirmed = lock.confirmed
  BY <1>2, <1>4, <1>6 DEF KeepLock
<1>8. RescueSound(Keep!perform_rescue(k_rescue, id, l), k_now)
  BY <1>1, <1>2, <1>5, <1>6, <1>7, RescuePerformed
<1> QED
  BY <1>5, <1>8

LEMMA RescueRefunds ==
  ASSUME KeepInv, NEW id \in DOMAIN k_rescue.locks, Keep!refund_expired(id)
  PROVE  RescueSound(k_rescue', k_now)
<1>1. PICK lock : lock = k_rescue.locks[id]
  OBVIOUS
<1>2. /\ k_now \in Nat /\ RescueSound(k_rescue, k_now) /\ lock \in KeepLock
      /\ LockGood(k_rescue, lock, k_now)
  BY <1>1, LockRead
<1>3. /\ lock.status = "Locked" /\ ~lock.confirmed /\ k_now >= lock.at + KeepTimeout
      /\ k_rescue' = Keep!Paid(k_rescue, id, lock, "CancelledExpired")
  BY <1>1 DEF Keep!refund_expired, Keep!Refundable, Keep!is_expired, Keep!lock_expiration_instant
<1>4. PICK l : l = [lock EXCEPT !.status = "CancelledExpired"]
  OBVIOUS
<1>5. /\ l.status = "CancelledExpired" /\ l.votes = lock.votes /\ l.approvals = lock.approvals
      /\ l.confirmed = lock.confirmed /\ l.at = lock.at /\ lock.at \in Nat
  BY <1>2, <1>4 DEF KeepLock
<1>6. LockGood(k_rescue, l, k_now)
  <2>1. l.at + KeepTimeout <= k_now
    BY <1>2, <1>3, <1>5, KeepFacts
  <2> QED
    BY <1>2, <1>3, <1>5, <2>1 DEF LockGood
<1>7. RescueSound(Keep!Paid(k_rescue, id, lock, "CancelledExpired"), k_now)
  BY <1>1, <1>2, <1>3, <1>4, <1>6, LockPaid
<1> QED
  BY <1>3, <1>7

-----------------------------------------------------------------------------
\* The timelock

\* The timelock with this withdrawal, or none, for s.
WithQueued(q, s, w) == [q EXCEPT !.withdrawal[s] = w]

\* One withdrawal is written, or taken out.
LEMMA QueueWritten ==
  ASSUME NEW q, QueueSound(q), NEW s \in KeepSenders, NEW w \in Keep!QueuedWithdrawal \union {None},
         w # None /\ w.amount > KeepLarge => w.execute_after = w.at + KeepDelay,
         NEW p, p = WithQueued(q, s, w)
  PROVE  /\ QueueSound(p) /\ p.withdrawal[s] = w /\ p.keys = q.keys
         /\ \A t \in KeepSenders : t # s => p.withdrawal[t] = q.withdrawal[t]
<1>1. q \in QueueStorage
  BY DEF QueueSound
<1>2. PICK f : f = q.withdrawal
  OBVIOUS
<1>3. f \in [KeepSenders -> Keep!QueuedWithdrawal \union {None}]
  BY <1>1, <1>2 DEF QueueStorage
<1>4. PICK g : g = [f EXCEPT ![s] = w]
  OBVIOUS
<1>5. /\ g \in [KeepSenders -> Keep!QueuedWithdrawal \union {None}] /\ g[s] = w
      /\ \A t \in KeepSenders : t # s => g[t] = f[t]
  BY <1>3, <1>4
<1>6. p = [q EXCEPT !.withdrawal = g]
  BY <1>1, <1>2, <1>4 DEF QueueStorage, WithQueued
<1>7. p \in QueueStorage /\ p.withdrawal = g /\ p.keys = q.keys
  BY <1>1, <1>5, <1>6 DEF QueueStorage
<1>8. \A t \in KeepSenders : g[t] # None /\ g[t].amount > KeepLarge =>
        g[t].execute_after = g[t].at + KeepDelay
  BY <1>2, <1>5 DEF QueueSound
<1> QED
  BY <1>2, <1>5, <1>7, <1>8 DEF QueueSound

\* What leaves the timelock was due, and the key sets are counted.
QueueMoves(q, p, n) ==
  /\ \A r \in KeepSenders :
       q.withdrawal[r] # None /\ p.withdrawal[r] = None =>
         ~q.withdrawal[r].cancelled
         /\ (q.withdrawal[r].amount > KeepLarge => n - q.withdrawal[r].at >= KeepDelay)
  /\ q.keys # None /\ p.keys # q.keys =>
       p.keys.sequence = q.keys.sequence + 1 /\ q.governance # None

LEMMA QueueAdds ==
  ASSUME KeepInv, NEW s \in KeepSenders, NEW x \in KeepAmounts, Keep!queue_withdrawal(s, x)
  PROVE  QueueSound(k_queue') /\ QueueMoves(k_queue, k_queue', k_now)
<1>1. PICK w : w = [amount |-> x, at |-> k_now, cancelled |-> FALSE,
                    execute_after |-> IF x > KeepLarge THEN k_now + KeepDelay ELSE k_now]
  OBVIOUS
<1>2. k_now \in Nat /\ x \in Int /\ QueueSound(k_queue)
  BY KeepFacts DEF KeepInv
<1>3. w \in Keep!QueuedWithdrawal /\ (w.amount > KeepLarge => w.execute_after = w.at + KeepDelay)
  BY <1>1, <1>2, KeepFacts DEF Keep!QueuedWithdrawal
<1>4. w # None
  BY <1>3, KeepFacts
<1>5. k_queue' = WithQueued(k_queue, s, w)
  BY <1>1 DEF Keep!queue_withdrawal, WithQueued
<1>6. PICK p : p = k_queue'
  OBVIOUS
<1>7. /\ QueueSound(p) /\ p.withdrawal[s] = w /\ p.keys = k_queue.keys
      /\ \A t \in KeepSenders : t # s => p.withdrawal[t] = k_queue.withdrawal[t]
  BY <1>2, <1>3, <1>5, <1>6, QueueWritten
<1>8. QueueMoves(k_queue, p, k_now)
  BY <1>4, <1>7 DEF QueueMoves
<1> QED
  BY <1>6, <1>7, <1>8

LEMMA QueueCancels ==
  ASSUME KeepInv, NEW s \in KeepSenders, Keep!cancel_withdrawal(s)
  PROVE  QueueSound(k_queue') /\ QueueMoves(k_queue, k_queue', k_now)
<1>1. PICK w : w = [k_queue.withdrawal[s] EXCEPT !.cancelled = TRUE]
  OBVIOUS
<1>2. QueueSound(k_queue) /\ k_queue \in QueueStorage /\ k_queue.withdrawal[s] # None
  BY DEF KeepInv, QueueSound, Keep!cancel_withdrawal
<1>3. k_queue.withdrawal[s] \in Keep!QueuedWithdrawal
  BY <1>2 DEF QueueStorage
<1>4. /\ w \in Keep!QueuedWithdrawal /\ w.amount = k_queue.withdrawal[s].amount
      /\ w.at = k_queue.withdrawal[s].at /\ w.execute_after = k_queue.withdrawal[s].execute_after
  BY <1>1, <1>3 DEF Keep!QueuedWithdrawal
<1>5. w # None /\ (w.amount > KeepLarge => w.execute_after = w.at + KeepDelay)
  BY <1>2, <1>4, KeepFacts DEF QueueSound
<1>6. k_queue' = WithQueued(k_queue, s, w)
  BY <1>1, <1>2 DEF Keep!cancel_withdrawal, QueueStorage, WithQueued
<1>7. PICK p : p = k_queue'
  OBVIOUS
<1>8. /\ QueueSound(p) /\ p.withdrawal[s] = w /\ p.keys = k_queue.keys
      /\ \A t \in KeepSenders : t # s => p.withdrawal[t] = k_queue.withdrawal[t]
  BY <1>2, <1>4, <1>5, <1>6, <1>7, QueueWritten
<1>9. QueueMoves(k_queue, p, k_now)
  BY <1>5, <1>8 DEF QueueMoves
<1> QED
  BY <1>7, <1>8, <1>9

LEMMA QueueExecutes ==
  ASSUME KeepInv, NEW s \in KeepSenders, Keep!execute_withdrawal(s)
  PROVE  QueueSound(k_queue') /\ QueueMoves(k_queue, k_queue', k_now)
<1>1. PICK w : w = k_queue.withdrawal[s]
  OBVIOUS
<1>2. QueueSound(k_queue) /\ k_queue \in QueueStorage /\ k_now \in Nat
  BY KeepFacts DEF KeepInv, QueueSound
<1>3. /\ w # None /\ ~w.cancelled /\ k_now >= w.execute_after
      /\ k_queue' = WithQueued(k_queue, s, None)
  BY <1>1 DEF Keep!execute_withdrawal, WithQueued
<1>4. w \in Keep!QueuedWithdrawal
  BY <1>1, <1>2, <1>3 DEF QueueStorage
<1>5. w.at \in Nat /\ w.execute_after \in Nat
  BY <1>4 DEF Keep!QueuedWithdrawal
<1>6. w.amount > KeepLarge => w.execute_after = w.at + KeepDelay
  BY <1>1, <1>2, <1>3 DEF QueueSound
<1>7. w.amount > KeepLarge => k_now - w.at >= KeepDelay
  BY <1>2, <1>3, <1>5, <1>6, KeepFacts
<1>8. PICK p : p = k_queue'
  OBVIOUS
<1>9. /\ QueueSound(p) /\ p.withdrawal[s] = None /\ p.keys = k_queue.keys
      /\ \A t \in KeepSenders : t # s => p.withdrawal[t] = k_queue.withdrawal[t]
  BY <1>2, <1>3, <1>8, QueueWritten
<1>10. QueueMoves(k_queue, p, k_now)
  BY <1>1, <1>3, <1>7, <1>9 DEF QueueMoves
<1> QED
  BY <1>8, <1>9, <1>10

\* A rotation counts itself and leaves the withdrawals alone.
LEMMA QueueRotates ==
  ASSUME KeepInv, NEW g \in KeepSenders, NEW k \in KeySets, Keep!rotate_validators(g, k)
  PROVE  QueueSound(k_queue') /\ QueueMoves(k_queue, k_queue', k_now)
<1>1. QueueSound(k_queue) /\ k_queue \in QueueStorage
  BY DEF KeepInv, QueueSound
<1>2. PICK p : p = k_queue'
  OBVIOUS
<1>3. /\ k_queue.governance # None /\ k_queue.keys # None
      /\ p = [k_queue EXCEPT !.keys = [sequence |-> @.sequence + 1, set |-> k]]
  BY <1>2 DEF Keep!rotate_validators
<1>4. k_queue.keys \in [sequence : Nat, set : KeySets]
  BY <1>1, <1>3 DEF QueueStorage
<1>5. PICK m : m = k_queue.keys.sequence
  OBVIOUS
<1>6. m \in Nat
  BY <1>4, <1>5
<1>7. p = [k_queue EXCEPT !.keys = [sequence |-> m + 1, set |-> k]]
  BY <1>1, <1>3, <1>5 DEF QueueStorage
<1>8. p \in QueueStorage /\ p.withdrawal = k_queue.withdrawal /\ p.keys.sequence = m + 1
  BY <1>1, <1>6, <1>7 DEF QueueStorage
<1> QED
  BY <1>1, <1>2, <1>3, <1>5, <1>8 DEF QueueSound, QueueMoves

-----------------------------------------------------------------------------
\* What one step does to the locks

RescueMoves(r, p, n) ==
  \A i \in DOMAIN r.locks :
    /\ r.locks[i].status # "Locked" => p.locks[i] = r.locks[i]
    /\ n >= r.locks[i].at + KeepTimeout => p.locks[i].votes = r.locks[i].votes
    /\ p.locks[i].status = "CancelledExpired" => r.locks[i].at + KeepTimeout <= n

LEMMA LockMoves ==
  ASSUME NEW n \in Nat, NEW r, RescueSound(r, n), NEW id \in DOMAIN r.locks, r.locks[id].status = "Locked",
         NEW l, n >= r.locks[id].at + KeepTimeout => l.votes = r.locks[id].votes,
         l.status = "CancelledExpired" => r.locks[id].at + KeepTimeout <= n,
         NEW p, p.locks = WithLock(r.locks, id, l)
  PROVE  RescueMoves(r, p, n)
<1>1. PICK P : P = r.locks
  OBVIOUS
<1>2. PICK R : R = p.locks
  OBVIOUS
<1>3. P \in Seq(KeepLock) /\ \A i \in DOMAIN P : LockGood(r, P[i], n)
  BY <1>1 DEF RescueSound, RescueStorage
<1>4. R[id] = l /\ \A i \in DOMAIN P : i # id => R[i] = P[i]
  BY <1>1, <1>2, <1>3 DEF WithLock
<1>5. \A i \in DOMAIN P : P[i].status = "CancelledExpired" => P[i].at + KeepTimeout <= n
  BY <1>3 DEF LockGood
<1>6. ASSUME NEW i \in DOMAIN P
      PROVE  /\ P[i].status # "Locked" => R[i] = P[i]
             /\ n >= P[i].at + KeepTimeout => R[i].votes = P[i].votes
             /\ R[i].status = "CancelledExpired" => P[i].at + KeepTimeout <= n
  BY <1>1, <1>4, <1>5
<1> QED
  BY <1>1, <1>2, <1>6 DEF RescueMoves

LEMMA LocksPerformed ==
  ASSUME NEW r \in RescueStorage, NEW id, NEW lock \in KeepLock
  PROVE  \E l : /\ Keep!perform_rescue(r, id, lock).locks = WithLock(r.locks, id, l)
                /\ l.votes = lock.votes
                /\ l.status = lock.status \/ l.status = "Rescued"
<1>1. CASE Keep!is_ready_for_rescue(r, lock)
  <2>1. PICK l : l = [lock EXCEPT !.status = "Rescued"]
    OBVIOUS
  <2>2. l.votes = lock.votes /\ l.status = "Rescued"
    BY <2>1 DEF KeepLock
  <2>3. Keep!perform_rescue(r, id, lock).locks = [r.locks EXCEPT ![id] = l]
    BY <1>1, <2>1 DEF Keep!perform_rescue, Keep!Paid, RescueStorage
  <2> QED
    BY <2>2, <2>3 DEF WithLock
<1>2. CASE ~Keep!is_ready_for_rescue(r, lock)
  <2>1. Keep!perform_rescue(r, id, lock).locks = [r.locks EXCEPT ![id] = lock]
    BY <1>2 DEF Keep!perform_rescue, RescueStorage
  <2> QED
    BY <2>1 DEF WithLock
<1> QED
  BY <1>1, <1>2

LEMMA VotesMove ==
  ASSUME KeepInv, NEW a \in Keep!People, NEW id \in DOMAIN k_rescue.locks,
         Keep!submit_failure_proof(a, id) \/ Keep!approve_rescue(a, id)
  PROVE  RescueMoves(k_rescue, k_rescue', k_now)
<1>1. PICK lock : lock = k_rescue.locks[id]
  OBVIOUS
<1>2. /\ k_now \in Nat /\ RescueSound(k_rescue, k_now) /\ lock \in KeepLock
      /\ k_rescue \in RescueStorage /\ k_rescue.admins \subseteq Keep!People
      /\ k_rescue.validators \subseteq Keep!People
  BY <1>1, LockRead
<1>3. \E m \in KeepLock : /\ k_rescue' = Keep!perform_rescue(k_rescue, id, m)
                          /\ lock.status = "Locked" /\ m.status = "Locked"
                          /\ k_now >= lock.at + KeepTimeout => m.votes = lock.votes
  <2>1. CASE Keep!submit_failure_proof(a, id)
    <3>1. PICK d : d = (lock.confirmed
             \/ Keep!Cardinality(lock.votes \union {a}) >= k_rescue.validator_threshold)
      OBVIOUS
    <3>2. d \in BOOLEAN
      BY <3>1
    <3>3. PICK m : m = [lock EXCEPT !.votes = lock.votes \union {a}, !.confirmed = d]
      OBVIOUS
    <3>4. /\ a \in k_rescue.validators /\ lock.status = "Locked"
          /\ ~ (k_now >= lock.at + KeepTimeout)
          /\ k_rescue' = Keep!perform_rescue(k_rescue, id, m)
      BY <1>1, <2>1, <3>1, <3>3
      DEF Keep!submit_failure_proof, Keep!is_expired, Keep!lock_expiration_instant
    <3>5. m \in KeepLock /\ m.status = lock.status
      BY <1>2, <3>2, <3>3 DEF KeepLock
    <3> QED
      BY <3>4, <3>5
  <2>2. CASE Keep!approve_rescue(a, id)
    <3>1. PICK m : m = [lock EXCEPT !.approvals = lock.approvals \union {a}]
      OBVIOUS
    <3>2. lock.status = "Locked" /\ k_rescue' = Keep!perform_rescue(k_rescue, id, m)
      BY <1>1, <2>2, <3>1 DEF Keep!approve_rescue
    <3>3. m \in KeepLock /\ m.status = lock.status /\ m.votes = lock.votes
      BY <1>2, <3>1 DEF KeepLock
    <3> QED
      BY <3>2, <3>3
  <2> QED
    BY <2>1, <2>2
<1>4. PICK m \in KeepLock : /\ k_rescue' = Keep!perform_rescue(k_rescue, id, m)
                            /\ lock.status = "Locked" /\ m.status = "Locked"
                            /\ k_now >= lock.at + KeepTimeout => m.votes = lock.votes
  BY <1>3
<1>5. PICK l : /\ Keep!perform_rescue(k_rescue, id, m).locks = WithLock(k_rescue.locks, id, l)
               /\ l.votes = m.votes
               /\ l.status = m.status \/ l.status = "Rescued"
  BY <1>2, LocksPerformed
<1>6. PICK p : p = k_rescue'
  OBVIOUS
<1>7. /\ p.locks = WithLock(k_rescue.locks, id, l) /\ k_rescue.locks[id].status = "Locked"
      /\ k_now >= k_rescue.locks[id].at + KeepTimeout => l.votes = k_rescue.locks[id].votes
      /\ l.status # "CancelledExpired"
  BY <1>1, <1>4, <1>5, <1>6
<1>8. RescueMoves(k_rescue, p, k_now)
  BY <1>2, <1>7, LockMoves
<1> QED
  BY <1>6, <1>8

LEMMA RefundMoves ==
  ASSUME KeepInv, NEW id \in DOMAIN k_rescue.locks, Keep!refund_expired(id)
  PROVE  RescueMoves(k_rescue, k_rescue', k_now)
<1>1. PICK lock : lock = k_rescue.locks[id]
  OBVIOUS
<1>2. /\ k_now \in Nat /\ RescueSound(k_rescue, k_now) /\ lock \in KeepLock
      /\ k_rescue \in RescueStorage
  BY <1>1, LockRead
<1>3. /\ lock.status = "Locked" /\ k_now >= lock.at + KeepTimeout
      /\ k_rescue' = Keep!Paid(k_rescue, id, lock, "CancelledExpired")
  BY <1>1 DEF Keep!refund_expired, Keep!Refundable, Keep!is_expired, Keep!lock_expiration_instant
<1>4. PICK l : l = [lock EXCEPT !.status = "CancelledExpired"]
  OBVIOUS
<1>5. l.votes = lock.votes /\ lock.at \in Nat
  BY <1>2, <1>4 DEF KeepLock
<1>6. PICK p : p = k_rescue'
  OBVIOUS
<1>7. p.locks = WithLock(k_rescue.locks, id, l)
  BY <1>2, <1>3, <1>4, <1>6 DEF Keep!Paid, WithLock, RescueStorage
<1>8. k_rescue.locks[id].at + KeepTimeout <= k_now
  BY <1>1, <1>2, <1>3, <1>5, KeepFacts
<1>9. k_rescue.locks[id].status = "Locked" /\ l.votes = k_rescue.locks[id].votes
  BY <1>1, <1>3, <1>5
<1>10. RescueMoves(k_rescue, p, k_now)
  BY <1>2, <1>7, <1>8, <1>9, LockMoves
<1> QED
  BY <1>6, <1>10

\* Initializing and locking leave every lock as it is.
LEMMA OthersMove ==
  ASSUME KeepInv, \A i \in DOMAIN k_rescue.locks : k_rescue'.locks[i] = k_rescue.locks[i]
  PROVE  RescueMoves(k_rescue, k_rescue', k_now)
<1>1. \A i \in DOMAIN k_rescue.locks :
        k_rescue.locks[i].status = "CancelledExpired" => k_rescue.locks[i].at + KeepTimeout <= k_now
  BY DEF KeepInv, RescueSound, LockGood
<1> QED
  BY <1>1 DEF RescueMoves

-----------------------------------------------------------------------------
\* Every step of the safes

KeepMoves ==
  /\ KeepInv'
  /\ k_rescue' # k_rescue => RescueMoves(k_rescue, k_rescue', k_now)
  /\ k_queue' # k_queue => QueueMoves(k_queue, k_queue', k_now)

LEMMA KeepRescueSide ==
  ASSUME KeepInv, RescueSound(k_rescue', k_now), RescueMoves(k_rescue, k_rescue', k_now),
         k_now' = k_now, k_queue' = k_queue
  PROVE  KeepMoves
BY DEF KeepInv, KeepMoves

LEMMA KeepQueueSide ==
  ASSUME KeepInv, QueueSound(k_queue') /\ QueueMoves(k_queue, k_queue', k_now),
         k_now' = k_now, k_rescue' = k_rescue
  PROVE  KeepMoves
BY DEF KeepInv, KeepMoves

LEMMA KeepTickSide ==
  ASSUME KeepInv, Keep!Tick \/ k_now' = k_now, k_rescue' = k_rescue, k_queue' = k_queue
  PROVE  KeepMoves
<1>1. CASE Keep!Tick
  <2>1. /\ k_now \in Nat /\ k_now' \in Nat /\ k_now <= k_now' /\ k_now' \in 0..KeepMaxTime
        /\ RescueSound(k_rescue, k_now)
    BY <1>1, KeepFacts DEF KeepInv, Keep!Tick
  <2>2. RescueSound(k_rescue, k_now')
    BY <2>1, RescueTicks
  <2> QED
    BY <2>1, <2>2 DEF KeepInv, KeepMoves
<1>2. CASE k_now' = k_now
  BY <1>2 DEF KeepInv, KeepMoves
<1> QED
  BY <1>1, <1>2

LEMMA KeepRescueStep == ASSUME KeepInv, Keep!RescueNext PROVE KeepMoves
<1>1. ASSUME NEW a \in Committees, NEW v \in Committees, NEW t \in KeepThresholds,
             NEW u \in KeepThresholds, Keep!initialize(a, t, v, u)
      PROVE  KeepMoves
  <2>1. /\ ~k_rescue.initialized /\ k_now' = k_now /\ k_queue' = k_queue
    BY <1>1 DEF Keep!initialize
  <2>2. k_rescue.locks = <<>>
    BY <2>1 DEF KeepInv, RescueSound, Appointed
  <2>3. RescueMoves(k_rescue, k_rescue', k_now)
    BY <2>2, OthersMove
  <2>4. RescueSound(k_rescue', k_now)
    BY <1>1, RescueInitialized
  <2> QED
    BY <2>1, <2>3, <2>4, KeepRescueSide
<1>2. ASSUME NEW s \in KeepSenders, NEW x \in KeepAmounts, Keep!lock_tokens(s, x)
      PROVE  KeepMoves
  <2>1. PICK l : k_rescue'.locks = Append(k_rescue.locks, l)
    <3>1. k_rescue \in RescueStorage
      BY DEF KeepInv, RescueSound
    <3> QED
      BY <1>2, <3>1 DEF Keep!lock_tokens, RescueStorage
  <2>2. k_rescue.locks \in Seq(KeepLock) /\ k_now' = k_now /\ k_queue' = k_queue
    BY <1>2 DEF Keep!lock_tokens, KeepInv, RescueSound, RescueStorage
  <2>3. \A i \in DOMAIN k_rescue.locks : k_rescue'.locks[i] = k_rescue.locks[i]
    BY <2>1, <2>2
  <2>4. RescueMoves(k_rescue, k_rescue', k_now)
    BY <2>3, OthersMove
  <2>5. RescueSound(k_rescue', k_now)
    BY <1>2, RescueLocks
  <2> QED
    BY <2>2, <2>4, <2>5, KeepRescueSide
<1>3. ASSUME NEW i \in DOMAIN k_rescue.locks, Keep!refund_expired(i)
      PROVE  KeepMoves
  <2>1. k_now' = k_now /\ k_queue' = k_queue
    BY <1>3 DEF Keep!refund_expired
  <2> QED
    BY <1>3, <2>1, RescueRefunds, RefundMoves, KeepRescueSide
<1>4. ASSUME NEW i \in DOMAIN k_rescue.locks, NEW a \in Keep!People,
             Keep!submit_failure_proof(a, i)
      PROVE  KeepMoves
  <2>1. k_now' = k_now /\ k_queue' = k_queue
    BY <1>4 DEF Keep!submit_failure_proof
  <2> QED
    BY <1>4, <2>1, RescueVotes, VotesMove, KeepRescueSide
<1>5. ASSUME NEW i \in DOMAIN k_rescue.locks, NEW a \in Keep!People, Keep!approve_rescue(a, i)
      PROVE  KeepMoves
  <2>1. k_now' = k_now /\ k_queue' = k_queue
    BY <1>5 DEF Keep!approve_rescue
  <2> QED
    BY <1>5, <2>1, RescueApproves, VotesMove, KeepRescueSide
<1>6. CASE Keep!Tick
  BY <1>6, KeepTickSide DEF Keep!Tick
<1> QED
  BY <1>1, <1>2, <1>3, <1>4, <1>5, <1>6 DEF Keep!RescueNext

LEMMA KeepTimelockStep == ASSUME KeepInv, Keep!TimelockNext PROVE KeepMoves
<1>1. ASSUME NEW s \in KeepSenders, Keep!cancel_withdrawal(s)  PROVE KeepMoves
  <2>1. k_now' = k_now /\ k_rescue' = k_rescue
    BY <1>1 DEF Keep!cancel_withdrawal
  <2> QED
    BY <1>1, <2>1, QueueCancels, KeepQueueSide
<1>2. ASSUME NEW s \in KeepSenders, Keep!execute_withdrawal(s)  PROVE KeepMoves
  <2>1. k_now' = k_now /\ k_rescue' = k_rescue
    BY <1>2 DEF Keep!execute_withdrawal
  <2> QED
    BY <1>2, <2>1, QueueExecutes, KeepQueueSide
<1>3. ASSUME NEW s \in KeepSenders, NEW x \in KeepAmounts, Keep!queue_withdrawal(s, x)
      PROVE  KeepMoves
  <2>1. k_now' = k_now /\ k_rescue' = k_rescue
    BY <1>3 DEF Keep!queue_withdrawal
  <2> QED
    BY <1>3, <2>1, QueueAdds, KeepQueueSide
<1>4. ASSUME NEW g \in KeepSenders, Keep!initialize_governance(g)  PROVE KeepMoves
  <2>1. /\ k_now' = k_now /\ k_rescue' = k_rescue
        /\ k_queue.governance = None /\ k_queue' = [k_queue EXCEPT !.governance = g]
    BY <1>4 DEF Keep!initialize_governance
  <2>2. QueueSound(k_queue) /\ k_queue \in QueueStorage
    BY DEF KeepInv, QueueSound
  <2>3. PICK p : p = k_queue'
    OBVIOUS
  <2>4. p \in QueueStorage /\ p.withdrawal = k_queue.withdrawal /\ p.keys = k_queue.keys
    BY <2>1, <2>2, <2>3 DEF QueueStorage
  <2>5. QueueSound(p) /\ QueueMoves(k_queue, p, k_now)
    BY <2>2, <2>4 DEF QueueSound, QueueMoves
  <2> QED
    BY <2>1, <2>3, <2>5, KeepQueueSide
<1>5. ASSUME NEW k \in KeySets, Keep!initialize_validator_set(k)  PROVE KeepMoves
  <2>1. /\ k_now' = k_now /\ k_rescue' = k_rescue
        /\ k_queue.keys = None /\ k_queue' = [k_queue EXCEPT !.keys = [sequence |-> 0, set |-> k]]
    BY <1>5 DEF Keep!initialize_validator_set
  <2>2. QueueSound(k_queue) /\ k_queue \in QueueStorage
    BY DEF KeepInv, QueueSound
  <2>3. PICK p : p = k_queue'
    OBVIOUS
  <2>4. p \in QueueStorage /\ p.withdrawal = k_queue.withdrawal
    BY <2>1, <2>2, <2>3 DEF QueueStorage
  <2>5. QueueSound(p) /\ QueueMoves(k_queue, p, k_now)
    BY <2>1, <2>2, <2>4 DEF QueueSound, QueueMoves
  <2> QED
    BY <2>1, <2>3, <2>5, KeepQueueSide
<1>6. ASSUME NEW g \in KeepSenders, NEW k \in KeySets, Keep!rotate_validators(g, k)
      PROVE  KeepMoves
  <2>1. k_now' = k_now /\ k_rescue' = k_rescue
    BY <1>6 DEF Keep!rotate_validators
  <2> QED
    BY <1>6, <2>1, QueueRotates, KeepQueueSide
<1>7. CASE Keep!Tick
  BY <1>7, KeepTickSide DEF Keep!Tick
<1> QED
  BY <1>1, <1>2, <1>3, <1>4, <1>5, <1>6, <1>7 DEF Keep!TimelockNext

LEMMA KeepStep == ASSUME KeepInv, KeepNext \/ UNCHANGED keepVars PROVE KeepMoves
<1>1. CASE Keep!BookNext \/ Keep!EmissionNext \/ UNCHANGED keepVars
  <2>1. (Keep!Tick \/ k_now' = k_now) /\ k_rescue' = k_rescue /\ k_queue' = k_queue
    BY <1>1 DEF Keep!BookNext, Keep!heartbeat, Keep!cancel_stale_orders, Keep!place_order,
        Keep!cancel_order, Keep!EmissionNext, Keep!initialize_emission, Keep!update_emissions,
        Keep!Tick, keepVars
  <2> QED
    BY <2>1, KeepTickSide, SMTT(30)
<1> QED
  BY <1>1, KeepRescueStep, KeepTimelockStep DEF KeepNext

LEMMA KeepAlways == MCSpec => []KeepInv
<1>1. MCInit => KeepInv
  <2> SUFFICES ASSUME Keep!Init PROVE KeepInv
    BY DEF MCInit
  <2>1. PICK r : r = k_rescue
    OBVIOUS
  <2>2. r = [initialized |-> FALSE, admins |-> {}, threshold |-> 0, validators |-> {},
             validator_threshold |-> 0, locks |-> <<>>,
             bal |-> [a \in KeepSenders \union {"self"} |-> IF a = "self" THEN 0 ELSE KeepSupply]]
    BY <2>1 DEF Keep!Init, Keep!House
  <2>3. r \in RescueStorage /\ r.locks = <<>> /\ r.bal["self"] = 0
    BY <2>2, KeepFacts DEF RescueStorage
  <2>4. Appointed(r)
    BY <2>2, FS_EmptySet DEF Appointed
  <2>5. SumOf(HeldFor(<<>>), 1..MaxLocks) = 0
    <3>1. \A i \in 1..MaxLocks : HeldFor(<<>>)[i] = 0
      BY DEF HeldFor
    <3> QED
      BY <3>1, KeepFacts, SumZero
  <2>6. RescueSound(r, 0)
    BY <2>3, <2>4, <2>5, KeepFacts DEF RescueSound
  <2>7. QueueSound(k_queue)
    BY DEF Keep!Init, QueueSound, QueueStorage
  <2>8. k_now = 0 /\ 0 \in 0..KeepMaxTime
    BY KeepFacts DEF Keep!Init
  <2> QED
    BY <2>1, <2>6, <2>7, <2>8 DEF KeepInv
<1>2. KeepInv /\ [MCNext]_allVars => KeepInv'
  BY KeepStep DEF KeepMoves, KeepNext, MCNext, allVars, keepVars
<1> QED
  BY <1>1, <1>2, PTL DEF MCSpec

\* What the invariant says of the locks, in the words of Safekeeping.
LEMMA RescueAnswers == KeepInv => Keep!RescueIsExact /\ Keep!NoLockIsStranded
<1> SUFFICES ASSUME KeepInv PROVE Keep!RescueIsExact /\ Keep!NoLockIsStranded
  OBVIOUS
<1>1. PICK P : P = k_rescue.locks
  OBVIOUS
<1>2. /\ P \in Seq(KeepLock) /\ Len(P) <= MaxLocks
      /\ k_rescue.bal["self"] = SumOf(HeldFor(P), 1..MaxLocks)
  BY <1>1 DEF KeepInv, RescueSound, RescueStorage
<1>3. PICK open : open = {i \in DOMAIN P : P[i].status = "Locked"}
  OBVIOUS
<1>4. PICK f : f = HeldFor(P)
  OBVIOUS
<1>5. PICK g : g = [i \in open |-> P[i].amount]
  OBVIOUS
<1>6. k_rescue.bal["self"] = SumOf(g, open)
  <2>1. f \in [1..MaxLocks -> Nat] /\ open \subseteq 1..MaxLocks
    BY <1>2, <1>3, <1>4, HeldType
  <2>2. \A i \in 1..MaxLocks \ open : f[i] = 0
    BY <1>2, <1>3, <1>4, HeldType
  <2>3. \A i \in open : f[i] = g[i]
    BY <1>2, <1>3, <1>4, <1>5, HeldType
  <2>4. IsFiniteSet(1..MaxLocks) /\ IsFiniteSet(open)
    BY <2>1, KeepFacts, FS_Subset
  <2>5. \A i \in 1..MaxLocks : f[i] \in Int
    BY <2>1
  <2>6. SumOf(f, 1..MaxLocks) = SumOf(f, open)
    BY <2>1, <2>2, <2>4, <2>5, SumZeroOutside
  <2>7. SumOf(f, open) = SumOf(g, open)
    BY <2>3, <2>4, SumAgree
  <2> QED
    BY <1>2, <1>4, <2>6, <2>7
<1>7. ASSUME NEW i \in DOMAIN P
      PROVE  /\ P[i].status = "Rescued" =>
                  /\ Keep!Cardinality(P[i].votes) >= k_rescue.validator_threshold
                  /\ Keep!Cardinality(P[i].approvals) >= k_rescue.threshold
             /\ P[i].status = "CancelledExpired" =>
                  ~ (Keep!Cardinality(P[i].votes) >= k_rescue.validator_threshold)
             /\ ~Keep!execute_rescue(i)
             /\ P[i].status = "Locked" /\ P[i].confirmed => k_rescue.admins \ P[i].approvals # {}
  <2>1. LockGood(k_rescue, P[i], k_now) /\ IsFiniteSet(k_rescue.admins) /\ k_rescue.initialized
    BY <1>1, LockRead
  <2>2. ~Keep!execute_rescue(i)
    BY <1>1, <2>1, KeepCount DEF Keep!execute_rescue, Keep!is_ready_for_rescue, LockGood
  <2>3. ASSUME P[i].status = "Locked", P[i].confirmed, k_rescue.admins \ P[i].approvals = {}
        PROVE  FALSE
    <3>1. k_rescue.admins = P[i].approvals
      BY <2>1, <2>3 DEF LockGood
    <3>2. ~ (Cardinality(k_rescue.admins) >= k_rescue.threshold)
      BY <2>1, <2>3, <3>1 DEF LockGood
    <3>3. k_rescue.threshold \in 1..Cardinality(k_rescue.admins)
      BY <2>1 DEF KeepInv, RescueSound, Appointed
    <3>4. Cardinality(k_rescue.admins) \in Nat
      BY <2>1, FS_CardinalityType
    <3> QED
      BY <3>2, <3>3, <3>4
  <2>4. /\ P[i].status = "Rescued" =>
             /\ Keep!Cardinality(P[i].votes) >= k_rescue.validator_threshold
             /\ Keep!Cardinality(P[i].approvals) >= k_rescue.threshold
        /\ P[i].status = "CancelledExpired" =>
             ~ (Keep!Cardinality(P[i].votes) >= k_rescue.validator_threshold)
    BY <2>1, KeepCount DEF LockGood
  <2> QED
    BY <2>2, <2>3, <2>4
<1>8. Keep!RescueIsExact
  <2>1. k_rescue.bal["self"] =
          Keep!SumOf([i \in {j \in DOMAIN k_rescue.locks : k_rescue.locks[j].status = "Locked"}
                        |-> k_rescue.locks[i].amount],
                     {j \in DOMAIN k_rescue.locks : k_rescue.locks[j].status = "Locked"})
    BY <1>1, <1>3, <1>5, <1>6, KeepSum
  <2> QED
    BY <1>1, <1>7, <2>1 DEF Keep!RescueIsExact, Keep!House
<1>9. Keep!NoLockIsStranded
  BY <1>1, <1>7 DEF Keep!NoLockIsStranded, Keep!Refundable
<1> QED
  BY <1>8, <1>9

\* For any committees, thresholds, windows, senders and amounts: the rescue holds
\* what is locked, a rescued lock has both committees behind it and a refunded
\* one the end of its window and too few votes, no lock is ever stranded, and a
\* lock leaves once (contracts/bridge-rescue); a large withdrawal waits its full
\* delay, a cancelled one stays, and key sets are counted (bridge/timelock.rs).
THEOREM LocksAndWithdrawalsWait ==
  MCSpec => /\ [](Keep!RescueIsExact /\ Keep!NoLockIsStranded)
            /\ Keep!WindowDecides /\ Keep!LargeWithdrawalsWait
<1>1. KeepInv /\ [MCNext]_allVars =>
        [\A i \in DOMAIN k_rescue.locks :
           LET lock == k_rescue.locks[i]
               next == k_rescue'.locks[i]
           IN /\ lock.status # "Locked" => next = lock
              /\ Keep!is_expired(lock) => next.votes = lock.votes
              /\ next.status = "CancelledExpired" => Keep!lock_expiration_instant(lock) <= k_now]_k_rescue
  <2> SUFFICES ASSUME KeepInv, [MCNext]_allVars, k_rescue' # k_rescue
               PROVE  \A i \in DOMAIN k_rescue.locks :
                        /\ k_rescue.locks[i].status # "Locked" =>
                             k_rescue'.locks[i] = k_rescue.locks[i]
                        /\ Keep!is_expired(k_rescue.locks[i]) =>
                             k_rescue'.locks[i].votes = k_rescue.locks[i].votes
                        /\ k_rescue'.locks[i].status = "CancelledExpired" =>
                             Keep!lock_expiration_instant(k_rescue.locks[i]) <= k_now
    OBVIOUS
  <2>1. KeepNext \/ UNCHANGED keepVars
    BY DEF KeepNext, MCNext, allVars, keepVars
  <2>2. RescueMoves(k_rescue, k_rescue', k_now)
    BY <2>1, KeepStep DEF KeepMoves
  <2> QED
    BY <2>2 DEF RescueMoves, Keep!is_expired, Keep!lock_expiration_instant
<1>2. KeepInv /\ [MCNext]_allVars =>
        [/\ \A r \in KeepSenders :
              LET w == k_queue.withdrawal[r]
              IN w # None /\ k_queue'.withdrawal[r] = None =>
                   ~w.cancelled /\ (w.amount > KeepLarge => k_now - w.at >= KeepDelay)
         /\ k_queue.keys # None /\ k_queue'.keys # k_queue.keys =>
              k_queue'.keys.sequence = k_queue.keys.sequence + 1 /\ k_queue.governance # None]_k_queue
  <2> SUFFICES ASSUME KeepInv, [MCNext]_allVars, k_queue' # k_queue
               PROVE  QueueMoves(k_queue, k_queue', k_now)
    BY DEF QueueMoves
  <2>1. KeepNext \/ UNCHANGED keepVars
    BY DEF KeepNext, MCNext, allVars, keepVars
  <2> QED
    BY <2>1, KeepStep DEF KeepMoves
<1>3. MCSpec => Keep!WindowDecides
  BY <1>1, KeepAlways, PTL DEF MCSpec, Keep!WindowDecides
<1>4. MCSpec => Keep!LargeWithdrawalsWait
  BY <1>2, KeepAlways, PTL DEF MCSpec, Keep!LargeWithdrawalsWait
<1> QED
  BY <1>3, <1>4, RescueAnswers, KeepAlways, PTL
=============================================================================
