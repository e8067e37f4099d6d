----------------------------- MODULE OracleFeed -----------------------------
(***************************************************************************)
(* The price feed of the price oracle (contracts/price-oracle/src/lib.rs,  *)
(* twap.rs, validation.rs, median.rs, callbacks.rs, reentrancy.rs and the  *)
(* submission delegates of auth.rs): tracked assets, verified and          *)
(* community prices, the buffer of a ledger, the moving averages and the   *)
(* price-impact guard, the safety bypass and the resumption from a halt;   *)
(* and the limits of an asset: price floor, price bounds, maximum          *)
(* deviation and liquidity threshold, with the one-step backups their      *)
(* rollbacks restore.  Every call on a limit is made by an administrator   *)
(* of a live contract; who is one is the subject of OracleGovernance.      *)
(*                                                                         *)
(* One ledger is one tick of LedgerSeconds.  The provider whitelist has no *)
(* public entry point, so the providers are the delegates of the           *)
(* administrators, which are fixed here.  set_price holds the lock that    *)
(* notify_subscribers takes, so a call that would change a price traps and *)
(* leaves no trace: only the refresh of an unchanged price is an action.   *)
(***************************************************************************)
EXTENDS Integers, FiniteSetsExt, SequencesExt, Balances

-----------------------------------------------------------------------------
\* The limits

CONSTANTS
  None,        \* an absent storage entry
  Assets,      \* asset symbols
  Floors,      \* price floors admins may set
  Ranges,      \* [min, max] bounds admins may set
  Deviations,  \* deviation limits admins may set, in basis points
  Depths,      \* liquidity thresholds admins may set
  MIN_LIQUIDITY_THRESHOLD, MAX_LIQUIDITY_THRESHOLD

ASSUME OracleLimitsAssumption ==
  /\ Floors \subseteq Int /\ Deviations \subseteq Int /\ Depths \subseteq Nat
  /\ Ranges \subseteq [min : Int, max : Int]

MAX_PERCENT_CHANGE_BPS == 1000
MIN_SAFE_MAX_DEVIATION_BPS == 100

VARIABLES
  floor,         \* DataKey::PriceFloorEntry(asset)
  prev_floor,    \* DataKey::PrevPriceFloorEntry(asset)
  bounds,        \* DataKey::PriceBoundsEntry(asset)
  prev_bounds,   \* DataKey::PrevPriceBoundsEntry(asset)
  max_dev,       \* DataKey::MaxPriceDeviationBps
  prev_max_dev,  \* DataKey::PrevMaxDeviationBps
  depth          \* DataKey::LiquidityThreshold(asset)

limitVars == <<floor, prev_floor, bounds, prev_bounds, max_dev, prev_max_dev, depth>>

LimitsInit ==
  /\ floor = [a \in Assets |-> None]
  /\ prev_floor = [a \in Assets |-> None]
  /\ bounds = [a \in Assets |-> None]
  /\ prev_bounds = [a \in Assets |-> None]
  /\ depth = [a \in Assets |-> None]
  /\ max_dev = None
  /\ prev_max_dev = None

get_max_deviation_percentage ==
  IF max_dev = None THEN MAX_PERCENT_CHANGE_BPS
  ELSE Max({max_dev, MIN_SAFE_MAX_DEVIATION_BPS})

Backup(prev, current) == IF current = None THEN prev ELSE current

set_price_floor(a, f) ==
  /\ f > 0
  /\ bounds[a] # None => f <= bounds[a].max
  /\ prev_floor' = [prev_floor EXCEPT ![a] = Backup(@, floor[a])]
  /\ floor' = [floor EXCEPT ![a] = f]
  /\ UNCHANGED <<bounds, prev_bounds, max_dev, prev_max_dev, depth>>

rollback_price_floor(a) ==
  /\ prev_floor[a] # None
  /\ floor' = [floor EXCEPT ![a] = prev_floor[a]]
  /\ prev_floor' = [prev_floor EXCEPT ![a] = None]
  /\ UNCHANGED <<bounds, prev_bounds, max_dev, prev_max_dev, depth>>

\* Mutant: new bounds are not compared with the floor.
set_price_bounds_Any(a, r) ==
  /\ r.min > 0 /\ r.max > 0 /\ r.min <= r.max
  /\ prev_bounds' = [prev_bounds EXCEPT ![a] = Backup(@, bounds[a])]
  /\ bounds' = [bounds EXCEPT ![a] = r]
  /\ UNCHANGED <<floor, prev_floor, max_dev, prev_max_dev, depth>>

set_price_bounds(a, r) ==
  /\ r.min > 0 /\ r.max > 0 /\ r.min <= r.max
  /\ floor[a] # None => floor[a] <= r.max
  /\ prev_bounds' = [prev_bounds EXCEPT ![a] = Backup(@, bounds[a])]
  /\ bounds' = [bounds EXCEPT ![a] = r]
  /\ UNCHANGED <<floor, prev_floor, max_dev, prev_max_dev, depth>>

rollback_price_bounds(a) ==
  /\ prev_bounds[a] # None
  /\ bounds' = [bounds EXCEPT ![a] = prev_bounds[a]]
  /\ prev_bounds' = [prev_bounds EXCEPT ![a] = None]
  /\ UNCHANGED <<floor, prev_floor, max_dev, prev_max_dev, depth>>

set_max_deviation_percentage(d) ==
  /\ d \in MIN_SAFE_MAX_DEVIATION_BPS..10000
  /\ prev_max_dev' = Backup(prev_max_dev, max_dev)
  /\ max_dev' = d
  /\ UNCHANGED <<floor, prev_floor, bounds, prev_bounds, depth>>

rollback_max_deviation_pct ==
  /\ prev_max_dev # None
  /\ prev_max_dev >= MIN_SAFE_MAX_DEVIATION_BPS
  /\ max_dev' = prev_max_dev
  /\ prev_max_dev' = None
  /\ UNCHANGED <<floor, prev_floor, bounds, prev_bounds, depth>>

set_liquidity_threshold(a, t) ==
  /\ t >= MIN_LIQUIDITY_THRESHOLD /\ t <= MAX_LIQUIDITY_THRESHOLD
  /\ depth' = [depth EXCEPT ![a] = t]
  /\ UNCHANGED <<floor, prev_floor, bounds, prev_bounds, max_dev, prev_max_dev>>

remove_liquidity_threshold(a) ==
  /\ depth' = [depth EXCEPT ![a] = None]
  /\ UNCHANGED <<floor, prev_floor, bounds, prev_bounds, max_dev, prev_max_dev>>

\* An entry of the list given to register_assets_with_config.
Config == [range : Ranges, floor : Floors \union {None}]

\* External: what the checks of a registration, which see its arguments and no
\* storage, are taken to ask: what the setters ask of the values themselves.
validate_asset_registration_configs(configs, d) ==
  /\ d \in MIN_SAFE_MAX_DEVIATION_BPS..10000
  /\ \A a \in DOMAIN configs :
       LET c == configs[a]
       IN  /\ c.range.min > 0 /\ c.range.max > 0 /\ c.range.min <= c.range.max
           /\ c.floor # None => c.floor > 0 /\ c.floor <= c.range.max

\* What register_assets_with_config does to the limits: bounds are replaced
\* whatever floor is stored, and only the deviation is backed up.
ConfigureLimits(configs, d) ==
  /\ validate_asset_registration_configs(configs, d)
  /\ bounds' = [a \in Assets |-> IF a \in DOMAIN configs THEN configs[a].range ELSE bounds[a]]
  /\ floor' = [a \in Assets |-> IF a \in DOMAIN configs /\ configs[a].floor # None
                                THEN configs[a].floor ELSE floor[a]]
  /\ prev_max_dev' = Backup(prev_max_dev, max_dev)
  /\ max_dev' = d
  /\ UNCHANGED <<prev_floor, prev_bounds, depth>>

\* What remove_asset does to the limits: the backups stay.
DropLimits(a) ==
  /\ floor' = [floor EXCEPT ![a] = None]
  /\ bounds' = [bounds EXCEPT ![a] = None]
  /\ UNCHANGED <<prev_floor, prev_bounds, max_dev, prev_max_dev, depth>>

LimitsNext ==
  \/ \E a \in Assets, f \in Floors : set_price_floor(a, f)
  \/ \E a \in Assets : \/ rollback_price_floor(a)
                       \/ rollback_price_bounds(a)
                       \/ remove_liquidity_threshold(a)
  \/ \E a \in Assets, r \in Ranges : set_price_bounds(a, r)
  \/ \E d \in Deviations : set_max_deviation_percentage(d)
  \/ rollback_max_deviation_pct
  \/ \E a \in Assets, t \in Depths : set_liquidity_threshold(a, t)

-----------------------------------------------------------------------------

CONSTANTS
  Admins,         \* administrators, all authorised
  Delegates,      \* accounts that may be assigned as submission delegates
  Community,      \* accounts submitting community prices
  BaseAssets,     \* base_currency_pairs given to initialize
  Prices,         \* prices submitted
  Ttls,           \* lifetimes given to prices
  Liquidity,      \* pool liquidity reported with a price
  PRICE_WINDOW_LEDGERS,
  LedgerSeconds,  \* seconds between two ledgers
  MaxLedger       \* bound on the ledger sequence

\* A verified or community price as it is stored.
PriceEntry ==
  [price : Nat, ledger : Nat, ttl : Nat, provider : Delegates \union Community \union {None}]

Span == [lo : Int, hi : Int]

ASSUME OracleFeedAssumption ==
  /\ None \notin PriceEntry \union Span
  /\ BaseAssets \subseteq Assets /\ IsFiniteSet(Assets)
  /\ Prices \subseteq Int /\ Ttls \subseteq Nat /\ Liquidity \subseteq Int
  /\ LedgerSeconds \in Nat \ {0} /\ MaxLedger \in Nat \ {0}
  /\ PRICE_WINDOW_LEDGERS \in Nat \ {0}

MIN_LEDGER_GAP == 3
MIN_SOURCES == 3
BYPASS_SECONDS == 3600
DEVIATION_THRESHOLD_BPS == 1500
PRICE_IMPACT_THRESHOLD_BPS == 500

VARIABLES
  ledger,        \* env.ledger().sequence()
  list,          \* DataKey::BaseCurrencyPairs
  flagged,       \* assets with DataKey::TrackedAsset(asset)
  health_total,  \* DataKey::HealthTotalAssets
  verified,      \* DataKey::VerifiedPrice(asset)
  community,     \* DataKey::CommunityPrice(asset)
  buffer,        \* DataKey::PriceBufferByAsset(asset, ledger)
  last_seen,     \* DataKey::ProviderLastSeenLedger(provider), 0 when unset
  ema,           \* DataKey::Twap(asset)
  window,        \* DataKey::PriceWindow(asset), oldest first
  tripped,       \* DataKey::PriceImpactGuard(asset)
  bypass,        \* DataKey::BypassSafetyChecks
  delegate,      \* DataKey::SubmissionDelegate(admin)
  delegate_of,   \* DataKey::DelegateOf(delegate)
  halted,        \* the emergency halt
  submitted,     \* history: providers turned away for the quorum in this ledger
  span,          \* history: least and greatest price behind ema
  judged         \* history: the samples the newest one was compared with, and
                 \* the guard that was left when there were none

feedVars == <<ledger, list, flagged, health_total, verified, community, buffer, last_seen,
              ema, window, tripped, bypass, delegate, delegate_of, halted, submitted, span,
              judged>>
vars == <<limitVars, feedVars>>

assetVars == <<list, flagged, health_total>>
averageVars == <<ema, window, tripped, span, judged>>
delegateVars == <<delegate, delegate_of>>

now == ledger * LedgerSeconds

Init ==
  /\ LimitsInit
  /\ ledger = 1
  /\ list = BaseAssets
  /\ flagged = {}
  /\ health_total = None
  /\ verified = [a \in Assets |-> None]
  /\ community = [a \in Assets |-> None]
  /\ ema = [a \in Assets |-> None]
  /\ span = [a \in Assets |-> None]
  /\ buffer = [a \in Assets |-> <<>>]
  /\ last_seen = [d \in Delegates |-> 0]
  /\ window = [a \in Assets |-> <<>>]
  /\ tripped = [a \in Assets |-> FALSE]
  /\ judged = [a \in Assets |-> [past |-> <<>>, left |-> FALSE]]
  /\ bypass = None
  /\ delegate = [m \in Admins |-> None]
  /\ delegate_of = [d \in Delegates |-> None]
  /\ halted = FALSE
  /\ submitted = {}

\* A new ledger has buffers of its own.
Tick ==
  /\ ledger < MaxLedger
  /\ ledger' = ledger + 1
  /\ buffer' = [a \in Assets |-> <<>>]
  /\ submitted' = {}
  /\ UNCHANGED <<limitVars, assetVars, averageVars, delegateVars, verified, community,
                 last_seen, bypass, halted>>

\* The average and the window are temporary entries: without writes they
\* expire, the average first, whose lifetime is never extended.  How many
\* ledgers that takes is left open.
Expire(a) ==
  /\ ema[a] # None \/ window[a] # <<>>
  /\ ema' = [ema EXCEPT ![a] = None]
  /\ span' = [span EXCEPT ![a] = None]
  /\ \/ UNCHANGED <<window, judged>>
     \/ /\ window' = [window EXCEPT ![a] = <<>>]
        /\ judged' = [judged EXCEPT ![a] = [past |-> <<>>, left |-> tripped[a]]]
  /\ UNCHANGED <<limitVars, assetVars, delegateVars, ledger, verified, community, buffer,
                 last_seen, tripped, bypass, halted, submitted>>

-----------------------------------------------------------------------------
(* Tracked assets and delegates. *)

track_asset(a) ==
  IF a \in list THEN UNCHANGED assetVars
  ELSE /\ list' = list \union {a}
       /\ flagged' = flagged \union {a}
       /\ health_total' = Cardinality(list) + 1

Placeholder == [price |-> 0, ledger |-> ledger, ttl |-> 0, provider |-> None]

add_asset(a) ==
  /\ track_asset(a)
  /\ verified' = [verified EXCEPT ![a] = IF @ = None THEN Placeholder ELSE @]
  /\ UNCHANGED <<limitVars, averageVars, delegateVars, ledger, community, buffer,
                 last_seen, bypass, halted, submitted>>

\* One or more assets, each once, tracked and configured in one call; what the
\* call stores beside is not modelled (names and decimals).
register_assets_with_config(configs, d) ==
  LET new == DOMAIN configs \ list
  IN  /\ ConfigureLimits(configs, d)
      /\ list' = list \union new
      /\ flagged' = flagged \union new
      /\ health_total' = IF new = {} THEN health_total ELSE Cardinality(list \union new)
      /\ verified' = [a \in Assets |-> IF a \in DOMAIN configs /\ verified[a] = None
                                       THEN Placeholder ELSE verified[a]]
      /\ UNCHANGED <<averageVars, delegateVars, ledger, community, buffer, last_seen, bypass,
                     halted, submitted>>

\* Averages, window and guard of the asset survive its removal.
remove_asset(a) ==
  /\ verified[a] # None
  /\ verified' = [verified EXCEPT ![a] = None]
  /\ community' = [community EXCEPT ![a] = None]
  /\ flagged' = flagged \ {a}
  /\ list' = list \ {a}
  /\ health_total' = Cardinality(list \ {a})
  /\ DropLimits(a)
  /\ UNCHANGED <<averageVars, delegateVars, ledger, buffer, last_seen, bypass, halted,
                 submitted>>

assign_delegate(m, d) ==
  /\ m # d
  /\ delegate' = [delegate EXCEPT ![m] = d]
  /\ delegate_of' = [e \in DOMAIN delegate_of |->
                       IF e = d THEN m ELSE IF e = delegate[m] THEN None ELSE delegate_of[e]]
  /\ UNCHANGED <<limitVars, assetVars, averageVars, ledger, verified, community, buffer,
                 last_seen, bypass, halted, submitted>>

revoke_delegate(m) ==
  /\ delegate[m] # None
  /\ delegate_of' = [delegate_of EXCEPT ![delegate[m]] = None]
  /\ delegate' = [delegate EXCEPT ![m] = None]
  /\ UNCHANGED <<limitVars, assetVars, averageVars, ledger, verified, community, buffer,
                 last_seen, bypass, halted, submitted>>

is_provider(d) == delegate_of[d] # None

-----------------------------------------------------------------------------
(* The averages and the price-impact guard. *)

Abs(n) == IF n < 0 THEN -n ELSE n

calculate_percentage_difference_bps(old, new) == (Abs(new - old) * 10000) \div old

\* The new exponential average, or None when it moves too far in one ledger.
update_twap(a, price) ==
  IF ema[a] = None THEN price
  ELSE LET next == (price * 15 + ema[a].value * 85) \div 100
       IN  IF ledger = ema[a].ledger
              /\ Abs(next - ema[a].value) > (ema[a].value * 2) \div 100
           THEN None ELSE next

Average(samples) ==
  SumOf([i \in DOMAIN samples |-> samples[i].price], DOMAIN samples) \div Len(samples)

\* The samples at the positions in keep, in order.  (SelectSeq by hand: the
\* provers know nothing of it.)
Pick(samples, keep) ==
  LET upTo[i \in 0..Len(samples)] ==
        IF i = 0 THEN <<>>
        ELSE IF i \in keep THEN Append(upTo[i - 1], samples[i]) ELSE upTo[i - 1]
  IN  upTo[Len(samples)]

trailing_samples(a) ==
  Pick(window[a], {i \in DOMAIN window[a] : window[a][i].ledger < ledger})

write_sample(a, price) ==
  LET kept == Pick(window[a], {i \in DOMAIN window[a] : window[a][i].ledger # ledger})
      all == Append(kept, [ledger |-> ledger, price |-> price])
      start == IF Len(all) > PRICE_WINDOW_LEDGERS THEN Len(all) - PRICE_WINDOW_LEDGERS ELSE 0
  IN  SubSeq(all, start + 1, Len(all))

\* Mutant: the guard is tripped, and never cleared by itself.
evaluate_Latched(a, price) ==
  LET past == trailing_samples(a)
  IN  IF past = <<>> \/ Average(past) <= 0 THEN tripped[a]
      ELSE tripped[a] \/ calculate_percentage_difference_bps(Average(past), price)
                           > PRICE_IMPACT_THRESHOLD_BPS

evaluate(a, price) ==
  LET past == trailing_samples(a)
  IN  IF past = <<>> \/ Average(past) <= 0 THEN tripped[a]
      ELSE calculate_percentage_difference_bps(Average(past), price)
             > PRICE_IMPACT_THRESHOLD_BPS

Widen(s, price) == IF s = None THEN [lo |-> price, hi |-> price]
                   ELSE [lo |-> Min({s.lo, price}), hi |-> Max({s.hi, price})]

\* Every write of a verified price feeds the averages and the guard.
RecordPrice(a, price) ==
  /\ update_twap(a, price) # None
  /\ ema' = [ema EXCEPT ![a] = [value |-> update_twap(a, price), ledger |-> ledger]]
  /\ tripped' = [tripped EXCEPT ![a] = evaluate(a, price)]
  /\ window' = [window EXCEPT ![a] = write_sample(a, price)]
  /\ span' = [span EXCEPT ![a] = Widen(@, price)]
  /\ judged' = [judged EXCEPT ![a] = IF window[a] = <<>> THEN @
                                     ELSE [past |-> window[a], left |-> FALSE]]

-----------------------------------------------------------------------------
(* Writing prices. *)

require_ledger_sequence_advanced(stored) == stored # None => ledger > stored.ledger

BypassActive == bypass # None /\ now < bypass

enforce_ledger_gap(d) == last_seen[d] = 0 \/ ledger - last_seen[d] >= MIN_LEDGER_GAP

enforce_price_floor(a, price) == floor[a] # None => price >= floor[a]

within_threshold(a, price) ==
  ema[a] # None /\ ema[a].value > 0 =>
    calculate_percentage_difference_bps(ema[a].value, price) <= DEVIATION_THRESHOLD_BPS

validate_liquidity(a, liquidity) ==
  liquidity > 0 /\ (depth[a] # None => liquidity >= depth[a])

\* The checks the safety bypass switches off, the quorum apart.
SafetyChecks(a, price, liquidity) ==
  /\ verified[a] # None /\ verified[a].price > 0 =>
       calculate_percentage_difference_bps(verified[a].price, price)
         <= get_max_deviation_percentage
  /\ enforce_price_floor(a, price)
  /\ bounds[a] # None => price >= bounds[a].min /\ price <= bounds[a].max
  /\ validate_liquidity(a, liquidity)

Submission(d, price) == [provider |-> d, price |-> price]

\* Mutant: the quorum is one source.
validate_consensus_quorum_One(entries) == Len(entries) >= 1

\* A provider appears in a buffer once, so its length counts the sources.
validate_consensus_quorum(entries) == Len(entries) >= MIN_SOURCES

\* The k-th price in the order of the sorted buffer.
Ranked(entries, k) ==
  CHOOSE p \in {entries[i].price : i \in DOMAIN entries} :
    /\ Cardinality({i \in DOMAIN entries : entries[i].price < p}) < k
    /\ Cardinality({i \in DOMAIN entries : entries[i].price <= p}) >= k

\* calculate_median_from_buffer: the middle price, or the mean of the two.
calculate_median(entries) ==
  LET n == Len(entries)
  IN  IF n % 2 = 1 THEN Ranked(entries, n \div 2 + 1)
      ELSE (Ranked(entries, n \div 2) + Ranked(entries, n \div 2 + 1)) \div 2

\* What update_price asks of a submission before it looks at the quorum.
MaySubmit(d, a, price, liquidity) ==
  /\ a \in flagged
  /\ price > 0
  /\ is_provider(d)
  /\ enforce_ledger_gap(d)
  /\ \A i \in DOMAIN buffer[a] : buffer[a][i].provider # d
  /\ require_ledger_sequence_advanced(verified[a])
  /\ within_threshold(a, price)
  /\ ~BypassActive => SafetyChecks(a, price, liquidity)

update_price(d, a, price, ttl, liquidity) ==
  LET entries == Append(buffer[a], Submission(d, price))
      median == calculate_median(entries)
  IN  /\ MaySubmit(d, a, price, liquidity)
      /\ ~BypassActive => validate_consensus_quorum(entries)
      /\ median > 0
      /\ buffer' = [buffer EXCEPT ![a] = entries]
      /\ verified' = [verified EXCEPT ![a] =
                        [price |-> median, ledger |-> ledger, ttl |-> ttl, provider |-> d]]
      /\ last_seen' = [last_seen EXCEPT ![d] = ledger]
      /\ RecordPrice(a, median)
      /\ UNCHANGED <<limitVars, assetVars, delegateVars, ledger, community, bypass, halted,
                     submitted>>

\* The same call without a quorum: an error, so nothing is kept of it.
update_price_MinimumQuorumNotMet(d, a, price, liquidity) ==
  /\ MaySubmit(d, a, price, liquidity)
  /\ ~BypassActive
  /\ ~validate_consensus_quorum(Append(buffer[a], Submission(d, price)))
  /\ submitted' = submitted \union {<<d, a>>}
  /\ UNCHANGED <<limitVars, assetVars, averageVars, delegateVars, ledger, verified, community,
                 buffer, last_seen, bypass, halted>>

set_price(a, price) ==
  /\ price > 0
  /\ enforce_price_floor(a, price)
  /\ verified[a] # None
  /\ require_ledger_sequence_advanced(verified[a])
  /\ verified[a].price = price
  /\ track_asset(a)
  /\ verified' = [verified EXCEPT ![a].ledger = ledger]
  /\ RecordPrice(a, price)
  /\ UNCHANGED <<limitVars, delegateVars, ledger, community, buffer, last_seen, bypass,
                 halted, submitted>>

submit_community_price(c, a, price, ttl) ==
  /\ a \in list
  /\ price > 0
  /\ require_ledger_sequence_advanced(community[a])
  /\ community' = [community EXCEPT ![a] =
                     [price |-> price, ledger |-> ledger, ttl |-> ttl, provider |-> c]]
  /\ UNCHANGED <<limitVars, assetVars, averageVars, delegateVars, ledger, verified, buffer,
                 last_seen, bypass, halted, submitted>>

enable_bypass_safety_checks ==
  /\ bypass' = now + BYPASS_SECONDS
  /\ UNCHANGED <<limitVars, assetVars, averageVars, delegateVars, ledger, verified, community,
                 buffer, last_seen, halted, submitted>>

disable_bypass_safety_checks ==
  /\ bypass' = None
  /\ UNCHANGED <<limitVars, assetVars, averageVars, delegateVars, ledger, verified, community,
                 buffer, last_seen, halted, submitted>>

\* No provider is in the list of active relayers, so only prices are reset.
graceful_recovery ==
  /\ ema' = [a \in Assets |-> IF a \in list THEN None ELSE ema[a]]
  /\ window' = [a \in Assets |-> IF a \in list THEN <<>> ELSE window[a]]
  /\ tripped' = [a \in Assets |-> a \notin list /\ tripped[a]]
  /\ span' = [a \in Assets |-> IF a \in list THEN None ELSE span[a]]
  /\ judged' = [a \in Assets |-> IF a \in list THEN [past |-> <<>>, left |-> FALSE] ELSE judged[a]]

set_emergency_halt(status) ==
  /\ halted' = status
  /\ IF halted /\ ~status THEN graceful_recovery ELSE UNCHANGED averageVars
  /\ UNCHANGED <<limitVars, assetVars, delegateVars, ledger, verified, community, buffer,
                 last_seen, bypass, submitted>>

Next ==
  \/ Tick
  \/ LimitsNext /\ UNCHANGED feedVars
  \/ \E a \in Assets : Expire(a) \/ add_asset(a) \/ remove_asset(a)
  \/ \E S \in SUBSET Assets, d \in Deviations :
       \E configs \in [S -> Config] : register_assets_with_config(configs, d)
  \/ \E m \in Admins, d \in Delegates : assign_delegate(m, d)
  \/ \E m \in Admins : revoke_delegate(m)
  \/ \E d \in Delegates, a \in Assets, p \in Prices, l \in Liquidity :
       \/ \E t \in Ttls : update_price(d, a, p, t, l)
       \/ update_price_MinimumQuorumNotMet(d, a, p, l)
  \/ \E a \in Assets, p \in Prices : set_price(a, p)
  \/ \E c \in Community, a \in Assets, p \in Prices, t \in Ttls :
       submit_community_price(c, a, p, t)
  \/ enable_bypass_safety_checks
  \/ disable_bypass_safety_checks
  \/ \E s \in BOOLEAN : set_emergency_halt(s)

Spec == Init /\ [][Next]_vars

-----------------------------------------------------------------------------

LimitsOK ==
  /\ floor \in [Assets -> Floors \union {None}] /\ prev_floor \in [Assets -> Floors \union {None}]
  /\ bounds \in [Assets -> Ranges \union {None}] /\ prev_bounds \in [Assets -> Ranges \union {None}]
  /\ max_dev \in Deviations \union {None} /\ prev_max_dev \in Deviations \union {None}
  /\ depth \in [Assets -> Depths \union {None}]

Sample == [ledger : Nat, price : Nat]

Verdict == [past : Seq(Sample), left : BOOLEAN]

\* Storage entries are well formed and none is of a later ledger; existence flags
\* belong to listed assets that have a verified entry; the asset counter is that
\* of the list.
TypeOK ==
  /\ LimitsOK
  /\ ledger \in 1..MaxLedger
  /\ flagged \subseteq list /\ list \subseteq Assets
  /\ health_total \in {None, Cardinality(list)}
  /\ verified \in [Assets -> PriceEntry \union {None}]
  /\ community \in [Assets -> PriceEntry \union {None}]
  /\ \A a \in Assets : /\ verified[a] # None => verified[a].ledger \in 1..ledger
                       /\ community[a] # None => community[a].ledger \in 1..ledger
  /\ \A a \in flagged : verified[a] # None
  /\ \A a \in Assets : verified[a] # None => a \in list
  /\ buffer \in [Assets -> Seq([provider : Delegates, price : Nat])]
  /\ last_seen \in [Delegates -> 0..ledger]
  /\ ema \in [Assets -> [value : Int, ledger : Nat] \union {None}]
  /\ span \in [Assets -> Span \union {None}]
  /\ window \in [Assets -> Seq(Sample)]
  /\ tripped \in [Assets -> BOOLEAN]
  /\ judged \in [Assets -> Verdict]
  /\ bypass \in Nat \union {None}
  /\ delegate \in [Admins -> Delegates \union {None}]
  /\ delegate_of \in [Delegates -> Admins \union {None}]
  /\ halted \in BOOLEAN

\* A provider price is accepted only while the safety bypass is on: a call
\* without quorum keeps nothing, so no later call can find three sources.
ProviderUpdatesNeedBypass == [][ last_seen' # last_seen => BypassActive ]_vars

\* The median is always taken over a single submission: a second one in the
\* same ledger is refused because the first one already wrote the price.
\* (An asset removed and added again in that ledger has price 0.)
OneSourcePerLedger ==
  \A a \in Assets :
    /\ Len(buffer[a]) <= 1
    /\ buffer[a] # <<>> /\ verified[a] # None /\ verified[a].price # 0 =>
         verified[a].price = buffer[a][1].price

\* The moving average never leaves the range of the prices behind it,
\* rounding included.
AverageWithinSpan ==
  \A a \in Assets : ema[a] # None => ema[a].value \in span[a].lo..span[a].hi

\* The rolling window ends with the price being served: no way of writing a
\* price bypasses it.  (An asset removed and added again has no price yet.)
WindowEndsWithPrice ==
  \A a \in Assets :
    verified[a] # None /\ verified[a].price # 0 /\ window[a] # <<>> =>
      Last(window[a]) = [ledger |-> verified[a].ledger, price |-> verified[a].price]

\* The samples a window keeps beside its newest one are the latest of those the
\* newest was compared with.
Continues(w, past) ==
  /\ Len(w) = IF Len(past) < PRICE_WINDOW_LEDGERS THEN Len(past) + 1 ELSE PRICE_WINDOW_LEDGERS
  /\ \A i \in 1..(Len(w) - 1) : w[i] = past[Len(past) + 1 - Len(w) + i]

\* The guard always says whether the newest price is more than 5% off the average
\* of the window it met, full windows included.  It outlives its window: after an
\* expiry it stays as the last judged price left it, also over the first new
\* price, which meets no window; the second one is judged again.
GuardMatchesWindow ==
  \A a \in Assets :
    LET past == judged[a].past
    IN  /\ window[a] # <<>> => Continues(window[a], past)
        /\ tripped[a] = IF window[a] = <<>> \/ past = <<>> THEN judged[a].left
                        ELSE calculate_percentage_difference_bps(Average(past), Last(window[a]).price)
                               > PRICE_IMPACT_THRESHOLD_BPS

\* What the oracle serves beside the price itself never contradicts the prices
\* that were written: average, window and guard.
AveragesFollowPrices == AverageWithinSpan /\ WindowEndsWithPrice /\ GuardMatchesWindow

\* Whoever counts as provider was assigned by an administrator that has not
\* replaced it since: assignments and revocations in any order.
ProvidersAreAssigned ==
  \A d \in Delegates : delegate_of[d] # None => delegate[delegate_of[d]] = d

\* Who may write a price and what the price is taken over: an assigned
\* delegate, and one submission.
SourcesAreKnown == ProvidersAreAssigned /\ OneSourcePerLedger

\* Storage is well formed, averages, windows and guards follow the prices that
\* were written, and whoever writes one is an assigned delegate of its ledger.
FeedIsFaithful == TypeOK /\ AveragesFollowPrices /\ SourcesAreKnown

Consistent(a) == floor[a] # None /\ bounds[a] # None => floor[a] <= bounds[a].max

\* A registration that brings bounds and no floor for an asset with a stored floor.
BareRegistration(a) ==
  /\ floor[a] # None /\ floor'[a] = floor[a] /\ UNCHANGED prev_bounds
  /\ \E S \in SUBSET Assets, d \in Deviations : \E configs \in [S -> Config] :
       a \in S /\ configs[a].floor = None /\ ConfigureLimits(configs, d)

\* A floor above the upper bound, which no price can satisfy, never comes from the
\* setters, which compare the two in either order, nor from a removal: only from
\* a rollback, or from register_assets_with_config, which compares nothing with
\* storage and takes no backup of the bounds it replaces.
SettersNeverContradict ==
  [][ \A a \in Assets : Consistent(a) /\ ~Consistent(a)' =>
        rollback_price_floor(a) \/ rollback_price_bounds(a) \/ BareRegistration(a) ]_vars

\* validate_consensus_quorum's doc: an update fails if fewer than three
\* operators have submitted during the current window; here three have.
QuorumReachable ==
  \A a \in Assets :
    /\ verified[a] # None
    /\ Cardinality({d \in Delegates : <<d, a>> \in submitted}) >= MIN_SOURCES
    => verified[a].ledger = ledger
=============================================================================
