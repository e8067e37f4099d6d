---------------------------- MODULE NodeStaking ----------------------------
(***************************************************************************)
(* The oracle nodes of the core contract (src/lib.rs): a registry of each  *)
(* node's collateral, the stakes per feed it is made of and one global     *)
(* total; the tier of a feed and the stake it asks for (staking_tiers.rs); *)
(* the penalties for dropouts (slashing.rs); the checks on what nodes      *)
(* submit (validation.rs, consensus.rs) and the heartbeats of the feeds.   *)
(* Revoked nodes are only ever refused, so they are left out; no tokens    *)
(* move.  Seconds and ledgers are one clock.                               *)
(***************************************************************************)
EXTENDS Integers, FiniteSets, FiniteSetsExt, Sequences, SequencesExt

CONSTANTS
  Nodes,      \* oracle nodes
  Feeds,      \* currency feeds
  Amounts,    \* amounts offered
  Configs,    \* tier configurations an administrator may try to set
  DefaultConfig, \* the one in force until then
  Profiles,   \* volume score and volatility of a feed
  Volumes,    \* fees a corridor may collect at a time
  Window,     \* ROLLING_FAULT_WINDOW_LEDGERS
  MaxShift,   \* MAX_PENALTY_MULTIPLIER is 2^MaxShift
  MinGap,     \* MIN_BLOCK_GAP_THRESHOLD
  Intervals,  \* heartbeat intervals; the least of them is the default
  Premium,    \* PREMIUM_POOL_MIN_STAKE
  MaxAge,     \* MAX_TELEMETRY_AGE_SECS
  MaxBundle,  \* MAX_BUNDLE_ASSETS
  MaxTotal,   \* stands for u64::MAX where stakes are added up
  Width,      \* stands for u64::MAX in the products of the pure computations
  MaxFaults,  \* bound on the faults reported of one node
  MaxLedger   \* bound on the clock

NodeStakingAssumption ==
  /\ Amounts \subseteq Nat
  /\ MaxTotal \in Nat
  /\ DefaultConfig \in Configs
  /\ 0 \notin Intervals

VARIABLES
  registry,   \* STAKE_REGISTRY_KEY, 0 when the node has no entry
  feedStake,  \* StakingStorageKey::FeedStake(node, feed), 0 when absent
  total,      \* TOTAL_STAKED_KEY
  tiers,      \* TierConfig, AssetMetrics and the corridors' collected fees
  faults,     \* FaultHistory, SLASHED and, as history, every fault reported
  rounds      \* clock, heartbeats, sequences and block tracker

vars == <<registry, feedStake, total, tiers, faults, rounds>>

Absent == -1
now == rounds.now

SatSub(a, b) == IF a > b THEN a - b ELSE 0

-----------------------------------------------------------------------------
(* Tiers.                                                                  *)

derive_volume_score(collected) ==
  CASE collected < 1000000 -> 10
    [] collected \in 1000000..9999999 -> 30
    [] collected \in 10000000..99999999 -> 50
    [] collected \in 100000000..999999999 -> 75
    [] OTHER -> 95

effective_volume_score(score, collected) ==
  Min({Max({score, derive_volume_score(collected)}), 100})

assign_tier(volume, volatility) ==
  CASE volume < 33 /\ volatility < 300 -> "Regional"
    [] volume >= 67 /\ volatility >= 800 -> "Premier"
    [] OTHER -> "Standard"

validate_tier_config(c) ==
  /\ 0 \notin {c.Regional, c.Standard, c.Premier}
  /\ c.Regional <= c.Standard
  /\ c.Standard <= c.Premier

get_staking_tier(feed) ==
  assign_tier(effective_volume_score(tiers.metrics[feed].volume, tiers.collected[feed]),
              tiers.metrics[feed].volatility)

get_required_stake(feed) == tiers.config[get_staking_tier(feed)]

set_staking_tier_config(c) ==
  /\ validate_tier_config(c)
  /\ tiers' = [tiers EXCEPT !.config = c]
  /\ UNCHANGED <<registry, feedStake, total, faults, rounds>>

set_asset_feed_metrics(feed, p) ==
  /\ tiers' = [tiers EXCEPT !.metrics[feed] = [p EXCEPT !.volume = Min({@, 100})]]
  /\ UNCHANGED <<registry, feedStake, total, faults, rounds>>

\* Anyone may report what a corridor collected.
add_corridor_fees_by_symbol(feed, v) ==
  /\ tiers.collected[feed] + v <= Max(Volumes)
  /\ tiers' = [tiers EXCEPT !.collected[feed] = @ + v]
  /\ UNCHANGED <<registry, feedStake, total, faults, rounds>>

-----------------------------------------------------------------------------
(* Collateral.  Staking on a feed counts as a heartbeat of the feed, and   *)
(* plain staking as one of the asset STAKE, which no query in the          *)
(* contract reads.                                                         *)

Init ==
  /\ registry = [n \in Nodes |-> 0]
  /\ feedStake = [n \in Nodes |-> [f \in Feeds |-> 0]]
  /\ total = 0
  /\ tiers = [config |-> DefaultConfig,
              metrics |-> [f \in Feeds |-> [volume |-> 0, volatility |-> 0]],
              collected |-> [f \in Feeds |-> 0]]
  /\ faults = [history |-> [n \in Nodes |-> [f \in Feeds |-> <<>>]],
               reported |-> [n \in Nodes |-> [f \in Feeds |-> <<>>]],
               slashed |-> [n \in Nodes |-> 0]]
  /\ rounds = [now |-> 0, interval |-> Min(Intervals),
               beat |-> [f \in Feeds |-> Absent],
               sequence |-> [f \in Feeds |-> Absent],
               archive |-> [f \in Feeds |-> Absent],
               block |-> [n \in Nodes |-> Absent], accepted |-> [n \in Nodes |-> <<>>]]

record_heartbeat(feed) == rounds' = [rounds EXCEPT !.beat[feed] = now]

\* The test for an earlier registration reads StakeKey::StakeByNode, which only
\* the storage migration writes, so it does not refuse a node that registered
\* here; the node's entry is replaced while the total grows.
stake_and_register(node, amount) ==
  /\ amount # 0
  /\ total + amount <= MaxTotal
  /\ registry' = [registry EXCEPT ![node] = amount]
  /\ total' = total + amount
  /\ UNCHANGED <<feedStake, tiers, faults, rounds>>

\* Drops the whole entry, the part staked on feeds included.
unstake(node) ==
  /\ registry[node] # 0
  /\ registry' = [registry EXCEPT ![node] = 0]
  /\ total' = SatSub(total, registry[node])
  /\ UNCHANGED <<feedStake, tiers, faults, rounds>>

stake_for_feed(node, feed, amount) ==
  /\ amount # 0
  /\ feedStake[node][feed] = 0
  /\ amount >= get_required_stake(feed)
  /\ registry[node] + amount <= MaxTotal
  /\ total + amount <= MaxTotal
  /\ feedStake' = [feedStake EXCEPT ![node][feed] = amount]
  /\ registry' = [registry EXCEPT ![node] = @ + amount]
  /\ total' = total + amount
  /\ record_heartbeat(feed)
  /\ UNCHANGED <<tiers, faults>>

unstake_from_feed(node, feed) ==
  /\ feedStake[node][feed] # 0
  /\ feedStake' = [feedStake EXCEPT ![node][feed] = 0]
  /\ registry' = [registry EXCEPT ![node] = SatSub(@, feedStake[node][feed])]
  /\ total' = SatSub(total, feedStake[node][feed])
  /\ UNCHANGED <<tiers, faults, rounds>>

-----------------------------------------------------------------------------
(* Dropouts and what they cost.                                            *)

get_penalty_multiplier(count) == 2^Min({SatSub(count, 1), MaxShift})

calculate_bond_deduction(base, count) == base * get_penalty_multiplier(count)

\* Faults that are still in the window of the last ledgers.
prune_fault_history(history) == SelectSeq(history, LAMBDA l : l >= SatSub(now, Window) /\ l <= now)

get_fault_count_in_window(node, feed) == Len(prune_fault_history(faults.history[node][feed]))

\* The history after one more fault.
record_tracking_fault(node, feed) ==
  [faults EXCEPT !.history[node][feed] = Append(prune_fault_history(@), now),
                 !.reported[node][feed] = Append(@, now)]

\* The administrator's activity that the call records belongs to RootAdmin.
report_ingestion_dropout(node, feed) ==
  /\ faults' = record_tracking_fault(node, feed)
  /\ UNCHANGED <<registry, feedStake, total, tiers, rounds>>

\* What apply_escrow_penalty takes from the node's entry.
PenaltyDue(node, feed, base) ==
  Min({calculate_bond_deduction(base, Len(record_tracking_fault(node, feed).history[node][feed])),
       registry[node]})

\* The entry of a feed stake is read as a FeedStakeValue, while staking on a feed
\* stores the bare amount: the read traps when the node has a stake on that very
\* feed, so a penalty only ever reaches a node that has its collateral elsewhere.
apply_ingestion_penalty(node, feed, base) ==
  /\ base # 0
  /\ calculate_bond_deduction(base, get_fault_count_in_window(node, feed) + 1) <= MaxTotal
  /\ registry[node] # 0
  /\ feedStake[node][feed] = 0
  /\ faults' = record_tracking_fault(node, feed)
  /\ registry' = [registry EXCEPT ![node] = @ - PenaltyDue(node, feed, base)]
  /\ total' = SatSub(total, PenaltyDue(node, feed, base))
  /\ UNCHANGED <<feedStake, tiers, rounds>>

calculate_deviation_bps(price, median) ==
  IF median = 0 THEN 10000
  ELSE Min({((IF price > median THEN price - median ELSE median - price) * 10000) \div median,
            10000})

determine_slashing_tier(bps) ==
  CASE bps < 50 -> 0
    [] bps \in 50..199 -> 1
    [] bps \in 200..499 -> 5
    [] bps \in 500..999 -> 15
    [] bps \in 1000..2499 -> 30
    [] bps \in 2500..4999 -> 50
    [] OTHER -> 100

calculate_slashing_penalty(price, median, stake) ==
  LET product == stake * determine_slashing_tier(calculate_deviation_bps(price, median))
  IN  IF median = 0 \/ product > Width THEN Absent ELSE product \div 100

\* Notes a penalty for the audit trail; it takes nothing from the stake.
apply_slashing_penalty(node, burn) ==
  /\ faults.slashed[node] + burn <= MaxTotal
  /\ faults' = [faults EXCEPT !.slashed[node] = @ + burn]
  /\ UNCHANGED <<registry, feedStake, total, tiers, rounds>>

-----------------------------------------------------------------------------
(* Rounds: what a node may submit, and how fresh a feed looks.             *)

verify_payload_freshness(timestamp) == SatSub(now, timestamp) <= MaxAge

check_bond_capacity(node) == registry[node] >= Premium

\* A submission for one pool: freshness, both reserves, volume, collateral.
validate_telemetry_submission(node, timestamp, deep, active) ==
  verify_payload_freshness(timestamp) /\ deep /\ active /\ check_bond_capacity(node)

\* A bundle is taken as a whole or not at all; an empty one needs no collateral.
process_price_bundle(node, timestamps) ==
  /\ Len(timestamps) <= MaxBundle
  /\ \A i \in DOMAIN timestamps :
       check_bond_capacity(node) /\ verify_payload_freshness(timestamps[i])

verify_and_update_sequence(feed, seq) ==
  /\ seq > rounds.sequence[feed]
  /\ rounds' = [rounds EXCEPT !.sequence[feed] = seq,
                              !.archive[feed] = IF rounds.sequence[feed] # Absent
                                                THEN rounds.sequence[feed] ELSE @]
  /\ UNCHANGED <<registry, feedStake, total, tiers, faults>>

verify_and_update_block_gap(node) ==
  /\ rounds.block[node] # Absent => SatSub(now, rounds.block[node]) >= MinGap
  /\ rounds' = [rounds EXCEPT !.block[node] = now, !.accepted[node] = Append(@, now)]
  /\ UNCHANGED <<registry, feedStake, total, tiers, faults>>

update_heartbeat(feed) ==
  /\ record_heartbeat(feed)
  /\ UNCHANGED <<registry, feedStake, total, tiers, faults>>

\* A node with premium collateral beats for any feed, staked on it or not.
update_validator_profile(node, feed) ==
  /\ check_bond_capacity(node)
  /\ record_heartbeat(feed)
  /\ UNCHANGED <<registry, feedStake, total, tiers, faults>>

set_heartbeat_interval(i) ==
  /\ i # 0
  /\ rounds' = [rounds EXCEPT !.interval = i]
  /\ UNCHANGED <<registry, feedStake, total, tiers, faults>>

is_data_fresh(feed) ==
  rounds.beat[feed] # Absent /\ SatSub(now, rounds.beat[feed]) <= rounds.interval

Tick ==
  /\ now < MaxLedger
  /\ rounds' = [rounds EXCEPT !.now = @ + 1]
  /\ UNCHANGED <<registry, feedStake, total, tiers, faults>>

-----------------------------------------------------------------------------
(* Weighted consensus, over entries of a value and a weight.  Absent is a  *)
(* refusal.                                                                *)

\* Rows of one value are merged into the first of them.
compact_duplicate_price_rows(entries) ==
  LET Merge(rows, e) ==
        IF \E j \in DOMAIN rows : rows[j].value = e.value
        THEN LET j == CHOOSE j \in DOMAIN rows : rows[j].value = e.value
             IN  [rows EXCEPT ![j].weight = @ + e.weight]
        ELSE Append(rows, e)
  IN FoldLeft(Merge, <<>>, entries)

SumOver(rows, F(_)) == FoldLeft(LAMBDA s, e : s + F(e), 0, rows)

\* The sums are checked row by row; they only grow, so the last says it all.
compute_weighted_sum(entries) ==
  LET rows == compact_duplicate_price_rows(entries)
      sum == SumOver(rows, LAMBDA e : e.value * e.weight)
      weight == SumOver(rows, LAMBDA e : e.weight)
  IN  [ok |-> sum <= Width /\ weight <= Width, sum |-> sum, weight |-> weight]

compute_weighted_average(entries) ==
  LET s == compute_weighted_sum(entries)
  IN  IF ~s.ok THEN Absent ELSE IF s.weight = 0 THEN 0 ELSE s.sum \div s.weight

compute_quorum_threshold(weight, bps) ==
  IF weight * bps > Width THEN Absent ELSE (weight * bps) \div 10000

entry_weight_share_bps(weight, all) ==
  IF all = 0 THEN 0 ELSE IF weight * 10000 > Width THEN Absent ELSE (weight * 10000) \div all

\* The index of id in sorted ids (from 0), or where it would go.
binary_search_validator(ids, id) ==
  LET search[lo \in 0..Len(ids), hi \in 0..Len(ids)] ==
        IF lo >= hi THEN [found |-> FALSE, at |-> lo]
        ELSE LET mid == lo + (hi - lo) \div 2
             IN  IF ids[mid + 1] = id THEN [found |-> TRUE, at |-> mid]
                 ELSE IF ids[mid + 1] < id THEN search[mid + 1, hi]
                 ELSE search[lo, mid]
  IN search[0, Len(ids)]

-----------------------------------------------------------------------------

FeedNext ==
  \/ \E n \in Nodes, f \in Feeds, x \in Amounts : stake_for_feed(n, f, x)
  \/ \E n \in Nodes, f \in Feeds : unstake_from_feed(n, f)

Next ==
  \/ FeedNext
  \/ \E n \in Nodes, x \in Amounts : stake_and_register(n, x)
  \/ \E n \in Nodes : unstake(n)

\* Stakes under tiers that change.
TierNext ==
  \/ FeedNext
  \/ \E c \in Configs : set_staking_tier_config(c)
  \/ \E f \in Feeds, p \in Profiles : set_asset_feed_metrics(f, p)
  \/ \E f \in Feeds, v \in Volumes : add_corridor_fees_by_symbol(f, v)

\* Dropouts and penalties, up to MaxFaults of them.
FaultNext ==
  \/ FeedNext
  \/ Tick
  \/ \E n \in Nodes : unstake(n)
  \/ \E n \in Nodes, f \in Feeds :
       /\ MapThenSumSet(LAMBDA g : Len(faults.reported[n][g]), Feeds) < MaxFaults
       /\ \/ report_ingestion_dropout(n, f)
          \/ \E base \in Amounts : apply_ingestion_penalty(n, f, base)

\* Submissions, heartbeats and the audit trail of penalties.
RoundNext ==
  \/ Tick
  \/ \E f \in Feeds, s \in 0..2 : verify_and_update_sequence(f, s)
  \/ \E f \in Feeds : update_heartbeat(f)
  \/ \E i \in Intervals : set_heartbeat_interval(i)
  \/ \E n \in Nodes : verify_and_update_block_gap(n) \/ unstake(n)
  \/ \E n \in Nodes, x \in Amounts : stake_and_register(n, x)
  \/ \E n \in Nodes, f \in Feeds : update_validator_profile(n, f)
  \/ \E n \in Nodes, x \in Amounts : apply_slashing_penalty(n, x)

Spec == Init /\ [][Next]_vars

-----------------------------------------------------------------------------

\* Stakes stay within their width, tier configurations in order, and the clock
\* within its bound.
TypeOK ==
  /\ registry \in [Nodes -> 0..MaxTotal]
  /\ feedStake \in [Nodes -> [Feeds -> 0..MaxTotal]]
  /\ total \in 0..MaxTotal
  /\ validate_tier_config(tiers.config)
  /\ faults.slashed \in [Nodes -> 0..MaxTotal]
  /\ now \in 0..MaxLedger

\* verify_zero_loss_accounting: "the stake registry sum must equal the global
\* total".
TotalMatchesRegistry == total = MapThenSumSet(LAMBDA n : registry[n], Nodes)

\* With all calls in play, penalties included, the books diverge in two ways
\* only: a node that has an entry registers again, or one takes from a feed
\* what unstake or a penalty has already taken from its entry.
DriftIsExplained ==
  TotalMatchesRegistry /\ ~TotalMatchesRegistry' =>
    \E n \in Nodes :
      \/ registry[n] # 0 /\ \E x \in Amounts : stake_and_register(n, x)
      \/ \E f \in Feeds : registry[n] < feedStake[n][f] /\ unstake_from_feed(n, f)

\* A node's entry is the sum of what it has on the feeds, so leaving one feed
\* never touches the collateral behind another.
RegistryMatchesFeeds ==
  \A n \in Nodes : registry[n] = MapThenSumSet(LAMBDA f : feedStake[n][f], Feeds)

\* While the administrator leaves configuration and profiles alone, activity
\* only ever raises what a feed asks for: tiers are ordered and a corridor that
\* collects more never looks smaller.
RequirementRises ==
  tiers'.config = tiers.config /\ tiers'.metrics = tiers.metrics =>
    \A f \in Feeds : get_required_stake(f)' >= get_required_stake(f)

\* The pruned history counts exactly the faults reported in the window, however
\* reports, penalties and ledgers alternate.
FaultsAreCounted ==
  \A n \in Nodes, f \in Feeds :
    get_fault_count_in_window(n, f) = Len(prune_fault_history(faults.reported[n][f]))

\* A penalty takes a bond that doubles with every fault reported in the window
\* before it, up to its cap, or all the node has, and takes it from the total too.
PenaltyEscalates ==
  \A n \in Nodes, f \in Feeds, base \in Amounts :
    apply_ingestion_penalty(n, f, base) =>
      LET earlier == Len(prune_fault_history(faults.reported[n][f]))
      IN  /\ registry'[n] = SatSub(registry[n], base * 2^Min({earlier, MaxShift}))
          /\ TotalMatchesRegistry => TotalMatchesRegistry'

\* In one step: sequences of a feed rise and its archive is the one before, accepted
\* submissions of a node are MinGap ledgers apart, and a stale feed turns fresh
\* by a heartbeat or a longer interval only.
RoundAdvances ==
  /\ \A f \in Feeds :
      /\ rounds'.sequence[f] # rounds.sequence[f] =>
           rounds'.sequence[f] > rounds.sequence[f] /\ rounds'.archive[f] = rounds.sequence[f]
      /\ ~is_data_fresh(f) /\ is_data_fresh(f)' =>
           rounds'.beat[f] = now \/ rounds'.interval > rounds.interval
  /\ \A n \in Nodes : LET a == rounds'.accepted[n] IN
       Len(a) > 1 => a[Len(a)] - a[Len(a) - 1] >= MinGap

\* compute_weighted_average is the weighted mean of the rows as they came, and
\* refused exactly when a sum of the rows does not fit; no quorum asks for more
\* than there is, and no share exceeds the whole.
ConsensusIsExact ==
  \A e1, e2, e3 \in [value : {1, 3, Width}, weight : {0, 1, 2}] :
    LET entries == <<e1, e2, e3>>
        weight == e1.weight + e2.weight + e3.weight
        sum == e1.value * e1.weight + e2.value * e2.weight + e3.value * e3.weight
    IN  /\ compute_weighted_average(entries) =
             IF sum > Width THEN Absent ELSE IF weight = 0 THEN 0 ELSE sum \div weight
        /\ \A bps \in {0, 6700, 10000} : compute_quorum_threshold(weight, bps) <= weight
        /\ entry_weight_share_bps(e1.weight, weight) <= 10000

\* Penalties for deviations never exceed the stake and grow with the deviation.
SlashingIsGraded ==
  \A p, q \in 90..160, stake \in {0, 1, 99, 300, 301} :
    LET burn == calculate_slashing_penalty(p, 100, stake) IN
      /\ burn <= stake
      /\ 100 <= p /\ p <= q /\ stake <= 300 => burn <= calculate_slashing_penalty(q, 100, stake)

\* The search of the sorted validators finds who is there and where a missing
\* one belongs.
SearchIsExact ==
  \A ids \in {SetToSortSeq(S, <) : S \in SUBSET (1..4)}, id \in 0..5 :
    LET r == binary_search_validator(ids, id)
    IN  /\ r.found = (id \in ToSet(ids))
        /\ r.at = Cardinality({i \in DOMAIN ids : ids[i] < id})

\* A bundle passes when each of its updates would have passed alone.
BundlesAreTheirParts ==
  \A n \in Nodes, timestamps \in SeqOf(0..MaxLedger, MaxBundle + 1) :
    process_price_bundle(n, timestamps) =
      (/\ Len(timestamps) <= MaxBundle
       /\ \A i \in DOMAIN timestamps :
            validate_telemetry_submission(n, timestamps[i], TRUE, TRUE))
=============================================================================
