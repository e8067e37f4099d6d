---------------------------- MODULE Distributions ----------------------------
(***************************************************************************)
(* The stand-alone contracts that hand out or burn what the protocol has   *)
(* earned: the reward splitter with its cool-down gateway, the treasury    *)
(* buy-back, the fee burn engine, linear vesting and the liquidity lock,   *)
(* relayer allowances, the unwinding of yield positions, the strategy      *)
(* migrator and the interest rate model, and the revenue and rebalancing   *)
(* helpers of the core contract.                                           *)
(*                                                                         *)
(* The contracts share no storage: each has one record, in which bal is    *)
(* its token.  Outside the splitter, a call reserved for the administrator *)
(* is made by it, and a signature that a call asks for is given; what a    *)
(* strategy does with the funds it is lent is its own choice.              *)
(***************************************************************************)
EXTENDS Balances, Sequences, SequencesExt, FiniteSetsExt

CONSTANTS
  Admins, People, Relayers, Strategies, Tokens, None,
  Full,                  \* 10000 basis points
  Shares, Amounts, Ratios,
  Stages, Cooldowns,     \* 1..3; seconds a stage may be set to
  BuybackCap,            \* MAX_SINGLE_BUYBACK_BPS
  Durations, Expiries,
  Rates,                 \* rates and slopes of the interest model
  Interval, Buffer,      \* REBALANCE_INTERVAL_SECONDS, MIN_OPERATIONAL_BUFFER_USDC
  Supply, MaxTime, MaxRecipients, MaxActions   \* bounds

DistributionsAssumption ==
  /\ {Full, BuybackCap, Interval, Buffer, Supply, MaxTime, MaxRecipients, MaxActions} \subseteq Nat
  /\ Full > 0 /\ Stages = 1..3 /\ Cooldowns \subseteq Nat
  /\ Shares \subseteq Nat /\ Amounts \subseteq Nat /\ Durations \subseteq Nat
  /\ Ratios \subseteq Nat /\ Rates \subseteq Nat /\ Expiries \subseteq Nat

VARIABLES
  now,
  splitter,    \* reward-splitter
  buyback,     \* treasury-buyback
  burner,      \* fee-burn-engine, for one token
  vesting,     \* linear-vesting
  lock,        \* liquidity-lock
  relay,       \* relayer-allowance
  yield,       \* yield-unwind, for one base token
  migration,   \* strategy-migrator, for one asset
  model,       \* interest-rate-model
  treasury     \* revenue_distribution, treasury_rebalance, treasury_auction_router

vars == <<now, splitter, buyback, burner, vesting, lock, relay, yield, migration, model, treasury>>

-----------------------------------------------------------------------------
(* State *)

Recipient == [address : People, share : 1..Full]

CooldownAction ==
  [type : {"UpdateToken", "ResetParameters", "EmergencyStop"}, data : Tokens, stage : 1..4,
   executed : BOOLEAN, cancelled : BOOLEAN]

LiquidityPool == [ratio_a : 1..(Full - 1), depth : Nat]

BurnModule ==
  [ratio : 0..Full, fees : Nat, burnt : Nat, threshold : Nat, module : {"burner", "token"}]

VestingSchedule ==
  [total : Nat, claimed : Nat, start : 0..MaxTime, cliff : Durations, duration : Durations]

StreamData == [start : 0..MaxTime, total : Nat, claimed : Nat]

RelayerAllowance == [max : Nat, spent : Nat, expiry : Nat, active : BOOLEAN]

Position ==
  [staked : Nat, opened : 0..MaxTime, requested : (0..MaxTime) \union {None}, active : BOOLEAN]

RateModel == [base : Rates, optimal : 1..(Full - 1), slope1 : Rates, slope2 : Rates]

TypeOK ==
  /\ now \in 0..MaxTime
  /\ splitter.recipients \in Seq(Recipient) /\ splitter.total \in 0..Full
  /\ splitter.admin \in Admins /\ splitter.token \in Tokens
  /\ splitter.stage \in [Stages -> Cooldowns]
  /\ splitter.action \in [0..MaxTime -> CooldownAction \union {None}]
  /\ splitter.least \in [0..MaxTime -> [Stages -> Cooldowns]]
  /\ buyback.pool \in LiquidityPool \union {None} /\ buyback.fees \in [{"a", "b"} -> Nat]
  /\ burner.module \in BurnModule \union {None}
  /\ vesting.schedule \in [People -> VestingSchedule \union {None}]
  /\ lock.stream \in [People -> StreamData \union {None}]
  /\ relay.allowance \in [People \X Relayers -> RelayerAllowance \union {None}]
  /\ yield.position \in [Strategies -> Position \union {None}]
  /\ yield.delay \in [Strategies -> Durations \union {None}]
  /\ model \in RateModel \union {None}
  /\ \A b \in {burner.bal, vesting.bal, lock.bal, relay.bal, yield.bal, migration.bal,
               treasury.bal} : \A x \in DOMAIN b : b[x] \in Nat
  /\ \A t \in Tokens : \A x \in DOMAIN splitter.bal[t] : splitter.bal[t][x] \in Nat

Purse(S, rich) == [x \in S |-> IF x \in rich THEN Supply ELSE 0]

DefaultAdmin == CHOOSE a \in Admins : TRUE
DefaultToken == CHOOSE t \in Tokens : TRUE

initialize_default_cooldown_stages ==
  LET defaults == Cooldowns \ {0} IN
  [s \in Stages |-> CHOOSE c \in defaults :
     Cardinality({d \in defaults : d <= c}) = Min({s, Cardinality(defaults)})]

\* Every contract as its initialize leaves it.
Init ==
  /\ now = 0
  /\ splitter = [admin |-> DefaultAdmin, token |-> DefaultToken, recipients |-> <<>>, total |-> 0,
                 stage |-> initialize_default_cooldown_stages,
                 action |-> [i \in 0..MaxTime |-> None],
                 least |-> [i \in 0..MaxTime |-> initialize_default_cooldown_stages],
                 bal |-> [t \in Tokens |-> Purse(People \union {"self"}, {"self"})],
                 paid |-> [asked |-> 0, out |-> 0]]
  /\ buyback = [cap |-> 0, keeper |-> None, pool |-> None, lp |-> 0,
                fees |-> [t \in {"a", "b"} |-> 0], collected |-> [t \in {"a", "b"} |-> 0],
                spent |-> [t \in {"a", "b"} |-> 0],
                bal |-> Purse({"treasury", "burn", "s1", "s2"}, {"s1", "s2"})]
  /\ burner = [module |-> None, bal |-> Purse({"burner"}, {"burner"}), routed |-> 0]
  /\ vesting = [schedule |-> [p \in People |-> None],
                bal |-> Purse(People \union {"admin", "self"}, {"admin"})]
  /\ lock = [stream |-> [p \in People |-> None], cap |-> None, total |-> 0,
             bal |-> Purse(People \union {"admin", "self"}, {"admin"})]
  /\ relay = [allowance |-> [k \in People \X Relayers |-> None],
              bal |-> Purse(People \union {"payee"}, People)]
  /\ yield = [delay |-> [s \in Strategies |-> None], position |-> [s \in Strategies |-> None],
              emergency |-> FALSE, reserves |-> 0, gap |-> 0,
              bal |-> Purse(Strategies \union {"admin", "self"}, {"admin"})]
  /\ migration = [pair |-> None, total |-> 0, reported |-> 0,
                  bal |-> Purse(Strategies \union {"self"}, Strategies)]
  /\ model = None
  /\ treasury = [total |-> 0, surplus |-> 0, burned |-> 0, last |-> 0, moved |-> 0, paid |-> 0,
                 bal |-> [payer |-> 20, stakers |-> 0, dev |-> 0]]

Tick ==
  /\ now < MaxTime
  /\ now' = now + 1
  /\ UNCHANGED <<splitter, buyback, burner, vesting, lock, relay, yield, migration, model, treasury>>

-----------------------------------------------------------------------------
(* The reward splitter *)

splitRest == <<now, buyback, burner, vesting, lock, relay, yield, migration, model, treasury>>

Indices(p) == {i \in DOMAIN splitter.recipients : splitter.recipients[i].address = p}
ShareAt(i) == splitter.recipients[i].share
SumShares(S) == FoldSet(LAMBDA i, n : ShareAt(i) + n, 0, S)

require_admin(a) == a = splitter.admin

\* An address may be added again.
add_recipient(a, p, share) ==
  /\ require_admin(a)
  /\ share > 0 /\ share <= Full
  /\ splitter.total + share <= Full
  /\ splitter' = [splitter EXCEPT !.recipients = Append(@, [address |-> p, share |-> share]),
                                  !.total = @ + share]
  /\ UNCHANGED splitRest

\* Every entry of the address goes; a total that does not cover them traps.
remove_recipient(a, p) ==
  /\ require_admin(a)
  /\ Indices(p) # {}
  /\ SumShares(Indices(p)) <= splitter.total
  /\ splitter' = [splitter EXCEPT !.recipients = SelectSeq(@, LAMBDA r : r.address # p),
                                  !.total = @ - SumShares(Indices(p))]
  /\ UNCHANGED splitRest

\* Every entry of the address gets the new share; the total moves by the first.
update_recipient_share(a, p, share) ==
  LET old == ShareAt(Min(Indices(p))) IN
  /\ require_admin(a)
  /\ share > 0 /\ share <= Full
  /\ Indices(p) # {}
  /\ old <= splitter.total /\ splitter.total - old + share <= Full
  /\ splitter' = [splitter EXCEPT
       !.recipients = [i \in DOMAIN @ |-> IF @[i].address = p
                                          THEN [@[i] EXCEPT !.share = share] ELSE @[i]],
       !.total = @ - old + share]
  /\ UNCHANGED splitRest

Portion(i, amount) == (amount * ShareAt(i)) \div splitter.total

\* Anyone may call it.  A transfer that is not covered traps.
distribute(amount) ==
  LET All == DOMAIN splitter.recipients
      out == FoldSet(LAMBDA i, n : Portion(i, amount) + n, 0, All)
      held == splitter.bal[splitter.token] IN
  /\ amount > 0 /\ All # {} /\ splitter.total # 0
  /\ held["self"] >= amount /\ held["self"] >= out
  /\ splitter' = [splitter EXCEPT
       !.bal[splitter.token] = [x \in DOMAIN held |->
          IF x = "self" THEN held[x] - out
          ELSE held[x] + FoldSet(LAMBDA i, n : Portion(i, amount) + n, 0, Indices(x))],
       !.paid = [asked |-> @.asked + amount, out |-> @.out + out]]
  /\ UNCHANGED splitRest

transfer_admin(a, b) ==
  /\ require_admin(a)
  /\ splitter' = [splitter EXCEPT !.admin = b]
  /\ UNCHANGED splitRest

update_token(a, t) ==
  /\ require_admin(a)
  /\ splitter' = [splitter EXCEPT !.token = t]
  /\ UNCHANGED splitRest

\* The splitter with its parameters as they were initialized.
reset_parameters_internal(s) ==
  [s EXCEPT !.admin = DefaultAdmin, !.token = DefaultToken, !.recipients = <<>>, !.total = 0]

reset_parameters(a) ==
  /\ require_admin(a)
  /\ splitter' = reset_parameters_internal(splitter)
  /\ UNCHANGED splitRest

\* The number of an action is the time: a second proposal in the same ledger
\* replaces the first.  (least: history, the shortest that each stage has been
\* since the proposal.)
propose_action(a, type, data) ==
  /\ require_admin(a)
  /\ splitter' = [splitter EXCEPT
       !.action[now] =
         [type |-> type, data |-> data, stage |-> 1, executed |-> FALSE, cancelled |-> FALSE],
       !.least[now] = splitter.stage]
  /\ UNCHANGED splitRest

Pending(i) ==
  splitter.action[i] # None /\ ~splitter.action[i].executed /\ ~splitter.action[i].cancelled

\* Mutant: the cool-down of a stage is not looked at.
advance_action_Hasty(a, i) ==
  /\ require_admin(a) /\ Pending(i)
  /\ splitter.action[i].stage <= 3
  /\ splitter' = [splitter EXCEPT !.action[i].stage = @ + 1]
  /\ UNCHANGED splitRest

\* All stages count from the proposal.
advance_action(a, i) ==
  /\ require_admin(a) /\ Pending(i)
  /\ splitter.action[i].stage <= 3
  /\ now >= i + splitter.stage[splitter.action[i].stage]
  /\ splitter' = [splitter EXCEPT !.action[i].stage = @ + 1]
  /\ UNCHANGED splitRest

execute_action(a, i) ==
  LET act == splitter.action[i]
      done == [splitter EXCEPT !.action[i].executed = TRUE] IN
  /\ require_admin(a) /\ Pending(i)
  /\ act.stage >= 4
  /\ splitter' = CASE act.type = "UpdateToken" -> [done EXCEPT !.token = act.data]
                   [] act.type = "ResetParameters" -> reset_parameters_internal(done)
                   [] act.type = "EmergencyStop" -> done
  /\ UNCHANGED splitRest

cancel_action(a, i) ==
  /\ require_admin(a) /\ Pending(i)
  /\ splitter' = [splitter EXCEPT !.action[i].cancelled = TRUE]
  /\ UNCHANGED splitRest

\* Any number of seconds, none included, and at once for the pending actions.
configure_cooldown_stage(a, s, seconds) ==
  /\ require_admin(a)
  /\ splitter' = [splitter EXCEPT
       !.stage[s] = seconds,
       !.least = [i \in 0..MaxTime |->
         IF Pending(i) THEN [@[i] EXCEPT ![s] = Min({@, seconds})] ELSE @[i]]]
  /\ UNCHANGED splitRest

\* What a caller is told it has to wait; None for an unknown action.
get_cooldown_remaining(i) ==
  IF splitter.action[i] = None \/ (Pending(i) /\ splitter.action[i].stage > 3) THEN None
  ELSE IF ~Pending(i) THEN 0
  ELSE Max({0, i + splitter.stage[splitter.action[i].stage] - now})

SharesNext ==
  \E a \in Admins :
    \/ \E p \in People :
         \/ \E s \in Shares :
              \/ Len(splitter.recipients) < MaxRecipients /\ add_recipient(a, p, s)
              \/ update_recipient_share(a, p, s)
         \/ remove_recipient(a, p)
    \/ \E n \in Amounts : splitter.paid.asked + n <= Supply /\ distribute(n)
    \/ \E b \in Admins : transfer_admin(a, b)
    \/ \E t \in Tokens : update_token(a, t)
    \/ reset_parameters(a)

GatewayNext ==
  \/ Tick
  \/ \E a \in Admins :
       \/ \E type \in {"UpdateToken", "ResetParameters", "EmergencyStop"}, t \in Tokens :
            Cardinality({i \in 0..now : splitter.action[i] # None} \union {now}) <= MaxActions
              /\ propose_action(a, type, t)
       \/ \E i \in 0..MaxTime :
            advance_action(a, i) \/ execute_action(a, i) \/ cancel_action(a, i)
       \/ \E s \in Stages, c \in Cooldowns : configure_cooldown_stage(a, s, c)

-----------------------------------------------------------------------------
(* The treasury buy-back *)

buyRest == <<now, splitter, burner, vesting, lock, relay, yield, migration, model, treasury>>

set_surplus_cap(cap) ==
  /\ buyback' = [buyback EXCEPT !.cap = cap]
  /\ UNCHANGED buyRest

set_keeper(k) ==
  /\ buyback' = [buyback EXCEPT !.keeper = k]
  /\ UNCHANGED buyRest

\* A note of what was collected; no token moves.
collect_fees(t, amount) ==
  /\ amount > 0
  /\ buyback' = [buyback EXCEPT !.fees[t] = @ + amount, !.collected[t] = @ + amount]
  /\ UNCHANGED buyRest

\* The whole balance of every source goes to the treasury.
sweep_assets(caller, sources) ==
  /\ caller = "admin" \/ caller = buyback.keeper
  /\ buyback' = [buyback EXCEPT !.bal = [x \in DOMAIN @ |->
       IF x \in sources THEN 0
       ELSE IF x = "treasury" THEN @[x] + SumOf(@, sources) ELSE @[x]]]
  /\ UNCHANGED buyRest

register_pool(ratio_a, depth) ==
  /\ ratio_a > 0 /\ ratio_a < Full /\ depth > 0
  /\ buyback.pool = None
  /\ buyback' = [buyback EXCEPT !.pool = [ratio_a |-> ratio_a, depth |-> depth]]
  /\ UNCHANGED buyRest

\* The largest integer whose square is at most n.
isqrt(n) == CHOOSE r \in 0..n : r * r <= n /\ (r + 1) * (r + 1) > n

\* The other side of a swap of amount of token t at the pool's ratio.
Counterpart(t, amount) ==
  LET a == buyback.pool.ratio_a IN
  IF t = "a" THEN (amount * (Full - a)) \div a ELSE (amount * a) \div (Full - a)

LpShares(t, amount) == isqrt(amount * Counterpart(t, amount))

execute_buyback(t, amount) ==
  /\ amount > 0 /\ buyback.fees[t] > 0
  /\ buyback.fees[t] >= buyback.cap /\ buyback.fees[t] >= amount
  /\ buyback.pool # None
  /\ amount <= (buyback.pool.depth * BuybackCap) \div Full
  /\ buyback' = [buyback EXCEPT !.fees[t] = @ - amount, !.spent[t] = @ + amount,
                                !.lp = @ + LpShares(t, amount)]
  /\ UNCHANGED buyRest

execute_burn(amount) ==
  /\ amount > 0 /\ CanMove(buyback.bal, "treasury", amount)
  /\ buyback' = [buyback EXCEPT !.bal = Move(@, "treasury", "burn", amount)]
  /\ UNCHANGED buyRest

BuybackNext ==
  \/ \E n \in Amounts : set_surplus_cap(n) \/ execute_burn(n)
  \/ set_keeper("keeper")
  \/ \E t \in {"a", "b"}, n \in Amounts :
       \/ buyback.collected[t] + n <= Supply /\ collect_fees(t, n)
       \/ execute_buyback(t, n)
  \/ \E c \in {"admin", "keeper", "other"}, s \in SUBSET {"s1", "s2"} : sweep_assets(c, s)
  \/ \E r \in Ratios, d \in {0, Supply} : register_pool(r, d)

-----------------------------------------------------------------------------
(* The fee burn engine *)

burnRest == <<now, splitter, buyback, vesting, lock, relay, yield, migration, model, treasury>>

register_burn_module(module, ratio) ==
  /\ ratio <= Full /\ burner.module = None
  /\ burner' = [burner EXCEPT !.module =
       [ratio |-> ratio, fees |-> 0, burnt |-> 0, threshold |-> 0, module |-> module]]
  /\ UNCHANGED burnRest

set_burn_ratio(ratio) ==
  /\ ratio <= Full /\ burner.module # None
  /\ burner' = [burner EXCEPT !.module.ratio = ratio]
  /\ UNCHANGED burnRest

set_auto_burn_threshold(threshold) ==
  /\ burner.module # None
  /\ burner' = [burner EXCEPT !.module.threshold = threshold]
  /\ UNCHANGED burnRest

\* Burning amount of what module has accumulated: refused when the token is its
\* own burn module, traps when the module does not hold as much.
CanBurn(module, amount) == amount = 0 \/ (module.module # "token" /\ burner.bal["burner"] >= amount)

consume_burn(module, amount) ==
  [burner EXCEPT !.module = [module EXCEPT !.fees = @ - amount, !.burnt = @ + amount],
                 !.bal["burner"] = @ - amount]

route_fees(amount) ==
  LET portion == (amount * burner.module.ratio) \div Full
      grown == [burner.module EXCEPT !.fees = @ + portion]
      ignited == grown.threshold > 0 /\ grown.fees >= grown.threshold
      burning == IF ignited THEN grown.fees ELSE 0 IN
  /\ amount > 0 /\ burner.module # None
  /\ CanBurn(grown, burning)
  /\ burner' = [consume_burn(grown, burning) EXCEPT !.routed = @ + portion]
  /\ UNCHANGED burnRest

burn_accumulated_fees ==
  /\ burner.module # None /\ CanBurn(burner.module, burner.module.fees)
  /\ burner' = consume_burn(burner.module, burner.module.fees)
  /\ UNCHANGED burnRest

burn_exact(amount) ==
  /\ amount > 0 /\ burner.module # None /\ amount <= burner.module.fees
  /\ CanBurn(burner.module, amount)
  /\ burner' = consume_burn(burner.module, amount)
  /\ UNCHANGED burnRest

BurnNext ==
  \/ \E m \in {"burner", "token"}, r \in Ratios : register_burn_module(m, r)
  \/ \E r \in Ratios : set_burn_ratio(r)
  \/ \E n \in Amounts :
       \/ set_auto_burn_threshold(n)
       \/ burner.routed + n <= Supply + 1 /\ route_fees(n)
       \/ burn_exact(n)
  \/ burn_accumulated_fees

-----------------------------------------------------------------------------
(* Linear vesting and the liquidity lock *)

vestRest == <<now, splitter, buyback, burner, lock, relay, yield, migration, model, treasury>>
lockRest == <<now, splitter, buyback, burner, vesting, relay, yield, migration, model, treasury>>

create_vesting(p, total, cliff, duration) ==
  /\ total > 0 /\ duration > cliff /\ vesting.schedule[p] = None
  /\ CanMove(vesting.bal, "admin", total)
  /\ vesting' = [vesting EXCEPT
       !.schedule[p] = [total |-> total, claimed |-> 0, start |-> now,
                        cliff |-> cliff, duration |-> duration],
       !.bal = Move(@, "admin", "self", total)]
  /\ UNCHANGED vestRest

\* The line starts at the cliff.
get_claimable(s) ==
  LET elapsed == now - s.start
      vested == IF elapsed >= s.duration THEN s.total
                ELSE (s.total * (elapsed - s.cliff)) \div (s.duration - s.cliff) IN
  IF elapsed < s.cliff THEN 0 ELSE Max({0, vested - s.claimed})

claim_vested(p) ==
  LET due == get_claimable(vesting.schedule[p]) IN
  /\ vesting.schedule[p] # None /\ due > 0
  /\ CanMove(vesting.bal, "self", due)
  /\ vesting' = [vesting EXCEPT !.schedule[p].claimed = @ + due,
                                !.bal = Move(@, "self", p, due)]
  /\ UNCHANGED vestRest

Period == Max(Durations)   \* SCHEDULE_LEDGERS

\* The cap is compared with everything ever deposited.
create_stream(p, amount) ==
  /\ amount > 0 /\ lock.stream[p] = None
  /\ lock.cap # None => lock.total + amount <= lock.cap
  /\ CanMove(lock.bal, "admin", amount)
  /\ lock' = [lock EXCEPT !.stream[p] = [start |-> now, total |-> amount, claimed |-> 0],
                          !.total = @ + amount, !.bal = Move(@, "admin", "self", amount)]
  /\ UNCHANGED lockRest

get_unlocked(s) ==
  IF now - s.start >= Period THEN s.total ELSE (s.total * (now - s.start)) \div Period

claim(p) ==
  LET due == get_unlocked(lock.stream[p]) - lock.stream[p].claimed IN
  /\ lock.stream[p] # None /\ due > 0
  /\ CanMove(lock.bal, "self", due)
  /\ lock' = [lock EXCEPT !.stream[p].claimed = @ + due, !.bal = Move(@, "self", p, due)]
  /\ UNCHANGED lockRest

set_tvl_cap(cap) ==
  /\ lock' = [lock EXCEPT !.cap = IF cap = 0 THEN None ELSE cap]
  /\ UNCHANGED lockRest

VestingNext ==
  \/ Tick
  \/ \E p \in People :
       \/ \E n \in Amounts, c, d \in Durations : create_vesting(p, n, c, d)
       \/ claim_vested(p)

LockNext ==
  \/ Tick
  \/ \E p \in People : (\E n \in Amounts : create_stream(p, n)) \/ claim(p)
  \/ \E n \in Amounts : set_tvl_cap(n)

-----------------------------------------------------------------------------
(* Relayer allowances *)

relayRest == <<now, splitter, buyback, burner, vesting, lock, yield, migration, model, treasury>>

\* An allowance is granted once: there is no call that removes the entry.
grant_allowance(o, r, max, expiry) ==
  /\ max > 0 /\ expiry > now /\ relay.allowance[<<o, r>>] = None
  /\ relay' = [relay EXCEPT !.allowance[<<o, r>>] =
       [max |-> max, spent |-> 0, expiry |-> expiry, active |-> TRUE]]
  /\ UNCHANGED relayRest

execute_allowance(o, r, amount) ==
  LET a == relay.allowance[<<o, r>>] IN
  /\ amount > 0 /\ a # None
  /\ a.active /\ now <= a.expiry /\ a.spent + amount <= a.max
  /\ CanMove(relay.bal, o, amount)
  /\ relay' = [relay EXCEPT !.allowance[<<o, r>>].spent = @ + amount,
                            !.bal = Move(@, o, "payee", amount)]
  /\ UNCHANGED relayRest

revoke_allowance(o, r, caller) ==
  /\ caller \in {o, "admin"} /\ relay.allowance[<<o, r>>] # None
  /\ relay' = [relay EXCEPT !.allowance[<<o, r>>].active = FALSE]
  /\ UNCHANGED relayRest

get_remaining_capacity(o, r) ==
  LET a == relay.allowance[<<o, r>>] IN
  IF a = None \/ ~a.active \/ now > a.expiry THEN 0 ELSE a.max - a.spent

AllowanceNext ==
  \/ Tick
  \/ \E o \in People, r \in Relayers :
       \/ \E n \in Amounts : execute_allowance(o, r, n) \/ \E e \in Expiries : grant_allowance(o, r, n, e)
       \/ \E c \in People \union {"admin"} : revoke_allowance(o, r, c)

-----------------------------------------------------------------------------
(* Unwinding yield positions *)

yieldRest == <<now, splitter, buyback, burner, vesting, lock, relay, migration, model, treasury>>

declare_emergency ==
  /\ yield' = [yield EXCEPT !.emergency = TRUE]
  /\ UNCHANGED yieldRest

resolve_emergency ==
  /\ yield' = [yield EXCEPT !.emergency = FALSE]
  /\ UNCHANGED yieldRest

register_strategy(s, delay) ==
  /\ delay # 0 /\ yield.delay[s] = None
  /\ yield' = [yield EXCEPT !.delay[s] = delay]
  /\ UNCHANGED yieldRest

Open(s) == yield.position[s] # None /\ yield.position[s].active

open_position(s, amount) ==
  /\ amount > 0 /\ yield.delay[s] # None /\ ~Open(s)
  /\ CanMove(yield.bal, "admin", amount)
  /\ yield' = [yield EXCEPT
       !.position[s] = [staked |-> amount, opened |-> now, requested |-> None, active |-> TRUE],
       !.bal = Move(@, "admin", s, amount)]
  /\ UNCHANGED yieldRest

\* A second request starts the clock again.
request_unwind(s) ==
  /\ Open(s)
  /\ yield' = [yield EXCEPT !.position[s].requested = now]
  /\ UNCHANGED yieldRest

\* The strategy reports recovered and pays paid, which may be more or less: the
\* report is credited, no balance is compared.  (gap: history, what was reported
\* beyond what was paid.)
settle_unwind(s, recovered, paid) ==
  /\ CanMove(yield.bal, s, paid)
  /\ yield' = [yield EXCEPT !.position[s].active = FALSE, !.reserves = @ + recovered,
                            !.bal = Move(@, s, "self", paid), !.gap = @ + recovered - paid]
  /\ UNCHANGED yieldRest

execute_unwind(s, recovered, paid) ==
  /\ Open(s) /\ yield.position[s].requested # None
  /\ now - yield.position[s].requested >= yield.delay[s]
  /\ settle_unwind(s, recovered, paid)

emergency_unwind(s, recovered, paid) ==
  /\ yield.emergency /\ Open(s)
  /\ settle_unwind(s, recovered, paid)

UnwindNext ==
  \/ Tick
  \/ declare_emergency \/ resolve_emergency
  \/ \E s \in Strategies :
       \/ \E d \in Durations : register_strategy(s, d)
       \/ request_unwind(s)
       \/ \E n \in Amounts :
            \/ open_position(s, n)
            \/ /\ yield.reserves + n <= Supply
               /\ \E paid \in Amounts : execute_unwind(s, n, paid) \/ emergency_unwind(s, n, paid)

-----------------------------------------------------------------------------
(* The strategy migrator *)

migrateRest == <<now, splitter, buyback, burner, vesting, lock, relay, yield, model, treasury>>

set_strategies(from, to) ==
  /\ from # to
  /\ migration' = [migration EXCEPT !.pair = [from |-> from, to |-> to]]
  /\ UNCHANGED migrateRest

\* The old strategy reports withdrawn and pays received.  The new one is given
\* received, and may send returned back to the migrator and put invested out of
\* its own balance.  The call is undone unless migrator and new strategy
\* together hold as much more as was reported.
migrate(amount, withdrawn, received, invested, returned) ==
  LET pair == migration.pair
      before == migration.bal["self"] + migration.bal[pair.to]
      paid == Move(Move(migration.bal, pair.from, "self", received), "self", pair.to, received)
      after == [paid EXCEPT ![pair.to] = @ - invested - returned, !["self"] = @ + returned] IN
  /\ amount > 0 /\ pair # None
  /\ withdrawn > 0 /\ received > 0
  /\ CanMove(migration.bal, pair.from, received) /\ CanMove(paid, pair.to, invested + returned)
  /\ after["self"] + after[pair.to] >= before + withdrawn
  /\ migration' = [migration EXCEPT !.bal = after, !.total = @ + received,
                                    !.reported = @ + withdrawn]
  /\ UNCHANGED migrateRest

MigrateNext ==
  \/ \E f, t \in Strategies : set_strategies(f, t)
  \/ \E n, w, r, i, b \in Amounts : migration.total + r <= Supply /\ migrate(n, w, r, i, b)

-----------------------------------------------------------------------------
(* The interest rate model *)

modelRest == <<now, splitter, buyback, burner, vesting, lock, relay, yield, migration, treasury>>

utilization_rate(debt, collateral) ==
  IF collateral = 0 THEN (IF debt = 0 THEN 0 ELSE Full) ELSE (debt * Full) \div collateral

borrow_rate(u, m) ==
  IF u <= m.optimal THEN m.base + (u * m.slope1) \div m.optimal
  ELSE m.base + m.slope1 + ((u - m.optimal) * m.slope2) \div (Full - m.optimal)

validate_model(m) == m.optimal > 0 /\ m.optimal < Full

\* initialize, for the first model, and every set_model after it.
set_model(m) ==
  /\ validate_model(m)
  /\ model' = m
  /\ UNCHANGED modelRest

RateNext ==
  \E b, s1, s2 \in Rates, o \in Ratios :
    set_model([base |-> b, optimal |-> o, slope1 |-> s1, slope2 |-> s2])

-----------------------------------------------------------------------------
(* Revenue distribution, rebalancing and the surplus auction *)

treasuryRest == <<now, splitter, buyback, burner, vesting, lock, relay, yield, migration, model>>

StakersShare(n) == (n * 7) \div 10   \* STAKERS_ALLOCATION_BPS
DevShare(n) == (n * 3) \div 10       \* DEV_ALLOCATION_BPS

\* Revenue that the two shares do not exhaust is refused.
distribute_revenue(amount) ==
  /\ amount > 0
  /\ StakersShare(amount) + DevShare(amount) = amount
  /\ CanMove(treasury.bal, "payer", amount)
  /\ treasury' = [treasury EXCEPT
       !.bal = Move(Move(@, "payer", "stakers", StakersShare(amount)), "payer", "dev", DevShare(amount)),
       !.total = @ + amount, !.paid = @ + amount]
  /\ UNCHANGED treasuryRest

\* Anyone may initialize the vault again, which forgets the total.
initialize_vault ==
  /\ treasury' = [treasury EXCEPT !.total = 0]
  /\ UNCHANGED treasuryRest

\* Moves no token: the amount beyond the buffer is returned.
execute_weekly_rebalance(balance, force) ==
  /\ force \/ now - treasury.last >= Interval
  /\ treasury' = [treasury EXCEPT !.last = now, !.moved = Max({0, balance - Buffer})]
  /\ UNCHANGED treasuryRest

deposit_fees(amount) ==
  /\ treasury' = [treasury EXCEPT !.surplus = @ + amount]
  /\ UNCHANGED treasuryRest

check_and_trigger_auction ==
  /\ treasury.surplus > Buffer
  /\ treasury' = [treasury EXCEPT !.surplus = Buffer, !.burned = @ + (treasury.surplus - Buffer)]
  /\ UNCHANGED treasuryRest

TreasuryNext ==
  \/ Tick \/ initialize_vault \/ check_and_trigger_auction
  \/ \E n \in Amounts \union {10, 15} :
       \/ distribute_revenue(n)
       \/ \E force \in BOOLEAN : execute_weekly_rebalance(n, force)
       \/ n < 10 /\ treasury.surplus + treasury.burned + n <= Supply /\ deposit_fees(n)

-----------------------------------------------------------------------------
(* Properties *)

Once == \A i, j \in DOMAIN splitter.recipients :
  splitter.recipients[i].address = splitter.recipients[j].address => i = j

Exact == splitter.total = SumShares(DOMAIN splitter.recipients)

\* As long as no address is listed twice the recorded total is the sum of the
\* shares, and distribute then pays out at most what it was asked to, short of
\* it by less than one unit for each recipient (add_recipient, distribute).
SplitsAddUp ==
  [][/\ Once /\ Once' /\ Exact => Exact'
     /\ (Exact /\ splitter'.paid # splitter.paid) =>
          LET asked == splitter'.paid.asked - splitter.paid.asked
              out == splitter'.paid.out - splitter.paid.out
          IN out <= asked /\ asked < out + Len(splitter.recipients)]_splitter

\* An action is executed only when, counted from its proposal, every one of the
\* three cool-downs has passed, each as short as it has been set since then; a
\* settled action only changes when its number is used again in the same
\* ledger, and the wait that is shown is never longer than what advance_action
\* asks for.
CooldownsAreServed ==
  [][\A i \in 0..MaxTime :
       LET was == splitter.action[i]
           is == splitter'.action[i]
       IN /\ is # None /\ is.executed /\ (was = None \/ ~was.executed) =>
               \A s \in Stages : now >= i + splitter.least[i][s]
          /\ was # None /\ (was.executed \/ was.cancelled) /\ is # was => now = i
          /\ was # None /\ is.stage = was.stage + 1 => get_cooldown_remaining(i) = 0]_splitter

\* The treasury never gets more liquidity shares than one buy-back of all that
\* was spent from each side would give, and no fee is spent twice.
BuybacksAreBacked ==
  /\ \A t \in {"a", "b"} : buyback.fees[t] + buyback.spent[t] = buyback.collected[t]
  /\ buyback.lp > 0 =>
       buyback.lp <= LpShares("a", buyback.spent["a"]) + LpShares("b", buyback.spent["b"])
  /\ SumOf(buyback.bal, DOMAIN buyback.bal) = 2 * Supply

\* What was routed is either burnt or still waiting, and what is burnt has left
\* the supply.
BurnsAreExact ==
  burner.module # None =>
    /\ burner.module.fees + burner.module.burnt = burner.routed
    /\ burner.bal["burner"] + burner.module.burnt = Supply

\* Routing never leaves more waiting than the threshold in force.
BurnsIgnite ==
  [][(burner.module # None /\ burner'.module.fees > burner.module.fees) =>
       burner'.module.threshold = 0 \/ burner'.module.fees < burner'.module.threshold]_burner

Owed(f) == FoldSet(LAMBDA p, n : n + (IF f[p] = None THEN 0 ELSE f[p].total - f[p].claimed), 0, People)

\* Every schedule and stream can be paid in full, and nobody has claimed ahead
\* of the line, nor anything before the cliff.
VestingIsCovered ==
  /\ vesting.bal["self"] = Owed(vesting.schedule) /\ lock.bal["self"] = Owed(lock.stream)
  /\ \A p \in People :
       LET v == vesting.schedule[p]
           s == lock.stream[p]
       IN /\ v # None /\ v.claimed > 0 =>
               \/ now - v.start >= v.duration
               \/ v.claimed * (v.duration - v.cliff) <= v.total * (now - v.start - v.cliff)
          /\ v # None => v.claimed <= v.total
          /\ s # None => s.claimed <= s.total /\ s.claimed * Period <= s.total * (now - s.start)

\* What relayers have moved for an owner is what their allowances say was spent,
\* none beyond its limit, and a revoked or expired one never moves anything
\* again.
AllowancesBound ==
  /\ [](/\ \A k \in People \X Relayers :
             relay.allowance[k] # None => relay.allowance[k].spent <= relay.allowance[k].max
        /\ \A o \in People : Supply - relay.bal[o] =
             FoldSet(LAMBDA r, n : n + (IF relay.allowance[<<o, r>>] = None THEN 0
                                        ELSE relay.allowance[<<o, r>>].spent), 0, Relayers))
  /\ [][\A o \in People, r \in Relayers :
          get_remaining_capacity(o, r) = 0 /\ relay.allowance[<<o, r>>] # None =>
            relay'.allowance[<<o, r>>].spent = relay.allowance[<<o, r>>].spent]_relay

\* The reserves are the tokens that came back, but for what strategies reported
\* and did not pay (or paid and did not report); a position is closed once for
\* every time it was opened, and outside an emergency only after a request made
\* for this very position has waited the strategy's delay.
UnwindsAreOrderly ==
  /\ [](/\ yield.reserves = yield.bal["self"] + yield.gap
        /\ \A s \in Strategies : Open(s) /\ yield.position[s].requested # None =>
             yield.position[s].requested >= yield.position[s].opened)
  /\ [][\A s \in Strategies : Open(s) /\ ~Open(s)' =>
          \/ yield.emergency
          \/ now >= yield.position[s].opened + yield.delay[s]]_yield

\* What has left the sight of the migrator in all migrations together is at most
\* what the old strategies paid beyond their reports, whatever the new ones
\* sent back; and what they sent back stays with the migrator, as only what a
\* migration received is passed on by it.
MigrationsLoseNothing ==
  /\ [](SumOf(migration.bal, DOMAIN migration.bal) + migration.total
          >= Cardinality(Strategies) * Supply + migration.reported)
  /\ [][migration'.bal["self"] >= migration.bal["self"]]_migration

\* Rates never fall as utilization rises, also across the kink and beyond full
\* utilization, and never fall below the base rate.
RatesRise ==
  model # None =>
    \A d1, d2 \in 0..(Full + 2) :
      d1 <= d2 =>
        model.base <= borrow_rate(utilization_rate(d1, Full), model)
        /\ borrow_rate(utilization_rate(d1, Full), model)
             <= borrow_rate(utilization_rate(d2, Full), model)

\* Distributed revenue is with the two recipients, seven parts to three, and the
\* recorded total never exceeds it.
RevenueIsShared ==
  /\ treasury.total <= treasury.paid
  /\ 3 * treasury.bal["stakers"] = 7 * treasury.bal["dev"]
  /\ treasury.bal["stakers"] + treasury.bal["dev"] = treasury.paid

=============================================================================
