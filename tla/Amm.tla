--------------------------------- MODULE Amm ---------------------------------
(***************************************************************************)
(* The market-maker contract contracts/amm and the switch that halts it:   *)
(* a pool that trades on its reserves plus a virtual core, with the wide   *)
(* arithmetic and the volatility fee of its swaps; the bitmap of           *)
(* initialized ticks with its searches and the price of a tick; and the    *)
(* halt switch with its multi-signature resume.                            *)
(*                                                                         *)
(* An i128 has 2 * HalfBits bits here, half words included, and a bitmap   *)
(* word WordBits.  The contract's error type has two names in the source   *)
(* (AmmError and ContractError); it is read as one.                        *)
(***************************************************************************)
EXTENDS Integers, Sequences, SequencesExt, FiniteSetsExt, Balances

CONSTANTS
  Users, None,
  Cores,                          \* virtual reserves a pair may be created with
  Amounts, Minimums,              \* asked for by callers
  Wallet,                         \* what a user owns of each token
  HalfBits,                       \* 64
  MaxFeeBps, BpsScale,            \* MAX_DYNAMIC_FEE_BPS, BPS_DENOMINATOR
  FeeConfigs, Sigmas,             \* [f_base, f_scalar]; volatilities
  MinTick, MaxTick, Spacings, MaxTickSpacing, WordBits,
  PowTable,                       \* POW_Q64: the price of tick 2^(i-1) at place i
  PriceOne,                       \* Q64
  SignerLists, Required,          \* lists of signers, in which one may stand twice
  Liquidities, Baseline, DropScale, DropLimit,   \* 1000 and 300
  MaxX                            \* bound: reserve of the first token

I128Max == 2^(2 * HalfBits - 1) - 1

AmmAssumption ==
  /\ Cores \subseteq Int /\ Amounts \subseteq Int /\ Minimums \subseteq Int
  /\ {Wallet, Required, MaxX} \subseteq Nat
  /\ {HalfBits, BpsScale, WordBits, PriceOne, DropScale, DropLimit} \subseteq Nat \ {0}
  /\ MaxFeeBps \in 0..BpsScale
  /\ \A c \in FeeConfigs : c.f_base \in Nat /\ c.f_scalar \in Nat
  /\ Sigmas \subseteq Nat /\ Spacings \subseteq Int
  /\ MinTick \in Int /\ MaxTick \in Int /\ MinTick <= MaxTick
  /\ Liquidities \subseteq Nat /\ Baseline \in Nat

VARIABLES
  pool,      \* the instance storage of the pool, or None before initialize
  held,      \* balances of the two tokens, and of the pool's share token
  words,     \* bitmap words: the set of bits that are set, per position
  spacing,   \* the tick spacing all flips of the bitmap use
  probe,     \* arguments of a call that only computes
  halt       \* the halt switch, with its signers; resumes is history: how often it was lifted

vars == <<pool, held, words, spacing, probe, halt>>

Pool == "pool"

-----------------------------------------------------------------------------
(* Wide arithmetic: virtual_reserves.rs *)

Half == 2^HalfBits

Full == Half * Half

\* An i128 can hold them: the build traps on overflow.
Fits(S) == \A n \in S : n <= I128Max

\* hi and lo of a * b, put together from the products of the half words.
wide_product(a, b) ==
  LET ll == (a % Half) * (b % Half)
      lh == (a % Half) * (b \div Half)
      hl == (a \div Half) * (b % Half)
      hh == (a \div Half) * (b \div Half)
      mid == (lh + hl) % Full
      carry == (lh + hl) \div Full
      low_carry == (ll \div Half + (mid % Half)) \div Half
  IN [hi |-> (hh + mid \div Half + carry * Half + low_carry) % Full,
      lo |-> (ll + mid * Half) % Full]

Wide(v) == v.hi * Full + v.lo

ge(v, w) == v.hi > w.hi \/ (v.hi = w.hi /\ v.lo >= w.lo)

\* Long division, one bit of lo at a time from the highest; None on overflow.
div_256_by_u128(v, d) ==
  IF d = 0 \/ v.hi >= d THEN None
  ELSE LET Bit(i) == (v.lo \div 2^i) % 2
           Step(i, acc) ==
             LET r == ((2 * acc.r) % Full) + Bit(i)
             IN IF r >= d THEN [r |-> r - d, q |-> acc.q + 2^i] ELSE [acc EXCEPT !.r = r]
       IN FoldRight(Step, [i \in 1..2 * HalfBits |-> i - 1], [r |-> v.hi, q |-> 0]).q

wide_mul_div(a, b, d) ==
  LET q == div_256_by_u128(wide_product(a, b), d)
  IN IF d <= 0 THEN None ELSE IF q = None THEN None ELSE IF q > I128Max THEN None ELSE q

-----------------------------------------------------------------------------
(* The pool *)

EffectiveReserves(p) ==
  [x |-> p.x, y |-> p.y, v_x |-> p.vx, v_y |-> p.vy, x_eff |-> p.x + p.vx, y_eff |-> p.y + p.vy]

k_eff(r) == wide_product(r.x_eff, r.y_eff)

\* Bringing amount of the first token: what comes out, or None when refused.
swap_a_to_b(r, amount) ==
  LET out == wide_mul_div(r.y_eff, amount, r.x_eff + amount)
  IN IF amount <= 0 THEN None
     ELSE IF out = None THEN None
     ELSE IF out > r.y \/ r.x_eff + amount > I128Max THEN None
     ELSE [amount_out |-> out, after |-> [r EXCEPT !.x = @ + amount, !.y = @ - out]]

swap_b_to_a(r, amount) ==
  LET out == wide_mul_div(r.x_eff, amount, r.y_eff + amount)
  IN IF amount <= 0 THEN None
     ELSE IF out = None THEN None
     ELSE IF out > r.x \/ r.y_eff + amount > I128Max THEN None
     ELSE [amount_out |-> out, after |-> [r EXCEPT !.x = @ - out, !.y = @ + amount]]

initial_lp_shares(x, y, vx, vy) == Min({x + vx, y + vy})

withdrawable(reserve, core) == IF reserve <= core THEN 0 ELSE reserve - core

assert_withdrawal_allowed(reserve, core, amount) ==
  amount > 0 /\ amount <= withdrawable(reserve, core)

compute_dynamic_fee(config, sigma) == Min({config.f_base + sigma * config.f_scalar, MaxFeeBps})

\* What is left of the amount and what is kept back.
apply_fee_to_amount_in(amount, fee) ==
  LET kept == (amount * fee) \div BpsScale IN [net |-> amount - kept, fee |-> kept]

\* The volatilities a swap may use: the one that was set, or else what the
\* oracle answers, or else none.
VolatilityScalars(p) ==
  IF p.sigma # None THEN {p.sigma} ELSE IF p.oracle THEN Sigmas ELSE {0}

validate_virtual_reserves(vx, vy) == vx > 0 /\ vy > 0

initialize_with_virtual_reserves(vx, vy) ==
  /\ pool = None /\ validate_virtual_reserves(vx, vy)
  /\ pool' = [x |-> 0, y |-> 0, total |-> 0, vx |-> vx, vy |-> vy, fee |-> None,
              oracle |-> FALSE, sigma |-> None]
  /\ UNCHANGED held

\* Anybody may call this and the next one.
set_adaptive_fee_config(config, withOracle) ==
  /\ pool # None /\ config.f_base <= MaxFeeBps
  /\ pool' = [pool EXCEPT !.fee = config, !.oracle = @ \/ withOracle]
  /\ UNCHANGED held

set_volatility_scalar(sigma) ==
  /\ pool # None
  /\ pool' = [pool EXCEPT !.sigma = sigma] /\ UNCHANGED held

\* Mutant: a deposit is paid for the better of its two sides.
DepositTerms_Larger(p, a, b) ==
  IF p.total = 0 THEN [a |-> a, b |-> b, shares |-> initial_lp_shares(a, b, p.vx, p.vy)]
  ELSE IF p.x = 0 \/ p.y = 0 THEN None
  ELSE [a |-> a, b |-> b, shares |-> Max({(a * p.total) \div p.x, (b * p.total) \div p.y})]

\* What is taken of each token and the shares for it, or None when refused: a
\* drained reserve divides by zero.
DepositTerms(p, a, b) ==
  LET r == EffectiveReserves(p)
      required_b == (a * r.y_eff) \div r.x_eff
      optimal_a == (b * r.x_eff) \div r.y_eff
      opt == IF optimal_a <= a THEN [a |-> optimal_a, b |-> b] ELSE [a |-> a, b |-> required_b]
  IN IF p.total = 0
     THEN [a |-> a, b |-> b, shares |-> initial_lp_shares(a, b, p.vx, p.vy)]
     ELSE IF b < required_b \/ p.x = 0 \/ p.y = 0 THEN None
     ELSE IF ~Fits({a * r.y_eff, b * r.x_eff, opt.a * p.total, opt.b * p.total}) THEN None
     ELSE [a |-> opt.a, b |-> opt.b,
           shares |-> Min({(opt.a * p.total) \div p.x, (opt.b * p.total) \div p.y})]

deposit(user, a, b, min_lp_mint) ==
  /\ pool # None /\ a > 0 /\ b > 0
  /\ LET terms == DepositTerms(pool, a, b)
     IN /\ terms # None
        /\ terms.shares >= min_lp_mint
        /\ CanMove(held.a, user, terms.a) /\ CanMove(held.b, user, terms.b)
        /\ held' = [a |-> Move(held.a, user, Pool, terms.a),
                    b |-> Move(held.b, user, Pool, terms.b),
                    lp |-> [held.lp EXCEPT ![user] = @ + terms.shares]]
        /\ pool' = [pool EXCEPT !.x = @ + terms.a, !.y = @ + terms.b, !.total = @ + terms.shares]

\* The product compared before and after is the one before the swap both times:
\* the record with the new reserves keeps the old effective ones.  The fee stays
\* in the pool's balance and is not part of its reserve; the snapshot of the fee
\* that was applied, which only a view reads, is left out.
swap(user, amount, min_amount_out) ==
  /\ pool # None /\ amount > 0 /\ pool.x > 0 /\ pool.y > 0
  /\ \E sigma \in VolatilityScalars(pool) :
       LET fee == IF pool.fee = None THEN 0 ELSE compute_dynamic_fee(pool.fee, sigma)
           before == EffectiveReserves(pool)
           quote == swap_a_to_b(before, apply_fee_to_amount_in(amount, fee).net)
       IN /\ quote # None
          /\ quote.amount_out > 0 /\ quote.amount_out >= min_amount_out
          /\ ge(k_eff(quote.after), k_eff(before))
          /\ CanMove(held.a, user, amount)
          /\ held' = [held EXCEPT !.a = Move(@, user, Pool, amount),
                                  !.b = Move(@, Pool, user, quote.amount_out)]
          /\ pool' = [pool EXCEPT !.x = quote.after.x, !.y = quote.after.y]

remove_liquidity(user, shares, min_amount_a, min_amount_b) ==
  /\ pool # None /\ shares > 0 /\ pool.total > 0 /\ shares <= pool.total
  /\ LET amount_a == (shares * pool.x) \div pool.total
         amount_b == (shares * pool.y) \div pool.total
     IN /\ Fits({shares * pool.x, shares * pool.y})
        /\ assert_withdrawal_allowed(pool.x, pool.vx, amount_a)
        /\ assert_withdrawal_allowed(pool.y, pool.vy, amount_b)
        /\ amount_a >= min_amount_a /\ amount_b >= min_amount_b
        /\ held.lp[user] >= shares
        /\ held' = [a |-> Move(held.a, Pool, user, amount_a),
                    b |-> Move(held.b, Pool, user, amount_b),
                    lp |-> [held.lp EXCEPT ![user] = @ - shares]]
        /\ pool' = [pool EXCEPT !.x = @ - amount_a, !.y = @ - amount_b, !.total = @ - shares]

PoolNext ==
  /\ \/ \E vx, vy \in Cores : initialize_with_virtual_reserves(vx, vy)
     \/ \E c \in FeeConfigs, o \in BOOLEAN : set_adaptive_fee_config(c, o)
     \/ \E s \in Sigmas : set_volatility_scalar(s)
     \/ \E u \in Users, a, b \in Amounts, m \in Minimums : deposit(u, a, b, m)
     \/ \E u \in Users, a \in Amounts, m \in Minimums : swap(u, a, m)
     \/ \E u \in Users, s \in Amounts, m, n \in Minimums : remove_liquidity(u, s, m, n)
  /\ (pool' # None => pool'.x <= MaxX)
  /\ UNCHANGED <<words, spacing, probe, halt>>

-----------------------------------------------------------------------------
(* The tick bitmap: tick_bitmap.rs *)

check_tick(tick) == tick \in MinTick..MaxTick

check_spacing(s) == s > 0 /\ s <= MaxTickSpacing

\* Division that rounds towards zero, as Rust's does.
Quotient(n, d) == IF n >= 0 THEN n \div d ELSE -((-n) \div d)

min_usable_tick(s) == Quotient(MinTick, s) * s

max_usable_tick(s) == Quotient(MaxTick, s) * s

\* The word of a compressed tick and its bit there.
position(c) == [word |-> c \div WordBits, bit |-> c % WordBits]

load_word(w) == IF w \in DOMAIN words THEN words[w] ELSE {}

\* An empty word is removed.
store_word(w, bits) ==
  IF bits = {} THEN [p \in DOMAIN words \ {w} |-> words[p]]
  ELSE [p \in DOMAIN words \cup {w} |-> IF p = w THEN bits ELSE words[p]]

flip_tick(tick) ==
  /\ check_spacing(spacing) /\ check_tick(tick) /\ tick % spacing = 0
  /\ LET at == position(tick \div spacing)
         bits == load_word(at.word)
     IN words' = store_word(at.word, IF at.bit \in bits THEN bits \ {at.bit} ELSE bits \cup {at.bit})
  /\ UNCHANGED <<pool, held, spacing, probe, halt>>

is_initialized(tick) ==
  /\ tick % spacing = 0
  /\ LET at == position(tick \div spacing) IN at.bit \in load_word(at.word)

next_initialized_tick_within_one_word(tick, lte) ==
  LET compressed == tick \div spacing
      at == position(IF lte THEN compressed ELSE compressed + 1)
      masked == {b \in load_word(at.word) : IF lte THEN b <= at.bit ELSE b >= at.bit}
      Tick(bit) == (at.word * WordBits + bit) * spacing
      edge == Tick(IF lte THEN 0 ELSE WordBits - 1)
  IN IF masked # {} THEN <<Tick(IF lte THEN Max(masked) ELSE Min(masked)), TRUE>>
     ELSE <<Min({Max({edge, min_usable_tick(spacing)}), max_usable_tick(spacing)}), FALSE>>

\* The search over up to max_words words, from the cursor on.
RECURSIVE next_initialized_tick(_, _, _)
next_initialized_tick(tick, lte, max_words) ==
  LET found == next_initialized_tick_within_one_word(tick, lte)
      last == IF lte THEN found[1] <= min_usable_tick(spacing) ELSE found[1] >= max_usable_tick(spacing)
  IN IF found[2] THEN found
     ELSE IF last
     THEN <<IF lte THEN min_usable_tick(spacing) ELSE max_usable_tick(spacing), FALSE>>
     ELSE IF max_words <= 1 THEN found
     ELSE next_initialized_tick(IF lte THEN found[1] - 1 ELSE found[1], lte, max_words - 1)

mul_q64(a, b) == LET p == (a * b) \div PriceOne IN IF p >= PriceOne * PriceOne THEN None ELSE p

\* The price of a tick: the powers of its binary digits multiplied, and the
\* inverse for a tick below zero.
tick_to_price_q64(tick) ==
  LET magnitude == IF tick < 0 THEN -tick ELSE tick
      Digit(k) == (magnitude \div 2^(k - 1)) % 2 = 1
      price == FoldLeftDomain(LAMBDA p, k : IF p = None THEN None
                                            ELSE IF Digit(k) THEN mul_q64(p, PowTable[k]) ELSE p,
                              PriceOne, PowTable)
  IN IF price = None THEN None ELSE IF tick < 0 THEN (PriceOne * PriceOne - 1) \div price ELSE price

\* The binary search for the highest tick whose price is not above.
RECURSIVE TickSearch(_, _, _)
TickSearch(price, lo, hi) ==
  LET mid == lo + (hi - lo + 1) \div 2
  IN IF lo >= hi THEN lo
     ELSE IF tick_to_price_q64(mid) <= price THEN TickSearch(price, mid, hi)
     ELSE TickSearch(price, lo, mid - 1)

price_q64_to_tick(price) ==
  IF price < tick_to_price_q64(MinTick) \/ price > tick_to_price_q64(MaxTick) THEN None
  ELSE TickSearch(price, MinTick, MaxTick)

assert_tick_price_bounds(tick, price) ==
  IF tick = MaxTick THEN price = tick_to_price_q64(tick)
  ELSE tick_to_price_q64(tick) <= price /\ price < tick_to_price_q64(tick + 1)

BitmapNext == \E t \in MinTick - 1..MaxTick + 1 : flip_tick(t)

\* A call that only computes: its arguments are chosen.
ComputeNext ==
  /\ \E a, b, d \in 0..I128Max : probe' = [a |-> a, b |-> b, d |-> d]
  /\ probe.d = 0
  /\ UNCHANGED <<pool, held, words, spacing, halt>>

-----------------------------------------------------------------------------
(* The halt switch: amm_halt_switch *)

\* A fall is measured in whole thousandths of the former liquidity.
LiquidityDropped(prev, current) ==
  prev > 0 /\ prev - current > 0 /\ ((prev - current) * DropScale) \div prev > DropLimit

\* Anybody reports; the report is the next comparison's baseline.
update_liquidity(current) ==
  /\ halt' = [halt EXCEPT !.prev = current, !.paused = @ \/ LiquidityDropped(halt.prev, current)]
  /\ UNCHANGED <<pool, held, words, spacing, probe>>

\* The entries of the list of signers that stand for one of these.
EntriesOf(approvals) == Cardinality({i \in DOMAIN halt.signers : halt.signers[i] \in approvals})

\* Who is listed twice counts twice.  An approval is never taken back, nor spent
\* by the resume it brings about.
approve_resume(signer) ==
  /\ signer \in Range(halt.signers) /\ signer \notin halt.approvals
  /\ LET approvals == halt.approvals \cup {signer}
         resume == EntriesOf(approvals) >= Required
     IN halt' = [halt EXCEPT !.approvals = approvals, !.paused = @ /\ ~resume,
                             !.resumes = IF halt.paused /\ resume THEN @ + 1 ELSE @]
  /\ UNCHANGED <<pool, held, words, spacing, probe>>

HaltNext ==
  \/ \E n \in Liquidities : update_liquidity(n)
  \/ \E s \in Users \cup Range(halt.signers) : approve_resume(s)

-----------------------------------------------------------------------------

Init ==
  /\ pool = None
  /\ held = [a |-> [u \in Users \cup {Pool} |-> IF u = Pool THEN 0 ELSE Wallet],
             b |-> [u \in Users \cup {Pool} |-> IF u = Pool THEN 0 ELSE Wallet],
             lp |-> [u \in Users |-> 0]]
  /\ words = <<>> /\ spacing \in Spacings
  /\ probe = [a |-> 0, b |-> 0, d |-> 0]
  /\ \E list \in SignerLists :
       halt = [paused |-> FALSE, prev |-> Baseline, signers |-> list, approvals |-> {}, resumes |-> 0]

\* Every storage entry of the pool, the bitmap and the switch is well formed.
TypeOK ==
  /\ pool # None =>
       /\ {pool.x, pool.y, pool.total} \subseteq 0..I128Max /\ {pool.vx, pool.vy} \subseteq Cores
       /\ pool.fee \in FeeConfigs \cup {None} /\ pool.sigma \in Sigmas \cup {None}
  /\ \A t \in {"a", "b"} : held[t] \in [Users \cup {Pool} -> Nat]
  /\ held.lp \in [Users -> Nat]
  /\ \A w \in DOMAIN words : words[w] # {} /\ words[w] \subseteq 0..WordBits - 1
  /\ halt.paused \in BOOLEAN /\ halt.approvals \subseteq Range(halt.signers) /\ halt.prev \in Nat

\* The pool holds at least the reserves it records, of the second token exactly
\* them, and the shares users hold are the shares it counts.
ReservesAreHeld ==
  pool # None =>
    /\ held.a[Pool] >= pool.x /\ held.b[Pool] = pool.y
    /\ FoldSet(LAMBDA u, n : held.lp[u] + n, 0, Users) = pool.total

\* The products that the wide arithmetic divides are exact, and so is the
\* division, whatever the operands.
WideArithmeticExact ==
  LET p == wide_product(probe.a, probe.b)
  IN /\ Wide(p) = probe.a * probe.b
     /\ ge(p, wide_product(probe.b, probe.d)) <=> probe.a * probe.b >= probe.b * probe.d
     /\ LET q == wide_mul_div(probe.a, probe.b, probe.d)
        IN IF probe.d = 0 \/ (probe.a * probe.b) \div probe.d > I128Max THEN q = None
           ELSE q = (probe.a * probe.b) \div probe.d

\* What a swap pays back in kind never exceeds what was brought, in either
\* direction, and neither direction lowers the effective product.
RoundTripsPay ==
  (pool # None /\ pool.x + pool.vx < I128Max - 2) =>
    \A n \in Amounts :
      LET r == EffectiveReserves(pool)
          there == swap_a_to_b(r, n)
      IN there # None =>
           LET mid == EffectiveReserves([pool EXCEPT !.x = there.after.x, !.y = there.after.y])
               back == swap_b_to_a(mid, there.amount_out)
           IN /\ mid.x_eff * mid.y_eff >= r.x_eff * r.y_eff
              /\ back # None => back.amount_out <= n

\* A swap may pay the second token out of the core the pool stands on, which the
\* documentation of the core rules out; no other step takes a reserve below it,
\* and none the first.  No step lowers what a share stands for, and a pool whose
\* second token was bought out is never traded or left again.
CoreIsKept ==
  [][pool # None =>
       /\ (pool.y >= pool.vy /\ pool'.y < pool.vy) => pool'.x > pool.x /\ pool'.total = pool.total
       /\ (pool.x >= pool.vx => pool'.x >= pool.vx)
       /\ (pool.total > 0 /\ pool.y = 0) =>
            <<pool'.x, pool'.y, pool'.total>> = <<pool.x, pool.y, pool.total>>
       /\ (pool.total > 0 /\ pool'.total # pool.total) =>
            /\ pool'.x * pool.total >= pool.x * pool'.total
            /\ pool'.y * pool.total >= pool.y * pool'.total]_vars

\* What a swap keeps back stays in the pool's balance and is no more than the cap,
\* whatever base, scalar and volatility anybody set.
FeeIsCapped ==
  [][(pool # None /\ pool'.x > pool.x /\ pool'.total = pool.total) =>
       LET brought == held'.a[Pool] - held.a[Pool]
           kept == brought - (pool'.x - pool.x)
       IN kept >= 0 /\ kept * BpsScale <= brought * MaxFeeBps]_vars

\* The ticks whose bit is set.
Initialized == {t \in MinTick..MaxTick : is_initialized(t)}

\* The bitmap search finds the nearest initialized tick on its side, and when it
\* says there is none within the words it looked at, there is none up to the tick
\* it names.
SearchFindsNearest ==
  \A t \in min_usable_tick(spacing)..max_usable_tick(spacing), lte \in BOOLEAN, n \in {1, 2, 9} :
    LET found == next_initialized_tick(t, lte, n)
        side == {u \in Initialized : IF lte THEN u <= t ELSE u > t}
    IN IF found[2]
       THEN found[1] = (IF lte THEN Max(side) ELSE Min(side))
       ELSE /\ \A u \in side : IF lte THEN u < found[1] ELSE u > found[1]
            /\ n = 9 => side = {}

\* The price search inverts the price of a tick, and prices rise with ticks.
PricesInvert ==
  /\ \A t \in MinTick..MaxTick - 1 : tick_to_price_q64(t) < tick_to_price_q64(t + 1)
  /\ \A p \in 0..PriceOne * PriceOne :
       LET t == price_q64_to_tick(p)
       IN IF t = None THEN p < tick_to_price_q64(MinTick) \/ p > tick_to_price_q64(MaxTick)
          ELSE assert_tick_price_bounds(t, p)

\* A fall of at least a thousandth more than the limit leaves the switch halted
\* (one in between, which the documentation counts as well, need not).  Approvals
\* lift a halt when as many entries of the list as required stand for accounts
\* that approved, now or for an earlier halt; since nobody approves twice, halts
\* are lifted at most as often as entries are left over, and one that comes when
\* all signers have approved is never lifted.
HaltsAreLiftedByQuorum ==
  /\ [](halt.resumes <= Max({0, EntriesOf(halt.approvals) - Required + 1}))
  /\ [][/\ (halt'.prev # halt.prev /\ halt.prev > 0
            /\ (halt.prev - halt'.prev) * DropScale >= (DropLimit + 1) * halt.prev) => halt'.paused
        /\ (halt.paused /\ halt.approvals = Range(halt.signers)) => halt'.paused]_vars
=============================================================================
