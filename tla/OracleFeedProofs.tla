-------------------------- MODULE OracleFeedProofs --------------------------
(***************************************************************************)
(* Proofs about the price feed, for any assets, administrators, delegates, *)
(* prices, limits and ledgers: what is served beside a price follows the   *)
(* prices that were written, whoever writes one was assigned, and the      *)
(* quorum of three sources is only ever met by being bypassed.             *)
(***************************************************************************)
EXTENDS OracleFeed, FiniteSetTheorems, SequenceTheorems, TLAPS

\* Keeping every position keeps the samples.
LEMMA PickAll ==
  ASSUME NEW S, NEW w \in Seq(S), NEW keep, \A i \in DOMAIN w : i \in keep
  PROVE  Pick(w, keep) = w
<1> DEFINE n == Len(w)
           Next1(g) == [i \in 0..n |-> IF i = 0 THEN <<>>
                                       ELSE IF i \in keep THEN Append(g[i - 1], w[i]) ELSE g[i - 1]]
           h == [i \in 0..n |-> SubSeq(w, 1, i)]
           g == CHOOSE f : f = Next1(f)
<1>0. n \in Nat /\ DOMAIN w = 1..n
  OBVIOUS
<1>1. Pick(w, keep) = g[n]
  BY DEF Pick
<1>2. ASSUME NEW i \in 1..n
      PROVE  SubSeq(w, 1, i) = Append(SubSeq(w, 1, i - 1), w[i])
  <2>1. SubSeq(w, 1, i) \in Seq(S) /\ Len(SubSeq(w, 1, i)) = i
        /\ \A j \in 1..i : SubSeq(w, 1, i)[j] = w[j]
    BY <1>0
  <2>2. SubSeq(w, 1, i - 1) \in Seq(S) /\ Len(SubSeq(w, 1, i - 1)) = i - 1
        /\ \A j \in 1..(i - 1) : SubSeq(w, 1, i - 1)[j] = w[j]
    BY <1>0
  <2> DEFINE a == SubSeq(w, 1, i - 1)
             b == SubSeq(w, 1, i)
  <2> HIDE DEF a, b
  <2>3. w[i] \in S
    BY <1>0
  <2>4. Append(a, w[i]) \in Seq(S) /\ Len(Append(a, w[i])) = i
        /\ \A j \in 1..i : Append(a, w[i])[j] = w[j]
    BY <1>0, <2>2, <2>3 DEF a
  <2>5. b \in Seq(S) /\ Len(b) = i /\ \A j \in 1..i : b[j] = Append(a, w[i])[j]
    BY <2>1, <2>4 DEF b
  <2> QED
    BY <2>4, <2>5, SeqEqual DEF a, b
<1>3. h = Next1(h)
  <2>1. SubSeq(w, 1, 0) = <<>>
    BY <1>0, SubSeqEmpty
  <2>2. \A i \in 0..n : h[i] = Next1(h)[i]
    <3> SUFFICES ASSUME NEW i \in 0..n PROVE h[i] = Next1(h)[i]
      OBVIOUS
    <3>1. CASE i = 0
      BY <2>1, <3>1
    <3>2. CASE i # 0
      <4>1. i \in 1..n /\ i - 1 \in 0..n /\ i \in keep
        BY <1>0, <3>2
      <4> QED
        BY <1>2, <3>2, <4>1
    <3> QED
      BY <3>1, <3>2
  <2> QED
    BY <2>2
<1>4. g = Next1(g)
  BY <1>3
<1> HIDE DEF g
<1>5. \A i \in 0..n : g[i] = SubSeq(w, 1, i)
  <2> DEFINE B == {i \in 0..n : g[i] # SubSeq(w, 1, i)}
  <2> SUFFICES ASSUME B # {} PROVE FALSE
    OBVIOUS
  <2>1. PICK i \in B : \A m \in Nat : m < i => m \notin B
    <3>1. B \in SUBSET Nat
      BY <1>0
    <3> HIDE DEF B
    <3> QED
      BY <3>1, LeastNat
  <2>2. CASE i = 0
    <3>1. g[0] = <<>> /\ SubSeq(w, 1, 0) = <<>>
      BY <1>0, <1>4, SubSeqEmpty
    <3> QED
      BY <2>2, <3>1
  <2>3. CASE i # 0
    <3>1. i \in 1..n /\ i - 1 \in 0..n /\ i \in keep /\ i - 1 < i /\ i - 1 \in Nat
      BY <1>0, <2>3
    <3>2. g[i - 1] = SubSeq(w, 1, i - 1)
      BY <2>1, <3>1
    <3>3. g[i] = Append(g[i - 1], w[i])
      BY <1>4, <2>3, <3>1
    <3> QED
      BY <1>2, <3>1, <3>2, <3>3
  <2> QED
    BY <2>2, <2>3
<1> QED
  BY <1>0, <1>1, <1>5, SubSeqFull

\* The largest and smallest of two.
LEMMA MaxOfTwo ==
  ASSUME NEW x \in Int, NEW y \in Int
  PROVE  Max({x, y}) \in Int /\ Max({x, y}) >= x /\ Max({x, y}) >= y
         /\ Max({x, y}) = (IF x >= y THEN x ELSE y)
<1>1. \A z : z \in {x, y} /\ (\A v \in {x, y} : z >= v) <=> z = IF x >= y THEN x ELSE y
  OBVIOUS
<1> QED
  BY <1>1 DEF Max

LEMMA MinOfTwo ==
  ASSUME NEW x \in Int, NEW y \in Int
  PROVE  Min({x, y}) \in Int /\ Min({x, y}) <= x /\ Min({x, y}) <= y
         /\ Min({x, y}) = (IF x <= y THEN x ELSE y)
<1>1. \A z : z \in {x, y} /\ (\A v \in {x, y} : z <= v) <=> z = IF x <= y THEN x ELSE y
  OBVIOUS
<1> QED
  BY <1>1 DEF Min

\* The exponential average stays between its arguments, rounding included.
LEMMA AverageBetween ==
  ASSUME NEW lo \in Int, NEW hi \in Int, NEW p \in lo..hi, NEW v \in lo..hi
  PROVE  (p * 15 + v * 85) \div 100 \in lo..hi
OBVIOUS

\* The median of a single submission is its price.
LEMMA MedianOfOne ==
  ASSUME NEW e, e.price \in Int
  PROVE  calculate_median(<<e>>) = e.price
<1> DEFINE b == <<e>>
           p == e.price
<1>1. Len(b) = 1 /\ DOMAIN b = {1} /\ b[1] = e
  OBVIOUS
<1> HIDE DEF b
<1>2. {b[i].price : i \in DOMAIN b} = {p}
  BY <1>1
<1>3. {i \in DOMAIN b : b[i].price < p} = {} /\ {i \in DOMAIN b : b[i].price <= p} = {1}
  BY <1>1
<1>4. Cardinality({}) = 0 /\ Cardinality({1}) = 1
  BY FS_EmptySet, FS_Singleton
<1>5. Ranked(b, 1) = p
  <2> DEFINE Fits(x) == /\ Cardinality({i \in DOMAIN b : b[i].price < x}) < 1
                        /\ Cardinality({i \in DOMAIN b : b[i].price <= x}) >= 1
  <2>1. Fits(p)
    BY <1>3, <1>4
  <2>2. Ranked(b, 1) = CHOOSE x \in {p} : Fits(x)
    BY <1>2 DEF Ranked
  <2> HIDE DEF Fits
  <2> QED
    BY <2>1, <2>2
<1>6. 1 % 2 = 1 /\ 1 \div 2 + 1 = 1
  OBVIOUS
<1> QED
  BY <1>1, <1>5, <1>6 DEF calculate_median, b

-----------------------------------------------------------------------------
(***************************************************************************)
(* The window and the guard.                                               *)
(***************************************************************************)

\* The newest PRICE_WINDOW_LEDGERS samples.
Start(n) == IF n > PRICE_WINDOW_LEDGERS THEN n - PRICE_WINDOW_LEDGERS ELSE 0

Trim(w) == SubSeq(w, Start(Len(w)) + 1, Len(w))

LEMMA TrimFacts ==
  ASSUME NEW w \in Seq(Sample), NEW s \in Sample
  PROVE  /\ Trim(Append(w, s)) \in Seq(Sample) /\ Len(Trim(Append(w, s))) \in Nat \ {0}
         /\ Last(Trim(Append(w, s))) = s
         /\ \A i \in DOMAIN Trim(Append(w, s)) :
              Trim(Append(w, s))[i] = s \/ \E j \in DOMAIN w : Trim(Append(w, s))[i] = w[j]
         /\ Continues(Trim(Append(w, s)), w)
<1> DEFINE all == Append(w, s)
           n == Len(w)
           m == Start(n + 1) + 1
<1>1. /\ n \in Nat /\ DOMAIN w = 1..n /\ all \in Seq(Sample) /\ Len(all) = n + 1
      /\ all[n + 1] = s /\ \A i \in 1..n : all[i] = w[i]
  OBVIOUS
<1>2. /\ PRICE_WINDOW_LEDGERS \in Nat \ {0} /\ m \in Int
      /\ m = IF n + 1 > PRICE_WINDOW_LEDGERS THEN n + 2 - PRICE_WINDOW_LEDGERS ELSE 1
  BY <1>1, OracleFeedAssumption DEF Start
<1>3. Trim(all) = SubSeq(all, m, n + 1)
  BY <1>1 DEF Trim
<1>4. m \in 1..(n + 1)
  BY <1>1, <1>2
<1> HIDE DEF all, m
<1> DEFINE t == SubSeq(all, m, n + 1)
<1>5. /\ t \in Seq(Sample) /\ Len(t) = n + 1 - m + 1
      /\ \A i \in 1..(n + 1 - m + 1) : t[i] = all[m + i - 1]
  BY <1>1, <1>4, SubSeqProperties
<1> HIDE DEF t
<1>6. Len(t) \in Nat \ {0} /\ DOMAIN t = 1..Len(t)
  BY <1>1, <1>4, <1>5
<1>7. Last(t) = s
  BY <1>1, <1>4, <1>5, <1>6 DEF Last
<1>8. \A i \in DOMAIN t : t[i] = s \/ \E j \in DOMAIN w : t[i] = w[j]
  <2> SUFFICES ASSUME NEW i \in DOMAIN t PROVE t[i] = s \/ \E j \in DOMAIN w : t[i] = w[j]
    OBVIOUS
  <2>1. i \in 1..(n + 1 - m + 1) /\ m + i - 1 \in 1..(n + 1)
    BY <1>1, <1>4, <1>5, <1>6
  <2>2. t[i] = all[m + i - 1]
    BY <1>5, <2>1
  <2>3. CASE m + i - 1 = n + 1
    BY <1>1, <2>2, <2>3
  <2>4. CASE m + i - 1 # n + 1
    BY <1>1, <2>1, <2>2, <2>4
  <2> QED
    BY <2>3, <2>4
<1>9. Continues(t, w)
  <2>1. Len(t) = n + 2 - m
    BY <1>1, <1>2, <1>5
  <2>2. Len(t) = IF n < PRICE_WINDOW_LEDGERS THEN n + 1 ELSE PRICE_WINDOW_LEDGERS
    <3> DEFINE k == Len(t)
               c == PRICE_WINDOW_LEDGERS
    <3>1. /\ n \in Nat /\ c \in Nat \ {0} /\ k = n + 2 - m
          /\ m = IF n + 1 > c THEN n + 2 - c ELSE 1
      BY <1>1, <1>2, <2>1
    <3> HIDE DEF k, c, n
    <3>2. k = IF n < c THEN n + 1 ELSE c
      BY <3>1
    <3> QED
      BY <3>2 DEF k, c, n
  <2>3. ASSUME NEW i \in 1..(Len(t) - 1)
        PROVE  t[i] = w[n + 1 - Len(t) + i]
    <3>1. i \in 1..(n + 1 - m + 1) /\ m + i - 1 \in 1..n /\ m + i - 1 = n + 1 - Len(t) + i
      BY <1>1, <1>4, <2>1
    <3>2. t[i] = all[m + i - 1] /\ all[m + i - 1] = w[m + i - 1]
      BY <1>1, <1>5, <3>1
    <3> QED
      BY <3>1, <3>2
  <2> QED
    BY <2>2, <2>3 DEF Continues
<1> QED
  BY <1>3, <1>5, <1>6, <1>7, <1>8, <1>9 DEF all, t

LEMMA AveragePositive ==
  ASSUME NEW w \in Seq(Sample), w # <<>>, \A i \in DOMAIN w : w[i].price > 0
  PROVE  Average(w) \in Nat /\ Average(w) > 0
<1> DEFINE f == [i \in DOMAIN w |-> w[i].price]
           n == Len(w)
<1>1. n \in Nat \ {0} /\ DOMAIN w = 1..n /\ \A i \in DOMAIN w : w[i] \in Sample
  OBVIOUS
<1>2. \A i \in DOMAIN w : f[i] \in Nat /\ f[i] >= 1
  BY <1>1 DEF Sample
<1>3. IsFiniteSet(DOMAIN w) /\ Cardinality(DOMAIN w) = n
  BY <1>1, FS_Interval
<1> HIDE DEF f
<1> DEFINE x == SumOf(f, DOMAIN w)
<1>4. x \in Nat /\ x >= n
  BY <1>2, <1>3, SumNat, SumAtLeast
<1>5. Average(w) = x \div n
  BY DEF Average, f
<1> HIDE DEF x, n
<1> QED
  BY <1>1, <1>4, <1>5

-----------------------------------------------------------------------------

\* What is true of one asset in ledger l, with verified price v, buffer b, average
\* e over span sp, window w, guard t and its history j.  Beyond what is to be shown: samples are
\* positive and not of a later ledger, and a sample or a submission of this ledger
\* means that the verified price, if there is one, was written in it too.
AssetGood(l, v, b, e, sp, w, t, j) ==
  /\ e # None => sp # None /\ e.value \in sp.lo..sp.hi
  /\ v # None /\ v.price # 0 /\ w # <<>> => Last(w) = [ledger |-> v.ledger, price |-> v.price]
  /\ w # <<>> => Continues(w, j.past)
  /\ w = <<>> => j.past = <<>>
  /\ j.past = <<>> => t = j.left
  /\ j.past # <<>> => t = (calculate_percentage_difference_bps(Average(j.past), Last(w).price)
                            > PRICE_IMPACT_THRESHOLD_BPS)
  /\ \A i \in DOMAIN w : /\ w[i].price > 0 /\ w[i].ledger <= l
                         /\ w[i].ledger = l => v = None \/ v.ledger = l
  /\ Len(b) <= 1
  /\ b # <<>> /\ v # None => v.ledger = l /\ (v.price # 0 => v.price = b[1].price)

FeedInv ==
  /\ TypeOK /\ ProvidersAreAssigned
  /\ \A a \in Assets :
       AssetGood(ledger, verified[a], buffer[a], ema[a], span[a], window[a], tripped[a], judged[a])

LEMMA FeedInvFaithful == FeedInv => FeedIsFaithful
<1> SUFFICES ASSUME FeedInv PROVE FeedIsFaithful
  OBVIOUS
<1>1. AverageWithinSpan
  BY DEF FeedInv, AssetGood, AverageWithinSpan
<1>2. WindowEndsWithPrice
  BY DEF FeedInv, AssetGood, WindowEndsWithPrice
<1>3. GuardMatchesWindow
  BY DEF FeedInv, AssetGood, GuardMatchesWindow
<1>4. OneSourcePerLedger
  BY DEF FeedInv, AssetGood, OneSourcePerLedger
<1> QED
  BY <1>1, <1>2, <1>3, <1>4
  DEF FeedInv, FeedIsFaithful, AveragesFollowPrices, SourcesAreKnown

\* A write of a price p that the averages and the guard accept leaves the asset
\* good.
LEMMA RecordKeepsGood ==
  ASSUME TypeOK, NEW a \in Assets, NEW p \in Nat, p > 0,
         AssetGood(ledger, verified[a], buffer[a], ema[a], span[a], window[a], tripped[a], judged[a]),
         verified[a] # None, ledger > verified[a].ledger,
         RecordPrice(a, p), ledger' = ledger,
         verified'[a] # None, verified'[a].price = p, verified'[a].ledger = ledger,
         Len(buffer'[a]) <= 1, buffer'[a] # <<>> => buffer'[a][1].price = p
  PROVE  /\ AssetGood(ledger', verified'[a], buffer'[a], ema'[a], span'[a], window'[a], tripped'[a], judged'[a])
         /\ ema' \in [Assets -> [value : Int, ledger : Nat] \union {None}]
         /\ span' \in [Assets -> Span \union {None}]
         /\ window' \in [Assets -> Seq(Sample)] /\ tripped' \in [Assets -> BOOLEAN]
         /\ judged' \in [Assets -> Verdict]
         /\ \A c \in Assets : c # a => /\ ema'[c] = ema[c] /\ span'[c] = span[c]
                                       /\ window'[c] = window[c] /\ tripped'[c] = tripped[c]
                                       /\ judged'[c] = judged[c]
<1> DEFINE w == window[a]
           smp == [ledger |-> ledger, price |-> p]
           e == ema[a]
<1>1. /\ ledger \in Nat /\ w \in Seq(Sample) /\ verified[a].ledger \in Nat
      /\ e \in [value : Int, ledger : Nat] \union {None} /\ span[a] \in Span \union {None}
      /\ ema \in [Assets -> [value : Int, ledger : Nat] \union {None}]
      /\ span \in [Assets -> Span \union {None}]
      /\ window \in [Assets -> Seq(Sample)] /\ tripped \in [Assets -> BOOLEAN]
      /\ judged \in [Assets -> Verdict]
  BY OracleFeedAssumption DEF TypeOK
<1>2. \A i \in DOMAIN w : w[i] \in Sample /\ w[i].price > 0 /\ w[i].ledger < ledger
  <2>1. \A i \in DOMAIN w : w[i] \in Sample
    BY <1>1
  <2>2. \A i \in DOMAIN w : /\ w[i].price > 0 /\ w[i].ledger <= ledger /\ w[i].ledger # ledger
    BY <1>1 DEF AssetGood
  <2> QED
    BY <1>1, <2>1, <2>2 DEF Sample
<1>3. trailing_samples(a) = w
  <2> DEFINE keep == {i \in DOMAIN w : w[i].ledger < ledger}
  <2>1. \A i \in DOMAIN w : i \in keep
    BY <1>2
  <2> HIDE DEF keep
  <2>2. Pick(w, keep) = w
    BY <1>1, <2>1, PickAll
  <2> QED
    BY <2>2 DEF trailing_samples, keep
<1>4. write_sample(a, p) = Trim(Append(w, smp))
  <2> DEFINE keep == {i \in DOMAIN w : w[i].ledger # ledger}
  <2>1. \A i \in DOMAIN w : i \in keep
    BY <1>1, <1>2 DEF Sample
  <2> HIDE DEF keep
  <2>2. Pick(w, keep) = w
    BY <1>1, <2>1, PickAll
  <2> QED
    BY <2>2 DEF write_sample, Trim, Start, keep
<1>5. smp \in Sample /\ smp.price = p /\ smp.ledger = ledger
  BY <1>1 DEF Sample
<1> HIDE DEF w, smp
<1> DEFINE u == Trim(Append(w, smp))
<1>6. /\ u \in Seq(Sample) /\ Len(u) \in Nat \ {0} /\ Last(u) = smp
      /\ \A i \in DOMAIN u : u[i] = smp \/ \E j \in DOMAIN w : u[i] = w[j]
      /\ Continues(u, w)
  BY <1>1, <1>5, TrimFacts
<1> HIDE DEF u
<1>7. /\ update_twap(a, p) # None
      /\ ema' = [ema EXCEPT ![a] = [value |-> update_twap(a, p), ledger |-> ledger]]
      /\ tripped' = [tripped EXCEPT ![a] = evaluate(a, p)]
      /\ window' = [window EXCEPT ![a] = u]
      /\ span' = [span EXCEPT ![a] = Widen(span[a], p)]
      /\ judged' = [judged EXCEPT ![a] = IF w = <<>> THEN judged[a]
                                         ELSE [past |-> w, left |-> FALSE]]
  BY <1>4 DEF RecordPrice, u, w
<1>8. window' \in [Assets -> Seq(Sample)] /\ window'[a] = u
  BY <1>1, <1>6, <1>7
<1>9. evaluate(a, p) \in BOOLEAN
  <2>1. tripped[a] \in BOOLEAN
    BY <1>1
  <2>2. \A x, y : (x > y) \in BOOLEAN
    OBVIOUS
  <2> QED
    BY <2>1, <2>2, Zenon DEF evaluate
<1>10. tripped' \in [Assets -> BOOLEAN] /\ tripped'[a] = evaluate(a, p)
  BY <1>1, <1>7, <1>9
<1>11. w # <<>> => evaluate(a, p) =
         (calculate_percentage_difference_bps(Average(w), p) > PRICE_IMPACT_THRESHOLD_BPS)
  <2>1. w # <<>> => Average(w) \in Nat /\ Average(w) > 0
    BY <1>1, <1>2, AveragePositive DEF w
  <2>2. w # <<>> => ~ (Average(w) <= 0)
    BY <2>1
  <2> QED
    BY <1>3, <2>2, Zenon DEF evaluate
<1> DEFINE sp == Widen(span[a], p)
<1>12. /\ sp \in Span /\ sp.lo \in Int /\ sp.hi \in Int /\ p \in sp.lo..sp.hi
       /\ span[a] # None => sp.lo <= span[a].lo /\ sp.hi >= span[a].hi
  <2>1. CASE span[a] = None
    BY <2>1 DEF Widen, Span
  <2>2. CASE span[a] # None
    <3>1. span[a].lo \in Int /\ span[a].hi \in Int
      BY <1>1, <2>2 DEF Span
    <3>2. sp = [lo |-> Min({span[a].lo, p}), hi |-> Max({span[a].hi, p})]
      BY <2>2 DEF Widen
    <3>3. /\ Min({span[a].lo, p}) \in Int /\ Min({span[a].lo, p}) <= span[a].lo /\ Min({span[a].lo, p}) <= p
          /\ Max({span[a].hi, p}) \in Int /\ Max({span[a].hi, p}) >= span[a].hi /\ Max({span[a].hi, p}) >= p
      <4>1. p \in Int
        OBVIOUS
      <4> QED
        BY <3>1, <4>1, MaxOfTwo, MinOfTwo
    <3> QED
      BY <3>1, <3>2, <3>3 DEF Span
  <2> QED
    BY <2>1, <2>2
<1> HIDE DEF sp
<1>13. update_twap(a, p) \in sp.lo..sp.hi
  <2>1. CASE e = None
    BY <1>12, <2>1 DEF update_twap
  <2>2. CASE e # None
    <3>1. e.value \in Int /\ span[a] # None /\ e.value \in span[a].lo..span[a].hi
      BY <1>1, <2>2 DEF AssetGood
    <3>2. span[a].lo \in Int /\ span[a].hi \in Int
      BY <1>1, <3>1 DEF Span
    <3>3. e.value \in sp.lo..sp.hi
      BY <1>12, <3>1, <3>2
    <3>4. (p * 15 + e.value * 85) \div 100 \in sp.lo..sp.hi
      BY <1>12, <3>3, AverageBetween
    <3>5. update_twap(a, p) = (p * 15 + e.value * 85) \div 100
      BY <1>7, <2>2 DEF update_twap
    <3> QED
      BY <3>4, <3>5
  <2> QED
    BY <2>1, <2>2
<1>14. /\ ema' \in [Assets -> [value : Int, ledger : Nat] \union {None}]
       /\ ema'[a].value = update_twap(a, p)
  <2>1. update_twap(a, p) \in Int
    BY <1>12, <1>13
  <2> QED
    BY <1>1, <1>7, <2>1
<1>15. span' \in [Assets -> Span \union {None}] /\ span'[a] = sp /\ sp # None
  BY <1>1, <1>7, <1>12, OracleFeedAssumption DEF sp
<1>16. \A c \in Assets : c # a => /\ ema'[c] = ema[c] /\ span'[c] = span[c]
                                  /\ window'[c] = window[c] /\ tripped'[c] = tripped[c]
                                  /\ judged'[c] = judged[c]
  BY <1>1, <1>7
<1>18. judged' \in [Assets -> Verdict]
  <2>1. judged[a] \in Verdict /\ [past |-> w, left |-> FALSE] \in Verdict
    BY <1>1 DEF Verdict, w
  <2> QED
    BY <1>1, <1>7, <2>1
<1>19. /\ w = <<>> => judged'[a] = judged[a] /\ judged'[a].past = <<>>
       /\ w # <<>> => judged'[a].past = w
  <2>1. w = <<>> => judged[a].past = <<>>
    BY DEF AssetGood, w
  <2>2. judged'[a] = IF w = <<>> THEN judged[a] ELSE [past |-> w, left |-> FALSE]
    BY <1>1, <1>7
  <2> QED
    BY <2>1, <2>2
<1>17. AssetGood(ledger', verified'[a], buffer'[a], ema'[a], span'[a], window'[a], tripped'[a], judged'[a])
  <2>1. ema'[a] # None => span'[a] # None /\ ema'[a].value \in span'[a].lo..span'[a].hi
    BY <1>13, <1>14, <1>15
  <2>2. Last(window'[a]) = [ledger |-> verified'[a].ledger, price |-> verified'[a].price]
    BY <1>6, <1>8 DEF smp
  <2>3. Continues(window'[a], judged'[a].past) /\ window'[a] # <<>>
    <3>1. w = <<>> => judged'[a].past = w
      BY <1>19
    <3>2. Len(<<>>) = 0
      OBVIOUS
    <3> QED
      BY <1>6, <1>8, <1>19, <3>1, <3>2
  <2>5. judged'[a].past = <<>> => tripped'[a] = judged'[a].left
    <3> SUFFICES ASSUME judged'[a].past = <<>> PROVE tripped'[a] = judged'[a].left
      OBVIOUS
    <3>1. w = <<>> /\ judged'[a] = judged[a] /\ judged[a].past = <<>>
      BY <1>19
    <3>2. evaluate(a, p) = tripped[a]
      BY <1>3, <3>1, Zenon DEF evaluate
    <3>3. tripped[a] = judged[a].left
      BY <3>1 DEF AssetGood
    <3> QED
      BY <1>10, <3>1, <3>2, <3>3
  <2>6. judged'[a].past # <<>> =>
          tripped'[a] = (calculate_percentage_difference_bps(Average(judged'[a].past), Last(window'[a]).price)
                           > PRICE_IMPACT_THRESHOLD_BPS)
    <3> SUFFICES ASSUME judged'[a].past # <<>>
                 PROVE  tripped'[a] = (calculate_percentage_difference_bps(Average(judged'[a].past), Last(window'[a]).price)
                                         > PRICE_IMPACT_THRESHOLD_BPS)
      BY Zenon
    <3>1. w # <<>> /\ judged'[a].past = w /\ Last(window'[a]).price = p
      BY <1>5, <1>6, <1>8, <1>19
    <3> QED
      BY <1>10, <1>11, <3>1, Zenon
  <2>4. \A i \in DOMAIN window'[a] :
          /\ window'[a][i].price > 0 /\ window'[a][i].ledger <= ledger'
          /\ window'[a][i].ledger = ledger' => verified'[a].ledger = ledger'
    <3>1. \A i \in DOMAIN u : u[i].price > 0 /\ u[i].ledger <= ledger
      <4>1. \A j \in DOMAIN w : w[j].price > 0 /\ w[j].ledger <= ledger
        BY <1>1, <1>2 DEF Sample, w
      <4>2. smp.price > 0 /\ smp.ledger <= ledger
        BY <1>1, <1>5
      <4> QED
        BY <1>6, <4>1, <4>2
    <3> QED
      BY <1>8, <3>1
  <2> QED
    BY <2>1, <2>2, <2>3, <2>4, <2>5, <2>6 DEF AssetGood
<1> QED
  BY <1>8, <1>10, <1>14, <1>15, <1>16, <1>17, <1>18

-----------------------------------------------------------------------------
(***************************************************************************)
(* The invariant, action by action.                                        *)
(***************************************************************************)

\* An asset without samples, average or submissions.
LEMMA FreshIsGood ==
  ASSUME NEW l, NEW v, NEW sp, NEW t, NEW j, j.past = <<>>, t = j.left
  PROVE  AssetGood(l, v, <<>>, None, sp, <<>>, t, j)
<1>1. Len(<<>>) <= 1 /\ DOMAIN <<>> = {}
  OBVIOUS
<1> QED
  BY <1>1, Zenon DEF AssetGood

LEMMA FeedInvInit == Init => FeedInv
<1> SUFFICES ASSUME Init PROVE FeedInv
  OBVIOUS
<1> USE DEF Init, LimitsInit
<1>1. TypeOK
  <2>1. LimitsOK
    BY DEF LimitsOK
  <2>2. <<>> \in Seq(Sample) /\ <<>> \in Seq([provider : Delegates, price : Nat])
    OBVIOUS
  <2>3. /\ ledger \in 1..MaxLedger /\ flagged \subseteq list /\ list \subseteq Assets
        /\ health_total = None /\ bypass = None
    <3>1. ledger = 1 /\ flagged = {} /\ list = BaseAssets /\ health_total = None /\ bypass = None
      OBVIOUS
    <3> QED
      BY <3>1, OracleFeedAssumption
  <2>7. halted \in BOOLEAN
    OBVIOUS
  <2>4. /\ \A a \in Assets : verified[a] = None /\ community[a] = None
        /\ flagged = {}
        /\ verified \in [Assets -> PriceEntry \union {None}]
        /\ community \in [Assets -> PriceEntry \union {None}]
    OBVIOUS
  <2>5. /\ buffer \in [Assets -> Seq([provider : Delegates, price : Nat])]
        /\ window \in [Assets -> Seq(Sample)]
    BY <2>2
  <2>8. judged \in [Assets -> Verdict]
    <3>1. [past |-> <<>>, left |-> FALSE] \in Verdict
      BY <2>2 DEF Verdict
    <3> QED
      BY <3>1
  <2>6. /\ last_seen \in [Delegates -> 0..ledger]
        /\ ema \in [Assets -> [value : Int, ledger : Nat] \union {None}]
        /\ span \in [Assets -> Span \union {None}]
        /\ tripped \in [Assets -> BOOLEAN]
        /\ delegate \in [Admins -> Delegates \union {None}]
        /\ delegate_of \in [Delegates -> Admins \union {None}]
    OBVIOUS
  <2> QED
    BY <2>1, <2>3, <2>4, <2>5, <2>6, <2>7, <2>8 DEF TypeOK
<1>2. ProvidersAreAssigned
  BY DEF ProvidersAreAssigned
<1>3. \A a \in Assets :
        AssetGood(ledger, verified[a], buffer[a], ema[a], span[a], window[a], tripped[a], judged[a])
  <2> SUFFICES ASSUME NEW a \in Assets
               PROVE  AssetGood(ledger, verified[a], buffer[a], ema[a], span[a], window[a], tripped[a], judged[a])
    OBVIOUS
  <2>1. /\ verified[a] = None /\ ema[a] = None /\ buffer[a] = <<>> /\ window[a] = <<>>
        /\ tripped[a] = FALSE /\ judged[a] = [past |-> <<>>, left |-> FALSE]
    OBVIOUS
  <2>2. judged[a].past = <<>> /\ judged[a].left = FALSE
    BY <2>1
  <2>3. tripped[a] = judged[a].left
    BY <2>1, <2>2, Zenon
  <2> QED
    BY <2>1, <2>2, <2>3, FreshIsGood, Zenon
<1> QED
  BY <1>1, <1>2, <1>3 DEF FeedInv

\* The setters and the rollbacks keep the limits in their sets.
LEMMA LimitsStay ==
  ASSUME LimitsOK, LimitsNext
  PROVE  LimitsOK'
<1> USE DEF LimitsOK, Backup
<1>1. ASSUME NEW a \in Assets, NEW f \in Floors, set_price_floor(a, f) PROVE LimitsOK'
  BY <1>1 DEF set_price_floor
<1>2. ASSUME NEW a \in Assets, rollback_price_floor(a) PROVE LimitsOK'
  BY <1>2 DEF rollback_price_floor
<1>3. ASSUME NEW a \in Assets, rollback_price_bounds(a) PROVE LimitsOK'
  BY <1>3 DEF rollback_price_bounds
<1>4. ASSUME NEW a \in Assets, remove_liquidity_threshold(a) PROVE LimitsOK'
  BY <1>4 DEF remove_liquidity_threshold
<1>5. ASSUME NEW a \in Assets, NEW r \in Ranges, set_price_bounds(a, r) PROVE LimitsOK'
  BY <1>5 DEF set_price_bounds
<1>6. ASSUME NEW d \in Deviations, set_max_deviation_percentage(d) PROVE LimitsOK'
  BY <1>6 DEF set_max_deviation_percentage
<1>7. ASSUME rollback_max_deviation_pct PROVE LimitsOK'
  BY <1>7 DEF rollback_max_deviation_pct
<1>8. ASSUME NEW a \in Assets, NEW t \in Depths, set_liquidity_threshold(a, t) PROVE LimitsOK'
  BY <1>8 DEF set_liquidity_threshold
<1> QED
  BY <1>1, <1>2, <1>3, <1>4, <1>5, <1>6, <1>7, <1>8 DEF LimitsNext

\* Steps that leave the prices, the averages, the buffers and the ledger alone.
LEMMA QuietKeepsGood ==
  ASSUME FeedInv, UNCHANGED <<ledger, verified, buffer, ema, span, window, tripped, judged>>
  PROVE  \A a \in Assets :
           AssetGood(ledger, verified[a], buffer[a], ema[a], span[a], window[a], tripped[a], judged[a])'
BY DEF FeedInv

LEMMA LimitsStep == FeedInv /\ LimitsNext /\ UNCHANGED feedVars => FeedInv'
<1> SUFFICES ASSUME FeedInv, LimitsNext, UNCHANGED feedVars PROVE FeedInv'
  OBVIOUS
<1>1. LimitsOK'
  BY LimitsStay DEF FeedInv, TypeOK
<1>2. TypeOK'
  BY <1>1 DEF FeedInv, TypeOK, feedVars
<1>3. ProvidersAreAssigned'
  BY DEF FeedInv, ProvidersAreAssigned, feedVars
<1> QED
  BY <1>2, <1>3, QuietKeepsGood DEF FeedInv, feedVars

LEMMA SampleTypes ==
  ASSUME NEW w \in Seq(Sample)
  PROVE  \A i \in DOMAIN w : w[i].ledger \in Nat /\ w[i].price \in Nat
<1>1. \A i \in DOMAIN w : w[i] \in Sample
  OBVIOUS
<1> QED
  BY <1>1 DEF Sample

LEMMA TickStep == FeedInv /\ Tick => FeedInv'
<1> SUFFICES ASSUME FeedInv, Tick PROVE FeedInv'
  OBVIOUS
<1> USE DEF Tick, limitVars, assetVars, averageVars, delegateVars
<1>1. ledger \in Nat /\ ledger' = ledger + 1 /\ ledger' \in 1..MaxLedger
  BY OracleFeedAssumption DEF FeedInv, TypeOK
<1>2. TypeOK'
  <2>1. LimitsOK'
    BY DEF FeedInv, TypeOK, LimitsOK
  <2>2. buffer' \in [Assets -> Seq([provider : Delegates, price : Nat])]
    OBVIOUS
  <2>3. last_seen' \in [Delegates -> 0..ledger']
    BY <1>1 DEF FeedInv, TypeOK
  <2>4. \A a \in Assets : /\ verified'[a] # None => verified'[a].ledger \in 1..ledger'
                          /\ community'[a] # None => community'[a].ledger \in 1..ledger'
    BY <1>1 DEF FeedInv, TypeOK
  <2> QED
    BY <1>1, <2>1, <2>2, <2>3, <2>4 DEF FeedInv, TypeOK
<1>3. ProvidersAreAssigned'
  BY DEF FeedInv, ProvidersAreAssigned
<1>4. ASSUME NEW a \in Assets
      PROVE  AssetGood(ledger, verified[a], buffer[a], ema[a], span[a], window[a], tripped[a], judged[a])'
  <2>1. AssetGood(ledger, verified[a], buffer[a], ema[a], span[a], window[a], tripped[a], judged[a])
    BY DEF FeedInv
  <2>2. buffer'[a] = <<>> /\ Len(<<>>) = 0
    OBVIOUS
  <2>3. \A i \in DOMAIN window[a] : window[a][i].ledger \in Nat
    <3>1. window[a] \in Seq(Sample)
      BY DEF FeedInv, TypeOK
    <3> QED
      BY <3>1, SampleTypes
  <2>4. \A i \in DOMAIN window[a] : /\ window[a][i].price > 0 /\ window[a][i].ledger <= ledger'
                                    /\ window[a][i].ledger # ledger'
    BY <1>1, <2>1, <2>3 DEF AssetGood
  <2> QED
    BY <2>1, <2>2, <2>4 DEF AssetGood
<1> QED
  BY <1>2, <1>3, <1>4 DEF FeedInv

LEMMA ExpireStep ==
  ASSUME FeedInv, NEW a \in Assets, Expire(a)
  PROVE  FeedInv'
<1> USE DEF Expire, limitVars, assetVars, delegateVars
<1>1. TypeOK'
  <2>1. LimitsOK'
    BY DEF FeedInv, TypeOK, LimitsOK
  <2>2. window' \in [Assets -> Seq(Sample)]
    <3>1. window \in [Assets -> Seq(Sample)] /\ <<>> \in Seq(Sample)
      BY DEF FeedInv, TypeOK
    <3> QED
      BY <3>1
  <2>3. judged' \in [Assets -> Verdict]
    <3>1. /\ judged \in [Assets -> Verdict] /\ tripped[a] \in BOOLEAN /\ <<>> \in Seq(Sample)
          /\ \/ judged' = judged
             \/ judged' = [judged EXCEPT ![a] = [past |-> <<>>, left |-> tripped[a]]]
      BY DEF FeedInv, TypeOK
    <3>2. [past |-> <<>>, left |-> tripped[a]] \in Verdict
      BY <3>1 DEF Verdict
    <3> QED
      BY <3>1, <3>2
  <2> QED
    BY <2>1, <2>2, <2>3 DEF FeedInv, TypeOK
<1>2. ProvidersAreAssigned'
  BY DEF FeedInv, ProvidersAreAssigned
<1>3. ASSUME NEW c \in Assets
      PROVE  AssetGood(ledger, verified[c], buffer[c], ema[c], span[c], window[c], tripped[c], judged[c])'
  <2>1. AssetGood(ledger, verified[c], buffer[c], ema[c], span[c], window[c], tripped[c], judged[c])
    BY DEF FeedInv
  <2>2. CASE c # a
    <3>1. /\ ema'[c] = ema[c] /\ span'[c] = span[c] /\ window'[c] = window[c]
          /\ judged'[c] = judged[c]
      BY <2>2 DEF FeedInv, TypeOK
    <3> QED
      BY <2>1, <3>1
  <2>3. CASE c = a
    <3>1. /\ ema'[c] = None /\ tripped'[c] = tripped[c]
          /\ verified'[c] = verified[c] /\ buffer'[c] = buffer[c] /\ ledger' = ledger
          /\ \/ window'[c] = window[c] /\ judged'[c] = judged[c]
             \/ window'[c] = <<>> /\ judged'[c] = [past |-> <<>>, left |-> tripped[c]]
      BY <2>3 DEF FeedInv, TypeOK
    <3>2. CASE window'[c] = window[c] /\ judged'[c] = judged[c]
      BY <2>1, <3>1, <3>2 DEF AssetGood
    <3>3. CASE window'[c] = <<>> /\ judged'[c] = [past |-> <<>>, left |-> tripped[c]]
      <4>1. judged'[c].past = <<>> /\ judged'[c].left = tripped[c]
        BY <3>3
      <4>2. DOMAIN <<>> = {}
        OBVIOUS
      <4> QED
        BY <2>1, <3>1, <3>3, <4>1, <4>2 DEF AssetGood
    <3> QED
      BY <3>1, <3>2, <3>3
  <2> QED
    BY <2>2, <2>3
<1> QED
  BY <1>1, <1>2, <1>3 DEF FeedInv

\* Tracking an asset that has, or is about to get, a verified entry.
LEMMA TrackStep ==
  ASSUME TypeOK, NEW a \in Assets, track_asset(a)
  PROVE  /\ flagged' \subseteq list' /\ list' \subseteq Assets
         /\ health_total' \in {None, Cardinality(list')}
         /\ a \in list' /\ list \subseteq list' /\ flagged' \subseteq flagged \union {a}
<1>1. CASE a \in list
  BY <1>1 DEF track_asset, TypeOK, assetVars
<1>2. CASE a \notin list
  <2>1. IsFiniteSet(list)
    BY OracleFeedAssumption, FS_Subset DEF TypeOK
  <2>2. Cardinality(list \union {a}) = Cardinality(list) + 1
    BY <1>2, <2>1, FS_AddElement
  <2> QED
    BY <1>2, <2>2 DEF track_asset, TypeOK
<1> QED
  BY <1>1, <1>2

LEMMA AddAssetStep ==
  ASSUME FeedInv, NEW a \in Assets, add_asset(a)
  PROVE  FeedInv'
<1> USE DEF add_asset, limitVars, averageVars, delegateVars
<1>0. ledger \in 1..MaxLedger /\ ledger \in Nat /\ MaxLedger \in Nat
  BY OracleFeedAssumption DEF FeedInv, TypeOK
<1>1. Placeholder \in PriceEntry /\ Placeholder # None
      /\ Placeholder.ledger = ledger /\ Placeholder.price = 0
  BY <1>0, OracleFeedAssumption DEF Placeholder, PriceEntry
<1>2. /\ verified' \in [Assets -> PriceEntry \union {None}]
      /\ verified'[a] = IF verified[a] = None THEN Placeholder ELSE verified[a]
      /\ \A c \in Assets : c # a => verified'[c] = verified[c]
  BY <1>1 DEF FeedInv, TypeOK
<1>3. TypeOK'
  <2>1. LimitsOK'
    BY DEF FeedInv, TypeOK, LimitsOK
  <2>2. /\ flagged' \subseteq list' /\ list' \subseteq Assets
        /\ health_total' \in {None, Cardinality(list')}
        /\ a \in list' /\ list \subseteq list' /\ flagged' \subseteq flagged \union {a}
    BY TrackStep DEF FeedInv
  <2>3. \A c \in Assets : verified'[c] # None => verified'[c].ledger \in 1..ledger'
    BY <1>0, <1>1, <1>2 DEF FeedInv, TypeOK
  <2>4. /\ \A c \in flagged' : verified'[c] # None
        /\ \A c \in Assets : verified'[c] # None => c \in list'
    BY <1>1, <1>2, <2>2 DEF FeedInv, TypeOK
  <2> QED
    BY <1>2, <2>1, <2>2, <2>3, <2>4 DEF FeedInv, TypeOK
<1>4. ProvidersAreAssigned'
  BY DEF FeedInv, ProvidersAreAssigned
<1>5. ASSUME NEW c \in Assets
      PROVE  AssetGood(ledger, verified[c], buffer[c], ema[c], span[c], window[c], tripped[c], judged[c])'
  <2>1. AssetGood(ledger, verified[c], buffer[c], ema[c], span[c], window[c], tripped[c], judged[c])
    BY DEF FeedInv
  <2>2. CASE verified'[c] = verified[c]
    BY <2>1, <2>2
  <2>3. CASE verified'[c] # verified[c]
    <3>1. verified'[c] = Placeholder
      BY <1>2, <2>3
    <3> QED
      BY <1>1, <2>1, <3>1 DEF AssetGood
  <2> QED
    BY <2>2, <2>3
<1> QED
  BY <1>3, <1>4, <1>5 DEF FeedInv

LEMMA RegisterStep ==
  ASSUME FeedInv, NEW S \in SUBSET Assets, NEW d \in Deviations, NEW configs \in [S -> Config],
         register_assets_with_config(configs, d)
  PROVE  FeedInv'
<1> USE DEF register_assets_with_config, averageVars, delegateVars
<1>0. ledger \in 1..MaxLedger /\ ledger \in Nat /\ MaxLedger \in Nat
  BY OracleFeedAssumption DEF FeedInv, TypeOK
<1>1. Placeholder \in PriceEntry /\ Placeholder # None
      /\ Placeholder.ledger = ledger /\ Placeholder.price = 0
  BY <1>0, OracleFeedAssumption DEF Placeholder, PriceEntry
<1>2. /\ verified' \in [Assets -> PriceEntry \union {None}]
      /\ \A c \in Assets : verified'[c] = IF c \in S /\ verified[c] = None THEN Placeholder ELSE verified[c]
  BY <1>1 DEF FeedInv, TypeOK
<1>3. TypeOK'
  <2>1. LimitsOK'
    <3>1. LimitsOK /\ ConfigureLimits(configs, d) /\ DOMAIN configs = S
          /\ \A a \in S : configs[a].range \in Ranges /\ configs[a].floor \in Floors \union {None}
      BY DEF FeedInv, TypeOK, Config
    <3>2. /\ bounds' \in [Assets -> Ranges \union {None}]
          /\ floor' \in [Assets -> Floors \union {None}]
      BY <3>1 DEF ConfigureLimits, LimitsOK
    <3>3. max_dev' \in Deviations \union {None} /\ prev_max_dev' \in Deviations \union {None}
      BY <3>1 DEF ConfigureLimits, LimitsOK, Backup
    <3> QED
      BY <3>1, <3>2, <3>3 DEF ConfigureLimits, LimitsOK
  <2>2. /\ flagged' \subseteq list' /\ list' = list \union S /\ list' \subseteq Assets
        /\ flagged' \subseteq flagged \union S
    BY DEF FeedInv, TypeOK
  <2>3. health_total' \in {None, Cardinality(list')}
    <3>1. CASE S \ list = {}
      <4>1. list' = list /\ health_total' = health_total
        BY <2>2, <3>1
      <4> QED
        BY <4>1 DEF FeedInv, TypeOK
    <3>2. CASE S \ list # {}
      BY <3>2
    <3> QED
      BY <3>1, <3>2
  <2>4. \A c \in Assets : verified'[c] # None => verified'[c].ledger \in 1..ledger'
    BY <1>0, <1>1, <1>2 DEF FeedInv, TypeOK
  <2>5. /\ \A c \in flagged' : verified'[c] # None
        /\ \A c \in Assets : verified'[c] # None => c \in list'
    BY <1>1, <1>2, <2>2 DEF FeedInv, TypeOK
  <2> QED
    BY <1>2, <2>1, <2>2, <2>3, <2>4, <2>5 DEF FeedInv, TypeOK
<1>4. ProvidersAreAssigned'
  BY DEF FeedInv, ProvidersAreAssigned
<1>5. ASSUME NEW c \in Assets
      PROVE  AssetGood(ledger, verified[c], buffer[c], ema[c], span[c], window[c], tripped[c], judged[c])'
  <2>1. AssetGood(ledger, verified[c], buffer[c], ema[c], span[c], window[c], tripped[c], judged[c])
    BY DEF FeedInv
  <2>2. CASE verified'[c] = verified[c]
    BY <2>1, <2>2
  <2>3. CASE verified'[c] # verified[c]
    <3>1. verified'[c] = Placeholder
      BY <1>2, <2>3
    <3> QED
      BY <1>1, <2>1, <3>1 DEF AssetGood
  <2> QED
    BY <2>2, <2>3
<1> QED
  BY <1>3, <1>4, <1>5 DEF FeedInv

LEMMA RemoveAssetStep ==
  ASSUME FeedInv, NEW a \in Assets, remove_asset(a)
  PROVE  FeedInv'
<1> USE DEF remove_asset, DropLimits, averageVars, delegateVars
<1>1. /\ verified' \in [Assets -> PriceEntry \union {None}] /\ verified'[a] = None
      /\ community' \in [Assets -> PriceEntry \union {None}] /\ community'[a] = None
      /\ \A c \in Assets : c # a => verified'[c] = verified[c] /\ community'[c] = community[c]
  BY DEF FeedInv, TypeOK
<1>2. TypeOK'
  <2>1. LimitsOK'
    BY DEF FeedInv, TypeOK, LimitsOK
  <2>2. \A c \in Assets : /\ verified'[c] # None => verified'[c].ledger \in 1..ledger'
                          /\ community'[c] # None => community'[c].ledger \in 1..ledger'
    BY <1>1 DEF FeedInv, TypeOK
  <2>3. /\ \A c \in flagged' : verified'[c] # None
        /\ \A c \in Assets : verified'[c] # None => c \in list'
    BY <1>1 DEF FeedInv, TypeOK
  <2> QED
    BY <1>1, <2>1, <2>2, <2>3 DEF FeedInv, TypeOK
<1>3. ProvidersAreAssigned'
  BY DEF FeedInv, ProvidersAreAssigned
<1>4. ASSUME NEW c \in Assets
      PROVE  AssetGood(ledger, verified[c], buffer[c], ema[c], span[c], window[c], tripped[c], judged[c])'
  <2>1. AssetGood(ledger, verified[c], buffer[c], ema[c], span[c], window[c], tripped[c], judged[c])
    BY DEF FeedInv
  <2>2. CASE c = a
    BY <1>1, <2>1, <2>2 DEF AssetGood
  <2>3. CASE c # a
    BY <1>1, <2>1, <2>3
  <2> QED
    BY <2>2, <2>3
<1> QED
  BY <1>2, <1>3, <1>4 DEF FeedInv

\* Steps that change the delegates, the community prices, the bypass or the halt
\* only.
LEMMA AssignStep ==
  ASSUME FeedInv, NEW m \in Admins, NEW d \in Delegates, assign_delegate(m, d)
  PROVE  FeedInv'
<1> USE DEF assign_delegate, limitVars, assetVars, averageVars
<1>1. TypeOK'
  <2>1. LimitsOK'
    BY DEF FeedInv, TypeOK, LimitsOK
  <2>2. /\ delegate' \in [Admins -> Delegates \union {None}]
        /\ delegate_of' \in [Delegates -> Admins \union {None}]
    BY DEF FeedInv, TypeOK
  <2> QED
    BY <2>1, <2>2 DEF FeedInv, TypeOK
<1>2. ProvidersAreAssigned'
  BY DEF FeedInv, TypeOK, ProvidersAreAssigned
<1> QED
  BY <1>1, <1>2, QuietKeepsGood DEF FeedInv

LEMMA RevokeStep ==
  ASSUME FeedInv, NEW m \in Admins, revoke_delegate(m)
  PROVE  FeedInv'
<1> USE DEF revoke_delegate, limitVars, assetVars, averageVars
<1>1. TypeOK'
  <2>1. LimitsOK'
    BY DEF FeedInv, TypeOK, LimitsOK
  <2>2. /\ delegate' \in [Admins -> Delegates \union {None}]
        /\ delegate_of' \in [Delegates -> Admins \union {None}]
    BY DEF FeedInv, TypeOK
  <2> QED
    BY <2>1, <2>2 DEF FeedInv, TypeOK
<1>2. ProvidersAreAssigned'
  BY DEF FeedInv, TypeOK, ProvidersAreAssigned
<1> QED
  BY <1>1, <1>2, QuietKeepsGood DEF FeedInv

LEMMA CommunityStep ==
  ASSUME FeedInv, NEW c \in Community, NEW a \in Assets, NEW p \in Prices, NEW t \in Ttls,
         submit_community_price(c, a, p, t)
  PROVE  FeedInv'
<1> USE DEF submit_community_price, limitVars, assetVars, averageVars, delegateVars
<1> DEFINE e == [price |-> p, ledger |-> ledger, ttl |-> t, provider |-> c]
<1>0. ledger \in 1..MaxLedger /\ ledger \in Nat /\ MaxLedger \in Nat
  BY OracleFeedAssumption DEF FeedInv, TypeOK
<1>1. e \in PriceEntry /\ e.ledger = ledger /\ ledger \in 1..ledger
  BY <1>0, OracleFeedAssumption DEF PriceEntry
<1> HIDE DEF e
<1>2. /\ community' = [community EXCEPT ![a] = e]
      /\ community \in [Assets -> PriceEntry \union {None}]
  BY DEF FeedInv, TypeOK, e
<1>3. community' \in [Assets -> PriceEntry \union {None}]
      /\ community'[a] = e /\ \A b \in Assets : b # a => community'[b] = community[b]
  BY <1>1, <1>2
<1>4. TypeOK'
  <2>1. LimitsOK'
    BY DEF FeedInv, TypeOK, LimitsOK
  <2>2. \A b \in Assets : community'[b] # None => community'[b].ledger \in 1..ledger'
    BY <1>1, <1>3 DEF FeedInv, TypeOK
  <2> QED
    BY <1>3, <2>1, <2>2 DEF FeedInv, TypeOK
<1>5. ProvidersAreAssigned'
  BY DEF FeedInv, ProvidersAreAssigned
<1> QED
  BY <1>4, <1>5, QuietKeepsGood DEF FeedInv

LEMMA RejectedStep ==
  ASSUME FeedInv, NEW d \in Delegates, NEW a \in Assets, NEW p \in Prices, NEW l \in Liquidity,
         update_price_MinimumQuorumNotMet(d, a, p, l)
  PROVE  FeedInv'
<1> USE DEF update_price_MinimumQuorumNotMet, limitVars, assetVars, averageVars, delegateVars
<1>1. TypeOK'
  BY DEF FeedInv, TypeOK, LimitsOK
<1>2. ProvidersAreAssigned'
  BY DEF FeedInv, ProvidersAreAssigned
<1> QED
  BY <1>1, <1>2, QuietKeepsGood DEF FeedInv

LEMMA BypassStep ==
  ASSUME FeedInv, enable_bypass_safety_checks \/ disable_bypass_safety_checks
  PROVE  FeedInv'
<1> USE DEF enable_bypass_safety_checks, disable_bypass_safety_checks,
            limitVars, assetVars, averageVars, delegateVars
<1>1. bypass' \in Nat \union {None}
  <2>1. ledger \in Nat /\ LedgerSeconds \in Nat
    BY OracleFeedAssumption DEF FeedInv, TypeOK
  <2>2. ledger * LedgerSeconds \in Nat
    BY <2>1
  <2> QED
    BY <2>2 DEF now, BYPASS_SECONDS
<1>2. TypeOK'
  BY <1>1 DEF FeedInv, TypeOK, LimitsOK
<1>3. ProvidersAreAssigned'
  BY DEF FeedInv, ProvidersAreAssigned
<1> QED
  BY <1>2, <1>3, QuietKeepsGood DEF FeedInv

LEMMA HaltStep ==
  ASSUME FeedInv, NEW s \in BOOLEAN, set_emergency_halt(s)
  PROVE  FeedInv'
<1> USE DEF set_emergency_halt, limitVars, assetVars, delegateVars
<1>1. LimitsOK'
  BY DEF FeedInv, TypeOK, LimitsOK
<1>2. ProvidersAreAssigned'
  BY DEF FeedInv, ProvidersAreAssigned
<1>3. halted' \in BOOLEAN
  OBVIOUS
<1>4. CASE halted /\ ~s
  <2>0. graceful_recovery
    BY <1>4
  <2>1. /\ ema' \in [Assets -> [value : Int, ledger : Nat] \union {None}]
        /\ span' \in [Assets -> Span \union {None}]
    BY <2>0 DEF graceful_recovery, FeedInv, TypeOK
  <2>2. window' \in [Assets -> Seq(Sample)]
    <3>1. window \in [Assets -> Seq(Sample)] /\ <<>> \in Seq(Sample)
      BY DEF FeedInv, TypeOK
    <3> QED
      BY <2>0, <3>1 DEF graceful_recovery
  <2>3. tripped' \in [Assets -> BOOLEAN]
    <3>1. tripped \in [Assets -> BOOLEAN]
      BY DEF FeedInv, TypeOK
    <3> QED
      BY <2>0, <3>1 DEF graceful_recovery
  <2>6. judged' \in [Assets -> Verdict]
    <3>1. judged \in [Assets -> Verdict] /\ [past |-> <<>>, left |-> FALSE] \in Verdict
      BY DEF FeedInv, TypeOK, Verdict
    <3> QED
      BY <2>0, <3>1 DEF graceful_recovery
  <2>4. TypeOK'
    BY <1>1, <1>3, <2>1, <2>2, <2>3, <2>6 DEF FeedInv, TypeOK
  <2>5. ASSUME NEW a \in Assets
        PROVE  AssetGood(ledger, verified[a], buffer[a], ema[a], span[a], window[a], tripped[a], judged[a])'
    <3>1. AssetGood(ledger, verified[a], buffer[a], ema[a], span[a], window[a], tripped[a], judged[a])
      BY DEF FeedInv
    <3>2. CASE a \in list
      <4>1. /\ ema'[a] = None /\ window'[a] = <<>> /\ tripped'[a] = FALSE
            /\ judged'[a] = [past |-> <<>>, left |-> FALSE]
        BY <2>0, <3>2 DEF graceful_recovery
      <4>2. Len(<<>>) = 0 /\ DOMAIN <<>> = {}
        OBVIOUS
      <4>3. judged'[a].past = <<>> /\ judged'[a].left = FALSE
        BY <4>1
      <4>4. tripped'[a] = judged'[a].left
        BY <4>1, <4>3, Zenon
      <4> QED
        BY <3>1, <4>1, <4>2, <4>3, <4>4 DEF AssetGood
    <3>3. CASE a \notin list
      <4>1. /\ ema'[a] = ema[a] /\ span'[a] = span[a] /\ window'[a] = window[a]
            /\ judged'[a] = judged[a]
        BY <2>0, <3>3 DEF graceful_recovery
      <4>2. tripped'[a] = tripped[a]
        <5>1. tripped[a] \in BOOLEAN
          BY DEF FeedInv, TypeOK
        <5>2. tripped'[a] = (a \notin list /\ tripped[a])
          BY <2>0 DEF graceful_recovery
        <5>3. ASSUME NEW x \in BOOLEAN PROVE (TRUE /\ x) = x
          OBVIOUS
        <5>4. (a \notin list) = TRUE
          BY <3>3
        <5> QED
          BY <5>1, <5>2, <5>3, <5>4
      <4> QED
        BY <3>1, <4>1, <4>2
    <3> QED
      BY <3>2, <3>3
  <2> QED
    BY <1>2, <2>4, <2>5 DEF FeedInv
<1>5. CASE ~(halted /\ ~s)
  <2>1. UNCHANGED averageVars
    BY <1>5
  <2>2. TypeOK'
    BY <1>1, <1>3, <2>1 DEF FeedInv, TypeOK, averageVars
  <2> QED
    BY <1>2, <2>1, <2>2, QuietKeepsGood DEF FeedInv, averageVars
<1> QED
  BY <1>4, <1>5

\* No submission of this ledger is buffered for an asset whose price may be
\* written: it would have written the price itself.
LEMMA BufferIsEmpty ==
  ASSUME FeedInv, NEW a \in Assets, verified[a] # None,
         require_ledger_sequence_advanced(verified[a])
  PROVE  buffer[a] = <<>> /\ ledger > verified[a].ledger
<1>1. AssetGood(ledger, verified[a], buffer[a], ema[a], span[a], window[a], tripped[a], judged[a])
  BY DEF FeedInv
<1>2. ledger > verified[a].ledger /\ ledger \in Nat /\ verified[a].ledger \in Nat
  <2>1. ledger \in 1..MaxLedger /\ verified[a].ledger \in 1..ledger /\ MaxLedger \in Nat
    BY OracleFeedAssumption DEF FeedInv, TypeOK
  <2> QED
    BY <2>1 DEF require_ledger_sequence_advanced
<1>3. verified[a].ledger # ledger
  BY <1>2
<1> QED
  BY <1>1, <1>2, <1>3 DEF AssetGood

\* A write of a verified price leaves everything but the written asset alone.
LEMMA WriteStep ==
  ASSUME FeedInv, NEW a \in Assets, NEW p \in Nat, p > 0,
         verified[a] # None, require_ledger_sequence_advanced(verified[a]),
         NEW v \in PriceEntry, v.price = p, v.ledger = ledger,
         verified' = [verified EXCEPT ![a] = v],
         NEW b \in Seq([provider : Delegates, price : Nat]),
         Len(b) <= 1, b # <<>> => b[1].price = p,
         buffer' = [buffer EXCEPT ![a] = b],
         last_seen' \in [Delegates -> 0..ledger],
         RecordPrice(a, p),
         UNCHANGED <<limitVars, assetVars, delegateVars, ledger, community, bypass, halted>>
  PROVE  FeedInv'
<1>1. TypeOK /\ ledger \in Nat /\ ledger \in 1..ledger
  <2>1. ledger \in 1..MaxLedger /\ MaxLedger \in Nat
    BY OracleFeedAssumption DEF FeedInv, TypeOK
  <2> QED
    BY <2>1 DEF FeedInv
<1>2. /\ verified' \in [Assets -> PriceEntry \union {None}] /\ verified'[a] = v /\ v # None
      /\ \A c \in Assets : c # a => verified'[c] = verified[c]
  BY <1>1, OracleFeedAssumption DEF TypeOK
<1>3. /\ buffer' \in [Assets -> Seq([provider : Delegates, price : Nat])] /\ buffer'[a] = b
      /\ \A c \in Assets : c # a => buffer'[c] = buffer[c]
  BY <1>1 DEF TypeOK
<1>4. /\ AssetGood(ledger', verified'[a], buffer'[a], ema'[a], span'[a], window'[a], tripped'[a], judged'[a])
      /\ ema' \in [Assets -> [value : Int, ledger : Nat] \union {None}]
      /\ span' \in [Assets -> Span \union {None}]
      /\ window' \in [Assets -> Seq(Sample)] /\ tripped' \in [Assets -> BOOLEAN]
      /\ judged' \in [Assets -> Verdict]
      /\ \A c \in Assets : c # a => /\ ema'[c] = ema[c] /\ span'[c] = span[c]
                                    /\ window'[c] = window[c] /\ tripped'[c] = tripped[c]
                                    /\ judged'[c] = judged[c]
  <2>1. AssetGood(ledger, verified[a], buffer[a], ema[a], span[a], window[a], tripped[a], judged[a])
    BY DEF FeedInv
  <2>2. ledger > verified[a].ledger
    BY BufferIsEmpty
  <2>3. verified'[a] # None /\ verified'[a].price = p /\ verified'[a].ledger = ledger
    BY <1>2
  <2>4. Len(buffer'[a]) <= 1 /\ (buffer'[a] # <<>> => buffer'[a][1].price = p)
    BY <1>3
  <2>5. ledger' = ledger
    OBVIOUS
  <2> QED
    BY <1>1, <2>1, <2>2, <2>3, <2>4, <2>5, RecordKeepsGood
<1>5. TypeOK'
  <2>1. LimitsOK'
    BY <1>1 DEF TypeOK, LimitsOK, limitVars
  <2>2. \A c \in Assets : verified'[c] # None => verified'[c].ledger \in 1..ledger'
    BY <1>1, <1>2 DEF TypeOK
  <2>3. /\ \A c \in flagged' : verified'[c] # None
        /\ \A c \in Assets : verified'[c] # None => c \in list'
    BY <1>1, <1>2 DEF TypeOK, assetVars
  <2>4. UNCHANGED <<list, flagged, health_total, delegate, delegate_of, ledger, community,
                    bypass, halted>>
    BY DEF assetVars, delegateVars
  <2> QED
    BY <1>1, <1>2, <1>3, <1>4, <2>1, <2>2, <2>3, <2>4 DEF TypeOK
<1>6. ProvidersAreAssigned'
  BY DEF FeedInv, ProvidersAreAssigned, delegateVars
<1>7. ASSUME NEW c \in Assets
      PROVE  AssetGood(ledger, verified[c], buffer[c], ema[c], span[c], window[c], tripped[c], judged[c])'
  <2>1. CASE c = a
    BY <1>4, <2>1
  <2>2. CASE c # a
    <3>1. AssetGood(ledger, verified[c], buffer[c], ema[c], span[c], window[c], tripped[c], judged[c])
      BY DEF FeedInv
    <3>2. /\ ledger' = ledger /\ verified'[c] = verified[c] /\ buffer'[c] = buffer[c]
          /\ ema'[c] = ema[c] /\ span'[c] = span[c]
          /\ window'[c] = window[c] /\ tripped'[c] = tripped[c] /\ judged'[c] = judged[c]
      BY <1>2, <1>3, <1>4, <2>2
    <3> QED
      BY <3>1, <3>2
  <2> QED
    BY <2>1, <2>2
<1> QED
  BY <1>5, <1>6, <1>7 DEF FeedInv

\* What an accepted update is: the buffer was empty, so the median is the price
\* submitted, there is one source, and the bypass is on.
LEMMA UpdateIsAlone ==
  ASSUME FeedInv, NEW d \in Delegates, NEW a \in Assets, NEW p \in Prices, NEW t \in Ttls,
         NEW l \in Liquidity, update_price(d, a, p, t, l)
  PROVE  /\ p \in Nat /\ p > 0 /\ verified[a] # None
         /\ require_ledger_sequence_advanced(verified[a])
         /\ Append(buffer[a], Submission(d, p)) = <<Submission(d, p)>>
         /\ calculate_median(Append(buffer[a], Submission(d, p))) = p
         /\ BypassActive
<1>1. MaySubmit(d, a, p, l)
  BY DEF update_price
<1>2. p \in Nat /\ p > 0
  BY <1>1, OracleFeedAssumption DEF MaySubmit
<1>3. verified[a] # None /\ require_ledger_sequence_advanced(verified[a])
  BY <1>1 DEF MaySubmit, FeedInv, TypeOK
<1>4. buffer[a] = <<>>
  BY <1>3, BufferIsEmpty
<1>5. Append(buffer[a], Submission(d, p)) = <<Submission(d, p)>>
  BY <1>4
<1>6. calculate_median(<<Submission(d, p)>>) = p
  <2> DEFINE e == Submission(d, p)
  <2>1. e.price = p /\ p \in Int
    BY <1>2 DEF Submission
  <2> HIDE DEF e
  <2> QED
    BY <2>1, MedianOfOne DEF e
<1>7. BypassActive
  <2>1. Len(<<Submission(d, p)>>) = 1
    OBVIOUS
  <2>2. ~ validate_consensus_quorum(Append(buffer[a], Submission(d, p)))
    BY <1>5, <2>1 DEF validate_consensus_quorum, MIN_SOURCES
  <2> QED
    BY <2>2 DEF update_price
<1> QED
  BY <1>2, <1>3, <1>5, <1>6, <1>7

LEMMA UpdateStep ==
  ASSUME FeedInv, NEW d \in Delegates, NEW a \in Assets, NEW p \in Prices, NEW t \in Ttls,
         NEW l \in Liquidity, update_price(d, a, p, t, l)
  PROVE  FeedInv'
<1> DEFINE v == [price |-> p, ledger |-> ledger, ttl |-> t, provider |-> d]
           b == <<Submission(d, p)>>
<1>1. /\ p \in Nat /\ p > 0 /\ verified[a] # None
      /\ require_ledger_sequence_advanced(verified[a])
      /\ Append(buffer[a], Submission(d, p)) = b
      /\ calculate_median(b) = p
  BY UpdateIsAlone
<1>2. /\ verified' = [verified EXCEPT ![a] = v] /\ buffer' = [buffer EXCEPT ![a] = b]
      /\ RecordPrice(a, p)
  BY <1>1 DEF update_price
<1>3. ledger \in Nat
  BY OracleFeedAssumption DEF FeedInv, TypeOK
<1>4. v \in PriceEntry /\ v.price = p /\ v.ledger = ledger
  BY <1>1, <1>3, OracleFeedAssumption DEF PriceEntry
<1>5. b \in Seq([provider : Delegates, price : Nat]) /\ Len(b) <= 1 /\ b[1].price = p
  <2>1. Submission(d, p) \in [provider : Delegates, price : Nat] /\ Submission(d, p).price = p
    BY <1>1 DEF Submission
  <2> QED
    BY <2>1
<1>6. last_seen' \in [Delegates -> 0..ledger]
  <2>1. last_seen \in [Delegates -> 0..ledger] /\ last_seen' = [last_seen EXCEPT ![d] = ledger]
    BY DEF FeedInv, TypeOK, update_price
  <2>2. ledger \in 0..ledger
    BY <1>3
  <2> QED
    BY <2>1, <2>2
<1>7. UNCHANGED <<limitVars, assetVars, delegateVars, ledger, community, bypass, halted>>
  BY DEF update_price
<1> HIDE DEF v, b
<1> QED
  BY <1>1, <1>2, <1>4, <1>5, <1>6, <1>7, WriteStep

LEMMA SetPriceStep ==
  ASSUME FeedInv, NEW a \in Assets, NEW p \in Prices, set_price(a, p)
  PROVE  FeedInv'
<1> DEFINE v == [verified[a] EXCEPT !.ledger = ledger]
           b == buffer[a]
<1>1. /\ p \in Nat /\ p > 0 /\ verified[a] # None
      /\ require_ledger_sequence_advanced(verified[a]) /\ verified[a].price = p
  BY OracleFeedAssumption DEF set_price
<1>2. verified \in [Assets -> PriceEntry \union {None}] /\ verified[a] \in PriceEntry
  BY <1>1 DEF FeedInv, TypeOK
<1>3. ledger \in Nat
  BY OracleFeedAssumption DEF FeedInv, TypeOK
<1>4. v \in PriceEntry /\ v.price = p /\ v.ledger = ledger
  BY <1>1, <1>2, <1>3 DEF PriceEntry
<1>5. verified' = [verified EXCEPT ![a] = v]
  BY <1>2 DEF set_price
<1>6. /\ b \in Seq([provider : Delegates, price : Nat]) /\ Len(b) <= 1
      /\ b # <<>> => b[1].price = p
      /\ buffer' = [buffer EXCEPT ![a] = b]
  <2>1. b = <<>>
    BY <1>1, BufferIsEmpty
  <2>2. buffer \in [Assets -> Seq([provider : Delegates, price : Nat])]
    BY DEF FeedInv, TypeOK
  <2>3. buffer' = buffer
    BY DEF set_price
  <2> QED
    BY <2>1, <2>2, <2>3
<1>7. UNCHANGED assetVars
  <2>1. a \in list
    BY <1>1 DEF FeedInv, TypeOK
  <2> QED
    BY <2>1 DEF set_price, track_asset
<1>8. last_seen' \in [Delegates -> 0..ledger]
  BY DEF FeedInv, TypeOK, set_price
<1>9. /\ RecordPrice(a, p)
      /\ UNCHANGED <<limitVars, assetVars, delegateVars, ledger, community, bypass, halted>>
  BY <1>7 DEF set_price
<1> HIDE DEF v, b
<1> QED
  BY <1>1, <1>4, <1>5, <1>6, <1>8, <1>9, WriteStep

LEMMA FeedInvStep == FeedInv /\ [Next]_vars => FeedInv'
<1> SUFFICES ASSUME FeedInv, [Next]_vars PROVE FeedInv'
  OBVIOUS
<1>1. CASE UNCHANGED vars
  <2>1. UNCHANGED feedVars /\ UNCHANGED limitVars
    BY <1>1 DEF vars
  <2>2. TypeOK'
    BY <2>1 DEF FeedInv, TypeOK, LimitsOK, feedVars, limitVars
  <2>3. ProvidersAreAssigned'
    BY <2>1 DEF FeedInv, ProvidersAreAssigned, feedVars
  <2> QED
    BY <2>1, <2>2, <2>3, QuietKeepsGood DEF FeedInv, feedVars
<1>2. CASE Next
  BY <1>2, TickStep, LimitsStep, ExpireStep, AddAssetStep, RegisterStep, RemoveAssetStep, AssignStep, RevokeStep,
     UpdateStep, RejectedStep, SetPriceStep, CommunityStep, BypassStep, HaltStep
  DEF Next
<1> QED
  BY <1>1, <1>2

-----------------------------------------------------------------------------
(***************************************************************************)
(* The theorems.                                                           *)
(***************************************************************************)

LEMMA FeedInvHolds == Spec => []FeedInv
BY FeedInvInit, FeedInvStep, PTL DEF Spec

\* In every state the storage of the feed is well formed, the average lies within
\* the prices behind it, the window ends with the price served, the guard is the
\* verdict on that price or what the last verdict left, and a price was submitted
\* by one assigned delegate.
THEOREM FeedIsAlwaysFaithful == Spec => []FeedIsFaithful
BY FeedInvHolds, FeedInvFaithful, PTL

\* update_price never finds the three sources validate_consensus_quorum asks for:
\* every price a provider writes was let through by the safety bypass.
THEOREM UpdatesNeedBypass == Spec => ProviderUpdatesNeedBypass
<1>1. FeedInv /\ [Next]_vars => [last_seen' # last_seen => BypassActive]_vars
  <2> SUFFICES ASSUME FeedInv, Next, last_seen' # last_seen PROVE BypassActive
    BY DEF vars, feedVars
  <2>1. PICK d \in Delegates, a \in Assets, p \in Prices, l \in Liquidity, t \in Ttls :
          update_price(d, a, p, t, l)
    BY DEF Next, Tick, feedVars, Expire, add_asset, register_assets_with_config, remove_asset, assign_delegate,
           revoke_delegate, update_price_MinimumQuorumNotMet, set_price,
           submit_community_price, enable_bypass_safety_checks,
           disable_bypass_safety_checks, set_emergency_halt
  <2> QED
    BY <2>1, UpdateIsAlone
<1> QED
  BY <1>1, FeedInvHolds, PTL DEF Spec, ProviderUpdatesNeedBypass

\* The setters never leave a floor above the upper bound, in whatever order they
\* are called, and neither does the removal of an asset: only a rollback does, or
\* a registration with bounds and no floor of its own.
THEOREM LimitsContradictKnowingly == Spec => SettersNeverContradict
<1> DEFINE A == \A a \in Assets : Consistent(a) /\ ~Consistent(a)' =>
                  rollback_price_floor(a) \/ rollback_price_bounds(a) \/ BareRegistration(a)
<1>1. FeedInv /\ [Next]_vars => [A]_vars
  <2> SUFFICES ASSUME FeedInv, Next, NEW a \in Assets, Consistent(a), ~Consistent(a)'
               PROVE  rollback_price_floor(a) \/ rollback_price_bounds(a) \/ BareRegistration(a)
    BY DEF vars
  <2>1. LimitsOK
    BY DEF FeedInv, TypeOK
  <2>2. ~ UNCHANGED <<floor, bounds>>
    BY DEF Consistent
  <2>3. CASE LimitsNext
    <3>1. ASSUME NEW c \in Assets, NEW f \in Floors, set_price_floor(c, f) PROVE FALSE
      BY <2>1, <3>1 DEF set_price_floor, Consistent, LimitsOK
    <3>2. ASSUME NEW c \in Assets, NEW r \in Ranges, set_price_bounds(c, r) PROVE FALSE
      BY <2>1, <3>2 DEF set_price_bounds, Consistent, LimitsOK
    <3>3. ASSUME NEW c \in Assets, rollback_price_floor(c) \/ rollback_price_bounds(c)
          PROVE  c = a
      BY <2>1, <3>3 DEF rollback_price_floor, rollback_price_bounds, Consistent, LimitsOK
    <3> QED
      BY <2>2, <2>3, <3>1, <3>2, <3>3
      DEF LimitsNext, remove_liquidity_threshold, set_max_deviation_percentage,
          rollback_max_deviation_pct, set_liquidity_threshold
  <2>4. ASSUME NEW c \in Assets, remove_asset(c) PROVE FALSE
    BY <2>1, <2>4 DEF remove_asset, DropLimits, Consistent, LimitsOK
  <2>5. ASSUME NEW S \in SUBSET Assets, NEW d \in Deviations, NEW configs \in [S -> Config],
               register_assets_with_config(configs, d)
        PROVE  BareRegistration(a)
    <3>1. ConfigureLimits(configs, d) /\ DOMAIN configs = S
      BY <2>5 DEF register_assets_with_config
    <3>2. /\ bounds'[a] = IF a \in S THEN configs[a].range ELSE bounds[a]
          /\ floor'[a] = IF a \in S /\ configs[a].floor # None THEN configs[a].floor ELSE floor[a]
          /\ UNCHANGED prev_bounds
      BY <3>1 DEF ConfigureLimits
    <3>3. a \in S
      BY <3>2 DEF Consistent
    <3>4. configs[a].floor = None
      <4> SUFFICES ASSUME configs[a].floor # None PROVE FALSE
        OBVIOUS
      <4>1. configs[a].floor <= configs[a].range.max
        BY <3>1, <3>3 DEF ConfigureLimits, validate_asset_registration_configs
      <4> QED
        BY <3>2, <3>3, <4>1 DEF Consistent
    <3>5. floor'[a] = floor[a] /\ floor[a] # None
      BY <3>2, <3>4 DEF Consistent
    <3> QED
      BY <3>1, <3>2, <3>3, <3>4, <3>5 DEF BareRegistration
  <2> QED
    BY <2>2, <2>3, <2>4, <2>5
    DEF Next, limitVars, Tick, Expire, add_asset, assign_delegate, revoke_delegate,
        update_price, update_price_MinimumQuorumNotMet, set_price, submit_community_price,
        enable_bypass_safety_checks, disable_bypass_safety_checks, set_emergency_halt
<1> QED
  BY <1>1, FeedInvHolds, PTL DEF Spec, SettersNeverContradict
=============================================================================
