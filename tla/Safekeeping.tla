---------------------------- MODULE Safekeeping ----------------------------
(***************************************************************************)
(* Small contracts that hold something and let go of it by vote or with    *)
(* time: the rescue of tokens a bridge failed to deliver                   *)
(* (contracts/bridge-rescue), large withdrawals that wait                  *)
(* (src/bridge/timelock.rs), orders that are returned when their maker     *)
(* falls silent (contracts/order-book), and an emission that decays        *)
(* (contracts/staking-pool).  The sparse tree of spent nullifiers          *)
(* (contracts/shielded-remittance-escrow) is modelled as operators: its    *)
(* verifier accepts no proof, so withdraw never gets past it.              *)
(***************************************************************************)
EXTENDS Balances, Sequences, SequencesExt, FiniteSetsExt

CONSTANTS
  None,
  Senders,        \* accounts that lock, queue and place orders
  Committees,     \* sequences of admins or validators given to initialize
  Thresholds,     \* thresholds given to initialize
  Timeout,        \* window of a lock
  Amounts,        \* amounts locked, queued and ordered
  Large,          \* LARGE_TRANSFER_THRESHOLD
  Delay,          \* TIMELOCK_SECONDS
  KeySets,        \* validator keys of the bridge
  Silence,        \* HEARTBEAT_TIMEOUT
  Full,           \* 10000 basis points
  Emissions,      \* parameters of the emission
  Supply,         \* what every sender has
  MaxTime, MaxLocks, MaxOrders, MaxRotations   \* bounds

\* A withdrawal in the timelock.
QueuedWithdrawal == [amount : Int, at : Nat, cancelled : BOOLEAN, execute_after : Nat]

SafekeepingAssumption ==
  /\ Timeout \in Nat /\ Delay \in Nat /\ Silence \in Nat /\ Large \in Nat /\ Full \in Nat \ {0}
  /\ Supply \in Nat /\ MaxTime \in Nat /\ MaxLocks \in Nat /\ MaxOrders \in Nat
  /\ MaxRotations \in Nat
  /\ Amounts \subseteq Int
  /\ "self" \notin Senders /\ None \notin QueuedWithdrawal
  /\ Thresholds \subseteq Nat /\ \A c \in Committees : c \in Seq(ToSet(c))

VARIABLES
  now,
  rescue,    \* the bridge rescue
  queue,     \* withdrawals in the timelock, governance and validator keys
  book,      \* the order book
  emission   \* the yield of the staking pool

vars == <<now, rescue, queue, book, emission>>

House == "self"   \* the address of the contract that keeps

-----------------------------------------------------------------------------
(* Bridge rescue *)

has_duplicate_addresses(addrs) == ~IsInjective(addrs)

initialize(admins, threshold, validators, validator_threshold) ==
  /\ ~rescue.initialized
  /\ threshold # 0 /\ threshold <= Len(admins)
  /\ validator_threshold # 0 /\ validator_threshold <= Len(validators)
  /\ ~has_duplicate_addresses(admins) /\ ~has_duplicate_addresses(validators)
  /\ rescue' = [rescue EXCEPT !.initialized = TRUE,
       !.admins = ToSet(admins), !.threshold = threshold,
       !.validators = ToSet(validators), !.validator_threshold = validator_threshold]
  /\ UNCHANGED <<now, queue, book, emission>>

lock_tokens(sender, amount) ==
  /\ rescue.initialized /\ amount > 0 /\ CanMove(rescue.bal, sender, amount)
  /\ Len(rescue.locks) < MaxLocks
  /\ rescue' = [rescue EXCEPT
       !.bal = Move(@, sender, House, amount),
       !.locks = Append(@, [sender |-> sender, amount |-> amount, status |-> "Locked",
                            confirmed |-> FALSE, at |-> now, votes |-> {}, approvals |-> {}])]
  /\ UNCHANGED <<now, queue, book, emission>>

lock_expiration_instant(lock) == lock.at + Timeout

is_expired(lock) == now >= lock_expiration_instant(lock)

is_ready_for_rescue(r, lock) ==
  lock.status = "Locked" /\ lock.confirmed /\ Cardinality(lock.approvals) >= r.threshold

\* The contract with this lock, which leaves with its tokens under this status.
Paid(r, id, lock, status) ==
  [r EXCEPT !.locks[id] = [lock EXCEPT !.status = status],
            !.bal = Move(@, House, lock.sender, lock.amount)]

\* The vote that crosses the second threshold rescues at once.
perform_rescue(r, id, lock) ==
  IF is_ready_for_rescue(r, lock) THEN Paid(r, id, lock, "Rescued") ELSE [r EXCEPT !.locks[id] = lock]

submit_failure_proof(validator, id) ==
  LET lock == rescue.locks[id]
      votes == lock.votes \cup {validator}
      confirmed == lock.confirmed \/ Cardinality(votes) >= rescue.validator_threshold
  IN /\ validator \in rescue.validators
     /\ lock.status = "Locked" /\ ~is_expired(lock) /\ validator \notin lock.votes
     /\ rescue' = perform_rescue(rescue, id, [lock EXCEPT !.votes = votes, !.confirmed = confirmed])
     /\ UNCHANGED <<now, queue, book, emission>>

\* Approvals may come before the proof and after the window.
approve_rescue(admin, id) ==
  LET lock == rescue.locks[id]
  IN /\ admin \in rescue.admins
     /\ lock.status = "Locked" /\ admin \notin lock.approvals
     /\ rescue' = perform_rescue(rescue, id, [lock EXCEPT !.approvals = @ \cup {admin}])
     /\ UNCHANGED <<now, queue, book, emission>>

\* The condition under which execute_rescue does anything.
execute_rescue(id) == is_ready_for_rescue(rescue, rescue.locks[id])

\* Mutant: a confirmed failure is not looked at.
Refundable_Confirmed(lock) == lock.status = "Locked" /\ is_expired(lock)

\* A confirmed failure keeps a lock from being refunded, single votes do not.
Refundable(lock) == lock.status = "Locked" /\ ~lock.confirmed /\ is_expired(lock)

refund_expired(id) ==
  /\ Refundable(rescue.locks[id])
  /\ rescue' = Paid(rescue, id, rescue.locks[id], "CancelledExpired")
  /\ UNCHANGED <<now, queue, book, emission>>

-----------------------------------------------------------------------------
(* Withdrawals that wait *)

\* One per receiver: a second one takes the place of the first.
queue_withdrawal(receiver, amount) ==
  /\ amount >= 0
  /\ queue' = [queue EXCEPT !.withdrawal[receiver] =
       [amount |-> amount, at |-> now, cancelled |-> FALSE,
        execute_after |-> IF amount > Large THEN now + Delay ELSE now]]
  /\ UNCHANGED <<now, rescue, book, emission>>

cancel_withdrawal(receiver) ==
  /\ queue.withdrawal[receiver] # None
  /\ queue' = [queue EXCEPT !.withdrawal[receiver].cancelled = TRUE]
  /\ UNCHANGED <<now, rescue, book, emission>>

execute_withdrawal(receiver) ==
  LET w == queue.withdrawal[receiver]
  IN /\ w # None
     /\ ~w.cancelled /\ now >= w.execute_after
     /\ queue' = [queue EXCEPT !.withdrawal[receiver] = None]
     /\ UNCHANGED <<now, rescue, book, emission>>

initialize_governance(governance) ==
  /\ queue.governance = None
  /\ queue' = [queue EXCEPT !.governance = governance]
  /\ UNCHANGED <<now, rescue, book, emission>>

initialize_validator_set(keys) ==
  /\ queue.keys = None
  /\ queue' = [queue EXCEPT !.keys = [sequence |-> 0, set |-> keys]]
  /\ UNCHANGED <<now, rescue, book, emission>>

rotate_validators(caller, keys) ==
  /\ queue.governance # None /\ caller = queue.governance /\ queue.keys # None
  /\ queue' = [queue EXCEPT !.keys = [sequence |-> @.sequence + 1, set |-> keys]]
  /\ UNCHANGED <<now, rescue, book, emission>>

-----------------------------------------------------------------------------
(* Orders of makers who show themselves *)

place_order(maker, amount) ==
  /\ amount > 0 /\ CanMove(book.bal, maker, amount) /\ Len(book.orders) < MaxOrders
  /\ book' = [book EXCEPT !.bal = Move(@, maker, House, amount),
                          !.orders = Append(@, [maker |-> maker, amount |-> amount]),
                          !.maker_orders[maker] = Append(@, Len(book.orders) + 1),
                          !.heartbeat[maker] = now]
  /\ UNCHANGED <<now, rescue, queue, emission>>

heartbeat(maker) ==
  /\ book' = [book EXCEPT !.heartbeat[maker] = now]
  /\ UNCHANGED <<now, rescue, queue, emission>>

\* The book after the order is paid back, or None when it is not the maker's.
refund_order(b, maker, id) ==
  LET order == b.orders[id]
  IN IF b = None THEN None
     ELSE IF order = None THEN None
     ELSE IF order.maker # maker THEN None
     ELSE [b EXCEPT !.bal = Move(@, House, maker, order.amount), !.orders[id] = None]

cancel_order(maker, id) ==
  LET refunded == refund_order(book, maker, id)
  IN /\ refunded # None
     /\ book' = [refunded EXCEPT !.maker_orders[maker] = SelectSeq(@, LAMBDA i : i # id),
                                 !.heartbeat[maker] = now]
     /\ UNCHANGED <<now, rescue, queue, emission>>

\* Anybody may, once the maker has been silent for longer than the timeout; one
\* order that cannot be refunded would keep all of them.
cancel_stale_orders(maker) ==
  LET refunded == FoldLeft(LAMBDA b, id : refund_order(b, maker, id), book, book.maker_orders[maker])
  IN /\ book.heartbeat[maker] # None /\ now - book.heartbeat[maker] > Silence
     /\ refunded # None
     /\ book' = [refunded EXCEPT !.maker_orders[maker] = <<>>]
     /\ UNCHANGED <<now, rescue, queue, emission>>

-----------------------------------------------------------------------------
(* The decaying emission *)

initialize_emission(p) ==
  /\ emission.p = None /\ p.decay <= Full /\ p.epoch # 0
  /\ emission' = [p |-> p, total |-> 0, last |-> p.start, rate |-> p.rate]
  /\ UNCHANGED <<now, rescue, queue, book>>

Epoch(p, ledger) == IF ledger < p.start THEN 0 ELSE (ledger - p.start) \div p.epoch

\* The rate of an epoch, decayed and rounded once per epoch.
RateOf(p, epoch) == FoldLeftDomain(LAMBDA rate, i : (rate * (Full - p.decay)) \div Full, p.rate,
                                   [i \in 1..epoch |-> i])

get_reward_rate == RateOf(emission.p, Epoch(emission.p, now))

\* The total after the spans from ledger to now, one epoch or less at a time.
Emitted[total \in Nat, ledger \in Nat] ==
  LET p == emission.p
      next == p.start + (Epoch(p, ledger) + 1) * p.epoch
      end == Min({now, next})
      span == RateOf(p, Epoch(p, ledger)) * (end - ledger)
  IN IF ledger >= now \/ total >= p.cap THEN total
     ELSE Emitted[Min({total + span, p.cap}), end]

update_emissions ==
  /\ emission.p # None
  /\ now > emission.last
  /\ emission' = [emission EXCEPT !.total = Emitted[emission.total, emission.last],
                                  !.last = now, !.rate = get_reward_rate]
  /\ UNCHANGED <<now, rescue, queue, book>>

-----------------------------------------------------------------------------
(* The tree of spent nullifiers: a leaf per nullifier, zero while unspent *)

\* A pair of hashes stands for its hash.
hash_pair(left, right) == <<left, right>>

nullifier_bit(nullifier, level) == (nullifier \div 2^level) % 2

\* The root above a leaf, from the siblings on its path.
RootAbove(nullifier, leaf, path) ==
  FoldLeftDomain(LAMBDA hash, i :
      IF nullifier_bit(nullifier, i - 1) = 1 THEN hash_pair(path[i], hash) ELSE hash_pair(hash, path[i]),
    leaf, path)

\* The root once the nullifier is spent, or None when the path does not show it
\* unspent.
verify_unspent_and_compute_root(nullifier, path, root, depth) ==
  IF nullifier = 0 \/ Len(path) # depth THEN None
  ELSE IF RootAbove(nullifier, nullifier, path) = root THEN None
  ELSE IF RootAbove(nullifier, 0, path) # root THEN None
  ELSE RootAbove(nullifier, nullifier, path)

-----------------------------------------------------------------------------

Tick == now < MaxTime /\ now' = now + 1 /\ UNCHANGED <<rescue, queue, book, emission>>

People == UNION {ToSet(c) : c \in Committees}

RescueNext ==
  \/ \E a, v \in Committees, t, u \in Thresholds : initialize(a, t, v, u)
  \/ \E s \in Senders, n \in Amounts : lock_tokens(s, n)
  \/ \E i \in DOMAIN rescue.locks :
       refund_expired(i) \/ \E a \in People : submit_failure_proof(a, i) \/ approve_rescue(a, i)
  \/ Tick

TimelockNext ==
  \/ \E r \in Senders :
       cancel_withdrawal(r) \/ execute_withdrawal(r) \/ \E n \in Amounts : queue_withdrawal(r, n)
  \/ \E g \in Senders : initialize_governance(g)
  \/ \E k \in KeySets : initialize_validator_set(k)
  \/ \E g \in Senders, k \in KeySets :
       rotate_validators(g, k) /\ queue'.keys.sequence <= MaxRotations
  \/ Tick

BookNext ==
  \/ \E m \in Senders : heartbeat(m) \/ cancel_stale_orders(m) \/ \E n \in Amounts : place_order(m, n)
  \/ \E m \in Senders, i \in DOMAIN book.orders : cancel_order(m, i)
  \/ Tick

EmissionNext ==
  \/ \E p \in Emissions : initialize_emission(p)
  \/ update_emissions
  \/ Tick

Init ==
  /\ now = 0
  /\ rescue = [initialized |-> FALSE, admins |-> {}, threshold |-> 0, validators |-> {},
               validator_threshold |-> 0, locks |-> <<>>,
               bal |-> [a \in Senders \cup {House} |-> IF a = House THEN 0 ELSE Supply]]
  /\ queue = [withdrawal |-> [a \in Senders |-> None], governance |-> None, keys |-> None]
  /\ book = [orders |-> <<>>, maker_orders |-> [a \in Senders |-> <<>>],
             heartbeat |-> [a \in Senders |-> None],
             bal |-> [a \in Senders \cup {House} |-> IF a = House THEN 0 ELSE Supply]]
  /\ emission = [p |-> None, total |-> 0, last |-> 0, rate |-> 0]

-----------------------------------------------------------------------------
(* Properties *)

\* Balances, totals and the clock are natural numbers.
TypeOK ==
  /\ \A a \in DOMAIN rescue.bal : rescue.bal[a] \in Nat
  /\ \A a \in DOMAIN book.bal : book.bal[a] \in Nat
  /\ emission.total \in Nat /\ now \in 0..MaxTime

\* What the rescue holds is what is locked, a rescued lock has both committees
\* behind it, a refunded one has not, and nobody need call execute_rescue.
RescueIsExact ==
  LET locks == DOMAIN rescue.locks
      open == {i \in locks : rescue.locks[i].status = "Locked"}
  IN /\ rescue.bal[House] = SumOf([i \in open |-> rescue.locks[i].amount], open)
     /\ \A i \in locks :
          LET lock == rescue.locks[i]
              proved == Cardinality(lock.votes) >= rescue.validator_threshold
              approved == Cardinality(lock.approvals) >= rescue.threshold
          IN /\ lock.status = "Rescued" => proved /\ approved
             /\ lock.status = "CancelledExpired" => ~proved
             /\ ~execute_rescue(i)

\* No lock is stranded: whatever was voted and when, once the window is over a
\* lock can be refunded by anybody or rescued by admins who have not approved yet.
NoLockIsStranded ==
  \A i \in DOMAIN rescue.locks :
    LET lock == rescue.locks[i]
    IN lock.status = "Locked" /\ is_expired(lock) =>
         Refundable(lock) \/ (lock.confirmed /\ rescue.admins \ lock.approvals # {})

\* A lock leaves once, and the window decides between its two exits: the votes
\* counted when it ends are all the votes there will be.
WindowDecides ==
  [][\A i \in DOMAIN rescue.locks :
       LET lock == rescue.locks[i]
           next == rescue'.locks[i]
       IN /\ lock.status # "Locked" => next = lock
          /\ is_expired(lock) => next.votes = lock.votes
          /\ next.status = "CancelledExpired" => lock_expiration_instant(lock) <= now]_rescue

\* A large withdrawal is executed no earlier than its delay after it was queued,
\* and a cancelled one not at all; the sequence of key sets counts rotations.
LargeWithdrawalsWait ==
  [][/\ \A r \in Senders :
          LET w == queue.withdrawal[r]
          IN w # None /\ queue'.withdrawal[r] = None =>
               ~w.cancelled /\ (w.amount > Large => now - w.at >= Delay)
     /\ queue.keys # None /\ queue'.keys # queue.keys =>
          queue'.keys.sequence = queue.keys.sequence + 1 /\ queue.governance # None]_queue

\* The book holds what its open orders say, and every maker's list is exactly
\* the maker's open orders, so that no foreign order keeps stale ones from
\* being returned.
OrdersAreHeld ==
  LET open == {i \in DOMAIN book.orders : book.orders[i] # None}
  IN /\ book.bal[House] = SumOf([i \in open |-> book.orders[i].amount], open)
     /\ \A m \in Senders :
          /\ IsInjective(book.maker_orders[m])
          /\ ToSet(book.maker_orders[m]) = {i \in open : book.orders[i].maker = m}

\* Several orders of a maker are returned at once only after a full silence, and
\* then all of them.
OnlySilenceReturns ==
  [][\A m \in Senders :
       LET before == Len(book.maker_orders[m])
           after == Len(book'.maker_orders[m])
       IN before - after > 1 => after = 0 /\ now - book.heartbeat[m] > Silence]_book

\* However often and however late the emission is updated, what was emitted is
\* the sum over the ledgers of their epochs' rates, up to the cap.
EmissionIsPathIndependent ==
  emission.p # None /\ emission.last > emission.p.start =>
    LET p == emission.p
        ledgers == p.start..emission.last - 1
        due == SumOf([l \in ledgers |-> RateOf(p, Epoch(p, l))], ledgers)
    IN emission.total = Min({due, p.cap}) /\ emission.rate = RateOf(p, Epoch(p, emission.last))

\* With the path of the tree over what was spent, a nullifier passes exactly when
\* it is unspent, and the root that results is the root over what is spent then;
\* the path of another tree does not pass.
SpentTreeIsExact ==
  LET Leaf(spent, k) == IF k \in spent THEN k ELSE 0
      Node(spent, k) == hash_pair(Leaf(spent, 2 * k), Leaf(spent, 2 * k + 1))
      Root(spent) == hash_pair(Node(spent, 0), Node(spent, 1))
      Flip(k) == IF k % 2 = 0 THEN k + 1 ELSE k - 1
      Path(spent, k) == <<Leaf(spent, Flip(k)), Node(spent, Flip(k \div 2))>>
  IN \A spent, other \in SUBSET (1..3), k \in 0..3 :
       LET next == verify_unspent_and_compute_root(k, Path(other, k), Root(spent), 2)
       IN IF k # 0 /\ k \notin spent /\ spent \ {k} = other \ {k} THEN next = Root(spent \cup {k})
          ELSE next = None
=============================================================================
