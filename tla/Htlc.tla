-------------------------------- MODULE Htlc --------------------------------
(***************************************************************************)
(* Hash time-locked settlement (src/settlement/htlc.rs) with the pruning   *)
(* of closed records by the admin (src/admin/prune.rs).                    *)
(*                                                                         *)
(* A depositor locks an amount for a beneficiary under a hash and a        *)
(* deadline, a ledger sequence number.  Strictly before the deadline the   *)
(* beneficiary may claim with the pre-image or, as a fiat anchor, attest   *)
(* the payout; from the deadline on the depositor may take it back.        *)
(***************************************************************************)
EXTENDS Integers, FiniteSets

CONSTANTS
  Accounts,       \* depositors and beneficiaries
  PreImages,      \* byte strings a claim may present
  Hash,           \* env.crypto().sha256, a function of the pre-image
  None,           \* an absent storage entry
  Forgotten,      \* a pruned record, for the refinement mapping only
  Amounts,        \* amounts offered
  MinOffset,      \* MIN_DEADLINE_OFFSET
  MaxOffset,      \* MAX_DEADLINE_OFFSET
  MaxActive,      \* MAX_ACTIVE_HTLCS
  MaxSeq,         \* bound: last ledger sequence explored
  MaxIds          \* bound: HTLCs created in one behaviour

Hashes == {Hash[p] : p \in PreImages}

Ids == 1..MaxIds

HtlcRecord ==
  [depositor : Accounts, beneficiary : Accounts, hash_lock : Hashes,
   deadline_sequence : Nat, amount : Amounts \ {0},
   state : {"Active", "Claimed", "Settled", "Refunded"}]

\* What Custody sees of an HTLC.
Deposit ==
  [owner : Accounts, payee : Accounts, amount : Amounts, refundable_at : Nat,
   status : {"held", "settled", "returned"}]

ASSUME HtlcAssumption ==
  /\ Hash \in [PreImages -> Hashes]
  /\ None # Forgotten
  /\ None \notin HtlcRecord \cup Deposit
  /\ Forgotten \notin HtlcRecord \cup Deposit
  /\ Amounts \subseteq Nat
  /\ MinOffset \in Nat /\ MaxOffset \in Nat /\ MaxActive \in Nat
  /\ MaxSeq \in Nat /\ MaxIds \in Nat

VARIABLES
  seq,      \* env.ledger().sequence()
  nonce,    \* HTLC_NONCE_KEY: the last identifier handed out
  htlc,     \* HtlcKey(id)
  active    \* HtlcCounterKey(depositor)

vars == <<seq, nonce, htlc, active>>

Exists(i) == htlc[i] # None

IsActive(i) == Exists(i) /\ htlc[i].state = "Active"

-----------------------------------------------------------------------------

Init ==
  /\ seq = 0
  /\ nonce = 0
  /\ htlc = [i \in Ids |-> None]
  /\ active = [a \in Accounts |-> 0]

CloseLedger ==
  /\ seq < MaxSeq
  /\ seq' = seq + 1
  /\ UNCHANGED <<nonce, htlc, active>>

\* Mutant: the quota test lets one more through.
create_htlc_QuotaOffByOne(depositor, beneficiary, hash_lock, deadline, amount) ==
  /\ amount # 0
  /\ deadline > seq + MinOffset
  /\ deadline <= seq + MaxOffset
  /\ active[depositor] <= MaxActive
  /\ nonce < MaxIds
  /\ nonce' = nonce + 1
  /\ htlc' = [htlc EXCEPT ![nonce + 1] =
        [depositor |-> depositor, beneficiary |-> beneficiary, hash_lock |-> hash_lock,
         deadline_sequence |-> deadline, amount |-> amount, state |-> "Active"]]
  /\ active' = [active EXCEPT ![depositor] = @ + 1]
  /\ UNCHANGED seq

\* The quota is tested after the nonce and the record are written; the error
\* rolls both back.
create_htlc(depositor, beneficiary, hash_lock, deadline, amount) ==
  /\ amount # 0
  /\ deadline > seq + MinOffset
  /\ deadline <= seq + MaxOffset
  /\ active[depositor] < MaxActive
  /\ nonce < MaxIds
  /\ nonce' = nonce + 1
  /\ htlc' = [htlc EXCEPT ![nonce + 1] =
        [depositor |-> depositor, beneficiary |-> beneficiary, hash_lock |-> hash_lock,
         deadline_sequence |-> deadline, amount |-> amount, state |-> "Active"]]
  /\ active' = [active EXCEPT ![depositor] = @ + 1]
  /\ UNCHANGED seq

\* Close record i and give its depositor the quota back.
Close(i, state) ==
  /\ htlc' = [htlc EXCEPT ![i].state = state]
  /\ active' = [active EXCEPT ![htlc[i].depositor] = IF @ > 0 THEN @ - 1 ELSE @]
  /\ UNCHANGED <<seq, nonce>>

\* Mutant: the claim is still accepted at the deadline itself.
claim_AtDeadline(caller, i, pre_image) ==
  /\ Exists(i)
  /\ htlc[i].beneficiary = caller
  /\ htlc[i].state = "Active"
  /\ seq <= htlc[i].deadline_sequence
  /\ Hash[pre_image] = htlc[i].hash_lock
  /\ Close(i, "Claimed")

claim(caller, i, pre_image) ==
  /\ Exists(i)
  /\ htlc[i].beneficiary = caller
  /\ htlc[i].state = "Active"
  /\ seq < htlc[i].deadline_sequence
  /\ Hash[pre_image] = htlc[i].hash_lock
  /\ Close(i, "Claimed")

\* No pre-image: the beneficiary's signature attests the fiat payout.  (The
\* code also accepts the state Locked, which nothing in it ever stores.)
anchor_settle(caller, i) ==
  /\ Exists(i)
  /\ htlc[i].beneficiary = caller
  /\ htlc[i].state = "Active"
  /\ seq < htlc[i].deadline_sequence
  /\ Close(i, "Settled")

refund(caller, i) ==
  /\ Exists(i)
  /\ htlc[i].depositor = caller
  /\ htlc[i].state = "Active"
  /\ seq >= htlc[i].deadline_sequence
  /\ Close(i, "Refunded")

\* An HTLC the admin's pruning evicts.  Settled ones are never pruned.
Prunable(i) == Exists(i) /\ htlc[i].state \in {"Claimed", "Refunded"}

\* The admin names targets; those that are prunable are removed, the others are
\* skipped.
prune_expired_keys(targets) ==
  /\ htlc' = [i \in Ids |-> IF i \in targets /\ Prunable(i) THEN None ELSE htlc[i]]
  /\ UNCHANGED <<seq, nonce, active>>

is_expired(i) == IsActive(i) /\ seq >= htlc[i].deadline_sequence

Next ==
  \/ CloseLedger
  \/ \E d, b \in Accounts, h \in Hashes, o \in (MinOffset + 1)..MaxOffset, x \in Amounts :
        create_htlc(d, b, h, seq + o, x)
  \/ \E c \in Accounts, i \in Ids, p \in PreImages : claim(c, i, p)
  \/ \E c \in Accounts, i \in Ids : anchor_settle(c, i)
  \/ \E c \in Accounts, i \in Ids : refund(c, i)
  \/ \E T \in SUBSET Ids : prune_expired_keys(T)

Spec == Init /\ [][Next]_vars

(***************************************************************************)
(* Ledgers keep closing, and a depositor who can be refunded asks for it.  *)
(***************************************************************************)
-----------------------------------------------------------------------------

\* Every storage entry holds a value of its declared type.
TypeOK ==
  /\ seq \in 0..MaxSeq
  /\ nonce \in 0..MaxIds
  /\ htlc \in [Ids -> HtlcRecord \cup {None}]
  /\ active \in [Accounts -> Nat]

ActiveOf(a) == {i \in Ids : IsActive(i) /\ htlc[i].depositor = a}

\* The quota counter of a depositor is the number of its Active records, through
\* every order of claims, settlements, refunds and prunings, and the quota holds.
QuotaExact ==
  \A a \in Accounts :
    /\ active[a] = Cardinality(ActiveOf(a))
    /\ active[a] <= MaxActive

CustodyStatus ==
  [Active |-> "held", Claimed |-> "settled", Settled |-> "settled",
   Refunded |-> "returned"]

DepositOf(r) ==
  [owner |-> r.depositor, payee |-> r.beneficiary, amount |-> r.amount,
   refundable_at |-> r.deadline_sequence, status |-> CustodyStatus[r.state]]

\* An identifier up to the nonce without a record is one whose record was pruned.
deposits ==
  [i \in Ids |-> IF Exists(i) THEN DepositOf(htlc[i])
                 ELSE IF i <= nonce THEN Forgotten ELSE None]

C == INSTANCE Custody
     WITH Parties <- Accounts, NoDeposit <- None, Exclusive <- TRUE, clock <- seq

\* The HTLCs implement the custody contract with exclusive windows: one
\* resolution each, to the beneficiary only before the deadline and to the
\* depositor only from it on, and pruning never drops an open one or frees its
\* identifier for reuse.
ImplementsCustody == C!Spec

\* An HTLC whose deadline passes does not stay open, if its depositor insists.
ExpiredAreRefunded == \A i \in Ids : is_expired(i) ~> ~IsActive(i)
=============================================================================
