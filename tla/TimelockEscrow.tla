--------------------------- MODULE TimelockEscrow ---------------------------
(***************************************************************************)
(* Two-signature settlement escrow with expiry (src/escrow/timelock.rs),   *)
(* and the eviction of its released records (src/admin/prune.rs).          *)
(*                                                                         *)
(* Four calls can pay an escrow out: release (both parties signed, before  *)
(* expiry_ledger), signal_fiat_payout (the anchor, before                  *)
(* payout_deadline), refund (the depositor, from expiry_ledger on) and     *)
(* timeout_refund (anybody, from payout_deadline on).  The windows of the  *)
(* anchor and of the depositor overlap.                                    *)
(***************************************************************************)
EXTENDS Balances, FiniteSets

CONSTANTS
  Senders, Receivers, Depositors, Anchors,   \* addresses, by the part they play
  Self,            \* env.current_contract_address()
  None,            \* an absent storage entry
  Forgotten,       \* a pruned record, for the refinement mapping only
  Amounts,         \* amounts offered
  Expiries,        \* expiry_ledger values offered, relative to now
  PayoutTimeout,   \* PAYOUT_TIMEOUT_LEDGERS
  MaxSeq,          \* bound: last ledger sequence explored
  MaxIds,          \* bound: escrows created in one behaviour
  Supply           \* bound: tokens each account starts with

Parties == Senders \cup Receivers \cup Depositors \cup Anchors

Ids == 1..MaxIds

Escrow ==
  [sender : Senders, receiver : Receivers, depositor : Depositors, anchor : Parties,
   amount : Amounts, expiry_ledger : Nat, payout_deadline : Nat,
   sender_approved : BOOLEAN, receiver_approved : BOOLEAN, released : BOOLEAN,
   state : {"Locked", "Settled", "Refunded"}]

\* What Custody sees of an escrow.
Deposit ==
  [owner : Depositors, payee : Receivers, amount : Amounts, refundable_at : Nat,
   status : {"held", "settled", "returned"}]

TimelockAssumption ==
  /\ Self \notin Parties
  /\ None # Forgotten /\ {None, Forgotten} \cap (Escrow \cup Deposit) = {}
  /\ Amounts \subseteq Nat /\ Expiries \subseteq Nat
  /\ PayoutTimeout \in Nat /\ MaxSeq \in Nat /\ MaxIds \in Nat /\ Supply \in Nat

VARIABLES
  seq,       \* env.ledger().sequence()
  nextId,    \* EscrowStorageKey::NextEscrowId
  escrow,    \* EscrowStorageKey::Escrow(id)
  tok        \* balances of the escrowed token (external)

vars == <<seq, nextId, escrow, tok>>

Exists(i) == escrow[i] # None

Open(i) == Exists(i) /\ ~escrow[i].released

is_approved(i) == escrow[i].sender_approved /\ escrow[i].receiver_approved

is_expired(i) == seq >= escrow[i].expiry_ledger

-----------------------------------------------------------------------------

Init ==
  /\ seq = 0
  /\ nextId = 1
  /\ escrow = [i \in Ids |-> None]
  /\ tok = [a \in Parties \cup {Self} |-> IF a = Self THEN 0 ELSE Supply]

CloseLedger ==
  /\ seq < MaxSeq
  /\ seq' = seq + 1
  /\ UNCHANGED <<nextId, escrow, tok>>

\* The anchor starts out as the receiver; the payout deadline is counted from
\* the expiry.
create(sender, receiver, depositor, amount, expiry) ==
  /\ nextId <= MaxIds
  /\ CanMove(tok, depositor, amount)
  /\ tok' = Move(tok, depositor, Self, amount)
  /\ escrow' = [escrow EXCEPT ![nextId] =
        [sender |-> sender, receiver |-> receiver, depositor |-> depositor,
         anchor |-> receiver, amount |-> amount, expiry_ledger |-> expiry,
         payout_deadline |-> expiry + PayoutTimeout, sender_approved |-> FALSE,
         receiver_approved |-> FALSE, released |-> FALSE, state |-> "Locked"]]
  /\ nextId' = nextId + 1
  /\ UNCHANGED seq

\* Neither approval looks at released: one may still come after the payout.
approve_by_sender(caller, i) ==
  /\ Exists(i)
  /\ caller = escrow[i].sender
  /\ escrow' = [escrow EXCEPT ![i].sender_approved = TRUE]
  /\ UNCHANGED <<seq, nextId, tok>>

approve_by_receiver(caller, i) ==
  /\ Exists(i)
  /\ caller = escrow[i].receiver
  /\ escrow' = [escrow EXCEPT ![i].receiver_approved = TRUE]
  /\ UNCHANGED <<seq, nextId, tok>>

\* set_anchor takes no caller: whoever holds the record may re-point it.
set_anchor(i, anchor) ==
  /\ Exists(i)
  /\ escrow' = [escrow EXCEPT ![i].anchor = anchor]
  /\ UNCHANGED <<seq, nextId, tok>>

\* Transfer the amount and close the record.
PayOut(i, to, state) ==
  /\ CanMove(tok, Self, escrow[i].amount)
  /\ tok' = Move(tok, Self, to, escrow[i].amount)
  /\ escrow' = [escrow EXCEPT ![i].released = TRUE, ![i].state = state]
  /\ UNCHANGED <<seq, nextId>>

release(i) ==
  /\ Open(i)
  /\ ~is_expired(i)
  /\ is_approved(i)
  /\ PayOut(i, escrow[i].receiver, "Settled")

signal_fiat_payout(caller, i) ==
  /\ Open(i)
  /\ caller = escrow[i].anchor
  /\ seq < escrow[i].payout_deadline
  /\ PayOut(i, escrow[i].receiver, "Settled")

timeout_refund(i) ==
  /\ Open(i)
  /\ seq >= escrow[i].payout_deadline
  /\ PayOut(i, escrow[i].sender, "Refunded")

\* Mutant: the depositor may pull out at any time.
refund_AnyTime(caller, i) ==
  /\ Open(i)
  /\ caller = escrow[i].depositor
  /\ PayOut(i, escrow[i].depositor, "Refunded")

refund(caller, i) ==
  /\ Open(i)
  /\ caller = escrow[i].depositor
  /\ is_expired(i)
  /\ PayOut(i, escrow[i].depositor, "Refunded")

\* The admin's pruning: released records among the targets are evicted.
prune_expired_keys(targets) ==
  /\ escrow' = [i \in Ids |-> IF i \in targets /\ Exists(i) /\ ~Open(i)
                              THEN None ELSE escrow[i]]
  /\ UNCHANGED <<seq, nextId, tok>>

Next ==
  \/ CloseLedger
  \/ \E s \in Senders, r \in Receivers, d \in Depositors, x \in Amounts, e \in Expiries :
        create(s, r, d, x, seq + e)
  \/ \E c \in Parties, i \in Ids : approve_by_sender(c, i)
  \/ \E c \in Parties, i \in Ids : approve_by_receiver(c, i)
  \/ \E i \in Ids, a \in Anchors : set_anchor(i, a)
  \/ \E i \in Ids : release(i)
  \/ \E c \in Parties, i \in Ids : signal_fiat_payout(c, i)
  \/ \E i \in Ids : timeout_refund(i)
  \/ \E c \in Parties, i \in Ids : refund(c, i)
  \/ \E T \in SUBSET Ids : prune_expired_keys(T)

Spec == Init /\ [][Next]_vars

-----------------------------------------------------------------------------

\* Records, balances and the identifier counter keep their types, and the two
\* fields that say whether a record was paid out never disagree.
TypeOK ==
  /\ seq \in 0..MaxSeq
  /\ nextId \in 1..(MaxIds + 1)
  /\ escrow \in [Ids -> Escrow \cup {None}]
  /\ tok \in [Parties \cup {Self} -> Nat]
  /\ \A i \in Ids : Exists(i) => (escrow[i].released <=> escrow[i].state # "Locked")

\* The contract holds exactly what the open escrows were funded with: of the
\* four calls that can pay an escrow out, two never both do.
HoldsTheOpenEscrows ==
  tok[Self] = SumOf([i \in Ids |-> IF Open(i) THEN escrow[i].amount ELSE 0], Ids)

CustodyStatus == [Locked |-> "held", Settled |-> "settled", Refunded |-> "returned"]

DepositOf(r) ==
  [owner |-> r.depositor, payee |-> r.receiver, amount |-> r.amount,
   refundable_at |-> r.expiry_ledger, status |-> CustodyStatus[r.state]]

\* An identifier handed out without a record is one whose record was pruned.
deposits ==
  [i \in Ids |-> IF Exists(i) THEN DepositOf(escrow[i])
                 ELSE IF i < nextId THEN Forgotten ELSE None]

C == INSTANCE Custody
     WITH Parties <- Parties, NoDeposit <- None, Exclusive <- FALSE, clock <- seq

\* The escrow implements the custody contract, with settlement and refund
\* windows that overlap; re-pointing the anchor and late approvals change
\* nothing that the contract is about.
ImplementsCustody == C!Spec

\* No escrow stays open for ever, even if no party ever signs.
EveryEscrowCloses ==
  \A i \in Ids : (Open(i) /\ escrow[i].payout_deadline <= MaxSeq) ~> ~Open(i)
=============================================================================
