----------------------------- MODULE FiatEscrow -----------------------------
(***************************************************************************)
(* Cross-border fiat escrow of the core contract (src/lib.rs, entry points *)
(* open/lock/dispatch/settle/refund).  The record moves Pending -> Locked  *)
(* -> [Dispatched ->] Settled or Refunded; the anchor has a fixed time     *)
(* from locking, after which anybody may trigger the refund.               *)
(***************************************************************************)
EXTENDS Integers

CONSTANTS
  Accounts,     \* senders, anchors and third parties
  None,         \* an absent storage entry
  Amounts,      \* amounts offered
  Timeout,      \* FIAT_PAYOUT_TIMEOUT_SECS
  Genesis,      \* ledger time at which the contract goes live
  MaxTime,      \* bound: last ledger time explored
  MaxIds        \* bound: escrows opened in one behaviour

Ids == 0..(MaxIds - 1)

States == {"Pending", "Locked", "Dispatched", "Settled", "Refunded"}

FiatEscrowRecord ==
  [sender : Accounts, anchor : Accounts, amount : Amounts, state : States,
   locked_at : Nat]

\* What Custody sees of an escrow that was locked.
Deposit ==
  [owner : Accounts, payee : Accounts, amount : Amounts, refundable_at : Nat,
   status : {"held", "settled", "returned"}]

(***************************************************************************)
(* locked_at = 0 means "never locked", so the contract relies on the       *)
(* ledger time never being 0; network time is seconds since 1970.          *)
(***************************************************************************)
FiatEscrowAssumption ==
  /\ Amounts \subseteq Nat
  /\ Timeout \in Nat /\ MaxTime \in Nat /\ MaxIds \in Nat
  /\ Genesis \in Nat \ {0} /\ Genesis <= MaxTime
  /\ None \notin FiatEscrowRecord \cup Deposit

VARIABLES
  now,       \* env.ledger().timestamp()
  counter,   \* FiatEscrowKey::Counter
  escrow     \* FiatEscrowKey::Escrow(id)

vars == <<now, counter, escrow>>

Exists(i) == escrow[i] # None

InState(i, S) == Exists(i) /\ escrow[i].state \in S

-----------------------------------------------------------------------------

Init ==
  /\ now = Genesis
  /\ counter = 0
  /\ escrow = [i \in Ids |-> None]

Tick ==
  /\ now < MaxTime
  /\ now' = now + 1
  /\ UNCHANGED <<counter, escrow>>

open_fiat_escrow(sender, anchor, amount) ==
  /\ amount # 0
  /\ counter < MaxIds
  /\ escrow' = [escrow EXCEPT ![counter] =
        [sender |-> sender, anchor |-> anchor, amount |-> amount,
         state |-> "Pending", locked_at |-> 0]]
  /\ counter' = counter + 1
  /\ UNCHANGED now

lock_fiat_escrow(sender, i) ==
  /\ InState(i, {"Pending"})
  /\ escrow[i].sender = sender
  /\ escrow' = [escrow EXCEPT ![i].state = "Locked", ![i].locked_at = now]
  /\ UNCHANGED <<now, counter>>

\* _fiat_escrow_expired: an escrow that was never locked never expires.
fiat_escrow_expired(i) ==
  escrow[i].locked_at # 0 /\ now - escrow[i].locked_at >= Timeout

dispatch_fiat_payout(anchor, i) ==
  /\ InState(i, {"Locked"})
  /\ escrow[i].anchor = anchor
  /\ ~fiat_escrow_expired(i)
  /\ escrow' = [escrow EXCEPT ![i].state = "Dispatched"]
  /\ UNCHANGED <<now, counter>>

settle_fiat_escrow(anchor, i) ==
  /\ InState(i, {"Locked", "Dispatched"})
  /\ escrow[i].anchor = anchor
  /\ ~fiat_escrow_expired(i)
  /\ escrow' = [escrow EXCEPT ![i].state = "Settled"]
  /\ UNCHANGED <<now, counter>>

\* Mutant: a payout already dispatched can no longer be refunded.
refund_fiat_escrow_LockedOnly(i) ==
  /\ InState(i, {"Locked"})
  /\ fiat_escrow_expired(i)
  /\ escrow' = [escrow EXCEPT ![i].state = "Refunded"]
  /\ UNCHANGED <<now, counter>>

\* Any account may call it.
refund_fiat_escrow(i) ==
  /\ InState(i, {"Locked", "Dispatched"})
  /\ fiat_escrow_expired(i)
  /\ escrow' = [escrow EXCEPT ![i].state = "Refunded"]
  /\ UNCHANGED <<now, counter>>

Next ==
  \/ Tick
  \/ \E s, a \in Accounts, x \in Amounts : open_fiat_escrow(s, a, x)
  \/ \E s \in Accounts, i \in Ids : lock_fiat_escrow(s, i)
  \/ \E a \in Accounts, i \in Ids : dispatch_fiat_payout(a, i)
  \/ \E a \in Accounts, i \in Ids : settle_fiat_escrow(a, i)
  \/ \E i \in Ids : refund_fiat_escrow(i)

Spec == Init /\ [][Next]_vars

-----------------------------------------------------------------------------

\* Every storage entry holds a value of its declared type, and locked_at keeps
\* its declared meaning: 0 exactly while the escrow has not been locked.
TypeOK ==
  /\ now \in Genesis..MaxTime
  /\ counter \in 0..MaxIds
  /\ escrow \in [Ids -> FiatEscrowRecord \cup {None}]
  /\ \A i \in Ids : Exists(i) => (escrow[i].locked_at = 0 <=> InState(i, {"Pending"}))

\* Funds count as deposited from the moment the escrow is locked.
CustodyStatus ==
  [Locked |-> "held", Dispatched |-> "held", Settled |-> "settled",
   Refunded |-> "returned"]

DepositOf(r) ==
  IF r = None \/ r.state = "Pending" THEN None
  ELSE [owner |-> r.sender, payee |-> r.anchor, amount |-> r.amount,
        refundable_at |-> r.locked_at + Timeout, status |-> CustodyStatus[r.state]]

C == INSTANCE Custody
     WITH Parties <- Accounts, NoDeposit <- None, Forgotten <- None,
          Exclusive <- TRUE, clock <- now,
          deposits <- [i \in Ids |-> DepositOf(escrow[i])]

\* A locked escrow implements the custody contract with exclusive windows: the
\* anchor settles only before the timeout, the refund comes only after it, and
\* only one of the two ever happens.
ImplementsCustody == C!Spec

\* Whatever the anchor does or leaves undone after the lock, the escrow is
\* settled or refunded in the end.
LockedIsResolved ==
  \A i \in Ids : (InState(i, {"Locked", "Dispatched"}) /\ escrow[i].locked_at + Timeout <= MaxTime)
                   ~> InState(i, {"Settled", "Refunded"})
=============================================================================
