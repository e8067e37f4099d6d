-------------------------- MODULE RemittanceEscrow --------------------------
(***************************************************************************)
(* Anchor payout escrow with a timeout dispute                             *)
(* (contracts/remittance-escrow/src/{lib,types}.rs).                       *)
(*                                                                         *)
(* A sender escrows an amount for an anchor to pay out off-chain.  The     *)
(* anchor's proof completes the remittance; if none came before the        *)
(* deadline plus a dispute window, the sender may take the money back and  *)
(* the anchor's bond is slashed and seized.  Calls are atomic; an action   *)
(* is enabled exactly when the call succeeds.                              *)
(***************************************************************************)
EXTENDS Balances, FiniteSets

CONSTANTS
  Senders, Anchors, Treasuries, Admins,   \* addresses, by the part they play
  Self,               \* env.current_contract_address()
  None,               \* an absent storage entry
  Amounts,            \* remittance amounts offered
  Stakes,             \* collateral amounts offered
  DeadlineSecs,       \* payout deadlines offered, relative to now
  BondMin,            \* BOND_MIN
  SlashPercent,       \* BOND_SLASH_PERCENT
  DisputeWindow,      \* DISPUTE_WINDOW_SECS
  MaxTime,            \* stands for u64::MAX
  MaxIds,             \* bound: remittances created in one behaviour
  Supply              \* bound: tokens each account starts with

Accounts == Senders \cup Anchors \cup Treasuries

Ids == 0..(MaxIds - 1)

Remittance ==
  [sender : Senders, anchor : Anchors, amount : Amounts, deadline : 0..MaxTime,
   status : {"Pending", "Completed", "Refunded"}]

\* What Custody sees of a remittance.
Deposit ==
  [owner : Senders, payee : Anchors, amount : Amounts, refundable_at : Nat,
   status : {"held", "settled", "returned"}]

ASSUME RemittanceAssumption ==
  /\ Self \notin Accounts /\ IsFiniteSet(Anchors)
  /\ None \notin Treasuries \cup Admins \cup Remittance \cup Deposit
  /\ Amounts \subseteq Nat /\ Stakes \subseteq Nat /\ DeadlineSecs \subseteq Nat
  /\ BondMin \in Nat /\ SlashPercent \in 0..100
  /\ DisputeWindow \in Nat /\ MaxTime \in Nat /\ MaxIds \in Nat /\ Supply \in Nat

VARIABLES
  now,          \* env.ledger().timestamp()
  admin,        \* DataKey::Admin, set together with Initialized and Token
  treasury,     \* DataKey::Treasury
  nextId,       \* DataKey::NextRemittanceId
  remittance,   \* DataKey::Remittance(id)
  collateral,   \* DataKey::Collateral(anchor)
  pending,      \* DataKey::PendingRemittances(anchor)
  bondLocked,   \* the anchors whose DataKey::BondLocked(anchor) is true
  tok,          \* balances of the configured token (external)
  seized        \* history: total of the PayoutDisputed events' locked_collateral

vars == <<now, admin, treasury, nextId, remittance, collateral, pending,
          bondLocked, tok, seized>>

config == <<admin, treasury>>
books == <<collateral, pending, bondLocked>>

Exists(i) == remittance[i] # None

IsPending(i) == Exists(i) /\ remittance[i].status = "Pending"

-----------------------------------------------------------------------------

Init ==
  /\ now = 0
  /\ admin = None /\ treasury = None
  /\ nextId = 0
  /\ remittance = [i \in Ids |-> None]
  /\ collateral = [a \in Anchors |-> 0]
  /\ pending = [a \in Anchors |-> 0]
  /\ bondLocked = {}
  /\ tok = [a \in Accounts \cup {Self} |-> IF a = Self THEN 0 ELSE Supply]
  /\ seized = 0

Tick ==
  /\ now < MaxTime
  /\ now' = now + 1
  /\ UNCHANGED <<config, nextId, remittance, books, tok, seized>>

initialize(adm) ==
  /\ admin = None
  /\ admin' = adm
  /\ nextId' = 0
  /\ UNCHANGED <<now, treasury, remittance, books, tok, seized>>

set_treasury(caller, t) ==
  /\ admin # None
  /\ caller = admin
  /\ treasury' = t
  /\ UNCHANGED <<now, admin, nextId, remittance, books, tok, seized>>

\* deposit_bond is the same call under another name.  The bond test of
\* create_remittance and the slash read this balance.
deposit_collateral(anchor, amount) ==
  /\ admin # None
  /\ amount > 0
  /\ CanMove(tok, anchor, amount)
  /\ tok' = Move(tok, anchor, Self, amount)
  /\ collateral' = [collateral EXCEPT ![anchor] = @ + amount]
  /\ UNCHANGED <<now, config, nextId, remittance, pending, bondLocked, seized>>

\* now.checked_add(deadline_secs) fails past the clock's range.
create_remittance(sender, anchor, amount, deadline_secs) ==
  /\ admin # None
  /\ amount > 0
  /\ collateral[anchor] >= BondMin
  /\ now + deadline_secs <= MaxTime
  /\ CanMove(tok, sender, amount)
  /\ nextId < MaxIds
  /\ tok' = Move(tok, sender, Self, amount)
  /\ nextId' = nextId + 1
  /\ remittance' = [remittance EXCEPT ![nextId] =
        [sender |-> sender, anchor |-> anchor, amount |-> amount,
         deadline |-> now + deadline_secs, status |-> "Pending"]]
  /\ pending' = [pending EXCEPT ![anchor] = @ + 1]
  /\ bondLocked' = IF pending[anchor] + 1 = 1 THEN bondLocked \cup {anchor} ELSE bondLocked
  /\ UNCHANGED <<now, config, collateral, seized>>

\* Mutant: the bond is released by the first settlement that finalises.
decrement_pending_and_unlock_Always(anchor) ==
  /\ pending' = [pending EXCEPT ![anchor] = IF @ > 0 THEN @ - 1 ELSE 0]
  /\ bondLocked' = bondLocked \ {anchor}

\* The last settlement of an anchor to finalise unlocks its bond.
decrement_pending_and_unlock(anchor) ==
  /\ pending' = [pending EXCEPT ![anchor] = IF @ > 0 THEN @ - 1 ELSE 0]
  /\ bondLocked' = IF pending'[anchor] = 0 THEN bondLocked \ {anchor} ELSE bondLocked

\* Accepted while the remittance is Pending, however late.  The escrowed amount
\* stays in the contract.
submit_payout_proof(anchor, i) ==
  /\ admin # None
  /\ Exists(i)
  /\ remittance[i].anchor = anchor
  /\ remittance[i].status = "Pending"
  /\ remittance' = [remittance EXCEPT ![i].status = "Completed"]
  /\ decrement_pending_and_unlock(anchor)
  /\ UNCHANGED <<now, config, nextId, collateral, tok, seized>>

\* Mutant: the percentage is not divided out.
Slash_Unscaled(bond) == bond * SlashPercent

\* The part of a bond that goes to the treasury.
Slash(bond) == (bond * SlashPercent) \div 100

\* What is left of a bond to seize once the slash has been taken.
Available(bond) == bond - Slash(bond)

\* What a dispute over amount seizes of the remaining bond.
Seized(left, amount) == IF left < amount THEN left ELSE amount

\* Mutant: the window past the deadline is not granted.
Disputable_NoWindow(i) == IsPending(i) /\ now >= remittance[i].deadline

\* The window has fully elapsed past the deadline, and the sum of the two is a
\* representable timestamp.
Disputable(i) ==
  /\ IsPending(i)
  /\ remittance[i].deadline + DisputeWindow <= MaxTime
  /\ now >= remittance[i].deadline + DisputeWindow

\* The bond is slashed to the treasury, what is left is seized up to the
\* amount, and the sender is refunded from the contract's balance.
open_dispute(sender, i) ==
  /\ admin # None
  /\ Exists(i)
  /\ remittance[i].sender = sender
  /\ Disputable(i)
  /\ treasury # None
  /\ LET r == remittance[i]
         bond == collateral[r.anchor]
         left == Available(bond)
         locked == Seized(left, r.amount)
         slashed == Move(tok, Self, treasury, Slash(bond))
     IN /\ CanMove(tok, Self, Slash(bond))
        /\ CanMove(slashed, Self, r.amount)
        /\ tok' = Move(slashed, Self, sender, r.amount)
        /\ collateral' = [collateral EXCEPT ![r.anchor] = left - locked]
        /\ seized' = seized + locked
        /\ decrement_pending_and_unlock(r.anchor)
  /\ remittance' = [remittance EXCEPT ![i].status = "Refunded"]
  /\ UNCHANGED <<now, config, nextId>>

Next ==
  \/ Tick
  \/ \E a \in Admins : initialize(a)
  \/ \E c \in Admins, t \in Treasuries : set_treasury(c, t)
  \/ \E a \in Anchors, x \in Stakes : deposit_collateral(a, x)
  \/ \E s \in Senders, a \in Anchors, x \in Amounts, d \in DeadlineSecs :
        create_remittance(s, a, x, d)
  \/ \E a \in Anchors, i \in Ids : submit_payout_proof(a, i)
  \/ \E s \in Senders, i \in Ids : open_dispute(s, i)

Spec == Init /\ [][Next]_vars

(***************************************************************************)
(* Ledgers keep closing, and a sender whose remittance can be disputed     *)
(* does submit the dispute.  Nobody is obliged to configure a treasury or  *)
(* to submit a proof.                                                      *)
(***************************************************************************)
-----------------------------------------------------------------------------

\* Every storage entry holds a value of its declared type, and no balance is
\* negative.
TypeOK ==
  /\ now \in 0..MaxTime
  /\ admin \in Admins \cup {None} /\ treasury \in Treasuries \cup {None}
  /\ nextId \in 0..MaxIds
  /\ remittance \in [Ids -> Remittance \cup {None}]
  /\ collateral \in [Anchors -> Nat] /\ pending \in [Anchors -> Nat]
  /\ bondLocked \subseteq Anchors
  /\ tok \in [Accounts \cup {Self} -> Nat]
  /\ seized \in Nat

PendingOf(a) == {i \in Ids : IsPending(i) /\ remittance[i].anchor = a}

\* The counter and the lock flag of an anchor, kept apart from the records by
\* three different calls, always describe the records: the counter is the
\* number of its Pending remittances and the bond is locked while there is one.
PendingCountExact ==
  \A a \in Anchors :
    /\ pending[a] = Cardinality(PendingOf(a))
    /\ a \in bondLocked <=> PendingOf(a) # {}

\* What the contract keeps of the amount of remittance i.
Retained(i) ==
  IF Exists(i) /\ remittance[i].status # "Refunded" THEN remittance[i].amount ELSE 0

\* Every token in the contract's custody is accounted for: refundable to a
\* sender, stranded by a completed remittance, bonded by an anchor, or seized.
\* Refunds, slashes and seizures can therefore always be paid.
BooksBalance ==
  tok[Self] = SumOf([i \in Ids |-> Retained(i)], Ids) + SumOf(collateral, Anchors) + seized

\* The remittances as deposits: settled in favour of the anchor or returned to
\* the sender, never before the window past the deadline has elapsed.
CustodyStatus == [Pending |-> "held", Completed |-> "settled", Refunded |-> "returned"]

DepositOf(r) ==
  IF r = None THEN None
  ELSE [owner |-> r.sender, payee |-> r.anchor, amount |-> r.amount,
        refundable_at |-> r.deadline + DisputeWindow,
        status |-> CustodyStatus[r.status]]

C == INSTANCE Custody
     WITH Parties <- Accounts, NoDeposit <- None, Forgotten <- None,
          Exclusive <- FALSE, clock <- now,
          deposits <- [i \in Ids |-> DepositOf(remittance[i])]

\* The escrow implements the custody contract: one resolution per remittance,
\* frozen terms, no refund before its time ("resolves exactly once ... never
\* transitions out of a terminal state", types.rs).
ImplementsCustody == C!Spec

Resolved(i) == Exists(i) /\ ~IsPending(i)

\* Once a treasury is configured, a sender whose window has elapsed and who
\* insists gets the remittance resolved.
DisputesAreHonoured ==
  \A i \in Ids : (Disputable(i) /\ treasury # None) ~> Resolved(i)
=============================================================================
