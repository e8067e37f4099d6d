------------------------- MODULE AnchoredRemittance -------------------------
(***************************************************************************)
(* Anchored remittance with a per-remittance bond                          *)
(* (src/remittance/dispute.rs).  Sender and anchor fund it together; the   *)
(* anchor settles, or after the processing window the sender escalates:    *)
(* the bond then goes to the slash destination.  Either way the principal  *)
(* goes back to the sender.                                                *)
(***************************************************************************)
EXTENDS Balances

CONSTANTS
  Senders, Anchors, Destinations,   \* addresses, by the part they play
  Self,            \* env.current_contract_address()
  None,            \* an absent storage entry
  Principals,      \* principals offered
  Bonds,           \* bonds offered
  DisputeExpiry,   \* DISPUTE_EXPIRY_SECONDS
  MaxTime,         \* bound: last ledger time explored
  MaxIds,          \* bound: remittances created in one behaviour
  Supply           \* bound: tokens each account starts with

Accounts == Senders \cup Anchors \cup Destinations

Ids == 1..MaxIds

Remittance ==
  [sender : Senders, anchor : Anchors, principal : {p \in Principals : p > 0},
   anchor_bond : {b \in Bonds : b > 0},
   created_at : Nat, status : {"Pending", "Settled", "Disputed"}]

\* What Custody sees of a remittance.
Deposit ==
  [owner : Senders, payee : Anchors, amount : {b \in Bonds : b > 0}, refundable_at : Nat,
   status : {"held", "settled", "returned"}]

AnchoredAssumption ==
  /\ Self \notin Accounts /\ None \notin Destinations \cup Remittance \cup Deposit
  /\ Principals \subseteq Int /\ Bonds \subseteq Int
  /\ DisputeExpiry \in Nat /\ MaxTime \in Nat /\ MaxIds \in Nat /\ Supply \in Nat

VARIABLES
  now,           \* env.ledger().timestamp()
  counter,       \* DisputeStorageKey::RemittanceCounter
  remittance,    \* DisputeStorageKey::Remittance(id)
  destination,   \* DisputeStorageKey::SlashDestination
  tok            \* balances of the token (external)

vars == <<now, counter, remittance, destination, tok>>

InStatus(i, S) == remittance[i] # None /\ remittance[i].status \in S

-----------------------------------------------------------------------------

Init ==
  /\ now = 0
  /\ counter = 0
  /\ remittance = [i \in Ids |-> None]
  /\ destination = None
  /\ tok = [a \in Accounts \cup {Self} |-> IF a = Self THEN 0 ELSE Supply]

Tick ==
  /\ now < MaxTime
  /\ now' = now + 1
  /\ UNCHANGED <<counter, remittance, destination, tok>>

\* Two transfers in, one call: the second failing undoes the first.
create_anchored_remittance(sender, anchor, principal, bond) ==
  /\ principal > 0
  /\ bond > 0
  /\ counter < MaxIds
  /\ LET funded == Move(tok, sender, Self, principal)
     IN /\ CanMove(tok, sender, principal)
        /\ CanMove(funded, anchor, bond)
        /\ tok' = Move(funded, anchor, Self, bond)
  /\ counter' = counter + 1
  /\ remittance' = [remittance EXCEPT ![counter + 1] =
        [sender |-> sender, anchor |-> anchor, principal |-> principal,
         anchor_bond |-> bond, created_at |-> now, status |-> "Pending"]]
  /\ UNCHANGED <<now, destination>>

\* Pay the principal and the bond of i out and close it.
Resolve(i, bondTo, status) ==
  LET r == remittance[i]
      paid == Move(tok, Self, r.sender, r.principal)
  IN /\ CanMove(tok, Self, r.principal)
     /\ CanMove(paid, Self, r.anchor_bond)
     /\ tok' = Move(paid, Self, bondTo, r.anchor_bond)
     /\ remittance' = [remittance EXCEPT ![i].status = status]
     /\ UNCHANGED <<now, counter, destination>>

\* Called by the anchor of the record, at any time.
settle_remittance(i) ==
  /\ InStatus(i, {"Pending"})
  /\ Resolve(i, remittance[i].anchor, "Settled")

\* Called by the sender of the record.
escalate_dispute(i) ==
  /\ InStatus(i, {"Pending"})
  /\ now - remittance[i].created_at >= DisputeExpiry
  /\ destination # None
  /\ Resolve(i, destination, "Disputed")

set_slash_destination(d) ==
  /\ destination' = d
  /\ UNCHANGED <<now, counter, remittance, tok>>

Next ==
  \/ Tick
  \/ \E s \in Senders, a \in Anchors, p \in Principals, b \in Bonds :
        create_anchored_remittance(s, a, p, b)
  \/ \E i \in Ids : settle_remittance(i)
  \/ \E i \in Ids : escalate_dispute(i)
  \/ \E d \in Destinations : set_slash_destination(d)

Spec == Init /\ [][Next]_vars

-----------------------------------------------------------------------------

\* Records and balances keep their types; no balance is negative.
TypeOK ==
  /\ now \in 0..MaxTime
  /\ counter \in 0..MaxIds
  /\ remittance \in [Ids -> Remittance \cup {None}]
  /\ destination \in Destinations \cup {None}
  /\ tok \in [Accounts \cup {Self} -> Nat]

\* What the contract holds for remittance i.
InCustody(i) ==
  IF InStatus(i, {"Pending"}) THEN remittance[i].principal + remittance[i].anchor_bond ELSE 0

\* What remittance i has cost party p so far: a pending principal, or a bond that
\* is pending or lost.
Cost(i, p) ==
  (IF InStatus(i, {"Pending"}) /\ remittance[i].sender = p
   THEN remittance[i].principal ELSE 0)
  + (IF InStatus(i, {"Pending", "Disputed"}) /\ remittance[i].anchor = p
     THEN remittance[i].anchor_bond ELSE 0)

CostTo(p) == SumOf([i \in Ids |-> Cost(i, p)], Ids)

\* Each party's money is where the records say, whoever resolved what and in
\* which order: the contract holds the pending principals and bonds, and a party
\* is out of pocket only for its pending principals, its pending bonds and the
\* bonds of its disputed remittances (a slash destination may also have gained).
EveryPartySquare ==
  /\ tok[Self] = SumOf([i \in Ids |-> InCustody(i)], Ids)
  /\ \A p \in Senders \cup Anchors :
       /\ tok[p] + CostTo(p) >= Supply
       /\ p \notin Destinations => tok[p] + CostTo(p) = Supply

CustodyStatus == [Pending |-> "held", Settled |-> "settled", Disputed |-> "returned"]

DepositOf(r) ==
  IF r = None THEN None
  ELSE [owner |-> r.sender, payee |-> r.anchor, amount |-> r.anchor_bond,
        refundable_at |-> r.created_at + DisputeExpiry,
        status |-> CustodyStatus[r.status]]

\* The bond seen as the anchor's stake: held, then given back (settled) or lost
\* (returned), the latter only after the processing window.
C == INSTANCE Custody
     WITH Parties <- Accounts, NoDeposit <- None, Forgotten <- None,
          Exclusive <- FALSE, clock <- now,
          deposits <- [i \in Ids |-> DepositOf(remittance[i])]

\* A remittance is resolved once, with the terms it was created under, and never
\* escalated before the processing window has elapsed.
ImplementsCustody == C!Spec
=============================================================================
