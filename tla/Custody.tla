------------------------------ MODULE Custody ------------------------------
(***************************************************************************)
(* What every escrow of this repository promises a depositor.              *)
(*                                                                         *)
(* A deposit is opened once under an identifier, with terms that are fixed *)
(* from then on.  It leaves custody at most once: either it is settled in  *)
(* favour of the payee, or it goes back to its owner, and it goes back     *)
(* only when the time agreed for that has come.  An escrow with exclusive  *)
(* windows also never settles from that time on.  The record of a closed   *)
(* deposit may be dropped, but its identifier is never used again.         *)
(***************************************************************************)
EXTENDS Integers

CONSTANTS
  Ids,        \* identifiers a deposit can have
  Parties,    \* owners and payees
  NoDeposit,  \* the identifier is unused
  Forgotten,  \* the identifier was used and its closed record was dropped
  Exclusive   \* whether the time to settle ends when the time to return starts

VARIABLES
  clock,      \* ledger time
  deposits    \* deposits[i]: NoDeposit or a record of terms and status

vars == <<clock, deposits>>

Held(i) ==
  /\ deposits[i] \notin {NoDeposit, Forgotten}
  /\ deposits[i].status = "held"

Init ==
  /\ clock \in Nat
  /\ deposits = [i \in Ids |-> NoDeposit]

Advance ==
  /\ clock' > clock
  /\ UNCHANGED deposits

\* New terms only ever appear under an unused identifier, for an amount that is
\* not negative.
Open(i) ==
  /\ deposits[i] = NoDeposit
  /\ deposits'[i] \notin {NoDeposit, Forgotten}
  /\ deposits'[i].status = "held"
  /\ deposits'[i].amount >= 0
  /\ deposits'[i].owner \in Parties
  /\ deposits'[i].payee \in Parties
  /\ deposits' = [deposits EXCEPT ![i] = deposits'[i]]
  /\ UNCHANGED clock

Settle(i) ==
  /\ Held(i)
  /\ Exclusive => clock < deposits[i].refundable_at
  /\ deposits' = [deposits EXCEPT ![i].status = "settled"]
  /\ UNCHANGED clock

Return(i) ==
  /\ Held(i)
  /\ clock >= deposits[i].refundable_at
  /\ deposits' = [deposits EXCEPT ![i].status = "returned"]
  /\ UNCHANGED clock

\* Several closed records may be dropped at once; no open one ever is.
Forget ==
  /\ \E S \in SUBSET Ids :
       /\ \A i \in S : deposits[i] \notin {NoDeposit, Forgotten} /\ ~Held(i)
       /\ deposits' = [i \in Ids |-> IF i \in S THEN Forgotten ELSE deposits[i]]
  /\ UNCHANGED clock

Next ==
  \/ Advance
  \/ \E i \in Ids : Open(i) \/ Settle(i) \/ Return(i)
  \/ Forget

Spec == Init /\ [][Next]_vars
=============================================================================
