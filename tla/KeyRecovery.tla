---------------------------- MODULE KeyRecovery ----------------------------
(***************************************************************************)
(* Administrative key recovery (contracts/key-recovery/src/lib.rs).        *)
(*                                                                         *)
(* Anybody may ask for the admin key to be replaced; the replacement takes *)
(* effect once the request has stood for a full dispute window, unless a   *)
(* guardian vetoes it first.  Every call is one atomic ledger transaction, *)
(* and a call that returns an error changes nothing, so an action is       *)
(* enabled exactly when the call succeeds.                                 *)
(*                                                                         *)
(* The guardian Vec is kept as the number of copies of each account in it: *)
(* the code asks only for membership, for the length and for "every entry  *)
(* but g", and none of the three depends on the order.                     *)
(***************************************************************************)
EXTENDS Integers

CONSTANTS
  Accounts,    \* every address that may call the contract
  None,        \* an absent storage entry
  Delay,       \* RECOVERY_DELAY_SECONDS, in clock ticks
  MaxTime,     \* last representable ledger timestamp (u64::MAX in the code)
  MaxCopies    \* how often initialize's argument may repeat an account

ASSUME KeyRecoveryAssumption ==
  /\ None \notin Accounts
  /\ Delay \in Nat \ {0}
  /\ MaxTime \in Nat
  /\ MaxCopies \in Nat \ {0}

VARIABLES
  now,         \* env.ledger().timestamp()
  admin,       \* DataKey::Admin
  guardians,   \* DataKey::Guardians, copies per account
  proposal     \* DataKey::Proposal

vars == <<now, admin, guardians, proposal>>

RecoveryProposal ==
  [current_admin : Accounts, proposed_admin : Accounts, requested_by : Accounts,
   requested_at : 0..MaxTime, executable_at : 0..MaxTime]

Initialized == admin # None

is_guardian(a) == guardians[a] > 0

\* guardians.len() == 1
HasSingleEntry ==
  \E g \in Accounts : guardians = [a \in Accounts |-> IF a = g THEN 1 ELSE 0]

-----------------------------------------------------------------------------

Init ==
  /\ now = 0
  /\ admin = None
  /\ guardians = [a \in Accounts |-> 0]
  /\ proposal = None

\* The ledger closes and its clock moves on.
Tick ==
  /\ now < MaxTime
  /\ now' = now + 1
  /\ UNCHANGED <<admin, guardians, proposal>>

initialize(a, copies) ==
  /\ ~Initialized
  /\ \E g \in Accounts : copies[g] > 0
  /\ admin' = a
  /\ guardians' = copies
  /\ UNCHANGED <<now, proposal>>

\* Permissionless; now.checked_add(DELAY) fails past the clock's range.
request_recovery(requester, new) ==
  /\ Initialized
  /\ proposal = None
  /\ new # admin
  /\ now + Delay <= MaxTime
  /\ proposal' = [current_admin |-> admin, proposed_admin |-> new,
                  requested_by |-> requester, requested_at |-> now,
                  executable_at |-> now + Delay]
  /\ UNCHANGED <<now, admin, guardians>>

cancel_recovery(guardian) ==
  /\ Initialized
  /\ is_guardian(guardian)
  /\ proposal # None
  /\ proposal' = None
  /\ UNCHANGED <<now, admin, guardians>>

\* Mutant: the swap forgets to clear the proposal.
finalize_recovery_KeepsProposal ==
  /\ proposal # None
  /\ now >= proposal.executable_at
  /\ admin' = proposal.proposed_admin
  /\ UNCHANGED <<now, guardians, proposal>>

\* Mutant: the maturity test is one tick short.
finalize_recovery_Early ==
  /\ proposal # None
  /\ now + 1 >= proposal.executable_at
  /\ admin' = proposal.proposed_admin
  /\ proposal' = None
  /\ UNCHANGED <<now, guardians>>

\* Mutant: the swap is accepted in the very second the window ends only.
finalize_recovery_Once ==
  /\ proposal # None
  /\ now = proposal.executable_at
  /\ admin' = proposal.proposed_admin
  /\ proposal' = None
  /\ UNCHANGED <<now, guardians>>

\* Permissionless.
finalize_recovery ==
  /\ proposal # None
  /\ now >= proposal.executable_at
  /\ admin' = proposal.proposed_admin
  /\ proposal' = None
  /\ UNCHANGED <<now, guardians>>

add_guardian(caller, guardian) ==
  /\ Initialized
  /\ caller = admin
  /\ ~is_guardian(guardian)
  /\ guardians' = [guardians EXCEPT ![guardian] = 1]
  /\ UNCHANGED <<now, admin, proposal>>

\* Mutant: the length test is missing.
remove_guardian_Unchecked(caller, guardian) ==
  /\ Initialized
  /\ caller = admin
  /\ is_guardian(guardian)
  /\ guardians' = [guardians EXCEPT ![guardian] = 0]
  /\ UNCHANGED <<now, admin, proposal>>

\* The length is tested before every copy of the guardian is filtered out.
remove_guardian(caller, guardian) ==
  /\ Initialized
  /\ caller = admin
  /\ is_guardian(guardian)
  /\ ~HasSingleEntry
  /\ guardians' = [guardians EXCEPT ![guardian] = 0]
  /\ UNCHANGED <<now, admin, proposal>>

\* Seconds left before finalisation, as the view reports it (both
\* subtractions saturate at zero).
dispute_remaining ==
  IF proposal = None THEN 0
  ELSE LET elapsed == IF now < proposal.requested_at THEN 0
                      ELSE now - proposal.requested_at
       IN  IF Delay < elapsed THEN 0 ELSE Delay - elapsed

Next ==
  \/ Tick
  \/ \E a \in Accounts, c \in [Accounts -> 0..MaxCopies] : initialize(a, c)
  \/ \E r, n \in Accounts : request_recovery(r, n)
  \/ \E g \in Accounts : cancel_recovery(g)
  \/ finalize_recovery
  \/ \E c, g \in Accounts : add_guardian(c, g)
  \/ \E c, g \in Accounts : remove_guardian(c, g)

Spec == Init /\ [][Next]_vars

(***************************************************************************)
(* The ledger keeps closing, and since finalisation needs no credential,   *)
(* somebody interested eventually submits it while it stays possible.      *)
(***************************************************************************)
FairSpec == Spec /\ WF_vars(Tick) /\ WF_vars(finalize_recovery)

-----------------------------------------------------------------------------

\* Every storage entry holds a value of the type the contract declares for it.
TypeOK ==
  /\ now \in 0..MaxTime
  /\ admin \in Accounts \cup {None}
  /\ guardians \in [Accounts -> 0..MaxCopies]
  /\ proposal \in RecoveryProposal \cup {None}

\* A pending request is always against the admin in office and never a no-op:
\* finalize_recovery does not re-read Admin, so a request that outlived a change
\* of admin would silently depose somebody it never named.
ProposalTargetsSittingAdmin ==
  proposal # None =>
    /\ proposal.current_admin = admin
    /\ proposal.proposed_admin # admin

\* The view dispute_remaining reports zero exactly when finalize_recovery's own
\* test, made on another field of the record, lets the swap through.
DisputeRemainingAgrees ==
  proposal # None =>
    (dispute_remaining = 0 <=> now >= proposal.executable_at)

\* Once the contract is set up somebody can veto ("The last guardian cannot be
\* removed").  It takes an initialize that repeats no guardian: remove_guardian
\* tests the length of the list and then removes every copy.
GuardianRemains ==
  Initialized => \E g \in Accounts : is_guardian(g)

\* Whatever initialize was given, remove_guardian takes away the last possible
\* veto in one case only: the guardian it removes was listed more than once.
VetoLostOnlyToRepeats ==
  [][ (\E g \in Accounts : is_guardian(g)) /\ (\A g \in Accounts : guardians'[g] = 0)
        => \E g \in Accounts : guardians[g] > 1 ]_vars

\* The key in office is replaced only by a request that has been on display for
\* the whole dispute window.
ReplacedOnlyAfterWindow ==
  [][Initialized /\ admin' # admin =>
       /\ proposal # None
       /\ admin' = proposal.proposed_admin
       /\ now - proposal.requested_at >= Delay]_vars

\* A pending request is never edited or swapped for another in place, so what
\* guardians reviewed during the window is what finalize_recovery installs.
PendingRequestIsFrozen ==
  [][proposal # None => proposal' \in {proposal, None}]_vars

\* No request hangs forever: each is vetoed or finalised.
RequestsAreDecided == (proposal # None) ~> (proposal = None)
=============================================================================
