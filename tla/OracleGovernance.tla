-------------------------- MODULE OracleGovernance --------------------------
(***************************************************************************)
(* The administrators of the price oracle (contracts/price-oracle/src/     *)
(* lib.rs and auth.rs) - the admin list, its hand-over behind a timelock,  *)
(* renouncement, revocation, the calls that need two administrators, the   *)
(* council's freeze and the destruction of the contract - and their        *)
(* proposals: proposing, voting for and against, vote delegation, weights  *)
(* and thresholds, execution, cancellation and the switch to veFLOW votes. *)
(*                                                                         *)
(* The list is a set: it holds no repetitions, fewer than the 16 entries   *)
(* _is_authorized looks at, and its order is used by no call.  Every call  *)
(* is signed by the accounts that appear as its callers.                   *)
(*                                                                         *)
(* Upgrades and slashes decide proposals like the other types; what they   *)
(* do to the code hash and to stakes lies outside this module.  The veFLOW *)
(* lock contract is external: an account has voting power or it has none.  *)
(* Weighted totals of veFLOW votes are written and read by no call.        *)
(***************************************************************************)
EXTENDS Naturals, FiniteSets, FiniteSetsExt

-----------------------------------------------------------------------------
\* The administrators

CONSTANTS
  Accounts,        \* every address that may call or be named
  Councils,        \* accounts that may be made the council
  None,            \* an absent storage entry
  ADMIN_TIMELOCK,  \* in clock ticks
  MaxTime          \* bound on the clock

ASSUME OracleAdminAssumption ==
  /\ IsFiniteSet(Accounts) /\ None \notin Accounts
  /\ Councils \subseteq Accounts
  /\ ADMIN_TIMELOCK \in Nat /\ MaxTime \in Nat

VARIABLES
  now,           \* env.ledger().timestamp()
  initialized,   \* DataKey::Initialized
  destroyed,     \* DataKey::Destroyed
  admins,        \* DataKey::Admin
  pending,       \* DataKey::PendingAdmin and PendingAdminTimestamp
  revoked,       \* accounts with DataKey::Revoked
  paused,        \* DataKey::IsPaused
  health_paused, \* DataKey::HealthPaused, the copy for the dashboard
  halted,        \* DataKey::EmergencyHalt
  council,       \* DataKey::CommunityCouncil
  frozen,        \* DataKey::EmergencyFrozen
  handed_over,   \* history: whether accept_admin has ever succeeded
  cosigners      \* history: who signed the call just made, if it asks for two

adminVars == <<now, initialized, destroyed, admins, pending, revoked, paused,
               health_paused, halted, council, frozen, handed_over>>

List == IF admins = None THEN {} ELSE admins

is_authorized(a) == a \in List /\ a \notin revoked

\* Mutant: one administrator may sign twice.
TwoAuthorized_Same(a1, a2) ==
  is_authorized(a1) /\ is_authorized(a2) /\ cosigners' = {a1, a2}

\* Two different administrators sign the same call.
TwoAuthorized(a1, a2) ==
  a1 # a2 /\ is_authorized(a1) /\ is_authorized(a2) /\ cosigners' = {a1, a2}

\* The list after _add_authorized: a revoked account is silently left out.
add_authorized(a) == admins \union ({a} \ revoked)

-----------------------------------------------------------------------------

AdminInit ==
  /\ now = 0
  /\ initialized = FALSE
  /\ destroyed = FALSE
  /\ admins = None
  /\ pending = None
  /\ revoked = {}
  /\ paused = FALSE
  /\ health_paused = FALSE
  /\ halted = FALSE
  /\ council = None
  /\ frozen = FALSE
  /\ handed_over = FALSE

\* The ledger closes and its clock moves on.
Tick ==
  /\ now < MaxTime
  /\ now' = now + 1
  /\ UNCHANGED <<initialized, destroyed, admins, pending, revoked, paused,
                 health_paused, halted, council, frozen, handed_over>>

\* The destroyed flag is not read here.
initialize(admin) ==
  /\ ~initialized /\ admins = None
  /\ admins' = {admin}
  /\ initialized' = TRUE
  /\ UNCHANGED <<now, destroyed, pending, revoked, paused, health_paused,
                 halted, council, frozen, handed_over>>

init_admin(admin) ==
  /\ ~destroyed
  /\ ~initialized
  /\ admins' = {admin}
  /\ initialized' = TRUE
  /\ UNCHANGED <<now, destroyed, pending, revoked, paused, health_paused,
                 halted, council, frozen, handed_over>>

transfer_admin(current, new) ==
  /\ ~destroyed
  /\ is_authorized(current)
  /\ pending' = [admin |-> new, since |-> now]
  /\ UNCHANGED <<now, initialized, destroyed, admins, revoked, paused,
                 health_paused, halted, council, frozen, handed_over>>

accept_admin(new) ==
  /\ ~destroyed
  /\ pending # None
  /\ pending.admin = new
  /\ now >= pending.since + ADMIN_TIMELOCK
  /\ admins' = {new}
  /\ pending' = None
  /\ handed_over' = TRUE
  /\ UNCHANGED <<now, initialized, destroyed, revoked, paused, health_paused,
                 halted, council, frozen>>

\* A pending hand-over survives the renouncement.
renounce_ownership(admin) ==
  /\ ~destroyed
  /\ is_authorized(admin)
  /\ admins' = None
  /\ UNCHANGED <<now, initialized, destroyed, pending, revoked, paused,
                 health_paused, halted, council, frozen, handed_over>>

revoke_key(coordinator, target) ==
  /\ is_authorized(coordinator)
  /\ target \notin revoked
  /\ revoked' = revoked \union {target}
  /\ admins' = admins \ {target}
  /\ UNCHANGED <<now, initialized, destroyed, pending, paused, health_paused,
                 halted, council, frozen, handed_over>>

toggle_pause(a1, a2) ==
  /\ ~frozen
  /\ TwoAuthorized(a1, a2)
  /\ paused' = ~paused
  /\ health_paused' = ~paused
  /\ UNCHANGED <<now, initialized, destroyed, admins, pending, revoked, halted,
                 council, frozen, handed_over>>

register_admin(a1, a2, new) ==
  /\ ~frozen
  /\ TwoAuthorized(a1, a2)
  /\ Cardinality(admins) < 3
  /\ admins' = add_authorized(new)
  /\ UNCHANGED <<now, initialized, destroyed, pending, revoked, paused,
                 health_paused, halted, council, frozen, handed_over>>

remove_admin(a1, a2, target) ==
  /\ ~frozen
  /\ TwoAuthorized(a1, a2)
  /\ target \in admins
  /\ admins' = admins \ {target}
  /\ UNCHANGED <<now, initialized, destroyed, pending, revoked, paused,
                 health_paused, halted, council, frozen, handed_over>>

\* What both ways of destroying the contract remove and set.
Wipe ==
  /\ admins' = None
  /\ pending' = None
  /\ initialized' = FALSE
  /\ paused' = FALSE
  /\ destroyed' = TRUE
  /\ UNCHANGED <<now, revoked, health_paused, halted, council, frozen, handed_over>>

self_destruct(a1, a2) ==
  /\ ~destroyed
  /\ ~frozen
  /\ TwoAuthorized(a1, a2)
  /\ Wipe

set_council(admin, address) ==
  /\ ~destroyed
  /\ ~frozen
  /\ is_authorized(admin)
  /\ council' = address
  /\ UNCHANGED <<now, initialized, destroyed, admins, pending, revoked, paused,
                 health_paused, halted, frozen, handed_over>>

emergency_freeze(caller) ==
  /\ council = caller
  /\ ~frozen
  /\ frozen' = TRUE
  /\ UNCHANGED <<now, initialized, destroyed, admins, pending, revoked, paused,
                 health_paused, halted, council, handed_over>>

\* The provider metrics and averages that a resumption also clears belong to
\* the feed, not to the administrators.
set_emergency_halt(a1, a2, status) ==
  /\ ~destroyed
  /\ TwoAuthorized(a1, a2)
  /\ halted' = status
  /\ UNCHANGED <<now, initialized, destroyed, admins, pending, revoked, paused,
                 health_paused, council, frozen, handed_over>>

\* Calls that one account signs, or nobody.
SoleNext ==
  \/ Tick
  \/ \E a \in Accounts : \/ initialize(a)
                         \/ init_admin(a)
                         \/ accept_admin(a)
                         \/ renounce_ownership(a)
                         \/ emergency_freeze(a)
  \/ \E a, b \in Accounts : transfer_admin(a, b) \/ revoke_key(a, b)
  \/ \E a \in Accounts, b \in Councils : set_council(a, b)

\* Calls that two administrators sign.
JointNext ==
  \/ \E a, b \in Accounts : toggle_pause(a, b) \/ self_destruct(a, b)
  \/ \E a, b \in Accounts, s \in BOOLEAN : set_emergency_halt(a, b, s)
  \/ \E a, b, c \in Accounts : register_admin(a, b, c) \/ remove_admin(a, b, c)

AdminNext == (SoleNext /\ cosigners' = {}) \/ JointNext

-----------------------------------------------------------------------------

CONSTANTS
  Types,       \* kinds of proposals made
  Weights,     \* weights admins may be given
  Thresholds,  \* weight thresholds and vote floors admins may set
  Delegates,   \* accounts votes may be delegated to
  Lockers,     \* accounts with veFLOW voting power
  VeflowUsed,  \* whether an admin may switch to veFLOW voting
  MaxActions   \* bound on the proposals ever made

AllTypes == {"TogglePause", "RegisterAdmin", "RemoveAdmin", "SelfDestruct", "Upgrade", "Slash"}
MIN_SAFE_QUORUM_THRESHOLD == 2

ASSUME OracleGovernanceAssumption ==
  /\ Types \subseteq AllTypes
  /\ Weights \subseteq 0..101 /\ Thresholds \subseteq Nat
  /\ Delegates \subseteq Accounts /\ Lockers \subseteq Accounts
  /\ VeflowUsed \in BOOLEAN /\ MaxActions \in Nat

Ids == 1..MaxActions

VARIABLES
  actions,          \* DataKey::ProposedAction(id)
  votes,            \* DataKey::ActionVotes(id)
  affirmative,      \* DataKey::ActionAffirmativeVotes(id)
  negative,         \* DataKey::ActionNegativeVotes(id)
  delegate,         \* DataKey::VoteDelegate(owner)
  weight,           \* DataKey::AdminWeight(account), 1 when unset
  weight_threshold, \* DataKey::WeightThreshold
  min_quorum,       \* DataKey::MinQuorumThreshold
  veflow,           \* whether DataKey::VeflowLockContract is set
  last_id           \* DataKey::ActionIdCounter

govVars == <<actions, votes, affirmative, negative, delegate, weight,
             weight_threshold, min_quorum, veflow, last_id>>
vars == <<adminVars, govVars, cosigners>>

Pending(id) == actions[id] # None /\ ~actions[id].executed /\ ~actions[id].cancelled

DelegatedTo(a) == {b \in List : delegate[b] = a}

\* Votes of an action after _add_effective_action_votes: the voter's own
\* unless it was delegated away, and those of the admins it speaks for.
Effective(id, voter) ==
  votes[id] \union (DelegatedTo(voter) \ {voter})
            \union {a \in List : a = voter /\ delegate[a] = None}

get_required_threshold ==
  IF weight_threshold # None THEN weight_threshold
  ELSE IF Cardinality(admins) <= 3 THEN 2 ELSE 3

has_reached_threshold(id) ==
  MapThenSumSet(LAMBDA a : weight[a], votes[id]) >= get_required_threshold

\* Mutant: the configured floor is not clamped to the safe minimum.
get_min_quorum_threshold_Unclamped == IF min_quorum = None THEN 1 ELSE min_quorum

get_min_quorum_threshold ==
  IF min_quorum = None THEN MIN_SAFE_QUORUM_THRESHOLD
  ELSE Max({min_quorum, MIN_SAFE_QUORUM_THRESHOLD})

-----------------------------------------------------------------------------

Init ==
  /\ AdminInit /\ cosigners = {}
  /\ actions = [id \in Ids |-> None]
  /\ votes = [id \in Ids |-> {}]
  /\ affirmative = [id \in Ids |-> {}]
  /\ negative = [id \in Ids |-> {}]
  /\ delegate = [a \in Accounts |-> None]
  /\ weight = [a \in Accounts |-> 1]
  /\ weight_threshold = None
  /\ min_quorum = None
  /\ veflow = FALSE
  /\ last_id = 0

\* The guards shared by the calls that only configure voting.
MayConfigure(caller) ==
  /\ ~destroyed
  /\ initialized
  /\ ~frozen
  /\ is_authorized(caller)

set_admin_weight(caller, target, w) ==
  /\ MayConfigure(caller)
  /\ w \in 1..100
  /\ is_authorized(target)
  /\ weight' = [weight EXCEPT ![target] = w]
  /\ UNCHANGED <<adminVars, actions, votes, affirmative, negative, delegate,
                 weight_threshold, min_quorum, veflow, last_id>>

set_weight_threshold(caller, t) ==
  /\ MayConfigure(caller)
  /\ t > 0
  /\ weight_threshold' = t
  /\ UNCHANGED <<adminVars, actions, votes, affirmative, negative, delegate,
                 weight, min_quorum, veflow, last_id>>

set_min_quorum_threshold(caller, t) ==
  /\ MayConfigure(caller)
  /\ t >= MIN_SAFE_QUORUM_THRESHOLD
  /\ min_quorum' = t
  /\ UNCHANGED <<adminVars, actions, votes, affirmative, negative, delegate,
                 weight, weight_threshold, veflow, last_id>>

\* Neither the destroyed flag nor the freeze stops this call.
set_veflow_governance(admin) ==
  /\ VeflowUsed
  /\ is_authorized(admin)
  /\ veflow' = TRUE
  /\ UNCHANGED <<adminVars, actions, votes, affirmative, negative, delegate,
                 weight, weight_threshold, min_quorum, last_id>>

propose_action(admin, type, target) ==
  LET id == last_id + 1
  IN  /\ ~destroyed
      /\ ~frozen
      /\ is_authorized(admin)
      /\ id \in Ids
      /\ last_id' = id
      /\ actions' = [actions EXCEPT ![id] =
                       [type |-> type, target |-> target,
                        executed |-> FALSE, cancelled |-> FALSE]]
      /\ votes' = [votes EXCEPT ![id] = IF veflow THEN @ ELSE Effective(id, admin)]
      /\ UNCHANGED <<adminVars, affirmative, negative, delegate, weight,
                     weight_threshold, min_quorum, veflow>>

\* record_vote lets an account vote once, for or against.
MayRecord(voter, id) ==
  /\ Pending(id)
  /\ voter \notin affirmative[id] \union negative[id]
  /\ veflow => voter \in Lockers

vote_for_action(voter, id) ==
  /\ ~destroyed
  /\ ~frozen
  /\ \/ /\ veflow
        /\ MayRecord(voter, id)
        /\ affirmative' = [affirmative EXCEPT ![id] = @ \union {voter}]
        /\ UNCHANGED votes
     \/ /\ ~veflow
        /\ admins # None
        /\ (is_authorized(voter) /\ delegate[voter] = None) \/ DelegatedTo(voter) # {}
        /\ Pending(id)
        /\ votes' = [votes EXCEPT ![id] = Effective(id, voter)]
        /\ UNCHANGED affirmative
  /\ UNCHANGED <<adminVars, actions, negative, delegate, weight,
                 weight_threshold, min_quorum, veflow, last_id>>

\* The result of the destroyed check is dropped.
vote_against_action(voter, id) ==
  /\ ~frozen
  /\ veflow \/ is_authorized(voter)
  /\ MayRecord(voter, id)
  /\ negative' = [negative EXCEPT ![id] = @ \union {voter}]
  /\ UNCHANGED <<adminVars, actions, votes, affirmative, delegate, weight,
                 weight_threshold, min_quorum, veflow, last_id>>

delegate_vote(owner, to) ==
  /\ ~frozen
  /\ owner # to
  /\ delegate' = [delegate EXCEPT ![owner] = to]
  /\ UNCHANGED <<adminVars, actions, votes, affirmative, negative, weight,
                 weight_threshold, min_quorum, veflow, last_id>>

clear_vote_delegate(owner) ==
  /\ delegate' = [delegate EXCEPT ![owner] = None]
  /\ UNCHANGED <<adminVars, actions, votes, affirmative, negative, weight,
                 weight_threshold, min_quorum, veflow, last_id>>

\* The effect of an executed proposal, by type.
TogglePause ==
  /\ paused' = ~paused
  /\ health_paused' = ~paused
  /\ UNCHANGED <<now, initialized, destroyed, admins, pending, revoked, halted,
                 council, frozen, handed_over>>

RegisterAdmin(target) ==
  /\ target # None
  /\ admins' = add_authorized(target)
  /\ UNCHANGED <<now, initialized, destroyed, pending, revoked, paused,
                 health_paused, halted, council, frozen, handed_over>>

RemoveAdmin(target) ==
  /\ target # None
  /\ Cardinality(admins) > 1
  /\ admins' = admins \ {target}
  /\ UNCHANGED <<now, initialized, destroyed, pending, revoked, paused,
                 health_paused, halted, council, frozen, handed_over>>

SelfDestruct ==
  /\ Cardinality(admins) >= 2
  /\ Wipe

Perform(type, target) ==
  \/ type = "TogglePause" /\ TogglePause
  \/ type = "RegisterAdmin" /\ RegisterAdmin(target)
  \/ type = "RemoveAdmin" /\ RemoveAdmin(target)
  \/ type = "SelfDestruct" /\ SelfDestruct
  \/ type = "Upgrade" /\ UNCHANGED adminVars
  \/ type = "Slash" /\ target # None /\ UNCHANGED adminVars

execute_proposed_action(executor, id) ==
  /\ ~destroyed
  /\ ~frozen
  /\ is_authorized(executor)
  /\ Pending(id)
  /\ has_reached_threshold(id)
  /\ Cardinality(votes[id]) >= get_min_quorum_threshold
  /\ Perform(actions[id].type, actions[id].target)
  /\ actions' = [actions EXCEPT ![id].executed = TRUE]
  /\ UNCHANGED <<votes, affirmative, negative, delegate, weight,
                 weight_threshold, min_quorum, veflow, last_id>>

\* Mutant: an executed action may still be cancelled.
cancel_proposed_action_Executed(canceller, id) ==
  /\ ~destroyed
  /\ ~frozen
  /\ is_authorized(canceller)
  /\ actions[id] # None
  /\ ~actions[id].cancelled
  /\ actions' = [actions EXCEPT ![id].cancelled = TRUE]
  /\ UNCHANGED <<adminVars, votes, affirmative, negative, delegate, weight,
                 weight_threshold, min_quorum, veflow, last_id>>

cancel_proposed_action(canceller, id) ==
  /\ ~destroyed
  /\ ~frozen
  /\ is_authorized(canceller)
  /\ Pending(id)
  /\ actions' = [actions EXCEPT ![id].cancelled = TRUE]
  /\ UNCHANGED <<adminVars, votes, affirmative, negative, delegate, weight,
                 weight_threshold, min_quorum, veflow, last_id>>

VotingNext ==
  \/ \E a, b \in Accounts, w \in Weights : set_admin_weight(a, b, w)
  \/ \E a \in Accounts, t \in Thresholds : \/ set_weight_threshold(a, t)
                                           \/ set_min_quorum_threshold(a, t)
  \/ \E a \in Accounts : set_veflow_governance(a) \/ clear_vote_delegate(a)
  \/ \E a \in Accounts, b \in Delegates : delegate_vote(a, b)
  \/ \E a \in Accounts, y \in Types, t \in Accounts \union {None} : propose_action(a, y, t)
  \/ \E a \in Accounts, id \in Ids : \/ vote_for_action(a, id)
                                     \/ vote_against_action(a, id)
                                     \/ execute_proposed_action(a, id)
                                     \/ cancel_proposed_action(a, id)

Next ==
  \/ AdminNext /\ UNCHANGED govVars
  \/ VotingNext /\ cosigners' = {}

Spec == Init /\ [][Next]_vars

-----------------------------------------------------------------------------

AdminTypeOK ==
  /\ now \in 0..MaxTime
  /\ initialized \in BOOLEAN /\ destroyed \in BOOLEAN /\ handed_over \in BOOLEAN
  /\ paused \in BOOLEAN /\ health_paused \in BOOLEAN
  /\ halted \in BOOLEAN /\ frozen \in BOOLEAN
  /\ admins \in (SUBSET Accounts) \union {None}
  /\ pending \in [admin : Accounts, since : 0..now] \union {None}
  /\ revoked \subseteq Accounts
  /\ council \in Accounts \union {None}

VotingTypeOK ==
  /\ actions \in [Ids -> [type : AllTypes, target : Accounts \union {None},
                          executed : BOOLEAN, cancelled : BOOLEAN] \union {None}]
  /\ votes \in [Ids -> SUBSET Accounts]
  /\ affirmative \in [Ids -> SUBSET Accounts]
  /\ negative \in [Ids -> SUBSET Accounts]
  /\ delegate \in [Accounts -> Accounts \union {None}]
  /\ weight \in [Accounts -> 1..100]
  /\ weight_threshold \in Nat \union {None} /\ min_quorum \in Nat \union {None}
  /\ veflow \in BOOLEAN
  /\ last_id \in 0..MaxActions

OneVerdict ==
  \A id \in Ids : actions[id] # None => ~(actions[id].executed /\ actions[id].cancelled)

\* Storage entries are well formed, and an action has at most one verdict.
TypeOK == AdminTypeOK /\ VotingTypeOK /\ OneVerdict /\ cosigners \subseteq Accounts

\* A second administrator appears only after the list was handed over at
\* least once: one administrator alone gathers neither the two signatures of
\* register_admin nor the two votes of a proposal, whatever thresholds it
\* sets.  The vote of a former administrator is what makes the second.
SecondAdminNeedsHandover == Cardinality(List) >= 2 => handed_over

\* Storage is well formed, no proposal is both executed and cancelled, and a
\* list of one administrator grows by a hand-over only.
AdministratorsAccounted == TypeOK /\ SecondAdminNeedsHandover

\* The call being made bears the signatures of two different administrators.
TwoSigned == \E a, b \in cosigners' : a # b /\ is_authorized(a) /\ is_authorized(b)

\* An account joins the list of a live contract in three ways only: it was named
\* the whole timelock ago (one administrator alone does that) and is then the
\* whole list, two administrators sign the call, or a proposal to register it
\* is executed that carries two votes.
NewAdminsAreVetted ==
  [][ \A a \in Accounts :
        initialized /\ a \notin List /\ a \in List' =>
          \/ /\ pending # None /\ pending.admin = a /\ now - pending.since >= ADMIN_TIMELOCK
             /\ List' = {a}
          \/ TwoSigned
          \/ \E id \in Ids :
               /\ Pending(id) /\ actions'[id].executed
               /\ actions[id].type = "RegisterAdmin" /\ actions[id].target = a
               /\ Cardinality(votes[id]) >= 2 ]_vars

\* Pausing, halting and destroying the contract takes two people: the call is
\* signed by two administrators, or executes a proposal with two votes.
TwoPersonRule ==
  [][ paused' # paused \/ halted' # halted \/ destroyed' # destroyed =>
        \/ TwoSigned
        \/ \E id \in Ids : /\ Pending(id) /\ actions'[id].executed
                           /\ Cardinality(votes[id]) >= 2 ]_vars

\* Nobody adds an administrator to the others, or pauses, halts or destroys the
\* contract, without a second signature or a second vote.  What one
\* administrator can do alone is hand the whole list over to a successor after
\* the timelock, revoke others, renounce for all, and name the council.
PowerIsShared == NewAdminsAreVetted /\ TwoPersonRule

\* A decided action is never touched again: neither its verdict nor its votes.
DecisionsAreFinal ==
  [][ \A id \in Ids : actions[id] # None /\ ~Pending(id) =>
        UNCHANGED <<actions[id], votes[id], affirmative[id], negative[id]>> ]_vars

\* What the council's freeze does protect, for good: the pause flag, the
\* council, the proposals with their votes and the voting rules, and the
\* contract's life.
FreezeHolds ==
  [][ frozen => /\ frozen'
                /\ UNCHANGED <<paused, council, destroyed, actions, votes, negative,
                               weight, weight_threshold, min_quorum, last_id>> ]_vars

\* What is decided and what is frozen stays as it is, through every later call.
SettledStaysSettled == DecisionsAreFinal /\ FreezeHolds

\* renounce_ownership's doc: the action is irreversible, no administrator is
\* ever again in the list of a contract that lived without one.
RenouncedIsFinal == [][ initialized /\ admins = None => admins' = None ]_vars
=============================================================================
