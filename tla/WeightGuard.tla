---------------------------- MODULE WeightGuard ----------------------------
(***************************************************************************)
(* Signer-weight rotation (contracts/multisig-weight-guard/src/lib.rs).    *)
(*                                                                         *)
(* A rotation is staged by the admin with an activation time one cooldown  *)
(* ahead.  The configuration in force is computed on every read: it is the *)
(* pending one as soon as its time has come, whether or not anybody has    *)
(* called apply_pending_weights yet, and the active one before.            *)
(*                                                                         *)
(* A Map<key, weight> is kept as a weight per key, zero meaning "no        *)
(* entry": the code refuses a zero weight.  The argument of initialize and *)
(* of propose_weight_rotation is a sequence, because repeated keys matter. *)
(***************************************************************************)
EXTENDS Integers, FiniteSets, Sequences, Balances

CONSTANTS
  Accounts,     \* addresses that may call
  Keys,         \* signer public keys
  None,         \* an absent storage entry
  Cooldown,     \* WEIGHT_ROTATION_COOLDOWN_SECONDS, in clock ticks
  MaxWeight,    \* largest weight in an argument
  MaxEntries,   \* longest argument
  U32Max,       \* where u32 addition overflows
  Start,        \* ledger timestamp at deployment, positive as on any ledger
  MaxTime       \* bound on the clock

ASSUME WeightGuardAssumption ==
  /\ None \notin Accounts /\ IsFiniteSet(Keys)
  /\ Cooldown \in Nat \ {0} /\ Start \in Nat \ {0}
  /\ MaxTime \in Nat /\ Start <= MaxTime
  /\ MaxWeight \in Nat /\ MaxEntries \in Nat /\ U32Max \in Nat

VARIABLES
  now,             \* env.ledger().timestamp()
  admin,           \* DataKey::Admin
  active,          \* DataKey::Active
  pending,         \* DataKey::Pending
  last_rotation    \* DataKey::LastRotation, 0 = never rotated

vars == <<now, admin, active, pending, last_rotation>>

SignerWeight == [public_key : Keys, weight : 0..MaxWeight]

Submissions == UNION {[1..n -> SignerWeight] : n \in 0..MaxEntries}

WeightConfiguration ==
  [weights : [Keys -> 0..MaxWeight], threshold : 0..U32Max, effective_at : Nat]

ASSUME NoneIsNoConfiguration == None \notin WeightConfiguration

\* The canonical map an argument describes.
WeightMap(signers) ==
  [k \in Keys |->
     LET mine == {i \in DOMAIN signers : signers[i].public_key = k}
     IN  IF mine = {} THEN 0 ELSE signers[CHOOSE i \in mine : TRUE].weight]

\* build_configuration succeeds.
ValidConfiguration(signers, threshold) ==
  /\ signers # <<>>
  /\ \A i \in DOMAIN signers : signers[i].weight # 0
  /\ \A i, j \in DOMAIN signers : signers[i].public_key = signers[j].public_key => i = j
  /\ SumOf(WeightMap(signers), Keys) <= U32Max
  /\ threshold # 0
  /\ threshold <= SumOf(WeightMap(signers), Keys)

Configuration(signers, limit, at) ==
  [weights |-> WeightMap(signers), threshold |-> limit, effective_at |-> at]

\* Mutant: a staged rotation counts as in force one tick early.
effective_configuration_Early ==
  IF pending # None /\ now + 1 >= pending.effective_at THEN pending ELSE active

\* The configuration enforced for quorum; None before initialize.
effective_configuration ==
  IF pending # None /\ now >= pending.effective_at THEN pending ELSE active

\* Sum over the distinct approving keys; an unknown key adds nothing.
Collected(approvals) ==
  SumOf(effective_configuration.weights, {approvals[i] : i \in DOMAIN approvals})

verify_quorum(approvals) ==
  /\ active # None
  /\ Collected(approvals) >= effective_configuration.threshold

-----------------------------------------------------------------------------

Init ==
  /\ now = Start
  /\ admin = None
  /\ active = None
  /\ pending = None
  /\ last_rotation = 0

\* The ledger closes and its clock moves on.
Tick ==
  /\ now < MaxTime
  /\ now' = now + 1
  /\ UNCHANGED <<admin, active, pending, last_rotation>>

initialize(a, signers, threshold) ==
  /\ admin = None
  /\ ValidConfiguration(signers, threshold)
  /\ admin' = a
  /\ active' = Configuration(signers, threshold, now)
  /\ last_rotation' = 0
  /\ UNCHANGED <<now, pending>>

propose_weight_rotation(caller, signers, threshold) ==
  /\ admin # None
  /\ caller = admin
  /\ pending = None
  /\ last_rotation = 0 \/ now - last_rotation >= Cooldown
  /\ ValidConfiguration(signers, threshold)
  /\ pending' = Configuration(signers, threshold, now + Cooldown)
  /\ UNCHANGED <<now, admin, active, last_rotation>>

\* Permissionless.
apply_pending_weights ==
  /\ pending # None
  /\ now >= pending.effective_at
  /\ active' = pending
  /\ pending' = None
  /\ last_rotation' = now
  /\ UNCHANGED <<now, admin>>

Next ==
  \/ Tick
  \/ \E a \in Accounts, s \in Submissions, t \in 0..U32Max : initialize(a, s, t)
  \/ \E a \in Accounts, s \in Submissions, t \in 0..U32Max : propose_weight_rotation(a, s, t)
  \/ apply_pending_weights

Spec == Init /\ [][Next]_vars

-----------------------------------------------------------------------------

\* Every storage entry is well formed and no rotation is dated in the future.
TypeOK ==
  /\ now \in Start..MaxTime
  /\ admin \in Accounts \union {None}
  /\ active \in WeightConfiguration \union {None}
  /\ pending \in WeightConfiguration \union {None}
  /\ last_rotation \in 0..now

\* The configuration in force can always be met by its signers together,
\* without overflowing u32, and never by nobody, whatever was staged.
QuorumAttainable ==
  active # None =>
    /\ \E approvals \in [1..Cardinality(Keys) -> Keys] :
         verify_quorum(approvals) /\ Collected(approvals) <= U32Max
    /\ ~verify_quorum(<<>>)

\* No call of the contract changes the weights in force, apart from the first
\* configuration: only the passing of time does.  In particular applying a
\* rotation, however late, is invisible to verify_quorum.
OnlyTimeChangesWeights ==
  [][ active # None /\ effective_configuration' # effective_configuration
      => now' > now ]_vars

\* Whatever takes force was staged, unchanged, for a full cooldown, and takes
\* force at the very time that was announced with it.
NoticeGiven ==
  [][ active # None /\ effective_configuration' # effective_configuration
      => /\ pending # None
         /\ effective_configuration' = pending
         /\ now' = pending.effective_at ]_vars

\* Two consecutive configurations take force at least a cooldown apart, and
\* two cooldowns apart once a first rotation has been applied (the second is
\* staged a cooldown after the first was applied, and then waits its own).
RotationsSpaced ==
  pending # None =>
    pending.effective_at - active.effective_at >=
      (IF last_rotation = 0 THEN Cooldown ELSE 2 * Cooldown)

\* Signer weights change by the passing of time only, after the full notice
\* with which they were staged, a cooldown or two apart, and always leave a
\* quorum that can be met; storage stays well formed.
WeightChangesAreSafe ==
  /\ []TypeOK /\ []QuorumAttainable /\ []RotationsSpaced
  /\ OnlyTimeChangesWeights /\ NoticeGiven
=============================================================================
