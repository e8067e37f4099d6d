----------------------------- MODULE RootAdmin -----------------------------
(***************************************************************************)
(* The administrator of the core contract and everything that may replace, *)
(* stop or overrule it (src/admin, src/auth, src/recovery.rs,              *)
(* src/rescue.rs, src/roles.rs, src/staging.rs, src/security/pausable.rs). *)
(*                                                                         *)
(* Signers are kept in three places that nothing reconciles: one instance  *)
(* entry per address (keys), the list of the multisig (multisig.signers)   *)
(* and a map of the contract's entry points, of which only its presence    *)
(* matters here: _revocation_threshold reads that entry as a number, so    *)
(* the call traps once the map exists, and finds no number before.         *)
(* A revocation is therefore decided by its proposer alone, the temporary  *)
(* proposal is never stored, and the calls on a stored one never succeed.  *)
(*                                                                         *)
(* The calls fall into six groups over the same administrator; each        *)
(* group's next-state relation leaves the storage of the others alone.     *)
(***************************************************************************)
EXTENDS Integers, FiniteSets, Sequences

CONSTANTS
  Accounts, None,
  ChangeDelay,     \* ADMIN_CHANGE_TIMELOCK_SECONDS
  QueueDelay,      \* ADMIN_ACTION_DELAY_SECONDS
  RescueDelay,     \* RESCUE_TIMELOCK_DELAY
  Inactivity,      \* RECOVERY_INACTIVITY_THRESHOLD_SECONDS
  MaxTesters,      \* MAX_TESTERS
  HardCap,         \* the highest fee ceiling
  Ceilings,        \* fee ceilings asked for
  Bands,           \* <<min, max>> dynamic fee bands asked for
  MinBand, MaxBand,\* the bounds of a band
  FeeValues,       \* what is_valid_protocol_fee_value accepts: the floor and the tiers
  Tokens, Supply,  \* rescued assets and what the contract holds of each
  Roles, hash,     \* roles, and the hash each is stored under
  Grantees,        \* accounts that are granted roles
  Expiries,        \* expiration ledgers asked for
  MaxTime,         \* bound on the clock
  MaxRescues       \* bound on rescue proposals

RootAdminAssumption ==
  /\ None \notin Accounts /\ None \notin Nat
  /\ {ChangeDelay, QueueDelay, RescueDelay, Inactivity} \subseteq Nat \ {0}
  /\ {MaxTesters, HardCap, MinBand, MaxBand, Supply, MaxTime, MaxRescues} \subseteq Nat
  /\ "ROLE_ADMIN" \in Roles /\ Expiries \subseteq Nat
  /\ IsFiniteSet(Accounts)
  /\ Bands \subseteq Nat \X Nat /\ FeeValues \subseteq Nat

VARIABLES
  now, admin, paused, last_activity,
  signers,     \* keys, multisig, whether the SIGNERS map exists, revoked addresses
  succession,  \* PENDING_OWNER, PENDING_ADMIN, the recovery key
  guards,      \* staging mode and testers, the emergency admin, the emergency guardian
  queue,       \* the queued actions by kind, and the settings they change
  rescue,      \* protected assets, rescue proposals, balances
  roles        \* grants by account and role, active hashes

vars ==
  <<now, admin, paused, last_activity, signers, succession, guards, queue, rescue, roles>>

AdminChangeProposal == [new_admin : Accounts, proposer : Accounts, proposed_at : Nat]
PendingOwner == [nominee : Accounts, proposed_by : Accounts]
RescueProposal ==
  [token : Tokens, amount : Nat \ {0}, execute_at : Nat,
   status : {"Pending", "Executed", "Cancelled"}]
\* expiration_ledger of a RoleGrant; who granted it is recorded for events.
RoleGrant == Nat

SignerStorage ==
  [keys : SUBSET Accounts, multisig : SUBSET Accounts, threshold : Nat \ {0},
   map : BOOLEAN, revoked : SUBSET Accounts]
\* StagingConfig, the emergency admin of the pause, the guardian of the queue.
Guards ==
  [staging : BOOLEAN, testers : SUBSET Accounts,
   emergency : Accounts \union {None}, guardian : Accounts \union {None}]

QueuedActionPayload ==
  [kind : {"ceiling"}, value : Ceilings] \union [kind : {"band"}, value : Bands]
QueuedAction == [payload : QueuedActionPayload, queued_at : Nat, execute_not_before : Nat]
\* The slots, and the settings that the actions in them change.
ActionQueue ==
  [slot : [{"ceiling", "band"} -> QueuedAction \union {None}],
   ceiling : Ceilings, band : Nat \X Nat]

TypeOK ==
  /\ now \in 0..MaxTime /\ admin \in Accounts /\ paused \in BOOLEAN
  /\ last_activity \in 0..now
  /\ signers \in SignerStorage
  /\ succession \in [owner : PendingOwner \union {None},
                     change : AdminChangeProposal \union {None},
                     recovery : Accounts \union {None}]
  /\ guards \in Guards
  /\ queue \in ActionQueue
  /\ rescue \in [protected : SUBSET Tokens, proposals : Seq(RescueProposal),
                 balance : [Tokens -> 0..Supply]]
  /\ Len(rescue.proposals) <= MaxRescues
  /\ roles \in [grant : [Grantees \X Roles -> RoleGrant \union {None}],
                active : SUBSET (Grantees \X {hash[r] : r \in Roles})]

-----------------------------------------------------------------------------
(* Who counts. *)

\* check_staging_access: while staging, the admin and the testers only.
check_staging_access(a) == guards.staging => a = admin \/ a \in guards.testers

is_authorized(a) == a = admin \/ a \in signers.keys

\* require_multisig: revoked addresses are not left out.
Counted(approvers) == {a \in approvers : is_authorized(a) \/ a \in signers.multisig}

require_multisig(approvers) == Cardinality(Counted(approvers)) >= signers.threshold

is_recovery_available == now - last_activity >= Inactivity

-----------------------------------------------------------------------------

Init ==
  /\ now = 0 /\ admin \in Accounts /\ paused = FALSE /\ last_activity = 0
  /\ signers = [keys |-> {}, multisig |-> {}, threshold |-> 1, map |-> FALSE, revoked |-> {}]
  /\ succession = [owner |-> None, change |-> None, recovery |-> None]
  /\ guards = [staging |-> FALSE, testers |-> {}, emergency |-> None, guardian |-> None]
  /\ \E c \in Ceilings, b \in Bands :
       /\ c <= HardCap /\ MinBand <= b[1] /\ b[1] < b[2] /\ b[2] <= MaxBand
       /\ queue = [slot |-> [kind \in {"ceiling", "band"} |-> None], ceiling |-> c, band |-> b]
  /\ rescue = [protected |-> {}, proposals |-> <<>>, balance |-> [t \in Tokens |-> Supply]]
  /\ roles = [grant |-> [x \in Grantees \X Roles |-> None], active |-> {}]

Tick ==
  /\ now < MaxTime
  /\ now' = now + 1
  /\ UNCHANGED <<admin, paused, last_activity, signers, succession, guards, queue, rescue, roles>>

-----------------------------------------------------------------------------
(* Signers: rotation, revocation, staging and the pause. *)

signerRest == <<now, last_activity, succession, queue, rescue, roles>>

\* Mutant: the new threshold is not compared with the new signers.
rotate_admin_keys_AnyThreshold(approvers, new, threshold) ==
  /\ require_multisig(approvers)
  /\ threshold > 0
  /\ signers' = [signers EXCEPT !.keys = (@ \ signers.multisig) \union new,
                                !.multisig = new, !.threshold = threshold]
  /\ UNCHANGED <<admin, paused, guards, signerRest>>

\* The entries of former signers go, those of anybody else stay.
rotate_admin_keys(approvers, new, threshold) ==
  /\ require_multisig(approvers)
  /\ threshold \in 1..Cardinality(new)
  /\ signers' = [signers EXCEPT !.keys = (@ \ signers.multisig) \union new,
                                !.multisig = new, !.threshold = threshold]
  /\ UNCHANGED <<admin, paused, guards, signerRest>>

\* propose_emergency_revocation with execute_emergency_revocation: one vote is
\* enough, as _revocation_threshold knows no signer count.
propose_emergency_revocation(proposer, target, replacement) ==
  /\ proposer \notin signers.revoked
  /\ check_staging_access(proposer)
  /\ proposer # target /\ is_authorized(proposer) /\ is_authorized(target)
  /\ ~signers.map
  /\ signers' = [signers EXCEPT
       !.revoked = @ \union {target},
       !.keys = (@ \ {target}) \union (IF replacement = target THEN {} ELSE {replacement})]
  /\ admin' = IF admin = target THEN replacement ELSE admin
  /\ UNCHANGED <<paused, guards, signerRest>>

\* The first registration creates the map (an empty one for remove_signer).
register_signer(caller) ==
  /\ caller \notin signers.revoked /\ caller = admin
  /\ signers' = [signers EXCEPT !.map = TRUE]
  /\ UNCHANGED <<admin, paused, guards, signerRest>>

remove_signer(caller) ==
  /\ ~paused /\ caller = admin
  /\ signers' = [signers EXCEPT !.map = TRUE]
  /\ UNCHANGED <<admin, paused, guards, signerRest>>

set_staging_mode(caller, enable) ==
  /\ caller = admin
  /\ guards' = [guards EXCEPT !.staging = enable]
  /\ UNCHANGED <<admin, paused, signers, signerRest>>

add_tester(caller, tester) ==
  /\ caller = admin
  /\ tester \in guards.testers \/ Cardinality(guards.testers) < MaxTesters
  /\ guards' = [guards EXCEPT !.testers = @ \union {tester}]
  /\ UNCHANGED <<admin, paused, signers, signerRest>>

remove_tester(caller, tester) ==
  /\ caller = admin
  /\ guards' = [guards EXCEPT !.testers = @ \ {tester}]
  /\ UNCHANGED <<admin, paused, signers, signerRest>>

set_paused(caller, flag) ==
  /\ caller = admin
  /\ paused' = flag
  /\ UNCHANGED <<admin, signers, guards, signerRest>>

set_emergency_admin(caller, a) ==
  /\ caller = admin
  /\ guards' = [guards EXCEPT !.emergency = a]
  /\ UNCHANGED <<admin, paused, signers, signerRest>>

emergency_pause(caller) ==
  /\ guards.emergency = caller
  /\ paused' = TRUE
  /\ UNCHANGED <<admin, signers, guards, signerRest>>

emergency_unpause(approvers) ==
  /\ require_multisig(approvers)
  /\ paused' = FALSE
  /\ UNCHANGED <<admin, signers, guards, signerRest>>

SignerNext ==
  \/ \E approvers, new \in SUBSET Accounts, n \in 1..Cardinality(Accounts) :
       rotate_admin_keys(approvers, new, n)
  \/ \E a \in Accounts :
       \/ \E t, r \in Accounts : propose_emergency_revocation(a, t, r)
       \/ register_signer(a) \/ remove_signer(a)
       \/ \E b \in BOOLEAN : set_staging_mode(a, b)
       \/ \E t \in Accounts : add_tester(a, t) \/ remove_tester(a, t)

PauseNext ==
  \/ \E approvers, new \in SUBSET Accounts, n \in 1..Cardinality(Accounts) :
       rotate_admin_keys(approvers, new, n)
  \/ \E a \in Accounts :
       \/ \E b \in BOOLEAN : set_paused(a, b)
       \/ \E t \in Accounts : set_emergency_admin(a, t)
       \/ emergency_pause(a)
  \/ \E approvers \in SUBSET Accounts : emergency_unpause(approvers)

-----------------------------------------------------------------------------
(* Succession: ownership transfer, countersigned change, recovery. *)

heirRest == <<paused, signers, guards, queue, rescue, roles>>

propose_ownership_transfer(caller, nominee) ==
  /\ caller = admin
  /\ succession.owner = None
  /\ succession' = [succession EXCEPT !.owner = [nominee |-> nominee, proposed_by |-> caller]]
  /\ UNCHANGED <<now, admin, last_activity, heirRest>>

\* Neither the office of the proposer nor a revocation is looked at, and no
\* call withdraws a nomination.
claim_ownership(claimer) ==
  /\ succession.owner # None /\ succession.owner.nominee = claimer
  /\ admin' = claimer
  /\ succession' = [succession EXCEPT !.owner = None]
  /\ UNCHANGED <<now, last_activity, heirRest>>

propose_admin_change(caller, new) ==
  /\ check_staging_access(caller)
  /\ caller = admin
  /\ succession.change = None
  /\ succession' = [succession EXCEPT
       !.change = [new_admin |-> new, proposer |-> caller, proposed_at |-> now]]
  /\ UNCHANGED <<now, admin, last_activity, heirRest>>

\* Mutant: the proposer may countersign.
countersign_admin_change_Self(cosigner) ==
  /\ succession.change # None
  /\ is_authorized(cosigner)
  /\ admin' = succession.change.new_admin
  /\ succession' = [succession EXCEPT !.change = None]
  /\ UNCHANGED <<now, last_activity, heirRest>>

countersign_admin_change(cosigner) ==
  /\ succession.change # None
  /\ cosigner # succession.change.proposer
  /\ is_authorized(cosigner)
  /\ admin' = succession.change.new_admin
  /\ succession' = [succession EXCEPT !.change = None]
  /\ UNCHANGED <<now, last_activity, heirRest>>

execute_admin_change_by_timelock(executor) ==
  /\ succession.change # None
  /\ now - succession.change.proposed_at >= ChangeDelay
  /\ executor \in {succession.change.proposer, admin}
  /\ admin' = succession.change.new_admin
  /\ succession' = [succession EXCEPT !.change = None]
  /\ last_activity' = now
  /\ UNCHANGED <<now, heirRest>>

cancel_admin_change(caller) ==
  /\ succession.change # None
  /\ caller = admin
  /\ succession' = [succession EXCEPT !.change = None]
  /\ last_activity' = now
  /\ UNCHANGED <<now, admin, heirRest>>

set_recovery_key(caller, key) ==
  /\ caller = admin
  /\ succession' = [succession EXCEPT !.recovery = key]
  /\ UNCHANGED <<now, admin, last_activity, heirRest>>

\* The key stays configured.
recover_admin(key) ==
  /\ succession.recovery = key
  /\ is_recovery_available
  /\ admin' = key
  /\ last_activity' = now
  /\ UNCHANGED <<now, succession, heirRest>>

HeirNext ==
  \/ Tick
  \/ \E a, b \in Accounts :
       \/ propose_ownership_transfer(a, b) \/ propose_admin_change(a, b)
       \/ set_recovery_key(a, b)
  \/ \E a \in Accounts :
       \/ claim_ownership(a) \/ countersign_admin_change(a)
       \/ execute_admin_change_by_timelock(a) \/ cancel_admin_change(a) \/ recover_admin(a)

-----------------------------------------------------------------------------
(* The action queue: one slot for each kind of setting. *)

queueRest == <<now, paused, last_activity, signers, rescue, roles>>

\* The payload is validated when it is executed, not here.
queue_admin_action(caller, payload) ==
  /\ caller = admin
  /\ queue.slot[payload.kind] = None
  /\ queue' = [queue EXCEPT !.slot[payload.kind] =
       [payload |-> payload, queued_at |-> now, execute_not_before |-> now + QueueDelay]]
  /\ UNCHANGED <<admin, succession, guards, queueRest>>

cancel_action(caller, kind) ==
  /\ caller = admin
  /\ queue.slot[kind] # None
  /\ queue' = [queue EXCEPT !.slot[kind] = None]
  /\ UNCHANGED <<admin, succession, guards, queueRest>>

designate_emergency_guardian(caller, guardian) ==
  /\ caller = admin
  /\ guards' = [guards EXCEPT !.guardian = guardian]
  /\ UNCHANGED <<admin, succession, queue, queueRest>>

emergency_cancel_action(guardian, kind) ==
  /\ guards.guardian = guardian
  /\ queue.slot[kind] # None
  /\ queue' = [queue EXCEPT !.slot[kind] = None]
  /\ UNCHANGED <<admin, succession, guards, queueRest>>

\* apply_queued_action refuses what is out of bounds; the slot stays taken.
Applicable(payload) ==
  \/ payload.kind = "ceiling" /\ payload.value <= HardCap
  \/ /\ payload.kind = "band"
     /\ MinBand <= payload.value[1] /\ payload.value[1] < payload.value[2]
     /\ payload.value[2] <= MaxBand

execute_action(caller, kind) ==
  /\ caller = admin
  /\ queue.slot[kind] # None
  /\ now >= queue.slot[kind].execute_not_before
  /\ Applicable(queue.slot[kind].payload)
  /\ queue' = [queue EXCEPT ![kind] = queue.slot[kind].payload.value, !.slot[kind] = None]
  /\ UNCHANGED <<admin, succession, guards, queueRest>>

\* set_dynamic_fee_config writes the band at once, past the slot that guards it:
\* raised to the floor, and only to supported values.  A queued band stays
\* queued.
set_dynamic_fee_config(caller, band) ==
  LET min == IF band[1] < MinBand THEN MinBand ELSE band[1]
      max == IF band[2] < min THEN min ELSE band[2]
  IN /\ caller = admin
     /\ max <= MaxBand /\ min < max /\ {min, max} \subseteq FeeValues
     /\ queue' = [queue EXCEPT !.band = <<min, max>>]
     /\ UNCHANGED <<admin, succession, guards, queueRest>>

QueueNext ==
  \/ Tick
  \/ \E a \in Accounts :
       \/ \E p \in QueuedActionPayload : queue_admin_action(a, p)
       \/ \E b \in Bands : set_dynamic_fee_config(a, b)
       \/ \E kind \in {"ceiling", "band"} :
            cancel_action(a, kind) \/ execute_action(a, kind) \/ emergency_cancel_action(a, kind)
       \/ \E g \in Accounts :
            designate_emergency_guardian(a, g) \/ propose_ownership_transfer(a, g)
       \/ claim_ownership(a)

-----------------------------------------------------------------------------
(* Rescue of tokens sent by mistake. *)

rescueRest == <<now, admin, paused, last_activity, signers, succession, guards, queue, roles>>

register_protected_asset(caller, token) ==
  /\ caller = admin
  /\ rescue' = [rescue EXCEPT !.protected = @ \union {token}]
  /\ UNCHANGED rescueRest

queue_token_rescue(caller, token, amount) ==
  /\ caller = admin
  /\ amount > 0
  /\ token \notin rescue.protected
  /\ rescue' = [rescue EXCEPT !.proposals =
       Append(@, [token |-> token, amount |-> amount, execute_at |-> now + RescueDelay,
                  status |-> "Pending"])]
  /\ UNCHANGED rescueRest

\* Anybody may execute; the transfer fails if the contract holds less.
execute_token_rescue(id) ==
  LET p == rescue.proposals[id] IN
  /\ p.status = "Pending"
  /\ now >= p.execute_at
  /\ p.token \notin rescue.protected
  /\ p.amount <= rescue.balance[p.token]
  /\ rescue' = [rescue EXCEPT !.balance[p.token] = @ - p.amount,
                              !.proposals[id].status = "Executed"]
  /\ UNCHANGED rescueRest

cancel_token_rescue(caller, id) ==
  /\ caller = admin
  /\ rescue.proposals[id].status = "Pending"
  /\ rescue' = [rescue EXCEPT !.proposals[id].status = "Cancelled"]
  /\ UNCHANGED rescueRest

RescueNext ==
  \/ Tick
  \/ \E a \in Accounts, t \in Tokens :
       \/ register_protected_asset(a, t)
       \/ Len(rescue.proposals) < MaxRescues
          /\ \E n \in 0..Supply : queue_token_rescue(a, t, n)
  \/ \E id \in DOMAIN rescue.proposals :
       execute_token_rescue(id) \/ \E a \in Accounts : cancel_token_rescue(a, id)

-----------------------------------------------------------------------------
(* Roles: several names may share a hash; now is the ledger sequence here. *)

roleRest ==
  <<now, admin, paused, last_activity, signers, succession, guards, queue, rescue>>

has_role(a, role) ==
  /\ <<a, hash[role]>> \in roles.active
  /\ roles.grant[<<a, role>>] # None /\ now < roles.grant[<<a, role>>]

require_admin(a) == a = admin \/ has_role(a, "ROLE_ADMIN")

grant_role(caller, grantee, role, expiry) ==
  /\ require_admin(caller)
  /\ expiry > now
  /\ roles' = [roles EXCEPT
       !.grant[<<grantee, role>>] = expiry,
       !.active = @ \union {<<grantee, hash[role]>>}]
  /\ UNCHANGED roleRest

\* Another role under the same hash loses its effect and keeps its record.
revoke_role(caller, grantee, role) ==
  /\ require_admin(caller)
  /\ roles.grant[<<grantee, role>>] # None
  /\ roles' = [roles EXCEPT !.grant[<<grantee, role>>] = None,
                            !.active = @ \ {<<grantee, hash[role]>>}]
  /\ UNCHANGED roleRest

RoleNext ==
  \/ Tick
  \/ \E a \in Accounts, g \in Grantees, r \in Roles :
       (\E e \in Expiries : grant_role(a, g, r, e)) \/ revoke_role(a, g, r)

-----------------------------------------------------------------------------
(* Properties *)

\* The multisig can always act: whatever rotations and revocations came before,
\* enough accounts count towards the threshold of require_multisig, so that a
\* pause can be lifted and the keys can be rotated again.
MultisigReachable == Cardinality(Counted(Accounts)) >= signers.threshold

\* The administrator is replaced by the nominee of a pending transfer, by the
\* recovery key after the silence it has to wait for, by a pending change that
\* has stood for its delay or that somebody other than its proposer could
\* countersign; never by a change its proposer pushed through alone.  A
\* revocation, too, is opened by somebody else, who is not revoked.
SuccessionByRight ==
  [][admin' # admin =>
       \/ admin \in signers'.revoked /\ signers.keys \ (signers.revoked \union {admin}) # {}
       \/ succession.owner # None /\ succession.owner.nominee = admin'
          /\ succession'.owner = None
       \/ succession.recovery = admin' /\ now - last_activity >= Inactivity
       \/ /\ succession.change # None /\ succession'.change = None
          /\ succession.change.new_admin = admin'
          /\ \/ now - succession.change.proposed_at >= ChangeDelay
             \/ \E a \in Accounts \ {succession.change.proposer} : is_authorized(a)]_vars

\* The action in the slot of kind has waited for the whole delay, and the step
\* applies it and uses it up: a second execution needs a new delay.
Served(kind) ==
  /\ queue.slot[kind] # None /\ queue'.slot[kind] = None
  /\ queue'[kind] = queue.slot[kind].payload.value
  /\ now >= queue.slot[kind].queued_at + QueueDelay

\* The fee ceiling changes only by a queued action that has waited for the whole
\* delay.  A fee band does so too, or at once by set_dynamic_fee_config, which
\* touches no slot and knows the supported values only.  However the two
\* writers of a band alternate, and however old the action that is executed,
\* the settings in force satisfy the bounds of apply_queued_action.
QueuedSettingsWait ==
  /\ [][/\ queue'.ceiling # queue.ceiling => Served("ceiling")
        /\ queue'.band # queue.band =>
             \/ Served("band")
             \/ queue'.slot = queue.slot /\ queue'.band \in FeeValues \X FeeValues]_vars
  /\ [](\A kind \in {"ceiling", "band"} : Applicable([kind |-> kind, value |-> queue[kind]]))

\* Once an asset is protected its balance never leaves through a rescue, not
\* even one queued before; and what left is what executed proposals name.
RescuesSpareProtected ==
  /\ [][\A t \in rescue.protected : rescue'.balance[t] = rescue.balance[t]]_vars
  /\ [](\A id \in DOMAIN rescue.proposals :
         rescue.proposals[id].status = "Executed" =>
           rescue.proposals[id].execute_at <= now
           /\ rescue.balance[rescue.proposals[id].token] + rescue.proposals[id].amount <= Supply)

\* A role somebody lost, by revocation or by expiry, comes back only with a
\* grant of that role or, as PauseAdmin and ROLE_PAUSER share a hash, with the
\* grant of its namesake while its own record is still there and not expired.
LostRolesStayLost ==
  [][\A a \in Grantees, r \in Roles :
       ~has_role(a, r) /\ has_role(a, r)' =>
         \E s \in Roles :
           /\ hash[s] = hash[r] /\ roles'.grant[<<a, s>>] # None
           /\ roles'.grant[<<a, s>>] > now
           /\ s # r => roles.grant[<<a, r>>] # None /\ now < roles.grant[<<a, r>>]]_vars

=============================================================================
