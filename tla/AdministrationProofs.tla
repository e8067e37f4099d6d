------------------------ MODULE AdministrationProofs ------------------------
(***************************************************************************)
(* Proofs about who may change the contracts: the stand-alone key recovery *)
(* (KeyRecovery), for any set of accounts, any delay, any clock range and  *)
(* any number of copies in initialize's argument; and the administration   *)
(* and the governance of the core contract (RootAdmin, RootGovernance) in  *)
(* the specification of MCAdministration, for any value of its constants.  *)
(***************************************************************************)
EXTENDS MCAdministration, FiniteSetTheorems, SequenceTheorems, Balances, TLAPS

(***************************************************************************)
(* The inductive invariant.  ProposalTargetsSittingAdmin is not inductive  *)
(* alone: initialize sets Admin without looking at Proposal, so one has to *)
(* know that nothing is pending before initialize; and the properties      *)
(* about the window need the two timestamps of the record tied together.   *)
(***************************************************************************)
NothingBeforeInitialize == ~Initialized => proposal = None

WindowIsDelay ==
  proposal # None =>
    /\ proposal.requested_at <= now
    /\ proposal.executable_at = proposal.requested_at + Delay

IInv ==
  /\ TypeOK
  /\ NothingBeforeInitialize
  /\ WindowIsDelay
  /\ ProposalTargetsSittingAdmin

\* A contract that has just been deployed satisfies IInv.
LEMMA InitEstablishesIInv == Init => IInv
  BY KeyRecoveryAssumption
  DEF Init, IInv, TypeOK, NothingBeforeInitialize, WindowIsDelay,
      ProposalTargetsSittingAdmin, Initialized

\* Every call of the contract, and every tick of the clock, keeps IInv.
LEMMA NextKeepsIInv == IInv /\ [Next]_vars => IInv'
<1> SUFFICES ASSUME IInv, [Next]_vars PROVE IInv'
  OBVIOUS
<1> USE KeyRecoveryAssumption
<1>1. CASE Tick
  <2>1. TypeOK'
    BY <1>1 DEF Tick, IInv, TypeOK
  <2>2. WindowIsDelay'
    BY <1>1 DEF Tick, IInv, TypeOK, WindowIsDelay, RecoveryProposal
  <2> QED
    BY <1>1, <2>1, <2>2
    DEF Tick, IInv, NothingBeforeInitialize, ProposalTargetsSittingAdmin, Initialized
<1>2. ASSUME NEW a \in Accounts, NEW c \in [Accounts -> 0..MaxCopies], initialize(a, c)
      PROVE  IInv'
  BY <1>2
  DEF initialize, IInv, TypeOK, NothingBeforeInitialize, WindowIsDelay,
      ProposalTargetsSittingAdmin, Initialized
<1>3. ASSUME NEW r \in Accounts, NEW n \in Accounts, request_recovery(r, n)
      PROVE  IInv'
  <2>1. admin \in Accounts
    BY <1>3 DEF request_recovery, IInv, TypeOK, Initialized
  <2>2. /\ proposal' \in RecoveryProposal
        /\ proposal'.requested_at = now
        /\ proposal'.executable_at = now + Delay
        /\ proposal'.current_admin = admin
        /\ proposal'.proposed_admin = n
    BY <1>3, <2>1 DEF request_recovery, IInv, TypeOK, RecoveryProposal
  <2> QED
    BY <1>3, <2>1, <2>2
    DEF request_recovery, IInv, TypeOK, NothingBeforeInitialize, WindowIsDelay,
        ProposalTargetsSittingAdmin, Initialized
<1>4. ASSUME NEW g \in Accounts, cancel_recovery(g)
      PROVE  IInv'
  BY <1>4
  DEF cancel_recovery, IInv, TypeOK, NothingBeforeInitialize, WindowIsDelay,
      ProposalTargetsSittingAdmin, Initialized
<1>5. CASE finalize_recovery
  <2>1. proposal \in RecoveryProposal
    BY <1>5 DEF finalize_recovery, IInv, TypeOK
  <2>2. admin' \in Accounts
    BY <1>5, <2>1 DEF finalize_recovery, RecoveryProposal
  <2> QED
    BY <1>5, <2>2
    DEF finalize_recovery, IInv, TypeOK, NothingBeforeInitialize, WindowIsDelay,
        ProposalTargetsSittingAdmin, Initialized
<1>6. ASSUME NEW c \in Accounts, NEW g \in Accounts, add_guardian(c, g)
      PROVE  IInv'
  BY <1>6
  DEF add_guardian, IInv, TypeOK, NothingBeforeInitialize, WindowIsDelay,
      ProposalTargetsSittingAdmin, Initialized
<1>7. ASSUME NEW c \in Accounts, NEW g \in Accounts, remove_guardian(c, g)
      PROVE  IInv'
  BY <1>7
  DEF remove_guardian, IInv, TypeOK, NothingBeforeInitialize, WindowIsDelay,
      ProposalTargetsSittingAdmin, Initialized
<1>8. CASE UNCHANGED vars
  BY <1>8
  DEF vars, IInv, TypeOK, NothingBeforeInitialize, WindowIsDelay,
      ProposalTargetsSittingAdmin, Initialized
<1> QED
  BY <1>1, <1>2, <1>3, <1>4, <1>5, <1>6, <1>7, <1>8 DEF Next

\* IInv holds in every reachable state.
LEMMA IInvAlways == Spec => []IInv
  BY InitEstablishesIInv, NextKeepsIInv, PTL DEF Spec

\* Storage keeps the types the contract declares, whatever is called.
THEOREM TypesHold == Spec => []TypeOK
<1>1. IInv => TypeOK
  BY DEF IInv
<1> QED
  BY <1>1, IInvAlways, PTL

\* A pending request always names the admin in office as the one it replaces.
THEOREM RequestsNameTheSittingAdmin == Spec => []ProposalTargetsSittingAdmin
<1>1. IInv => ProposalTargetsSittingAdmin
  BY DEF IInv
<1> QED
  BY <1>1, IInvAlways, PTL

\* The view dispute_remaining and the guard of finalize_recovery agree on when
\* the window is over.
THEOREM ViewAgreesWithGuard == Spec => []DisputeRemainingAgrees
<1>1. IInv => DisputeRemainingAgrees
  BY KeyRecoveryAssumption
  DEF IInv, TypeOK, WindowIsDelay, DisputeRemainingAgrees, dispute_remaining,
      RecoveryProposal
<1> QED
  BY <1>1, IInvAlways, PTL

\* The admin key never changes hands before a request has stood for the whole
\* dispute window.
THEOREM NoEarlyReplacement == Spec => ReplacedOnlyAfterWindow
<1> DEFINE Step ==
      Initialized /\ admin' # admin =>
        /\ proposal # None
        /\ admin' = proposal.proposed_admin
        /\ now - proposal.requested_at >= Delay
<1>1. IInv /\ [Next]_vars => [Step]_vars
  <2> SUFFICES ASSUME IInv, [Next]_vars, Initialized, admin' # admin
               PROVE  Step
    OBVIOUS
  <2>1. finalize_recovery
    BY DEF Next, Tick, initialize, request_recovery, cancel_recovery,
           add_guardian, remove_guardian, vars
  <2>2. proposal \in RecoveryProposal
    BY <2>1 DEF finalize_recovery, IInv, TypeOK
  <2>3. now - proposal.requested_at >= Delay
    BY <2>1, <2>2, KeyRecoveryAssumption
    DEF finalize_recovery, IInv, TypeOK, WindowIsDelay, RecoveryProposal
  <2> QED
    BY <2>1, <2>3 DEF finalize_recovery
<1> QED
  BY <1>1, IInvAlways, PTL DEF Spec, ReplacedOnlyAfterWindow

\* What the guardians were shown is what gets installed: a pending request is
\* never edited in place.
THEOREM RequestsAreFrozen == Spec => PendingRequestIsFrozen
<1> DEFINE Step == proposal # None => proposal' \in {proposal, None}
<1>1. [Next]_vars => [Step]_vars
  BY DEF Next, Tick, initialize, request_recovery, cancel_recovery,
         finalize_recovery, add_guardian, remove_guardian, vars
<1> QED
  BY <1>1, PTL DEF Spec, PendingRequestIsFrozen

(***************************************************************************)
(* With no repeated account in initialize's argument the guardian set      *)
(* never empties.  The hypothesis is needed: with two copies of a sole     *)
(* guardian remove_guardian's test of the length passes.                   *)
(***************************************************************************)
\* If no account is listed twice, somebody can veto in every reachable state.
THEOREM VetoAlwaysPossible ==
  ASSUME MaxCopies = 1
  PROVE  Spec => []GuardianRemains
<1> USE KeyRecoveryAssumption
<1>1. Init => GuardianRemains
  BY DEF Init, GuardianRemains, Initialized
<1>2. IInv /\ GuardianRemains /\ [Next]_vars => GuardianRemains'
  <2> SUFFICES ASSUME IInv, GuardianRemains, [Next]_vars PROVE GuardianRemains'
    OBVIOUS
  <2>1. ASSUME NEW a \in Accounts, NEW c \in [Accounts -> 0..MaxCopies], initialize(a, c)
        PROVE  GuardianRemains'
    BY <2>1 DEF initialize, GuardianRemains, is_guardian
  <2>2. ASSUME NEW c \in Accounts, NEW g \in Accounts, add_guardian(c, g)
        PROVE  GuardianRemains'
    BY <2>2 DEF add_guardian, GuardianRemains, is_guardian, IInv, TypeOK
  <2>3. ASSUME NEW c \in Accounts, NEW g \in Accounts, remove_guardian(c, g)
        PROVE  GuardianRemains'
    <3>1. guardians \in [Accounts -> 0..1] /\ guardians[g] = 1
      BY <2>3 DEF remove_guardian, is_guardian, IInv, TypeOK
    <3>2. PICK h \in Accounts : h # g /\ guardians[h] # 0
      <4>1. guardians # [a \in Accounts |-> IF a = g THEN 1 ELSE 0]
        BY <2>3 DEF remove_guardian, HasSingleEntry
      <4> QED
        BY <3>1, <4>1
    <3> QED
      BY <2>3, <3>1, <3>2 DEF remove_guardian, GuardianRemains, is_guardian
  <2>4. ASSUME Initialized \/ admin' = admin, UNCHANGED guardians
        PROVE  GuardianRemains'
    BY <2>4 DEF GuardianRemains, is_guardian, Initialized
  <2>5. CASE finalize_recovery
    BY <2>4, <2>5
    DEF finalize_recovery, IInv, NothingBeforeInitialize, Initialized
  <2> QED
    BY <2>1, <2>2, <2>3, <2>4, <2>5
    DEF Next, Tick, request_recovery, cancel_recovery, vars
<1> QED
  BY <1>1, <1>2, IInvAlways, PTL DEF Spec

(***************************************************************************)
(* Without the hypothesis: only remove_guardian takes guardians away, and  *)
(* a list without repetitions that its length test lets through has a      *)
(* second member, which stays.                                             *)
(***************************************************************************)
\* The last guardian disappears only if it was listed more than once.
THEOREM OnlyRepeatsLoseTheVeto == Spec => VetoLostOnlyToRepeats
<1> USE KeyRecoveryAssumption
<1> DEFINE Some == \E g \in Accounts : is_guardian(g)
           Gone == \A g \in Accounts : guardians'[g] = 0
           Step == Some /\ Gone => \E g \in Accounts : guardians[g] > 1
<1>1. IInv /\ [Next]_vars => [Step]_vars
  <2> SUFFICES ASSUME IInv, [Next]_vars PROVE [Step]_vars
    OBVIOUS
  <2>1. ASSUME NEW a \in Accounts, NEW c \in [Accounts -> 0..MaxCopies], initialize(a, c)
        PROVE  Step
    BY <2>1 DEF initialize
  <2>2. ASSUME NEW c \in Accounts, NEW g \in Accounts, add_guardian(c, g)
        PROVE  Step
    <3>1. guardians'[g] = 1
      BY <2>2 DEF add_guardian, IInv, TypeOK
    <3> QED
      BY <3>1
  <2>3. ASSUME NEW c \in Accounts, NEW g \in Accounts, remove_guardian(c, g)
        PROVE  Step
    <3> SUFFICES ASSUME Gone, \A h \in Accounts : ~(guardians[h] > 1)
                 PROVE  FALSE
      OBVIOUS
    <3>1. guardians \in [Accounts -> 0..1] /\ guardians[g] = 1
      BY <2>3 DEF remove_guardian, is_guardian, IInv, TypeOK
    <3>2. PICK h \in Accounts : h # g /\ guardians[h] # 0
      <4>1. guardians # [a \in Accounts |-> IF a = g THEN 1 ELSE 0]
        BY <2>3 DEF remove_guardian, HasSingleEntry
      <4> QED
        BY <3>1, <4>1
    <3> QED
      BY <2>3, <3>1, <3>2 DEF remove_guardian
  <2>4. ASSUME UNCHANGED guardians
        PROVE  Step
    BY <2>4 DEF is_guardian, IInv, TypeOK
  <2> QED
    BY <2>1, <2>2, <2>3, <2>4
    DEF Next, Tick, request_recovery, cancel_recovery, finalize_recovery, vars
<1> QED
  BY <1>1, IInvAlways, PTL DEF Spec, VetoLostOnlyToRepeats

-----------------------------------------------------------------------------
(***************************************************************************)
(* The administration of the core contract.  MultisigReachable is not      *)
(* inductive: a revocation may take away an account that counts.  What     *)
(* does not change between rotations is the list of the multisig, whose    *)
(* members count whatever else happens to them, and the threshold was      *)
(* compared with that list; before the first rotation it is one, and the   *)
(* administrator counts.  A queued action knows its slot and its delay,    *)
(* and an executed rescue has left the balance.                            *)
(***************************************************************************)

ThresholdCounted(s) == s.threshold = 1 \/ s.threshold <= Cardinality(s.multisig)

\* The action in a slot is of the slot's kind and has been given the delay.
SlotWaits(q) ==
  \A kind \in {"ceiling", "band"} :
    q.slot[kind] # None =>
      /\ q.slot[kind].payload.kind = kind
      /\ q.slot[kind].execute_not_before = q.slot[kind].queued_at + QueueDelay

\* The settings in force are within their bounds, whichever call wrote them.
SettingsBounded(q) ==
  /\ q.ceiling <= HardCap
  /\ MinBand <= q.band[1] /\ q.band[1] < q.band[2] /\ q.band[2] <= MaxBand

\* What an executed rescue took is missing from what there was.
RescuesTaken(r, t) ==
  \A id \in DOMAIN r.proposals :
    r.proposals[id].status = "Executed" =>
      /\ r.proposals[id].execute_at <= t
      /\ r.balance[r.proposals[id].token] + r.proposals[id].amount <= Supply

AdminInv ==
  /\ Admin!TypeOK
  /\ ThresholdCounted(adm_signers)
  /\ SlotWaits(adm_queue) /\ SettingsBounded(adm_queue)
  /\ RescuesTaken(adm_rescue, adm_now)

\* The calls of the core's administration, whichever group they are from.
AdminNext ==
  \/ Admin!SignerNext \/ Admin!PauseNext \/ Admin!HeirNext
  \/ Admin!QueueNext \/ Admin!RescueNext \/ Admin!RoleNext

LEMMA AdminCardinality ==
  ASSUME NEW S
  PROVE  (Admin!IsFiniteSet(S) <=> IsFiniteSet(S)) /\ Admin!Cardinality(S) = Cardinality(S)
<1>1. Admin!IsFiniteSet(S) <=> IsFiniteSet(S)
  BY DEF Admin!IsFiniteSet, IsFiniteSet
<1>2. Admin!Cardinality(S) = Cardinality(S)
  BY DEF Admin!Cardinality, Cardinality, Admin!IsFiniteSet, IsFiniteSet
<1> QED
  BY <1>1, <1>2

LEMMA AdminFacts ==
  /\ None \notin Accounts /\ None \notin Nat /\ IsFiniteSet(Accounts)
  /\ ChangeDelay \in Nat /\ QueueDelay \in Nat /\ RescueDelay \in Nat /\ Inactivity \in Nat
  /\ Supply \in Nat /\ AdminTime \in Nat /\ MaxRescues \in Nat /\ Expiries \subseteq Nat
  /\ Bands \subseteq Nat \X Nat /\ MinBand \in Nat /\ MaxBand \in Nat /\ FeeValues \subseteq Nat
  /\ \A S \in SUBSET Accounts : IsFiniteSet(S) /\ Cardinality(S) \in Nat
<1>1. /\ None \notin Accounts /\ None \notin Nat /\ IsFiniteSet(Accounts)
      /\ ChangeDelay \in Nat /\ QueueDelay \in Nat /\ RescueDelay \in Nat /\ Inactivity \in Nat
      /\ Supply \in Nat /\ AdminTime \in Nat /\ MaxRescues \in Nat /\ Expiries \subseteq Nat
      /\ Bands \subseteq Nat \X Nat /\ MinBand \in Nat /\ MaxBand \in Nat /\ FeeValues \subseteq Nat
  BY AdministrationAssumption, AdminCardinality DEF Admin!RootAdminAssumption
<1> QED
  BY <1>1, FS_Subset, FS_CardinalityType

\* Enough accounts count: the multisig, or the administrator alone.
LEMMA AdminInvReaches == AdminInv => Admin!MultisigReachable
<1> SUFFICES ASSUME AdminInv PROVE Admin!MultisigReachable
  OBVIOUS
<1> DEFINE C == Admin!Counted(Accounts)
           M == adm_signers.multisig
<1>1. adm_signers \in Admin!SignerStorage /\ adm_admin \in Accounts /\ ThresholdCounted(adm_signers)
  BY DEF AdminInv, Admin!TypeOK
<1>2. M \subseteq Accounts /\ adm_signers.threshold \in Nat
  BY <1>1 DEF Admin!SignerStorage
<1>3. C \subseteq Accounts /\ M \subseteq C /\ adm_admin \in C
  BY <1>1, <1>2 DEF Admin!Counted, Admin!is_authorized
<1> HIDE DEF C
<1>4. IsFiniteSet(C) /\ Cardinality(C) \in Nat /\ Cardinality(M) \in Nat /\ Cardinality(M) <= Cardinality(C)
  BY <1>2, <1>3, AdminFacts, FS_Subset
<1>5. Cardinality(C) # 0
  BY <1>3, <1>4, FS_EmptySet
<1>6. Cardinality(C) >= adm_signers.threshold
  BY <1>1, <1>2, <1>4, <1>5 DEF ThresholdCounted
<1> QED
  BY <1>6, AdminCardinality DEF Admin!MultisigReachable, C

LEMMA AdminInvInit == Admin!Init => AdminInv
<1> SUFFICES ASSUME Admin!Init PROVE AdminInv
  OBVIOUS
<1>1. adm_signers \in Admin!SignerStorage /\ adm_signers.threshold = 1
  BY DEF Admin!Init, Admin!SignerStorage
<1>2. adm_guards \in Admin!Guards
  BY DEF Admin!Init, Admin!Guards
<1>3. adm_queue \in Admin!ActionQueue /\ SlotWaits(adm_queue) /\ SettingsBounded(adm_queue)
  BY AdminFacts DEF Admin!Init, Admin!ActionQueue, SlotWaits, SettingsBounded
<1>4. /\ adm_rescue \in [protected : SUBSET Tokens, proposals : Seq(Admin!RescueProposal),
                         balance : [Tokens -> 0..Supply]]
      /\ Admin!Len(adm_rescue.proposals) <= MaxRescues /\ RescuesTaken(adm_rescue, adm_now)
  BY AdminFacts DEF Admin!Init, RescuesTaken
<1>5. adm_roles \in [grant : [Grantees \X Roles -> Nat \union {None}],
                     active : SUBSET (Grantees \X {RoleHash[r] : r \in Roles})]
  BY DEF Admin!Init
<1>6. adm_succession \in [owner : Admin!PendingOwner \union {None},
                          change : Admin!AdminChangeProposal \union {None},
                          recovery : Accounts \union {None}]
  BY DEF Admin!Init
<1>7. adm_now \in 0..AdminTime /\ adm_admin \in Accounts /\ adm_paused \in BOOLEAN
      /\ adm_activity \in 0..adm_now
  <2>1. AdminTime \in Nat
    BY AdminFacts
  <2>2. adm_now = 0 /\ adm_admin \in Accounts /\ adm_activity = 0
    BY DEF Admin!Init
  <2>3. adm_paused \in BOOLEAN
    BY Zenon DEF Admin!Init
  <2> QED
    BY <2>1, <2>2, <2>3
<1> QED
  BY <1>1, <1>2, <1>3, <1>4, <1>5, <1>6, <1>7
  DEF AdminInv, ThresholdCounted, Admin!TypeOK, Admin!RoleGrant

\* A rotation, a revocation or a registration leaves a multisig that can act.
LEMMA AdminSignerStep ==
  ASSUME AdminInv, Admin!SignerNext \/ Admin!PauseNext  PROVE AdminInv'
<1>0. /\ adm_signers \in Admin!SignerStorage /\ ThresholdCounted(adm_signers)
      /\ adm_guards \in Admin!Guards /\ adm_admin \in Accounts /\ adm_paused \in BOOLEAN
  BY DEF AdminInv, Admin!TypeOK
<1> DEFINE Kept == /\ adm_signers' \in Admin!SignerStorage /\ ThresholdCounted(adm_signers')
                   /\ adm_guards' \in Admin!Guards /\ adm_admin' \in Accounts /\ adm_paused' \in BOOLEAN
                   /\ UNCHANGED Admin!signerRest
<1>1. ASSUME NEW A \in SUBSET Accounts, NEW new \in SUBSET Accounts, NEW n \in 1..Admin!Cardinality(Accounts),
             Admin!rotate_admin_keys(A, new, n)
      PROVE  Kept
  <2>1. n \in 1..Cardinality(new) /\ Cardinality(new) \in Nat
    BY <1>1, AdminFacts, AdminCardinality DEF Admin!rotate_admin_keys
  <2>2. n \in Nat \ {0} /\ n <= Cardinality(new)
    BY <2>1
  <2>3. /\ adm_signers' = [adm_signers EXCEPT !.keys = (@ \ adm_signers.multisig) \union new,
                                             !.multisig = new, !.threshold = n]
        /\ UNCHANGED <<adm_admin, adm_paused, adm_guards, Admin!signerRest>>
    BY <1>1 DEF Admin!rotate_admin_keys
  <2>4. /\ adm_signers' \in Admin!SignerStorage
        /\ adm_signers'.multisig = new /\ adm_signers'.threshold = n
    BY <1>0, <2>2, <2>3 DEF Admin!SignerStorage
  <2>5. ThresholdCounted(adm_signers')
    BY <2>2, <2>4 DEF ThresholdCounted
  <2> QED
    BY <1>0, <2>3, <2>4, <2>5
<1>2. ASSUME NEW a \in Accounts, NEW t \in Accounts, NEW r \in Accounts,
             Admin!propose_emergency_revocation(a, t, r)
      PROVE  Kept
  <2>1. /\ adm_signers' \in Admin!SignerStorage
        /\ adm_signers'.multisig = adm_signers.multisig /\ adm_signers'.threshold = adm_signers.threshold
    BY <1>0, <1>2 DEF Admin!propose_emergency_revocation, Admin!SignerStorage
  <2>2. ThresholdCounted(adm_signers')
    BY <1>0, <2>1 DEF ThresholdCounted
  <2> QED
    BY <1>0, <1>2, <2>1, <2>2 DEF Admin!propose_emergency_revocation
<1>3. ASSUME NEW a \in Accounts, Admin!register_signer(a) \/ Admin!remove_signer(a)  PROVE Kept
  <2>1. /\ adm_signers' \in Admin!SignerStorage
        /\ adm_signers'.multisig = adm_signers.multisig /\ adm_signers'.threshold = adm_signers.threshold
    BY <1>0, <1>3 DEF Admin!register_signer, Admin!remove_signer, Admin!SignerStorage
  <2>2. ThresholdCounted(adm_signers')
    BY <1>0, <2>1 DEF ThresholdCounted
  <2> QED
    BY <1>0, <1>3, <2>1, <2>2 DEF Admin!register_signer, Admin!remove_signer
<1>4. ASSUME NEW a \in Accounts, NEW t \in Accounts,
             \/ Admin!add_tester(a, t) \/ Admin!remove_tester(a, t)
             \/ Admin!set_emergency_admin(a, t)
      PROVE  Kept
  <2>1. adm_guards' \in Admin!Guards
    BY <1>0, <1>4 DEF Admin!add_tester, Admin!remove_tester, Admin!set_emergency_admin, Admin!Guards
  <2> QED
    BY <1>0, <1>4, <2>1 DEF Admin!add_tester, Admin!remove_tester, Admin!set_emergency_admin
<1>5. ASSUME NEW a \in Accounts, NEW b \in BOOLEAN,
             Admin!set_staging_mode(a, b) \/ Admin!set_paused(a, b)
      PROVE  Kept
  <2>1. CASE Admin!set_staging_mode(a, b)
    <3>1. adm_guards' \in Admin!Guards
      BY <1>0, <2>1 DEF Admin!set_staging_mode, Admin!Guards
    <3> QED
      BY <1>0, <2>1, <3>1 DEF Admin!set_staging_mode
  <2>2. CASE Admin!set_paused(a, b)
    BY <1>0, <2>2 DEF Admin!set_paused
  <2> QED
    BY <1>5, <2>1, <2>2
<1>6. ASSUME NEW a \in Accounts, Admin!emergency_pause(a)  PROVE Kept
  BY <1>0, <1>6 DEF Admin!emergency_pause
<1>7. ASSUME NEW A \in SUBSET Accounts, Admin!emergency_unpause(A)  PROVE Kept
  BY <1>0, <1>7 DEF Admin!emergency_unpause
<1> HIDE DEF Kept
<1>8. ASSUME Admin!SignerNext PROVE Kept
  BY <1>1, <1>2, <1>3, <1>4, <1>5, <1>8 DEF Admin!SignerNext
<1>9. ASSUME Admin!PauseNext PROVE Kept
  BY <1>1, <1>4, <1>5, <1>6, <1>7, <1>9 DEF Admin!PauseNext
<1> QED
  BY <1>8, <1>9 DEF Kept, AdminInv, Admin!TypeOK, Admin!signerRest

\* The clock runs on: what was done in the past stays past.
LEMMA AdminTickStep ==
  ASSUME AdminInv, Admin!Tick  PROVE AdminInv'
<1>1. adm_now \in Nat /\ adm_activity \in 0..adm_now /\ AdminTime \in Nat /\ adm_now < AdminTime
      /\ adm_now' = adm_now + 1
      /\ UNCHANGED <<adm_admin, adm_paused, adm_activity, adm_signers, adm_succession, adm_guards,
                     adm_queue, adm_rescue, adm_roles>>
  BY AdminFacts DEF AdminInv, Admin!TypeOK, Admin!Tick
<1>2. adm_now' \in 0..AdminTime /\ adm_activity' \in 0..adm_now'
  BY <1>1
<1>3. RescuesTaken(adm_rescue, adm_now + 1)
  <2>1. adm_rescue.proposals \in Seq(Admin!RescueProposal)
    BY DEF AdminInv, Admin!TypeOK
  <2>2. \A id \in DOMAIN adm_rescue.proposals : adm_rescue.proposals[id] \in Admin!RescueProposal
    BY <2>1
  <2>3. \A id \in DOMAIN adm_rescue.proposals : adm_rescue.proposals[id].execute_at \in Nat
    BY <2>2 DEF Admin!RescueProposal
  <2> QED
    BY <1>1, <2>3 DEF AdminInv, RescuesTaken
<1> QED
  BY <1>1, <1>2, <1>3 DEF AdminInv, Admin!TypeOK

\* A change of administrator installs an account.
LEMMA AdminHeirStep ==
  ASSUME AdminInv, Admin!HeirNext  PROVE AdminInv'
<1> DEFINE Succession == [owner : Admin!PendingOwner \union {None},
                          change : Admin!AdminChangeProposal \union {None},
                          recovery : Accounts \union {None}]
<1>0. /\ adm_succession \in Succession /\ adm_admin \in Accounts /\ None \notin Accounts
      /\ adm_now \in Nat /\ adm_activity \in 0..adm_now
  BY AdminFacts DEF AdminInv, Admin!TypeOK
<1> DEFINE Kept == /\ adm_succession' \in Succession /\ adm_admin' \in Accounts
                   /\ adm_now' = adm_now /\ adm_activity' \in 0..adm_now
                   /\ UNCHANGED Admin!heirRest
<1>1. ASSUME NEW a \in Accounts, NEW b \in Accounts,
             \/ Admin!propose_ownership_transfer(a, b) \/ Admin!propose_admin_change(a, b)
             \/ Admin!set_recovery_key(a, b)
      PROVE  Kept
  BY <1>0, <1>1
  DEF Admin!propose_ownership_transfer, Admin!propose_admin_change, Admin!set_recovery_key,
      Admin!PendingOwner, Admin!AdminChangeProposal
<1>2. ASSUME NEW a \in Accounts, Admin!claim_ownership(a) \/ Admin!recover_admin(a)  PROVE Kept
  BY <1>0, <1>2 DEF Admin!claim_ownership, Admin!recover_admin
<1>3. ASSUME NEW a \in Accounts,
             \/ Admin!countersign_admin_change(a) \/ Admin!execute_admin_change_by_timelock(a)
             \/ Admin!cancel_admin_change(a)
      PROVE  Kept
  <2>1. adm_succession.change \in Admin!AdminChangeProposal
    BY <1>0, <1>3
    DEF Admin!countersign_admin_change, Admin!execute_admin_change_by_timelock, Admin!cancel_admin_change
  <2>2. adm_succession.change.new_admin \in Accounts
    BY <2>1 DEF Admin!AdminChangeProposal
  <2> QED
    BY <1>0, <1>3, <2>2
    DEF Admin!countersign_admin_change, Admin!execute_admin_change_by_timelock, Admin!cancel_admin_change
<1>4. ASSUME Kept PROVE AdminInv'
  BY <1>4 DEF AdminInv, Admin!TypeOK, Admin!heirRest
<1> QED
  BY <1>1, <1>2, <1>3, <1>4, AdminTickStep DEF Admin!HeirNext

\* A slot is filled with the delay of its action and emptied by its execution.
LEMMA AdminQueueStep ==
  ASSUME AdminInv, Admin!QueueNext  PROVE AdminInv'
<1> DEFINE Kinds == {"ceiling", "band"}
           Slot == Admin!QueuedAction \union {None}
<1>0. /\ adm_queue \in Admin!ActionQueue /\ SlotWaits(adm_queue) /\ adm_guards \in Admin!Guards
      /\ SettingsBounded(adm_queue) /\ adm_now \in Nat /\ QueueDelay \in Nat
  BY AdminFacts DEF AdminInv, Admin!TypeOK
<1>0a. ASSUME adm_queue' \in Admin!ActionQueue, SlotWaits(adm_queue'), SettingsBounded(adm_queue'),
              adm_guards' \in Admin!Guards,
              UNCHANGED <<adm_admin, adm_succession, Admin!queueRest>>
       PROVE  AdminInv'
  BY <1>0a DEF AdminInv, Admin!TypeOK, Admin!queueRest
<1>0b. ASSUME NEW kind \in Kinds, NEW v \in Slot,
              v # None => v.payload.kind = kind /\ v.execute_not_before = v.queued_at + QueueDelay,
              adm_queue' = [adm_queue EXCEPT !.slot[kind] = v]
       PROVE  adm_queue' \in Admin!ActionQueue /\ SlotWaits(adm_queue') /\ SettingsBounded(adm_queue')
  BY <1>0, <1>0b DEF Admin!ActionQueue, SlotWaits, SettingsBounded
<1>1. ASSUME NEW a \in Accounts, NEW p \in Admin!QueuedActionPayload, Admin!queue_admin_action(a, p)
      PROVE  AdminInv'
  <2> DEFINE v == [payload |-> p, queued_at |-> adm_now, execute_not_before |-> adm_now + QueueDelay]
  <2>1. p.kind \in Kinds
    BY DEF Admin!QueuedActionPayload
  <2>2. v \in Slot /\ v.payload.kind = p.kind /\ v.execute_not_before = v.queued_at + QueueDelay
    BY <1>0 DEF Admin!QueuedAction
  <2>3. /\ adm_queue' = [adm_queue EXCEPT !.slot[p.kind] = v]
        /\ UNCHANGED <<adm_admin, adm_succession, adm_guards, Admin!queueRest>>
    BY <1>1 DEF Admin!queue_admin_action
  <2> HIDE DEF v
  <2> QED
    BY <1>0, <1>0a, <1>0b, <2>1, <2>2, <2>3
<1>2. ASSUME NEW a \in Accounts, NEW kind \in Kinds,
             Admin!cancel_action(a, kind) \/ Admin!emergency_cancel_action(a, kind)
      PROVE  AdminInv'
  <2>1. /\ adm_queue' = [adm_queue EXCEPT !.slot[kind] = None]
        /\ UNCHANGED <<adm_admin, adm_succession, adm_guards, Admin!queueRest>>
    BY <1>2 DEF Admin!cancel_action, Admin!emergency_cancel_action
  <2> QED
    BY <1>0, <1>0a, <1>0b, <2>1
<1>3. ASSUME NEW a \in Accounts, NEW kind \in Kinds, Admin!execute_action(a, kind)
      PROVE  AdminInv'
  <2> DEFINE x == adm_queue.slot[kind].payload.value
  <2>1. /\ adm_queue' = [adm_queue EXCEPT ![kind] = x, !.slot[kind] = None]
        /\ adm_queue.slot[kind] # None /\ Admin!Applicable(adm_queue.slot[kind].payload)
        /\ UNCHANGED <<adm_admin, adm_succession, adm_guards, Admin!queueRest>>
    BY <1>3 DEF Admin!execute_action
  <2>2. /\ adm_queue.slot[kind] \in Admin!QueuedAction /\ adm_queue.slot[kind].payload.kind = kind
    BY <1>0, <2>1 DEF Admin!ActionQueue, SlotWaits
  <2>3. adm_queue.slot[kind].payload \in Admin!QueuedActionPayload
    BY <2>2 DEF Admin!QueuedAction
  <2>4. /\ kind = "ceiling" => x \in Ceilings /\ x <= HardCap
        /\ kind = "band" => /\ x \in Nat \X Nat /\ MinBand <= x[1] /\ x[1] < x[2]
                            /\ x[2] <= MaxBand
    BY <2>1, <2>2, <2>3, AdminFacts DEF Admin!QueuedActionPayload, Admin!Applicable
  <2> HIDE DEF x
  <2>5. adm_queue' \in Admin!ActionQueue /\ SlotWaits(adm_queue')
    BY <1>0, <2>1, <2>4 DEF Admin!ActionQueue, SlotWaits
  <2>6. SettingsBounded(adm_queue')
    BY <1>0, <2>1, <2>4 DEF Admin!ActionQueue, SettingsBounded
  <2> QED
    BY <1>0, <1>0a, <2>1, <2>5, <2>6
<1>4. ASSUME NEW a \in Accounts, NEW g \in Accounts, Admin!designate_emergency_guardian(a, g)
      PROVE  AdminInv'
  <2>1. adm_guards' \in Admin!Guards /\ UNCHANGED <<adm_admin, adm_succession, adm_queue, Admin!queueRest>>
    BY <1>0, <1>4 DEF Admin!designate_emergency_guardian, Admin!Guards
  <2> QED
    BY <1>0, <1>0a, <2>1
<1>5. ASSUME NEW a \in Accounts, NEW g \in Accounts,
             Admin!propose_ownership_transfer(a, g) \/ Admin!claim_ownership(a)
      PROVE  AdminInv'
  BY <1>5, AdminHeirStep DEF Admin!HeirNext
<1>6. ASSUME NEW a \in Accounts, NEW b \in Bands, Admin!set_dynamic_fee_config(a, b)
      PROVE  AdminInv'
  <2>1. PICK min \in Nat, max \in Nat :
          /\ adm_queue' = [adm_queue EXCEPT !.band = <<min, max>>]
          /\ MinBand <= min /\ min < max /\ max <= MaxBand
          /\ UNCHANGED <<adm_admin, adm_succession, adm_guards, Admin!queueRest>>
    <3> DEFINE min == IF b[1] < MinBand THEN MinBand ELSE b[1]
               max == IF b[2] < min THEN min ELSE b[2]
    <3>1. /\ adm_queue' = [adm_queue EXCEPT !.band = <<min, max>>] /\ max <= MaxBand /\ min < max
          /\ UNCHANGED <<adm_admin, adm_succession, adm_guards, Admin!queueRest>>
      BY <1>6 DEF Admin!set_dynamic_fee_config
    <3>2. min \in Nat /\ max \in Nat /\ MinBand <= min
      BY AdminFacts
    <3> QED
      BY <3>1, <3>2
  <2>2. /\ adm_queue' \in Admin!ActionQueue /\ adm_queue'.slot = adm_queue.slot
        /\ adm_queue'.ceiling = adm_queue.ceiling /\ adm_queue'.band = <<min, max>>
    BY <1>0, <2>1 DEF Admin!ActionQueue
  <2>3. SlotWaits(adm_queue') /\ SettingsBounded(adm_queue')
    BY <1>0, <2>1, <2>2 DEF SlotWaits, SettingsBounded
  <2> QED
    BY <1>0, <1>0a, <2>1, <2>2, <2>3
<1> QED
  BY <1>1, <1>2, <1>3, <1>4, <1>5, <1>6, AdminTickStep DEF Admin!QueueNext

\* An executed rescue has left the balance, and balances only fall.
LEMMA AdminRescueStep ==
  ASSUME AdminInv, Admin!RescueNext  PROVE AdminInv'
<1> DEFINE Storage == [protected : SUBSET Tokens, proposals : Seq(Admin!RescueProposal),
                       balance : [Tokens -> 0..Supply]]
           P == adm_rescue.proposals
<1>0. /\ adm_rescue \in Storage /\ RescuesTaken(adm_rescue, adm_now) /\ Len(P) <= MaxRescues
      /\ adm_now \in Nat /\ RescueDelay \in Nat /\ Supply \in Nat
  BY AdminFacts DEF AdminInv, Admin!TypeOK
<1>0a. ASSUME adm_rescue' \in Storage, RescuesTaken(adm_rescue', adm_now), Len(adm_rescue'.proposals) <= MaxRescues,
              UNCHANGED Admin!rescueRest
       PROVE  AdminInv'
  BY <1>0a DEF AdminInv, Admin!TypeOK, Admin!rescueRest
<1>0b. /\ adm_rescue.protected \subseteq Tokens /\ adm_rescue.balance \in [Tokens -> 0..Supply]
       /\ P \in Seq(Admin!RescueProposal)
  BY <1>0
<1>0c. \A id \in DOMAIN P : P[id] \in Admin!RescueProposal
  BY <1>0b
<1>0d. \A p \in Admin!RescueProposal :
         p.token \in Tokens /\ p.amount \in Nat \ {0} /\ p.execute_at \in Nat
  BY DEF Admin!RescueProposal
<1>0e. ASSUME NEW p \in Admin!RescueProposal, NEW st \in {"Executed", "Cancelled"}
       PROVE  /\ [p EXCEPT !.status = st] \in Admin!RescueProposal
              /\ [p EXCEPT !.status = st].token = p.token /\ [p EXCEPT !.status = st].amount = p.amount
              /\ [p EXCEPT !.status = st].execute_at = p.execute_at /\ [p EXCEPT !.status = st].status = st
  BY DEF Admin!RescueProposal
<1>1. ASSUME NEW a \in Accounts, NEW t \in Tokens, Admin!register_protected_asset(a, t)
      PROVE  AdminInv'
  <2>1. /\ adm_rescue' \in Storage /\ adm_rescue'.proposals = P /\ adm_rescue'.balance = adm_rescue.balance
        /\ UNCHANGED Admin!rescueRest
    BY <1>0, <1>1 DEF Admin!register_protected_asset
  <2> QED
    BY <1>0, <1>0a, <2>1 DEF RescuesTaken
<1>2. ASSUME NEW a \in Accounts, NEW t \in Tokens, NEW n \in 0..Supply,
             Admin!queue_token_rescue(a, t, n), Len(P) < MaxRescues
      PROVE  AdminInv'
  <2> DEFINE p == [token |-> t, amount |-> n, execute_at |-> adm_now + RescueDelay, status |-> "Pending"]
  <2>1. p \in Admin!RescueProposal /\ p.status # "Executed"
    BY <1>0, <1>2 DEF Admin!RescueProposal, Admin!queue_token_rescue
  <2>2. /\ adm_rescue' = [adm_rescue EXCEPT !.proposals = Append(P, p)] /\ UNCHANGED Admin!rescueRest
    BY <1>2 DEF Admin!queue_token_rescue
  <2> HIDE DEF p
  <2>3. /\ Append(P, p) \in Seq(Admin!RescueProposal) /\ Len(Append(P, p)) = Len(P) + 1
        /\ \A id \in DOMAIN Append(P, p) :
             Append(P, p)[id] = p \/ (id \in DOMAIN P /\ Append(P, p)[id] = P[id])
    BY <1>0b, <2>1
  <2>4. /\ adm_rescue' \in Storage /\ adm_rescue'.proposals = Append(P, p)
        /\ adm_rescue'.balance = adm_rescue.balance
    BY <1>0, <2>2, <2>3
  <2>5. RescuesTaken(adm_rescue', adm_now)
    BY <1>0, <2>1, <2>3, <2>4 DEF RescuesTaken
  <2>6. Len(adm_rescue'.proposals) <= MaxRescues
    BY <1>2, <2>3, <2>4, <1>0b, AdminFacts
  <2> QED
    BY <1>0a, <2>2, <2>4, <2>5, <2>6
<1>3. ASSUME NEW id \in DOMAIN P, Admin!execute_token_rescue(id)
      PROVE  AdminInv'
  <2> DEFINE p == P[id]
             q == [p EXCEPT !.status = "Executed"]
             R == [P EXCEPT ![id] = q]
             b == [adm_rescue.balance EXCEPT ![p.token] = @ - p.amount]
  <2>1. p.execute_at <= adm_now /\ p.amount <= adm_rescue.balance[p.token] /\ UNCHANGED Admin!rescueRest
    BY <1>3 DEF Admin!execute_token_rescue
  <2>2. adm_rescue' = [adm_rescue EXCEPT !.balance = b, !.proposals = R]
    BY <1>0, <1>3 DEF Admin!execute_token_rescue
  <2>3. /\ p \in Admin!RescueProposal /\ p.token \in Tokens /\ p.amount \in Nat
        /\ q \in Admin!RescueProposal /\ q.token = p.token /\ q.amount = p.amount
        /\ q.execute_at = p.execute_at
    BY <1>0c, <1>0d, <1>0e
  <2> HIDE DEF q
  <2>4. /\ R \in Seq(Admin!RescueProposal) /\ Len(R) = Len(P) /\ DOMAIN R = DOMAIN P /\ R[id] = q
        /\ \A j \in DOMAIN P : j # id => R[j] = P[j]
    BY <1>0b, <2>3
  <2>5. /\ b \in [Tokens -> 0..Supply] /\ b[p.token] + p.amount <= Supply
        /\ \A t \in Tokens : b[t] <= adm_rescue.balance[t]
    BY <1>0, <1>0b, <2>1, <2>3
  <2> HIDE DEF R, b
  <2>6. adm_rescue' \in Storage /\ adm_rescue'.proposals = R /\ adm_rescue'.balance = b
    BY <1>0, <2>2, <2>4, <2>5
  <2>7. ASSUME NEW j \in DOMAIN R, R[j].status = "Executed"
        PROVE  R[j].execute_at <= adm_now /\ b[R[j].token] + R[j].amount <= Supply
    <3>1. CASE j = id
      BY <2>1, <2>3, <2>4, <2>5, <3>1
    <3>2. CASE j # id
      <4>1. R[j] = P[j] /\ P[j].token \in Tokens /\ P[j].amount \in Nat /\ P[j].execute_at <= adm_now
            /\ adm_rescue.balance[P[j].token] + P[j].amount <= Supply
        BY <1>0, <1>0c, <1>0d, <2>4, <2>7, <3>2 DEF RescuesTaken
      <4>2. /\ b[P[j].token] \in Nat /\ adm_rescue.balance[P[j].token] \in Nat
            /\ b[P[j].token] <= adm_rescue.balance[P[j].token]
        BY <1>0b, <2>5, <4>1
      <4> QED
        BY <1>0, <4>1, <4>2
    <3> QED
      BY <3>1, <3>2
  <2>8. RescuesTaken(adm_rescue', adm_now)
    BY <2>6, <2>7 DEF RescuesTaken
  <2> QED
    BY <1>0, <1>0a, <2>1, <2>4, <2>6, <2>8
<1>4. ASSUME NEW id \in DOMAIN P, NEW a \in Accounts, Admin!cancel_token_rescue(a, id)
      PROVE  AdminInv'
  <2> DEFINE q == [P[id] EXCEPT !.status = "Cancelled"]
             R == [P EXCEPT ![id] = q]
  <2>1. adm_rescue' = [adm_rescue EXCEPT !.proposals = R] /\ UNCHANGED Admin!rescueRest
    BY <1>0, <1>4 DEF Admin!cancel_token_rescue
  <2>2. q \in Admin!RescueProposal /\ q.status # "Executed"
    BY <1>0c, <1>0e
  <2> HIDE DEF q
  <2>3. /\ R \in Seq(Admin!RescueProposal) /\ Len(R) = Len(P) /\ DOMAIN R = DOMAIN P /\ R[id] = q
        /\ \A j \in DOMAIN P : j # id => R[j] = P[j]
    BY <1>0b, <2>2
  <2> HIDE DEF R
  <2>4. /\ adm_rescue' \in Storage /\ adm_rescue'.proposals = R /\ adm_rescue'.balance = adm_rescue.balance
    BY <1>0, <2>1, <2>3
  <2>5. RescuesTaken(adm_rescue', adm_now)
    BY <1>0, <2>2, <2>3, <2>4 DEF RescuesTaken
  <2> QED
    BY <1>0, <1>0a, <2>1, <2>3, <2>4, <2>5
<1> QED
  BY <1>1, <1>2, <1>3, <1>4, AdminTickStep DEF Admin!RescueNext

\* Grants are recorded under accounts and hashes.
LEMMA AdminRoleStep ==
  ASSUME AdminInv, Admin!RoleNext  PROVE AdminInv'
<1> DEFINE Storage == [grant : [Grantees \X Roles -> Nat \union {None}],
                       active : SUBSET (Grantees \X {RoleHash[r] : r \in Roles})]
<1>0. adm_roles \in Storage
  BY DEF AdminInv, Admin!TypeOK, Admin!RoleGrant
<1>1. ASSUME adm_roles' \in Storage, UNCHANGED Admin!roleRest PROVE AdminInv'
  BY <1>1 DEF AdminInv, Admin!TypeOK, Admin!roleRest, Admin!RoleGrant
<1>2. ASSUME NEW a \in Accounts, NEW g \in Grantees, NEW r \in Roles,
             (\E e \in Expiries : Admin!grant_role(a, g, r, e)) \/ Admin!revoke_role(a, g, r)
      PROVE  adm_roles' \in Storage /\ UNCHANGED Admin!roleRest
  <2>1. <<g, r>> \in Grantees \X Roles /\ <<g, RoleHash[r]>> \in Grantees \X {RoleHash[s] : s \in Roles}
    OBVIOUS
  <2>2. CASE Admin!revoke_role(a, g, r)
    BY <1>0, <2>1, <2>2 DEF Admin!revoke_role
  <2>3. ASSUME NEW e \in Expiries, Admin!grant_role(a, g, r, e)
        PROVE  adm_roles' \in Storage /\ UNCHANGED Admin!roleRest
    <3>1. e \in Nat
      BY AdminFacts
    <3> QED
      BY <1>0, <2>1, <2>3, <3>1 DEF Admin!grant_role
  <2> QED
    BY <1>2, <2>2, <2>3
<1> QED
  BY <1>1, <1>2, AdminTickStep DEF Admin!RoleNext

\* Every call of the administration, and every tick, keeps the invariant.
LEMMA AdminInvStep == AdminInv /\ [AdminNext]_Admin!vars => AdminInv'
<1> SUFFICES ASSUME AdminInv, [AdminNext]_Admin!vars PROVE AdminInv'
  OBVIOUS
<1>1. CASE UNCHANGED Admin!vars
  BY <1>1 DEF AdminInv, Admin!TypeOK, Admin!vars
<1>2. CASE AdminNext
  BY <1>2, AdminSignerStep, AdminHeirStep, AdminQueueStep, AdminRescueStep, AdminRoleStep DEF AdminNext
<1> QED
  BY <1>1, <1>2

\* The run's behaviours are, as far as the administration is concerned, calls of
\* the six groups.
LEMMA AdminIsPart == [MCNext]_allVars => [AdminNext]_Admin!vars
BY DEF MCNext, AdminStep, AdminNext, allVars, admVars, Admin!vars

LEMMA AdminAlways == MCSpec => []AdminInv
<1>1. MCInit => AdminInv
  BY AdminInvInit DEF MCInit
<1> QED
  BY <1>1, AdminIsPart, AdminInvStep, PTL DEF MCSpec

\* The administrator is replaced by right.
LEMMA AdminSuccession == MCSpec => Admin!SuccessionByRight
<1>1. AdminInv /\ [AdminNext]_Admin!vars =>
        [adm_admin' # adm_admin =>
           \/ adm_admin \in adm_signers'.revoked
              /\ adm_signers.keys \ (adm_signers.revoked \union {adm_admin}) # {}
           \/ adm_succession.owner # None /\ adm_succession.owner.nominee = adm_admin'
              /\ adm_succession'.owner = None
           \/ adm_succession.recovery = adm_admin' /\ adm_now - adm_activity >= Inactivity
           \/ /\ adm_succession.change # None /\ adm_succession'.change = None
              /\ adm_succession.change.new_admin = adm_admin'
              /\ \/ adm_now - adm_succession.change.proposed_at >= ChangeDelay
                 \/ \E a \in Accounts \ {adm_succession.change.proposer} : Admin!is_authorized(a)]_Admin!vars
  <2> DEFINE Revoked == adm_admin \in adm_signers'.revoked
                        /\ adm_signers.keys \ (adm_signers.revoked \union {adm_admin}) # {}
             Nominated == adm_succession.owner # None /\ adm_succession.owner.nominee = adm_admin'
                          /\ adm_succession'.owner = None
             Recovered == adm_succession.recovery = adm_admin' /\ adm_now - adm_activity >= Inactivity
             Changed == /\ adm_succession.change # None /\ adm_succession'.change = None
                        /\ adm_succession.change.new_admin = adm_admin'
                        /\ \/ adm_now - adm_succession.change.proposed_at >= ChangeDelay
                           \/ \E a \in Accounts \ {adm_succession.change.proposer} : Admin!is_authorized(a)
  <2> SUFFICES ASSUME AdminInv, AdminNext, adm_admin' # adm_admin
               PROVE  Revoked \/ Nominated \/ Recovered \/ Changed
    BY DEF Admin!vars
  <2>0. /\ adm_signers \in Admin!SignerStorage
        /\ adm_succession \in [owner : Admin!PendingOwner \union {None},
                               change : Admin!AdminChangeProposal \union {None},
                               recovery : Accounts \union {None}]
    BY DEF AdminInv, Admin!TypeOK
  <2>1. ASSUME NEW a \in Accounts, NEW t \in Accounts, NEW r \in Accounts,
               Admin!propose_emergency_revocation(a, t, r)
        PROVE  Revoked
    <3>1. t = adm_admin /\ a # t /\ a \in adm_signers.keys /\ a \notin adm_signers.revoked
      BY <2>1 DEF Admin!propose_emergency_revocation, Admin!is_authorized
    <3>2. adm_signers'.revoked = adm_signers.revoked \union {t}
      BY <2>0, <2>1 DEF Admin!propose_emergency_revocation, Admin!SignerStorage
    <3> QED
      BY <3>1, <3>2
  <2>2. ASSUME NEW a \in Accounts, Admin!claim_ownership(a)  PROVE Nominated
    BY <2>0, <2>2 DEF Admin!claim_ownership
  <2>3. ASSUME NEW a \in Accounts, Admin!recover_admin(a)  PROVE Recovered
    BY <2>3 DEF Admin!recover_admin, Admin!is_recovery_available
  <2>4. ASSUME NEW a \in Accounts,
               Admin!countersign_admin_change(a) \/ Admin!execute_admin_change_by_timelock(a)
        PROVE  Changed
    BY <2>0, <2>4 DEF Admin!countersign_admin_change, Admin!execute_admin_change_by_timelock
  <2> HIDE DEF Revoked, Nominated, Recovered, Changed
  <2>5. CASE Admin!HeirNext
    BY <2>2, <2>3, <2>4, <2>5
    DEF Admin!HeirNext, Admin!Tick, Admin!propose_ownership_transfer, Admin!propose_admin_change,
        Admin!set_recovery_key, Admin!cancel_admin_change
  <2>6. CASE Admin!SignerNext
    BY <2>1, <2>6
    DEF Admin!SignerNext, Admin!rotate_admin_keys, Admin!register_signer, Admin!remove_signer,
        Admin!set_staging_mode, Admin!add_tester, Admin!remove_tester
  <2>7. CASE Admin!PauseNext
    BY <2>7
    DEF Admin!PauseNext, Admin!rotate_admin_keys, Admin!set_paused, Admin!set_emergency_admin,
        Admin!emergency_pause, Admin!emergency_unpause
  <2>8. CASE Admin!QueueNext
    BY <2>2, <2>8
    DEF Admin!QueueNext, Admin!Tick, Admin!queue_admin_action, Admin!cancel_action,
        Admin!set_dynamic_fee_config, Admin!execute_action, Admin!emergency_cancel_action, Admin!designate_emergency_guardian,
        Admin!propose_ownership_transfer
  <2>9. CASE Admin!RescueNext \/ Admin!RoleNext
    BY <2>9
    DEF Admin!RescueNext, Admin!RoleNext, Admin!Tick, Admin!register_protected_asset,
        Admin!queue_token_rescue, Admin!execute_token_rescue, Admin!cancel_token_rescue,
        Admin!grant_role, Admin!revoke_role, Admin!rescueRest, Admin!roleRest
  <2> QED
    BY <2>5, <2>6, <2>7, <2>8, <2>9 DEF AdminNext
<1> QED
  BY <1>1, AdminIsPart, AdminAlways, PTL DEF MCSpec, Admin!SuccessionByRight

\* Settings change with the delay, once for each queued action, or by the direct
\* writer of the band; they are always within their bounds.
LEMMA AdminQueued == MCSpec => Admin!QueuedSettingsWait
<1> DEFINE Direct == adm_queue'.slot = adm_queue.slot /\ adm_queue'.band \in FeeValues \X FeeValues
<1>1. AdminInv /\ [AdminNext]_Admin!vars =>
        [/\ adm_queue'.ceiling # adm_queue.ceiling => Admin!Served("ceiling")
         /\ adm_queue'.band # adm_queue.band => Admin!Served("band") \/ Direct]_Admin!vars
  <2> SUFFICES ASSUME AdminInv, AdminNext,
                      adm_queue'.ceiling # adm_queue.ceiling \/ adm_queue'.band # adm_queue.band
               PROVE  /\ adm_queue'.ceiling # adm_queue.ceiling => Admin!Served("ceiling")
                      /\ adm_queue'.band # adm_queue.band => Admin!Served("band") \/ Direct
    BY DEF Admin!vars
  <2>0. adm_queue \in Admin!ActionQueue /\ SlotWaits(adm_queue)
    BY DEF AdminInv, Admin!TypeOK
  <2>1. Admin!QueueNext
    BY DEF AdminNext, Admin!SignerNext, Admin!PauseNext, Admin!HeirNext, Admin!RescueNext, Admin!RoleNext,
        Admin!rotate_admin_keys, Admin!propose_emergency_revocation, Admin!register_signer,
        Admin!remove_signer, Admin!set_staging_mode, Admin!add_tester, Admin!remove_tester,
        Admin!set_paused, Admin!set_emergency_admin, Admin!emergency_pause, Admin!emergency_unpause,
        Admin!signerRest, Admin!Tick, Admin!propose_ownership_transfer, Admin!propose_admin_change,
        Admin!set_recovery_key, Admin!claim_ownership, Admin!countersign_admin_change,
        Admin!execute_admin_change_by_timelock, Admin!cancel_admin_change, Admin!recover_admin,
        Admin!heirRest, Admin!register_protected_asset, Admin!queue_token_rescue,
        Admin!execute_token_rescue, Admin!cancel_token_rescue, Admin!rescueRest,
        Admin!grant_role, Admin!revoke_role, Admin!roleRest
  <2>2. ASSUME NEW k \in {"ceiling", "band"}, NEW v, adm_queue' = [adm_queue EXCEPT !.slot[k] = v]
        PROVE  FALSE
    BY <2>0, <2>2 DEF Admin!ActionQueue
  <2>3. \/ \E a \in Accounts, k \in {"ceiling", "band"} : Admin!execute_action(a, k)
        \/ \E a \in Accounts, b \in Bands : Admin!set_dynamic_fee_config(a, b)
    <3>1. ASSUME NEW p \in Admin!QueuedActionPayload  PROVE p.kind \in {"ceiling", "band"}
      BY DEF Admin!QueuedActionPayload
    <3> QED
      BY <2>1, <2>2, <3>1
      DEF Admin!QueueNext, Admin!Tick, Admin!queue_admin_action, Admin!cancel_action,
          Admin!emergency_cancel_action, Admin!designate_emergency_guardian,
          Admin!propose_ownership_transfer, Admin!claim_ownership, Admin!heirRest
  <2>4. CASE \E a \in Accounts, b \in Bands : Admin!set_dynamic_fee_config(a, b)
    <3>1. PICK x, y : /\ adm_queue' = [adm_queue EXCEPT !.band = <<x, y>>]
                      /\ {x, y} \subseteq FeeValues
      BY <2>4 DEF Admin!set_dynamic_fee_config
    <3>2. adm_queue'.slot = adm_queue.slot /\ adm_queue'.ceiling = adm_queue.ceiling
          /\ adm_queue'.band = <<x, y>>
      BY <2>0, <3>1 DEF Admin!ActionQueue
    <3> QED
      BY <3>1, <3>2
  <2>5. ASSUME NEW a \in Accounts, NEW k \in {"ceiling", "band"}, Admin!execute_action(a, k)
        PROVE  /\ adm_queue'.ceiling # adm_queue.ceiling => Admin!Served("ceiling")
               /\ adm_queue'.band # adm_queue.band => Admin!Served("band") \/ Direct
    <3>1. /\ adm_queue.slot[k] # None
          /\ adm_queue' = [adm_queue EXCEPT ![k] = adm_queue.slot[k].payload.value, !.slot[k] = None]
          /\ adm_now >= adm_queue.slot[k].execute_not_before
      BY <2>5 DEF Admin!execute_action
    <3>2. adm_queue.slot[k].execute_not_before = adm_queue.slot[k].queued_at + QueueDelay
      BY <2>0, <3>1 DEF SlotWaits
    <3>3. adm_queue'[k] = adm_queue.slot[k].payload.value /\ adm_queue'.slot[k] = None
      BY <2>0, <3>1 DEF Admin!ActionQueue
    <3>4. Admin!Served(k)
      BY <3>1, <3>2, <3>3 DEF Admin!Served
    <3>5. /\ k = "ceiling" => adm_queue'.band = adm_queue.band
          /\ k = "band" => adm_queue'.ceiling = adm_queue.ceiling
      BY <2>0, <3>1 DEF Admin!ActionQueue
    <3> QED
      BY <3>4, <3>5
  <2> QED
    BY <2>3, <2>4, <2>5
<1>2. AdminInv =>
        \A kind \in {"ceiling", "band"} : Admin!Applicable([kind |-> kind, value |-> adm_queue[kind]])
  BY DEF AdminInv, SettingsBounded, Admin!Applicable
<1> QED
  BY <1>1, <1>2, AdminIsPart, AdminAlways, PTL DEF MCSpec, Admin!QueuedSettingsWait

\* The balance of a protected asset stays, and what left was executed in time.
LEMMA AdminRescued == MCSpec => Admin!RescuesSpareProtected
<1>1. AdminInv /\ [AdminNext]_Admin!vars =>
        [\A t \in adm_rescue.protected : adm_rescue'.balance[t] = adm_rescue.balance[t]]_Admin!vars
  <2> SUFFICES ASSUME AdminInv, AdminNext, NEW t \in adm_rescue.protected,
                      adm_rescue'.balance[t] # adm_rescue.balance[t]
               PROVE  FALSE
    BY DEF Admin!vars
  <2>0. adm_rescue \in [protected : SUBSET Tokens, proposals : Seq(Admin!RescueProposal),
                        balance : [Tokens -> 0..Supply]]
    BY DEF AdminInv, Admin!TypeOK
  <2>1. Admin!RescueNext
    BY DEF AdminNext, Admin!SignerNext, Admin!PauseNext, Admin!HeirNext, Admin!QueueNext, Admin!RoleNext,
        Admin!rotate_admin_keys, Admin!propose_emergency_revocation, Admin!register_signer,
        Admin!remove_signer, Admin!set_staging_mode, Admin!add_tester, Admin!remove_tester,
        Admin!set_paused, Admin!set_emergency_admin, Admin!emergency_pause, Admin!emergency_unpause,
        Admin!signerRest, Admin!Tick, Admin!propose_ownership_transfer, Admin!propose_admin_change,
        Admin!set_recovery_key, Admin!claim_ownership, Admin!countersign_admin_change,
        Admin!execute_admin_change_by_timelock, Admin!cancel_admin_change, Admin!recover_admin,
        Admin!heirRest, Admin!queue_admin_action, Admin!cancel_action, Admin!set_dynamic_fee_config, Admin!execute_action,
        Admin!emergency_cancel_action, Admin!designate_emergency_guardian, Admin!queueRest,
        Admin!grant_role, Admin!revoke_role, Admin!roleRest
  <2>2. PICK id \in DOMAIN adm_rescue.proposals : Admin!execute_token_rescue(id)
    BY <2>0, <2>1
    DEF Admin!RescueNext, Admin!Tick, Admin!register_protected_asset, Admin!queue_token_rescue,
        Admin!cancel_token_rescue
  <2>3. adm_rescue.proposals[id].token # t
    BY <2>2 DEF Admin!execute_token_rescue
  <2> QED
    BY <2>0, <2>2, <2>3 DEF Admin!execute_token_rescue
<1>2. AdminInv =>
        \A id \in DOMAIN adm_rescue.proposals :
          adm_rescue.proposals[id].status = "Executed" =>
            adm_rescue.proposals[id].execute_at <= adm_now
            /\ adm_rescue.balance[adm_rescue.proposals[id].token] + adm_rescue.proposals[id].amount <= Supply
  BY DEF AdminInv, RescuesTaken
<1> QED
  BY <1>1, <1>2, AdminIsPart, AdminAlways, PTL DEF MCSpec, Admin!RescuesSpareProtected

\* A role is got back only with a grant under its hash.
LEMMA AdminRolesLost == MCSpec => Admin!LostRolesStayLost
<1>1. AdminInv /\ [AdminNext]_Admin!vars =>
        [\A a \in Grantees, r \in Roles :
           ~Admin!has_role(a, r) /\ Admin!has_role(a, r)' =>
             \E s \in Roles :
               /\ RoleHash[s] = RoleHash[r] /\ adm_roles'.grant[<<a, s>>] # None
               /\ adm_roles'.grant[<<a, s>>] > adm_now
               /\ s # r => adm_roles.grant[<<a, r>>] # None /\ adm_now < adm_roles.grant[<<a, r>>]]_Admin!vars
  <2> SUFFICES ASSUME AdminInv, AdminNext, NEW a \in Grantees, NEW r \in Roles,
                      ~Admin!has_role(a, r), Admin!has_role(a, r)'
               PROVE  \E s \in Roles :
                        /\ RoleHash[s] = RoleHash[r] /\ adm_roles'.grant[<<a, s>>] # None
                        /\ adm_roles'.grant[<<a, s>>] > adm_now
                        /\ s # r => adm_roles.grant[<<a, r>>] # None /\ adm_now < adm_roles.grant[<<a, r>>]
    BY DEF Admin!vars
  <2>0. /\ adm_roles \in [grant : [Grantees \X Roles -> Nat \union {None}],
                          active : SUBSET (Grantees \X {RoleHash[s] : s \in Roles})]
        /\ adm_now \in Nat
    BY DEF AdminInv, Admin!TypeOK, Admin!RoleGrant
  <2>1. ~Admin!Tick
    <3> SUFFICES ASSUME Admin!Tick PROVE FALSE
      OBVIOUS
    <3>1. adm_roles' = adm_roles /\ adm_now' = adm_now + 1
      BY DEF Admin!Tick
    <3>2. /\ <<a, RoleHash[r]>> \in adm_roles.active /\ adm_roles.grant[<<a, r>>] # None
          /\ adm_now + 1 < adm_roles.grant[<<a, r>>]
      BY <3>1 DEF Admin!has_role
    <3>3. adm_roles.grant[<<a, r>>] \in Nat
      BY <2>0, <3>2
    <3> QED
      BY <2>0, <3>2, <3>3 DEF Admin!has_role
  <2>2. ASSUME UNCHANGED <<adm_roles, adm_now>> PROVE FALSE
    BY <2>2 DEF Admin!has_role
  <2>3. Admin!RoleNext
    BY <2>1, <2>2 DEF AdminNext, Admin!SignerNext, Admin!PauseNext, Admin!HeirNext, Admin!QueueNext,
        Admin!RescueNext,
        Admin!rotate_admin_keys, Admin!propose_emergency_revocation, Admin!register_signer,
        Admin!remove_signer, Admin!set_staging_mode, Admin!add_tester, Admin!remove_tester,
        Admin!set_paused, Admin!set_emergency_admin, Admin!emergency_pause, Admin!emergency_unpause,
        Admin!signerRest, Admin!propose_ownership_transfer, Admin!propose_admin_change,
        Admin!set_recovery_key, Admin!claim_ownership, Admin!countersign_admin_change,
        Admin!execute_admin_change_by_timelock, Admin!cancel_admin_change, Admin!recover_admin,
        Admin!heirRest, Admin!queue_admin_action, Admin!cancel_action, Admin!set_dynamic_fee_config, Admin!execute_action,
        Admin!emergency_cancel_action, Admin!designate_emergency_guardian, Admin!queueRest,
        Admin!register_protected_asset, Admin!queue_token_rescue,
        Admin!execute_token_rescue, Admin!cancel_token_rescue, Admin!rescueRest
  <2>4. ASSUME NEW c \in Accounts, NEW g \in Grantees, NEW q \in Roles, Admin!revoke_role(c, g, q)
        PROVE  FALSE
    <3>1. /\ adm_roles'.active \subseteq adm_roles.active /\ adm_now' = adm_now
          /\ adm_roles'.grant = [adm_roles.grant EXCEPT ![<<g, q>>] = None]
      BY <2>0, <2>4 DEF Admin!revoke_role, Admin!roleRest
    <3>2. /\ <<a, RoleHash[r]>> \in adm_roles'.active /\ adm_roles'.grant[<<a, r>>] # None
          /\ adm_now < adm_roles'.grant[<<a, r>>]
      BY <3>1 DEF Admin!has_role
    <3>3. adm_roles'.grant[<<a, r>>] = adm_roles.grant[<<a, r>>]
      BY <2>0, <3>1, <3>2
    <3> QED
      BY <3>1, <3>2, <3>3 DEF Admin!has_role
  <2>5. PICK c \in Accounts, g \in Grantees, q \in Roles, e \in Expiries : Admin!grant_role(c, g, q, e)
    BY <2>1, <2>3, <2>4 DEF Admin!RoleNext
  <2>6. /\ adm_roles'.active = adm_roles.active \union {<<g, RoleHash[q]>>} /\ adm_now' = adm_now
        /\ adm_roles'.grant = [adm_roles.grant EXCEPT ![<<g, q>>] = e] /\ e > adm_now
    BY <2>0, <2>5 DEF Admin!grant_role, Admin!roleRest
  <2>7. e \in Nat /\ e # None
    BY AdminFacts
  <2>8. /\ <<a, RoleHash[r]>> \in adm_roles'.active /\ adm_roles'.grant[<<a, r>>] # None
        /\ adm_now < adm_roles'.grant[<<a, r>>]
    BY <2>6 DEF Admin!has_role
  <2>9. CASE <<g, q>> = <<a, r>>
    <3> WITNESS r \in Roles
    <3> QED
      BY <2>0, <2>6, <2>7, <2>8, <2>9
  <2>10. CASE <<g, q>> # <<a, r>>
    <3>1. adm_roles'.grant[<<a, r>>] = adm_roles.grant[<<a, r>>]
      BY <2>0, <2>6, <2>10
    <3>2. <<a, RoleHash[r]>> \notin adm_roles.active
      BY <2>8, <3>1 DEF Admin!has_role
    <3>3. a = g /\ RoleHash[q] = RoleHash[r]
      BY <2>6, <2>8, <3>2
    <3>4. adm_roles'.grant[<<a, q>>] = e
      BY <2>0, <2>6, <3>3
    <3> WITNESS q \in Roles
    <3> QED
      BY <2>0, <2>6, <2>7, <2>8, <3>1, <3>3, <3>4
  <2> QED
    BY <2>9, <2>10
<1> QED
  BY <1>1, AdminIsPart, AdminAlways, PTL DEF MCSpec, Admin!LostRolesStayLost

-----------------------------------------------------------------------------
(***************************************************************************)
(* The governance of the core contract.  That votes are for the open       *)
(* proposal needs more than the votes of the open one: an id not yet given *)
(* out has no votes at all, so the next proposal starts with none.  Fees   *)
(* split without a remainder because the treasury takes what is left, and  *)
(* an upgrade is staged at a timestamp, which is never below Epoch.        *)
(***************************************************************************)

\* p is the proposal slot, v the votes by id, c the last id given out, t the ledger.
VotesCast(p, v, c, t) ==
  /\ p # None => p.proposal_id \in 1..c /\ p.staged_at <= t
  /\ \A id \in 1..MaxProposals : id > c => \A a \in Accounts : v[id][a] = None
  /\ p # None => \A a \in Accounts :
                   v[p.proposal_id][a] # None => v[p.proposal_id][a] >= p.staged_at

StagedAfterEpoch(u) == u # None => u.staged_at >= Epoch

GovInv ==
  /\ Gov!TypeOK
  /\ Gov!FeesSplitCompletely
  /\ VotesCast(gov_proposal, gov_votes, gov_counter, gov_seq)
  /\ StagedAfterEpoch(gov_upgrade)

\* The calls of the core's governance, whichever group they are from.
GovNext ==
  \/ Gov!QuorumNext \/ Gov!CancelNext \/ Gov!ProposalNext \/ Gov!UpgradeNext \/ Gov!FeeNext

LEMMA GovCardinality ==
  ASSUME NEW S
  PROVE  (Gov!IsFiniteSet(S) <=> IsFiniteSet(S)) /\ Gov!Cardinality(S) = Cardinality(S)
<1>1. Gov!IsFiniteSet(S) <=> IsFiniteSet(S)
  BY DEF Gov!IsFiniteSet, IsFiniteSet
<1>2. Gov!Cardinality(S) = Cardinality(S)
  BY DEF Gov!Cardinality, Cardinality, Gov!IsFiniteSet, IsFiniteSet
<1> QED
  BY <1>1, <1>2

LEMMA GovSumOf ==
  ASSUME NEW f, NEW S
  PROVE  Gov!SumOf(f, S) = SumOf(f, S)
BY DEF Gov!SumOf, SumOf, Gov!MapThenSumSet, MapThenSumSet, Gov!MapThenFoldSet, MapThenFoldSet

LEMMA GovFacts ==
  /\ None \notin Accounts /\ None \notin Hashes /\ IsFiniteSet(Accounts)
  /\ Epoch \in Nat /\ U32 \in Nat /\ MinLedgerDelay \in Nat /\ ProposalExpiry \in Nat
  /\ RollbackWindow \in Nat /\ Scale \in Nat \ {0} /\ LpShare \in 0..Scale
  /\ MaxSeq \in Nat /\ MaxProposals \in Nat
  /\ Fees \subseteq Nat /\ Configs \subseteq Gov!EmergencyOverrideConfig
  /\ MaxSeq < Epoch + MinLedgerDelay
  /\ \A S \in SUBSET Accounts : IsFiniteSet(S) /\ Cardinality(S) \in Nat
<1>1. Gov!RootGovernanceAssumption
  BY AdministrationAssumption
<1>2. IsFiniteSet(Accounts)
  BY <1>1, GovCardinality DEF Gov!RootGovernanceAssumption
<1>3. \A S \in SUBSET Accounts : IsFiniteSet(S) /\ Cardinality(S) \in Nat
  BY <1>2, FS_Subset, FS_CardinalityType
<1> QED
  BY <1>1, <1>2, <1>3 DEF Gov!RootGovernanceAssumption

\* The part of a fee that goes to the providers is a part of it.
LEMMA ProvidersPart ==
  ASSUME NEW f \in Nat
  PROVE  (f * LpShare) \div Scale \in 0..f
<1> DEFINE q == (f * LpShare) \div Scale
           r == (f * LpShare) % Scale
<1>1. Scale \in Nat \ {0} /\ LpShare \in 0..Scale
  BY GovFacts
<1>2. f * LpShare \in Nat
  BY <1>1
<1>3. q \in Nat /\ r \in 0..(Scale - 1) /\ f * LpShare = Scale * q + r
  BY <1>1, <1>2
<1>4. f * LpShare <= Scale * f
  BY <1>1
<1> HIDE DEF q, r
<1>5. SUFFICES ASSUME q - f >= 1 PROVE FALSE
  BY <1>3 DEF q
<1>6. Scale * (q - f) >= Scale
  BY <1>1, <1>3, <1>5
<1>7. Scale * (q - f) = Scale * q - Scale * f
  BY <1>1, <1>3
<1>8. Scale * q \in Nat /\ Scale * f \in Nat /\ f * LpShare \in Nat
  BY <1>1, <1>2, <1>3
<1> QED
  BY <1>1, <1>3, <1>4, <1>6, <1>7, <1>8

LEMMA GovInvInit == Gov!Init => GovInv
<1> SUFFICES ASSUME Gov!Init PROVE GovInv
  OBVIOUS
<1>1. /\ gov_seq \in 0..MaxSeq /\ gov_admin \in Accounts /\ gov_signers \subseteq Accounts
      /\ gov_weight \in [Accounts -> Nat] /\ gov_quorum \in Gov!QuorumConfig
      /\ gov_counter \in 0..MaxProposals
  BY GovFacts DEF Gov!Init, Gov!QuorumConfig
<1>2. gov_override \in Gov!EmergencyOverrideConfig
  <2>1. (2 * Scale) \div 3 + 1 \in Nat
    BY GovFacts
  <2> QED
    BY <2>1 DEF Gov!Init, Gov!EmergencyOverrideConfig
<1>3. gov_votes \in [1..MaxProposals -> [Accounts -> 0..MaxSeq \union {None}]]
  BY DEF Gov!Init, Gov!NoVotes
<1>4. gov_wasm \in [running : Hashes \union {None}, current : Hashes \union {None},
                    previous : Hashes \union {None}, since : Nat]
  BY DEF Gov!Init
<1>5. gov_fees \in Gov!PoolFees /\ gov_fees.lp + gov_fees.treasury = gov_fees.collected
  BY DEF Gov!Init, Gov!PoolFees
<1>6. VotesCast(gov_proposal, gov_votes, gov_counter, gov_seq)
  BY DEF Gov!Init, VotesCast, Gov!NoVotes
<1>7. /\ gov_proposal = None /\ gov_council = None /\ gov_veto = None /\ gov_upgrade = None
      /\ gov_state = None
  BY DEF Gov!Init
<1> QED
  BY <1>1, <1>2, <1>3, <1>4, <1>5, <1>6, <1>7
  DEF GovInv, Gov!TypeOK, Gov!FeesSplitCompletely, StagedAfterEpoch

\* A closed ledger makes votes and proposals older, never younger.
LEMMA GovCloseStep ==
  ASSUME GovInv, Gov!Close  PROVE GovInv'
<1>1. gov_seq \in 0..MaxSeq /\ gov_seq' = gov_seq + 1 /\ gov_seq' \in 0..MaxSeq
  BY GovFacts DEF GovInv, Gov!TypeOK, Gov!Close
<1>2. VotesCast(gov_proposal, gov_votes, gov_counter, gov_seq)'
  <2>1. gov_proposal # None => gov_proposal.staged_at \in Nat
    BY DEF GovInv, Gov!TypeOK, Gov!GovernanceProposal
  <2>2. UNCHANGED <<gov_proposal, gov_votes, gov_counter>>
    BY DEF Gov!Close
  <2> QED
    BY <1>1, <2>1, <2>2 DEF GovInv, VotesCast
<1> QED
  BY <1>1, <1>2 DEF GovInv, Gov!TypeOK, Gov!FeesSplitCompletely, Gov!Close

\* Registrations, removals and rotations.
LEMMA GovQuorumStep ==
  ASSUME GovInv, Gov!QuorumNext  PROVE GovInv'
<1>1. ASSUME NEW c \in Accounts, NEW a \in Accounts,
             Gov!register_signer(c, a) \/ Gov!remove_signer(c, a)
      PROVE  GovInv'
  BY <1>1 DEF GovInv, Gov!TypeOK, Gov!FeesSplitCompletely, Gov!register_signer, Gov!remove_signer
<1>2. ASSUME NEW approvers \in SUBSET Accounts, NEW new \in SUBSET Accounts, NEW first \in Accounts,
             NEW n, Gov!rotate_admin_keys(approvers, first, new, n)
      PROVE  GovInv'
  <2>1. n \in Nat \ {0}
    BY <1>2, GovFacts, GovCardinality DEF Gov!rotate_admin_keys
  <2>2. gov_weight' \in [Accounts -> Nat] /\ gov_quorum' \in Gov!QuorumConfig
        /\ gov_admin' \in Accounts /\ gov_signers' \subseteq Accounts
    BY <1>2, <2>1 DEF Gov!rotate_admin_keys, Gov!QuorumConfig
  <2> QED
    BY <1>2, <2>2 DEF GovInv, Gov!TypeOK, Gov!FeesSplitCompletely, Gov!rotate_admin_keys
<1> QED
  BY <1>1, <1>2 DEF Gov!QuorumNext

\* A proposal is submitted under a fresh id, and is closed under its own.
LEMMA GovSubmitStep ==
  ASSUME GovInv, gov_counter < MaxProposals, NEW h \in Hashes, Gov!submit_governance_proposal(h)
  PROVE  GovInv'
<1>1. /\ gov_counter \in 0..MaxProposals /\ gov_seq \in 0..MaxSeq
      /\ gov_votes \in [1..MaxProposals -> [Accounts -> 0..MaxSeq \union {None}]]
      /\ MaxProposals \in Nat /\ MaxSeq \in Nat
  BY GovFacts DEF GovInv, Gov!TypeOK
<1>2. /\ gov_proposal' = [proposal_id |-> gov_counter + 1, wasm_hash |-> h, staged_at |-> gov_seq,
                          status |-> "Pending", cancellation_votes |-> {}]
      /\ gov_counter' = gov_counter + 1 /\ gov_votes' = gov_votes /\ gov_seq' = gov_seq
  BY DEF Gov!submit_governance_proposal, Gov!_next_proposal_id, Gov!proposalRest
<1>3. gov_proposal' \in Gov!GovernanceProposal /\ gov_counter' \in 0..MaxProposals
  BY <1>1, <1>2 DEF Gov!GovernanceProposal
<1>4. VotesCast(gov_proposal, gov_votes, gov_counter, gov_seq)'
  <2>1. \A id \in 1..MaxProposals : id > gov_counter => \A a \in Accounts : gov_votes[id][a] = None
    BY DEF GovInv, VotesCast
  <2>2. gov_proposal'.proposal_id = gov_counter + 1 /\ gov_counter + 1 \in 1..MaxProposals
        /\ gov_proposal'.staged_at = gov_seq
    BY <1>1, <1>2
  <2>3. \A a \in Accounts : gov_votes'[gov_proposal'.proposal_id][a] = None
    BY <1>1, <1>2, <2>1, <2>2
  <2>4. \A id \in 1..MaxProposals : id > gov_counter' => \A a \in Accounts : gov_votes'[id][a] = None
    BY <1>1, <1>2, <2>1
  <2>5. gov_proposal'.proposal_id \in 1..gov_counter' /\ gov_proposal'.staged_at <= gov_seq'
    BY <1>1, <1>2, <2>2
  <2> QED
    BY <2>3, <2>4, <2>5 DEF VotesCast
<1> QED
  BY <1>2, <1>3, <1>4
  DEF GovInv, Gov!TypeOK, Gov!FeesSplitCompletely, Gov!submit_governance_proposal, Gov!proposalRest

\* A cancellation changes neither the id of the proposal nor when it was staged.
LEMMA GovCancelStep ==
  ASSUME GovInv, NEW a \in Accounts,
         Gov!vote_cancel_proposal(a) \/ Gov!cancel_governance_proposal(a)
  PROVE  GovInv'
<1>1. gov_proposal # None /\ gov_proposal \in Gov!GovernanceProposal
  BY DEF GovInv, Gov!TypeOK, Gov!Open, Gov!vote_cancel_proposal, Gov!cancel_governance_proposal
<1>2. /\ gov_proposal' \in Gov!GovernanceProposal
      /\ gov_proposal'.proposal_id = gov_proposal.proposal_id
      /\ gov_proposal'.staged_at = gov_proposal.staged_at
  <2>1. CASE Gov!vote_cancel_proposal(a)
    BY <1>1, <2>1 DEF Gov!vote_cancel_proposal, Gov!GovernanceProposal
  <2>2. CASE Gov!cancel_governance_proposal(a)
    BY <1>1, <2>2 DEF Gov!cancel_governance_proposal, Gov!GovernanceProposal
  <2> QED
    BY <2>1, <2>2
<1>3. UNCHANGED <<gov_counter, gov_council, gov_veto, gov_override, gov_votes, gov_upgrade,
                  gov_wasm, gov_seq, gov_admin, gov_signers, gov_weight, gov_quorum, gov_state,
                  gov_fees>>
  BY DEF Gov!vote_cancel_proposal, Gov!cancel_governance_proposal, Gov!proposalRest
<1>4. VotesCast(gov_proposal, gov_votes, gov_counter, gov_seq)'
  BY <1>1, <1>2, <1>3 DEF GovInv, VotesCast
<1> QED
  BY <1>2, <1>3, <1>4 DEF GovInv, Gov!TypeOK, Gov!FeesSplitCompletely

\* A vote for an override carries the ledger it is cast in.
LEMMA GovOverrideVoteStep ==
  ASSUME GovInv, NEW s \in Accounts, Gov!vote_emergency_override(s)  PROVE GovInv'
<1> DEFINE p == gov_proposal.proposal_id
<1>1. /\ gov_proposal # None /\ gov_proposal \in Gov!GovernanceProposal
      /\ gov_votes' = [gov_votes EXCEPT ![p][s] = gov_seq]
  BY DEF GovInv, Gov!TypeOK, Gov!Open, Gov!vote_emergency_override
<1>2. /\ gov_votes \in [1..MaxProposals -> [Accounts -> 0..MaxSeq \union {None}]]
      /\ gov_counter \in 0..MaxProposals /\ gov_seq \in 0..MaxSeq /\ MaxProposals \in Nat
  BY GovFacts DEF GovInv, Gov!TypeOK
<1>3. p \in 1..gov_counter /\ gov_proposal.staged_at <= gov_seq
  BY <1>1 DEF GovInv, VotesCast
<1>4. p \in 1..MaxProposals
  BY <1>2, <1>3
<1>5. UNCHANGED <<gov_proposal, gov_counter, gov_council, gov_veto, gov_override, gov_upgrade,
                  gov_wasm, gov_seq, gov_admin, gov_signers, gov_weight, gov_quorum, gov_state,
                  gov_fees>>
  BY DEF Gov!vote_emergency_override, Gov!proposalRest
<1>6. gov_votes' \in [1..MaxProposals -> [Accounts -> 0..MaxSeq \union {None}]]
  BY <1>1, <1>2, <1>4
<1>7. /\ \A id \in 1..MaxProposals : id # p => gov_votes'[id] = gov_votes[id]
      /\ \A a \in Accounts : gov_votes'[p][a] = IF a = s THEN gov_seq ELSE gov_votes[p][a]
  BY <1>1, <1>2, <1>4
<1>8. VotesCast(gov_proposal, gov_votes, gov_counter, gov_seq)'
  <2>1. \A id \in 1..MaxProposals : id > gov_counter => \A a \in Accounts : gov_votes[id][a] = None
    BY DEF GovInv, VotesCast
  <2>2. \A id \in 1..MaxProposals : id > gov_counter => \A a \in Accounts : gov_votes'[id][a] = None
    <3> SUFFICES ASSUME NEW id \in 1..MaxProposals, id > gov_counter
                 PROVE  \A a \in Accounts : gov_votes'[id][a] = None
      OBVIOUS
    <3>1. id # p
      BY <1>2, <1>3
    <3> QED
      BY <1>7, <2>1, <3>1
  <2>3. \A a \in Accounts : gov_votes[p][a] # None => gov_votes[p][a] >= gov_proposal.staged_at
    BY <1>1 DEF GovInv, VotesCast
  <2>4. \A a \in Accounts : gov_votes'[p][a] # None => gov_votes'[p][a] >= gov_proposal.staged_at
    BY <1>3, <1>7, <2>3
  <2> QED
    BY <1>1, <1>3, <1>5, <2>2, <2>4 DEF VotesCast
<1> QED
  BY <1>5, <1>6, <1>8 DEF GovInv, Gov!TypeOK, Gov!FeesSplitCompletely

\* An override empties the slot and installs a hash.
LEMMA GovOverrideStep ==
  ASSUME GovInv, NEW e \in Accounts, Gov!execute_emergency_override(e)  PROVE GovInv'
<1> DEFINE p == gov_proposal.proposal_id
<1>1. /\ gov_proposal # None /\ gov_proposal \in Gov!GovernanceProposal
      /\ gov_votes' = [gov_votes EXCEPT ![p] = Gov!NoVotes]
      /\ gov_wasm' = [gov_wasm EXCEPT !.running = gov_proposal.wasm_hash]
      /\ gov_proposal' = None /\ gov_upgrade' = None
  BY DEF GovInv, Gov!TypeOK, Gov!Open, Gov!execute_emergency_override
<1>2. gov_votes \in [1..MaxProposals -> [Accounts -> 0..MaxSeq \union {None}]]
  BY DEF GovInv, Gov!TypeOK
<1>3. UNCHANGED <<gov_counter, gov_council, gov_veto, gov_override, gov_seq, gov_admin,
                  gov_signers, gov_weight, gov_quorum, gov_state, gov_fees>>
  BY DEF Gov!execute_emergency_override, Gov!proposalRest
<1>4. Gov!NoVotes \in [Accounts -> 0..MaxSeq \union {None}] /\ \A a \in Accounts : Gov!NoVotes[a] = None
  BY DEF Gov!NoVotes
<1>5. gov_votes' \in [1..MaxProposals -> [Accounts -> 0..MaxSeq \union {None}]]
  BY <1>1, <1>2, <1>4
<1>6. gov_wasm' \in [running : Hashes \union {None}, current : Hashes \union {None},
                     previous : Hashes \union {None}, since : Nat]
  <2>1. gov_proposal.wasm_hash \in Hashes
    BY <1>1 DEF Gov!GovernanceProposal
  <2> QED
    BY <1>1, <2>1 DEF GovInv, Gov!TypeOK
<1>7. VotesCast(gov_proposal, gov_votes, gov_counter, gov_seq)'
  <2>1. \A id \in 1..MaxProposals : id > gov_counter => \A a \in Accounts : gov_votes[id][a] = None
    BY DEF GovInv, VotesCast
  <2>2. \A id \in 1..MaxProposals : id > gov_counter => \A a \in Accounts : gov_votes'[id][a] = None
    BY <1>1, <1>2, <1>4, <2>1
  <2> QED
    BY <1>1, <1>3, <2>2 DEF VotesCast
<1> QED
  BY <1>1, <1>3, <1>5, <1>6, <1>7 DEF GovInv, Gov!TypeOK, Gov!FeesSplitCompletely, StagedAfterEpoch

\* Proposals, cancellations, vetoes and overrides.
LEMMA GovProposalStep ==
  ASSUME GovInv, Gov!CancelNext \/ Gov!ProposalNext  PROVE GovInv'
<1>1. ASSUME NEW c \in Accounts, NEW a \in Accounts,
             Gov!register_signer(c, a) \/ Gov!remove_signer(c, a)
      PROVE  GovInv'
  BY <1>1, GovQuorumStep DEF Gov!QuorumNext
<1>2. ASSUME NEW c \in Accounts, NEW a \in Accounts, Gov!set_security_council(c, a)
      PROVE  GovInv'
  BY <1>2 DEF GovInv, Gov!TypeOK, Gov!FeesSplitCompletely, Gov!set_security_council, Gov!proposalRest
<1>3. ASSUME NEW c \in Accounts, NEW id \in 1..MaxProposals, Gov!veto_proposal(c, id)
      PROVE  GovInv'
  <2>1. id \in Nat
    OBVIOUS
  <2> QED
    BY <1>3, <2>1 DEF GovInv, Gov!TypeOK, Gov!FeesSplitCompletely, Gov!veto_proposal, Gov!proposalRest
<1>4. ASSUME NEW c \in Accounts, NEW config \in Configs, Gov!set_emergency_override_config(c, config)
      PROVE  GovInv'
  <2>1. config \in Gov!EmergencyOverrideConfig
    BY GovFacts
  <2> QED
    BY <1>4, <2>1
    DEF GovInv, Gov!TypeOK, Gov!FeesSplitCompletely, Gov!set_emergency_override_config, Gov!proposalRest
<1>5. CASE Gov!CancelNext
  BY <1>1, <1>5, GovSubmitStep, GovCancelStep DEF Gov!CancelNext
<1>6. CASE Gov!ProposalNext
  BY <1>2, <1>3, <1>4, <1>6, GovCloseStep, GovSubmitStep, GovCancelStep, GovOverrideVoteStep,
     GovOverrideStep DEF Gov!ProposalNext
<1> QED
  BY <1>5, <1>6

\* Staged upgrades and rollbacks.
LEMMA GovUpgradeStep ==
  ASSUME GovInv, Gov!UpgradeNext  PROVE GovInv'
<1> DEFINE Wasm == [running : Hashes \union {None}, current : Hashes \union {None},
                    previous : Hashes \union {None}, since : Nat]
           Staged == [new_wasm_hash : Hashes, staged_at : Nat] \union {None}
           State == [status : {"Active", "Expired"}, proposed_at : Nat] \union {None}
<1>0. /\ gov_wasm \in Wasm /\ gov_upgrade \in Staged /\ gov_state \in State
      /\ StagedAfterEpoch(gov_upgrade) /\ gov_seq \in Nat /\ Epoch \in Nat
      /\ Gov!timestamp \in Nat /\ Gov!timestamp >= Epoch
  BY GovFacts DEF GovInv, Gov!TypeOK, Gov!timestamp
<1>1. ASSUME gov_wasm' \in Wasm, gov_upgrade' \in Staged, gov_state' \in State,
             StagedAfterEpoch(gov_upgrade'), UNCHANGED Gov!upgradeRest
      PROVE  GovInv'
  BY <1>1 DEF GovInv, Gov!TypeOK, Gov!FeesSplitCompletely, Gov!upgradeRest
<1>2. ASSUME NEW a \in Accounts, NEW h \in Hashes, NEW approvers \in SUBSET Accounts,
             Gov!propose_upgrade(a, approvers, h)
      PROVE  GovInv'
  <2>1. gov_upgrade' = [new_wasm_hash |-> h, staged_at |-> Gov!timestamp]
        /\ gov_state' = [status |-> "Active", proposed_at |-> Gov!timestamp]
    BY <1>2 DEF Gov!propose_upgrade
  <2>2. gov_upgrade' \in Staged /\ gov_state' \in State /\ StagedAfterEpoch(gov_upgrade')
    BY <1>0, <2>1 DEF StagedAfterEpoch
  <2> QED
    BY <1>0, <1>1, <1>2, <2>2 DEF Gov!propose_upgrade
<1>3. ASSUME NEW a \in Accounts, Gov!execute_upgrade(a)  PROVE GovInv'
  <2>1. gov_upgrade.new_wasm_hash \in Hashes
    BY <1>0, <1>3 DEF Gov!execute_upgrade
  <2>2. gov_wasm' \in Wasm /\ gov_upgrade' = None /\ gov_state' = None
    BY <1>0, <1>3, <2>1 DEF Gov!execute_upgrade
  <2> QED
    BY <1>1, <1>3, <2>2 DEF Gov!execute_upgrade, StagedAfterEpoch
<1>4. ASSUME NEW a \in Accounts, Gov!cancel_upgrade(a)  PROVE GovInv'
  BY <1>0, <1>1, <1>4 DEF Gov!cancel_upgrade, StagedAfterEpoch
<1>5. ASSUME Gov!cleanup_expired_proposals  PROVE GovInv'
  <2>1. gov_state' \in State /\ gov_upgrade' = None
    BY <1>0, <1>5 DEF Gov!cleanup_expired_proposals
  <2> QED
    BY <1>0, <1>1, <1>5, <2>1 DEF Gov!cleanup_expired_proposals, StagedAfterEpoch
<1>6. ASSUME NEW h \in Hashes,
             Gov!preserve_current_wasm(h) \/ \E a \in Accounts : Gov!set_current_wasm(a, h)
      PROVE  GovInv'
  <2>1. gov_wasm' \in Wasm
    BY <1>0, <1>6 DEF Gov!preserve_current_wasm, Gov!set_current_wasm
  <2> QED
    BY <1>0, <1>1, <1>6, <2>1 DEF Gov!preserve_current_wasm, Gov!set_current_wasm
<1>7. ASSUME NEW a \in Accounts, Gov!execute_rollback(a)  PROVE GovInv'
  <2>1. gov_wasm' \in Wasm
    BY <1>0, <1>7 DEF Gov!execute_rollback
  <2> QED
    BY <1>0, <1>1, <1>7, <2>1 DEF Gov!execute_rollback
<1> QED
  BY <1>2, <1>3, <1>4, <1>5, <1>6, <1>7, GovCloseStep DEF Gov!UpgradeNext

\* Votes on the fee tier, and the split of the fees.
LEMMA GovFeeStep ==
  ASSUME GovInv, Gov!FeeNext  PROVE GovInv'
<1>0. gov_fees \in Gov!PoolFees /\ gov_fees.lp + gov_fees.treasury = gov_fees.collected
  BY DEF GovInv, Gov!TypeOK, Gov!FeesSplitCompletely
<1>1. ASSUME gov_fees' \in Gov!PoolFees, gov_fees'.lp + gov_fees'.treasury = gov_fees'.collected,
             UNCHANGED <<gov_signers, Gov!feeRest>>
      PROVE  GovInv'
  BY <1>1 DEF GovInv, Gov!TypeOK, Gov!FeesSplitCompletely, Gov!feeRest
<1>2. ASSUME NEW a \in Accounts,
             \/ Gov!vote_pool_fee_tier_change(a) \/ Gov!cancel_pool_fee_tier_change(a)
             \/ \E t \in Tiers : Gov!propose_pool_fee_tier_change(a, t)
      PROVE  GovInv'
  <2>1. gov_fees' \in Gov!PoolFees /\ gov_fees'.lp = gov_fees.lp
        /\ gov_fees'.treasury = gov_fees.treasury /\ gov_fees'.collected = gov_fees.collected
    <3>1. CASE Gov!vote_pool_fee_tier_change(a)
      <4>1. gov_fees.proposed \in Tiers
        BY <1>0, <3>1 DEF Gov!PoolFees, Gov!vote_pool_fee_tier_change
      <4>2. \/ gov_fees' = [gov_fees EXCEPT !.tier = gov_fees.proposed, !.proposed = None, !.votes = {}]
            \/ gov_fees' = [gov_fees EXCEPT !.votes = @ \union {a}]
        BY <3>1 DEF Gov!vote_pool_fee_tier_change
      <4> QED
        BY <1>0, <4>1, <4>2 DEF Gov!PoolFees
    <3>2. CASE Gov!cancel_pool_fee_tier_change(a)
      BY <1>0, <3>2 DEF Gov!PoolFees, Gov!cancel_pool_fee_tier_change
    <3>3. ASSUME NEW t \in Tiers, Gov!propose_pool_fee_tier_change(a, t)
          PROVE  /\ gov_fees' \in Gov!PoolFees /\ gov_fees'.lp = gov_fees.lp
                 /\ gov_fees'.treasury = gov_fees.treasury /\ gov_fees'.collected = gov_fees.collected
      BY <1>0, <3>3 DEF Gov!PoolFees, Gov!propose_pool_fee_tier_change
    <3> QED
      BY <1>2, <3>1, <3>2, <3>3
  <2>2. UNCHANGED <<gov_signers, Gov!feeRest>>
    BY <1>2 DEF Gov!vote_pool_fee_tier_change, Gov!cancel_pool_fee_tier_change,
        Gov!propose_pool_fee_tier_change
  <2> QED
    BY <1>0, <1>1, <2>1, <2>2
<1>3. ASSUME NEW a \in Accounts, NEW f \in Fees, Gov!record_pool_swap_fee(a, f)
      PROVE  GovInv'
  <2> DEFINE q == (f * LpShare) \div Scale
  <2>1. f \in Nat /\ q \in 0..f
    BY GovFacts, ProvidersPart
  <2>2. gov_fees' = [gov_fees EXCEPT !.lp = gov_fees.lp + q, !.treasury = gov_fees.treasury + (f - q),
                                     !.collected = gov_fees.collected + f]
    BY <1>3 DEF Gov!record_pool_swap_fee, Gov!TreasuryPart
  <2> HIDE DEF q
  <2>3. gov_fees.lp \in Nat /\ gov_fees.treasury \in Nat /\ gov_fees.collected \in Nat
    BY <1>0 DEF Gov!PoolFees
  <2>4. gov_fees.lp + q \in Nat /\ gov_fees.treasury + (f - q) \in Nat /\ gov_fees.collected + f \in Nat
        /\ (gov_fees.lp + q) + (gov_fees.treasury + (f - q)) = gov_fees.collected + f
    BY <1>0, <2>1, <2>3
  <2>5. gov_fees' \in Gov!PoolFees /\ gov_fees'.lp + gov_fees'.treasury = gov_fees'.collected
    BY <1>0, <2>2, <2>4 DEF Gov!PoolFees
  <2> QED
    BY <1>1, <1>3, <2>5 DEF Gov!record_pool_swap_fee
<1>4. ASSUME NEW c \in Accounts, NEW a \in Accounts,
             Gov!register_signer(c, a) \/ Gov!remove_signer(c, a)
      PROVE  GovInv'
  BY <1>4, GovQuorumStep DEF Gov!QuorumNext
<1> QED
  BY <1>2, <1>3, <1>4 DEF Gov!FeeNext

\* Every call of the governance, and every ledger, keeps the invariant.
LEMMA GovInvStep == GovInv /\ [GovNext]_Gov!vars => GovInv'
<1> SUFFICES ASSUME GovInv, [GovNext]_Gov!vars PROVE GovInv'
  OBVIOUS
<1>1. CASE UNCHANGED Gov!vars
  BY <1>1 DEF GovInv, Gov!TypeOK, Gov!FeesSplitCompletely, Gov!vars
<1>2. CASE GovNext
  BY <1>2, GovQuorumStep, GovProposalStep, GovUpgradeStep, GovFeeStep DEF GovNext
<1> QED
  BY <1>1, <1>2

LEMMA GovIsPart == [MCNext]_allVars => [GovNext]_Gov!vars
BY DEF MCNext, GovStep, GovNext, allVars, govVars, Gov!vars

LEMMA GovAlways == MCSpec => []GovInv
<1>1. MCInit => GovInv
  BY GovInvInit DEF MCInit
<1> QED
  BY <1>1, GovIsPart, GovInvStep, PTL DEF MCSpec

\* A rotation leaves a quorum: each of the new signers weighs one, and there are
\* as many of them as the threshold asks for.
LEMMA GovRotations == MCSpec => Gov!RotationLeavesAQuorum
<1>1. GovInv /\ [GovNext]_Gov!vars =>
        [gov_quorum' # gov_quorum \/ gov_weight' # gov_weight =>
           /\ Gov!verify_upgrade_quorum(gov_signers)'
           /\ gov_signers' = {a \in Accounts : gov_weight'[a] > 0} /\ gov_admin' \in gov_signers']_Gov!vars
  <2> SUFFICES ASSUME GovInv, GovNext, gov_quorum' # gov_quorum \/ gov_weight' # gov_weight
               PROVE  /\ Gov!verify_upgrade_quorum(gov_signers)'
                      /\ gov_signers' = {a \in Accounts : gov_weight'[a] > 0}
                      /\ gov_admin' \in gov_signers'
    BY DEF Gov!vars
  <2>1. Gov!QuorumNext
    BY DEF GovNext, Gov!CancelNext, Gov!ProposalNext, Gov!UpgradeNext, Gov!FeeNext, Gov!Close,
        Gov!register_signer, Gov!remove_signer, Gov!submit_governance_proposal,
        Gov!vote_cancel_proposal, Gov!cancel_governance_proposal, Gov!set_security_council,
        Gov!veto_proposal, Gov!set_emergency_override_config, Gov!vote_emergency_override,
        Gov!execute_emergency_override, Gov!proposalRest, Gov!propose_upgrade,
        Gov!execute_upgrade, Gov!cancel_upgrade, Gov!cleanup_expired_proposals,
        Gov!set_current_wasm, Gov!preserve_current_wasm, Gov!execute_rollback, Gov!upgradeRest,
        Gov!propose_pool_fee_tier_change, Gov!vote_pool_fee_tier_change,
        Gov!cancel_pool_fee_tier_change, Gov!record_pool_swap_fee, Gov!feeRest
  <2>2. PICK approvers \in SUBSET Accounts, new \in SUBSET Accounts, first \in Accounts,
             n \in 1..Gov!Cardinality(Accounts) : Gov!rotate_admin_keys(approvers, first, new, n)
    BY <2>1 DEF Gov!QuorumNext, Gov!register_signer, Gov!remove_signer
  <2>3. /\ gov_signers' = new /\ gov_admin' = first /\ first \in new
        /\ gov_weight' = [a \in Accounts |-> IF a \in new THEN 1 ELSE 0]
        /\ gov_quorum'.threshold = n /\ gov_quorum'.weight = n /\ n \in 1..Cardinality(new)
    BY <2>2, GovCardinality DEF Gov!rotate_admin_keys
  <2>4. IsFiniteSet(new) /\ Cardinality(new) \in Nat
    BY GovFacts
  <2>5. gov_signers' = {a \in Accounts : gov_weight'[a] > 0}
    BY <2>3
  <2> DEFINE w == [a \in Accounts |-> Gov!get_signer_weight(a)']
  <2>6. \A a \in new : w[a] = 1
    BY <2>3 DEF Gov!get_signer_weight
  <2> HIDE DEF w
  <2>7. \A a \in new : w[a] \in Nat /\ w[a] >= 1
    BY <2>6
  <2>8. SumOf(w, new) >= Cardinality(new)
    BY <2>4, <2>7, SumAtLeast
  <2>9. SumOf(w, new) \in Nat
    BY <2>4, <2>7, SumNat
  <2>10. new \intersect (new \union {first}) = new
    OBVIOUS
  <2>11. Gov!calculate_collected_weight(gov_signers)' = Gov!SumOf(w, new)
    BY <2>3, <2>10 DEF Gov!calculate_collected_weight, w
  <2>12. Gov!Cardinality(gov_signers' \intersect (gov_signers' \union {gov_admin'})) = Cardinality(new)
    BY <2>3, <2>10, GovCardinality
  <2>13. Gov!verify_upgrade_quorum(gov_signers)'
    BY <2>3, <2>4, <2>8, <2>9, <2>11, <2>12, GovSumOf DEF Gov!verify_upgrade_quorum
  <2> QED
    BY <2>3, <2>5, <2>13
<1> QED
  BY <1>1, GovIsPart, GovAlways, PTL DEF MCSpec, Gov!RotationLeavesAQuorum

\* The running code changes with backing: an upgrade staged at a timestamp below
\* 2^32 is compared with a sequence number that never reaches it.
LEMMA GovCodeChanges == MCSpec => Gov!CodeChangesAreBacked
<1>1. GovInv /\ [GovNext]_Gov!vars =>
        [gov_wasm'.running # gov_wasm.running =>
           \/ Gov!Open /\ Gov!OverrideReady(gov_proposal.proposal_id)
              /\ gov_wasm'.running = gov_proposal.wasm_hash
           \/ gov_wasm'.running = gov_wasm.previous /\ Gov!timestamp - gov_wasm.since <= RollbackWindow
           \/ /\ gov_upgrade # None /\ gov_wasm'.running = gov_upgrade.new_wasm_hash
              /\ gov_upgrade.staged_at >= U32]_Gov!vars
  <2> DEFINE Overridden == Gov!Open /\ Gov!OverrideReady(gov_proposal.proposal_id)
                           /\ gov_wasm'.running = gov_proposal.wasm_hash
             RolledBack == gov_wasm'.running = gov_wasm.previous
                           /\ Gov!timestamp - gov_wasm.since <= RollbackWindow
             Upgraded == /\ gov_upgrade # None /\ gov_wasm'.running = gov_upgrade.new_wasm_hash
                         /\ gov_upgrade.staged_at >= U32
  <2> SUFFICES ASSUME GovInv, GovNext, gov_wasm'.running # gov_wasm.running
               PROVE  Overridden \/ RolledBack \/ Upgraded
    BY DEF Gov!vars
  <2>0. gov_wasm \in [running : Hashes \union {None}, current : Hashes \union {None},
                      previous : Hashes \union {None}, since : Nat]
    BY DEF GovInv, Gov!TypeOK
  <2>1. ASSUME NEW a \in Accounts, Gov!execute_emergency_override(a)  PROVE Overridden
    BY <2>0, <2>1 DEF Gov!execute_emergency_override
  <2>2. ASSUME NEW a \in Accounts, Gov!execute_rollback(a)  PROVE RolledBack
    BY <2>2 DEF Gov!execute_rollback
  <2>3. ASSUME NEW a \in Accounts, Gov!execute_upgrade(a)  PROVE Upgraded
    <3>1. gov_upgrade # None /\ Gov!verify_staged_delay(gov_upgrade.staged_at)
          /\ gov_wasm'.running = gov_upgrade.new_wasm_hash
      BY <2>0, <2>3 DEF Gov!execute_upgrade
    <3>2. /\ gov_upgrade.staged_at \in Nat /\ gov_upgrade.staged_at >= Epoch
          /\ gov_seq \in 0..MaxSeq
      BY <3>1 DEF GovInv, Gov!TypeOK, StagedAfterEpoch
    <3>3. SUFFICES ASSUME gov_upgrade.staged_at < U32 PROVE FALSE
      BY <3>1, <3>2, GovFacts
    <3>4. gov_upgrade.staged_at % U32 = gov_upgrade.staged_at
      BY <3>2, <3>3, GovFacts
    <3>5. gov_seq - gov_upgrade.staged_at >= MinLedgerDelay
      BY <3>1, <3>4 DEF Gov!verify_staged_delay
    <3> QED
      BY <3>2, <3>5, GovFacts
  <2>4. ASSUME NEW h, Gov!preserve_current_wasm(h) \/ \E a \in Accounts : Gov!set_current_wasm(a, h)
        PROVE  FALSE
    BY <2>0, <2>4 DEF Gov!preserve_current_wasm, Gov!set_current_wasm
  <2>5. gov_wasm' # gov_wasm
    OBVIOUS
  <2> HIDE DEF Overridden, RolledBack, Upgraded
  <2>6. ~Gov!QuorumNext /\ ~Gov!CancelNext /\ ~Gov!FeeNext
    BY <2>5 DEF Gov!QuorumNext, Gov!CancelNext, Gov!FeeNext,
        Gov!register_signer, Gov!remove_signer, Gov!rotate_admin_keys,
        Gov!submit_governance_proposal, Gov!vote_cancel_proposal, Gov!cancel_governance_proposal,
        Gov!propose_pool_fee_tier_change, Gov!vote_pool_fee_tier_change,
        Gov!cancel_pool_fee_tier_change, Gov!record_pool_swap_fee, Gov!feeRest
  <2>7. CASE Gov!ProposalNext
    BY <2>1, <2>5, <2>7 DEF Gov!ProposalNext, Gov!Close, Gov!submit_governance_proposal,
        Gov!cancel_governance_proposal, Gov!set_security_council, Gov!veto_proposal,
        Gov!set_emergency_override_config, Gov!vote_emergency_override
  <2>8. CASE Gov!UpgradeNext
    BY <2>2, <2>3, <2>4, <2>5, <2>8 DEF Gov!UpgradeNext, Gov!Close, Gov!propose_upgrade,
        Gov!cancel_upgrade, Gov!cleanup_expired_proposals
  <2> QED
    BY <2>6, <2>7, <2>8 DEF GovNext
<1> QED
  BY <1>1, GovIsPart, GovAlways, PTL DEF MCSpec, Gov!CodeChangesAreBacked

-----------------------------------------------------------------------------
(* The three contracts together, in the specification the run checks. *)

LEMMA RecoveryIsPart == [MCNext]_allVars => [Next]_vars
BY DEF MCNext, allVars

LEMMA RecoveryAlways == MCSpec => []IInv
<1>1. MCInit => IInv
  BY InitEstablishesIInv DEF MCInit
<1> QED
  BY <1>1, RecoveryIsPart, NextKeepsIInv, PTL DEF MCSpec

\* Whatever the numbers of accounts, tokens, roles and hashes, the delays and the
\* bounds: storage of the recovery and of the core stays well formed, the
\* multisig can always act (rotate_admin_keys, propose_emergency_revocation), the
\* votes that carry an emergency override are for the proposal it installs, and
\* swap fees split without a remainder.
THEOREM RootRecordsAlwaysAgree == MCSpec => []RootRecordsAgree
<1>1. IInv /\ AdminInv /\ GovInv => RootRecordsAgree
  <2> SUFFICES ASSUME IInv, AdminInv, GovInv PROVE RootRecordsAgree
    OBVIOUS
  <2>1. Gov!VotesAreForThisProposal
    BY DEF GovInv, VotesCast, Gov!VotesAreForThisProposal, Gov!Open, Gov!Voters
  <2>2. TypesOK
    BY DEF IInv, AdminInv, GovInv, TypesOK
  <2> QED
    BY <2>1, <2>2, AdminInvReaches DEF GovInv, RootRecordsAgree
<1> QED
  BY <1>1, RecoveryAlways, AdminAlways, GovAlways, PTL

\* For the same parameters: the administrator changes hands by right, queued
\* settings and rescues serve their delays and spare what was protected
\* meanwhile, lost roles stay lost, every rotation leaves a working quorum, and
\* the running code changes only with the backing its call asks for.
THEOREM RootPowersAlwaysBounded == MCSpec => RootPowersAreBounded
BY AdminSuccession, AdminQueued, AdminRescued, AdminRolesLost, GovRotations, GovCodeChanges
DEF RootPowersAreBounded
=============================================================================
