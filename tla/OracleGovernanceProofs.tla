----------------------- MODULE OracleGovernanceProofs -----------------------
(***************************************************************************)
(* Proofs about the administrators of the price oracle and their           *)
(* proposals: that storage stays well formed, that what takes two          *)
(* signatures or votes has them, and that what is decided or frozen stays. *)
(***************************************************************************)
EXTENDS OracleGovernance, FiniteSetTheorems, TLAPS

-----------------------------------------------------------------------------
\* Counting to two

\* Of two or more accounts, two are different.
LEMMA TwoApart ==
  ASSUME NEW S, IsFiniteSet(S), Cardinality(S) >= 2
  PROVE  \E x, y \in S : x # y
<1>1. SUFFICES ASSUME \A x, y \in S : x = y  PROVE FALSE
  OBVIOUS
<1>2. S # {}
  BY FS_EmptySet
<1>3. PICK x \in S : TRUE
  BY <1>2
<1>4. S = {x}
  BY <1>1, <1>3
<1> QED  BY <1>4, FS_Singleton

\* A call that asks for two administrators bears the signatures of two.
LEMMA TwoSign ==
  ASSUME NEW a \in Accounts, NEW b \in Accounts, TwoAuthorized(a, b)
  PROVE  TwoSigned
BY DEF TwoAuthorized, TwoSigned

\* No vote is executed on fewer than two voters, whatever floor is set.
LEMMA QuorumIsTwo ==
  ASSUME TypeOK
  PROVE  get_min_quorum_threshold \in Nat /\ get_min_quorum_threshold >= 2
<1>1. CASE min_quorum = None
  BY <1>1 DEF get_min_quorum_threshold, MIN_SAFE_QUORUM_THRESHOLD
<1>2. CASE min_quorum # None
  <2>1. min_quorum \in Nat
    BY <1>2 DEF TypeOK, VotingTypeOK
  <2>2. \E m \in {min_quorum, 2} : \A n \in {min_quorum, 2} : m >= n
    BY <2>1
  <2>3. Max({min_quorum, 2}) \in {min_quorum, 2} /\ Max({min_quorum, 2}) >= 2
    BY <2>2 DEF Max
  <2> QED  BY <1>2, <2>1, <2>3 DEF get_min_quorum_threshold, MIN_SAFE_QUORUM_THRESHOLD
<1> QED  BY <1>1, <1>2

-----------------------------------------------------------------------------
\* Storage is well formed

LEMMA TypeInit == Init => TypeOK
<1>1. Init => AdminTypeOK
  <2>1. AdminInit => now \in 0..MaxTime
    BY OracleAdminAssumption DEF AdminInit
  <2> QED  BY <2>1 DEF Init, AdminInit, AdminTypeOK
<1>2. Init => VotingTypeOK
  <2> SUFFICES ASSUME Init  PROVE VotingTypeOK
    OBVIOUS
  <2>1. /\ actions \in [Ids -> {None}]
        /\ votes \in [Ids -> SUBSET Accounts]
        /\ affirmative \in [Ids -> SUBSET Accounts]
        /\ negative \in [Ids -> SUBSET Accounts]
    BY DEF Init
  <2>2. weight \in [Accounts -> 1..100] /\ delegate \in [Accounts -> Accounts \union {None}]
    BY DEF Init
  <2>3. veflow \in BOOLEAN
    BY DEF Init
  <2>4. last_id \in 0..MaxActions
    BY OracleGovernanceAssumption DEF Init
  <2> QED  BY <2>1, <2>2, <2>3, <2>4 DEF Init, VotingTypeOK
<1>3. Init => OneVerdict
  <2>1. Init => \A id \in Ids : actions[id] = None
    BY DEF Init
  <2> QED  BY <2>1 DEF OneVerdict
<1>4. Init => cosigners \subseteq Accounts
  BY DEF Init
<1> QED  BY <1>1, <1>2, <1>3, <1>4 DEF TypeOK

\* The calls of the administrators leave their own entries well formed.
LEMMA AdminTypeNext ==
  ASSUME AdminTypeOK, AdminNext
  PROVE  AdminTypeOK'
<1> USE OracleAdminAssumption DEF AdminTypeOK, List, is_authorized, TwoAuthorized
<1>1. CASE Tick
  BY <1>1 DEF Tick
<1>2. ASSUME NEW a \in Accounts, initialize(a) \/ init_admin(a)  PROVE AdminTypeOK'
  BY <1>2 DEF initialize, init_admin
<1>3. ASSUME NEW a \in Accounts, accept_admin(a)  PROVE AdminTypeOK'
  BY <1>3 DEF accept_admin
<1>4. ASSUME NEW a \in Accounts, renounce_ownership(a)  PROVE AdminTypeOK'
  BY <1>4 DEF renounce_ownership
<1>5. ASSUME NEW a \in Accounts, emergency_freeze(a)  PROVE AdminTypeOK'
  BY <1>5 DEF emergency_freeze
<1>6. ASSUME NEW a \in Accounts, NEW b \in Accounts, transfer_admin(a, b)
      PROVE  AdminTypeOK'
  BY <1>6 DEF transfer_admin
<1>7. ASSUME NEW a \in Accounts, NEW b \in Accounts, revoke_key(a, b)
      PROVE  AdminTypeOK'
  BY <1>7 DEF revoke_key
<1>8. ASSUME NEW a \in Accounts, NEW b \in Accounts, toggle_pause(a, b)
      PROVE  AdminTypeOK'
  BY <1>8 DEF toggle_pause
<1>9. ASSUME NEW a \in Accounts, NEW b \in Accounts, self_destruct(a, b)
      PROVE  AdminTypeOK'
  BY <1>9 DEF self_destruct, Wipe
<1>10. ASSUME NEW a \in Accounts, NEW b \in Councils, set_council(a, b)
       PROVE  AdminTypeOK'
  BY <1>10 DEF set_council
<1>11. ASSUME NEW a \in Accounts, NEW b \in Accounts, NEW s \in BOOLEAN,
              set_emergency_halt(a, b, s)
       PROVE  AdminTypeOK'
  BY <1>11 DEF set_emergency_halt
<1>12. ASSUME NEW a \in Accounts, NEW b \in Accounts, NEW c \in Accounts,
              register_admin(a, b, c)
       PROVE  AdminTypeOK'
  BY <1>12 DEF register_admin, add_authorized
<1>13. ASSUME NEW a \in Accounts, NEW b \in Accounts, NEW c \in Accounts,
              remove_admin(a, b, c)
       PROVE  AdminTypeOK'
  BY <1>13 DEF remove_admin
<1> QED
  BY <1>1, <1>2, <1>3, <1>4, <1>5, <1>6, <1>7, <1>8, <1>9, <1>10, <1>11, <1>12, <1>13
     DEF AdminNext, SoleNext, JointNext

\* So does what an executed proposal does to them.
LEMMA PerformType ==
  ASSUME AdminTypeOK, NEW a \in Accounts, is_authorized(a),
         NEW y, NEW t \in Accounts \union {None}, Perform(y, t)
  PROVE  AdminTypeOK'
<1> USE DEF AdminTypeOK
<1>1. admins \in SUBSET Accounts
  BY DEF is_authorized, List
<1>2. CASE TogglePause
  BY <1>2 DEF TogglePause
<1>3. CASE RegisterAdmin(t)
  BY <1>1, <1>3 DEF RegisterAdmin, add_authorized
<1>4. CASE RemoveAdmin(t)
  BY <1>1, <1>4 DEF RemoveAdmin
<1>5. CASE SelfDestruct
  BY <1>5 DEF SelfDestruct, Wipe
<1>6. CASE UNCHANGED adminVars
  BY <1>6 DEF adminVars
<1> QED  BY <1>2, <1>3, <1>4, <1>5, <1>6 DEF Perform

\* The votes a voter casts are those of administrators.
LEMMA EffectiveIsListed ==
  ASSUME NEW id, NEW a
  PROVE  /\ votes[id] \subseteq Effective(id, a)
         /\ Effective(id, a) \subseteq votes[id] \union List
BY DEF Effective, DelegatedTo

LEMMA ListIsAccounts ==
  ASSUME AdminTypeOK
  PROVE  List \subseteq Accounts
BY DEF AdminTypeOK, List

Action == [type : AllTypes, target : Accounts \union {None},
           executed : BOOLEAN, cancelled : BOOLEAN]

\* Every call about proposals and votes leaves all entries well formed.
LEMMA TypeNext ==
  ASSUME TypeOK, [Next]_vars
  PROVE  TypeOK'
<1> USE OracleAdminAssumption, OracleGovernanceAssumption DEF TypeOK
<1>0. cosigners' \subseteq Accounts
  BY DEF Next, vars, AdminNext, JointNext, toggle_pause, self_destruct, set_emergency_halt,
         register_admin, remove_admin, TwoAuthorized
<1>1. CASE UNCHANGED vars
  BY <1>0, <1>1 DEF vars, adminVars, govVars, AdminTypeOK, VotingTypeOK, OneVerdict
<1>2. CASE AdminNext /\ UNCHANGED govVars
  <2>1. AdminTypeOK'
    BY <1>2, AdminTypeNext
  <2>2. VotingTypeOK' /\ OneVerdict'
    BY <1>2 DEF govVars, VotingTypeOK, OneVerdict
  <2> QED  BY <1>0, <2>1, <2>2
<1>3. ASSUME UNCHANGED adminVars  PROVE AdminTypeOK'
  BY <1>3 DEF adminVars, AdminTypeOK
<1>4. ASSUME UNCHANGED actions  PROVE OneVerdict'
  BY <1>4 DEF OneVerdict
<1>5. ASSUME NEW a \in Accounts, NEW b \in Accounts, NEW w \in Weights,
             set_admin_weight(a, b, w)
      PROVE  TypeOK'
  <2>1. VotingTypeOK'
    BY <1>5 DEF set_admin_weight, VotingTypeOK
  <2> QED  BY <1>0, <1>3, <1>4, <1>5, <2>1 DEF set_admin_weight
<1>6. ASSUME NEW a \in Accounts, NEW t \in Thresholds,
             set_weight_threshold(a, t) \/ set_min_quorum_threshold(a, t)
      PROVE  TypeOK'
  <2>1. VotingTypeOK'
    BY <1>6 DEF set_weight_threshold, set_min_quorum_threshold, VotingTypeOK
  <2> QED  BY <1>0, <1>3, <1>4, <1>6, <2>1 DEF set_weight_threshold, set_min_quorum_threshold
<1>7. ASSUME NEW a \in Accounts, set_veflow_governance(a) \/ clear_vote_delegate(a)
      PROVE  TypeOK'
  <2>1. VotingTypeOK'
    BY <1>7 DEF set_veflow_governance, clear_vote_delegate, VotingTypeOK
  <2> QED  BY <1>0, <1>3, <1>4, <1>7, <2>1 DEF set_veflow_governance, clear_vote_delegate
<1>8. ASSUME NEW a \in Accounts, NEW b \in Delegates, delegate_vote(a, b)
      PROVE  TypeOK'
  <2>1. VotingTypeOK'
    BY <1>8 DEF delegate_vote, VotingTypeOK
  <2> QED  BY <1>0, <1>3, <1>4, <1>8, <2>1 DEF delegate_vote
<1>9. ASSUME NEW a \in Accounts, NEW y \in Types, NEW t \in Accounts \union {None},
             propose_action(a, y, t)
      PROVE  TypeOK'
  <2> DEFINE id == last_id + 1
             new == [type |-> y, target |-> t, executed |-> FALSE, cancelled |-> FALSE]
  <2>1. /\ id \in Ids /\ last_id' = id
        /\ actions' = [actions EXCEPT ![id] = new]
        /\ votes' = [votes EXCEPT ![id] = IF veflow THEN @ ELSE Effective(id, a)]
    BY <1>9 DEF propose_action
  <2>2. new \in [type : AllTypes, target : Accounts \union {None},
                 executed : BOOLEAN, cancelled : BOOLEAN]
    OBVIOUS
  <2>3. votes[id] \subseteq Accounts /\ Effective(id, a) \subseteq Accounts
    BY <2>1, EffectiveIsListed, ListIsAccounts DEF VotingTypeOK
  <2>4. last_id' \in 0..MaxActions
    BY <2>1 DEF Ids
  <2>5. VotingTypeOK'
    BY <1>9, <2>1, <2>2, <2>3, <2>4 DEF propose_action, VotingTypeOK
  <2>6. OneVerdict'
    BY <2>1, <2>2 DEF OneVerdict, VotingTypeOK
  <2> QED  BY <1>0, <1>3, <1>9, <2>5, <2>6 DEF propose_action
<1>10. ASSUME NEW a \in Accounts, NEW id \in Ids, vote_for_action(a, id)
       PROVE  TypeOK'
  <2>1. Effective(id, a) \subseteq Accounts
    BY EffectiveIsListed, ListIsAccounts DEF VotingTypeOK
  <2>2. VotingTypeOK'
    BY <1>10, <2>1 DEF vote_for_action, VotingTypeOK
  <2> QED  BY <1>0, <1>3, <1>4, <1>10, <2>2 DEF vote_for_action
<1>11. ASSUME NEW a \in Accounts, NEW id \in Ids, vote_against_action(a, id)
       PROVE  TypeOK'
  <2>1. VotingTypeOK'
    BY <1>11 DEF vote_against_action, VotingTypeOK
  <2> QED  BY <1>0, <1>3, <1>4, <1>11, <2>1 DEF vote_against_action
<1>12. ASSUME NEW a \in Accounts, NEW id \in Ids, execute_proposed_action(a, id)
       PROVE  TypeOK'
  <2>1. Pending(id) /\ actions' = [actions EXCEPT ![id].executed = TRUE]
    BY <1>12 DEF execute_proposed_action
  <2>2. VotingTypeOK'
    <3>1. actions[id] \in Action
      BY <2>1 DEF VotingTypeOK, Pending, Action
    <3>2. [actions[id] EXCEPT !.executed = TRUE] \in Action
      BY <3>1 DEF Action
    <3>3. actions' \in [Ids -> Action \union {None}]
      BY <2>1, <3>2 DEF VotingTypeOK, Action
    <3> QED  BY <1>12, <3>3 DEF execute_proposed_action, VotingTypeOK, Action
  <2>3. OneVerdict'
    <3>1. actions'[id].cancelled = actions[id].cancelled
      BY <2>1 DEF VotingTypeOK, Pending
    <3>2. \A i \in Ids : i # id => actions'[i] = actions[i]
      BY <2>1 DEF VotingTypeOK
    <3> QED  BY <2>1, <3>1, <3>2, Zenon DEF OneVerdict, Pending
  <2>4. actions[id].target \in Accounts \union {None}
    BY <2>1 DEF VotingTypeOK, Pending
  <2>5. AdminTypeOK'
    BY <1>12, <2>4, PerformType DEF execute_proposed_action
  <2> QED  BY <1>0, <2>2, <2>3, <2>5
<1>13. ASSUME NEW a \in Accounts, NEW id \in Ids, cancel_proposed_action(a, id)
       PROVE  TypeOK'
  <2>1. Pending(id) /\ actions' = [actions EXCEPT ![id].cancelled = TRUE]
    BY <1>13 DEF cancel_proposed_action
  <2>2. VotingTypeOK'
    <3>1. actions[id] \in Action
      BY <2>1 DEF VotingTypeOK, Pending, Action
    <3>2. [actions[id] EXCEPT !.cancelled = TRUE] \in Action
      BY <3>1 DEF Action
    <3>3. actions' \in [Ids -> Action \union {None}]
      BY <2>1, <3>2 DEF VotingTypeOK, Action
    <3> QED  BY <1>13, <3>3 DEF cancel_proposed_action, VotingTypeOK, Action
  <2>3. OneVerdict'
    <3>1. actions'[id].executed = actions[id].executed
      BY <2>1 DEF VotingTypeOK, Pending
    <3>2. \A i \in Ids : i # id => actions'[i] = actions[i]
      BY <2>1 DEF VotingTypeOK
    <3> QED  BY <2>1, <3>1, <3>2, Zenon DEF OneVerdict, Pending
  <2> QED  BY <1>0, <1>3, <1>13, <2>2, <2>3 DEF cancel_proposed_action
<1> QED
  BY <1>1, <1>2, <1>5, <1>6, <1>7, <1>8, <1>9, <1>10, <1>11, <1>12, <1>13 DEF Next, VotingNext

-----------------------------------------------------------------------------
\* One voice until the first hand-over

\* The accounts that are on the list or among the votes of some proposal.
Voices == List \union UNION {votes[id] : id \in Ids}

\* Until accept_admin first succeeds the contract lives, nobody is on the list
\* or has voted before it was initialized, and at most one account ever does.
\* This is what makes SecondAdminNeedsHandover inductive: a list with one
\* member says nothing about the votes that may already be waiting.
OneVoice ==
  ~handed_over =>
    /\ ~destroyed
    /\ ~initialized => Voices = {}
    /\ \A x, y \in Voices : x = y

LEMMA VoicesAreFinite ==
  ASSUME TypeOK
  PROVE  /\ IsFiniteSet(List)
         /\ \A id \in Ids : IsFiniteSet(votes[id])
<1>1. List \subseteq Accounts /\ \A id \in Ids : votes[id] \subseteq Accounts
  BY ListIsAccounts DEF TypeOK, VotingTypeOK
<1> QED  BY <1>1, OracleAdminAssumption, FS_Subset

\* Before the first hand-over no call is signed by two administrators, and no
\* proposal has the votes to be executed.
LEMMA NobodyAgrees ==
  ASSUME TypeOK, OneVoice, ~handed_over
  PROVE  /\ \A a, b : ~ TwoAuthorized(a, b)
         /\ \A id \in Ids : ~ (Cardinality(votes[id]) >= get_min_quorum_threshold)
<1>1. \A a, b : ~ TwoAuthorized(a, b)
  BY DEF OneVoice, Voices, TwoAuthorized, is_authorized
<1>2. ASSUME NEW id \in Ids, Cardinality(votes[id]) >= get_min_quorum_threshold
      PROVE  FALSE
  <2>1. IsFiniteSet(votes[id]) /\ Cardinality(votes[id]) \in Nat
    BY VoicesAreFinite, FS_CardinalityType
  <2>2. Cardinality(votes[id]) >= 2
    BY <1>2, <2>1, QuorumIsTwo
  <2>3. PICK x \in votes[id], y \in votes[id] : x # y
    BY <2>1, <2>2, TwoApart
  <2>4. x \in Voices /\ y \in Voices
    BY DEF Voices
  <2> QED  BY <2>3, <2>4 DEF OneVoice
<1> QED  BY <1>1, <1>2

\* A step after which nobody new has a voice keeps the invariant.
LEMMA FewerVoices ==
  ASSUME OneVoice, Voices' \subseteq Voices, destroyed' = destroyed,
         initialized' = initialized, handed_over' = handed_over
  PROVE  OneVoice'
BY DEF OneVoice

\* The calls of the administrators keep at most one voice.
LEMMA AdminKeepsOneVoice ==
  ASSUME TypeOK, OneVoice, AdminNext, UNCHANGED govVars
  PROVE  OneVoice'
<1>1. CASE handed_over'
  BY <1>1 DEF OneVoice
<1>2. CASE ~handed_over'
  <2> USE DEF govVars, Voices
  <2>1. ~handed_over
    BY <1>2 DEF AdminNext, SoleNext, JointNext, Tick, initialize, init_admin, accept_admin, renounce_ownership,
         emergency_freeze, transfer_admin, revoke_key, toggle_pause, self_destruct, Wipe,
         set_council, set_emergency_halt, register_admin, remove_admin
  <2>2. \A a, b : ~ TwoAuthorized(a, b)
    BY <2>1, NobodyAgrees
  <2>3. ASSUME NEW a \in Accounts, initialize(a) \/ init_admin(a)
        PROVE  OneVoice'
    <3>1. admins' = {a} /\ initialized' /\ ~initialized /\ destroyed' = destroyed
      BY <2>3 DEF initialize, init_admin
    <3>2. Voices = {} /\ ~destroyed
      BY <2>1, <3>1 DEF OneVoice
    <3>3. Voices' \subseteq {a}
      BY <3>1, <3>2 DEF List
    <3> QED  BY <3>1, <3>2, <3>3 DEF OneVoice
  <2>4. ASSUME NEW a \in Accounts, accept_admin(a)  PROVE FALSE
    BY <1>2, <2>4 DEF accept_admin
  <2>5. ASSUME NEW a \in Accounts, renounce_ownership(a)  PROVE OneVoice'
    BY <2>5, FewerVoices DEF renounce_ownership, List
  <2>6. ASSUME NEW a \in Accounts, NEW b \in Accounts, revoke_key(a, b)  PROVE OneVoice'
    BY <2>6, FewerVoices DEF revoke_key, is_authorized, List
  <2>7. CASE UNCHANGED <<initialized, destroyed, admins, handed_over>>
    BY <2>7, FewerVoices DEF List
  <2> QED
    BY <2>2, <2>3, <2>4, <2>5, <2>6, <2>7
       DEF AdminNext, SoleNext, JointNext, Tick, emergency_freeze, transfer_admin, toggle_pause, self_destruct,
           set_council, set_emergency_halt, register_admin, remove_admin
<1> QED  BY <1>1, <1>2

\* Every step keeps at most one voice until the first hand-over.
LEMMA OneVoiceNext ==
  ASSUME TypeOK, OneVoice, [Next]_vars
  PROVE  OneVoice'
<1>1. CASE AdminNext /\ UNCHANGED govVars
  BY <1>1, AdminKeepsOneVoice
<1>2. CASE UNCHANGED <<adminVars, votes>>
  BY <1>2, FewerVoices DEF adminVars, Voices, List
<1>3. ASSUME NEW a \in Accounts, NEW id \in Ids, UNCHANGED adminVars,
             votes' = [votes EXCEPT ![id] = Effective(id, a)]
      PROVE  OneVoice'
  <2>1. \A i \in Ids : votes'[i] \subseteq votes[i] \union List
    BY <1>3, EffectiveIsListed DEF TypeOK, VotingTypeOK
  <2>2. List' = List
    BY <1>3 DEF adminVars, List
  <2>3. Voices' \subseteq Voices
    BY <2>1, <2>2 DEF Voices
  <2> QED  BY <1>3, <2>3, FewerVoices DEF adminVars
<1>4. ASSUME NEW a \in Accounts, NEW y \in Types, NEW t \in Accounts \union {None},
             propose_action(a, y, t)
      PROVE  OneVoice'
  <2>1. CASE veflow
    <3>1. votes' = votes
      BY <1>4, <2>1 DEF propose_action, TypeOK, VotingTypeOK
    <3> QED  BY <1>2, <1>4, <3>1 DEF propose_action
  <2>2. CASE ~veflow
    BY <1>3, <1>4, <2>2 DEF propose_action
  <2> QED  BY <2>1, <2>2
<1>5. ASSUME NEW a \in Accounts, NEW id \in Ids, vote_for_action(a, id)
      PROVE  OneVoice'
  BY <1>2, <1>3, <1>5 DEF vote_for_action
<1>6. ASSUME NEW a \in Accounts, NEW id \in Ids, execute_proposed_action(a, id)
      PROVE  OneVoice'
  <2>1. handed_over
    BY <1>6, NobodyAgrees DEF execute_proposed_action
  <2>2. handed_over'
    BY <1>6, <2>1 DEF execute_proposed_action, Perform, TogglePause, RegisterAdmin,
         RemoveAdmin, SelfDestruct, Wipe, adminVars
  <2> QED  BY <2>2 DEF OneVoice
<1>7. CASE UNCHANGED vars
  BY <1>2, <1>7 DEF vars, govVars
<1> QED
  BY <1>1, <1>2, <1>4, <1>5, <1>6, <1>7
     DEF Next, VotingNext, set_admin_weight, set_weight_threshold, set_min_quorum_threshold,
         set_veflow_governance, clear_vote_delegate, delegate_vote, vote_against_action,
         cancel_proposed_action

\* Storage stays well formed, and no second administrator appears before the
\* list was handed over once.
THEOREM AdministratorsAreAccounted == Spec => []AdministratorsAccounted
<1>1. Init => OneVoice
  BY DEF Init, AdminInit, OneVoice, Voices, List
<1>2. TypeOK /\ OneVoice => SecondAdminNeedsHandover
  <2> SUFFICES ASSUME TypeOK, OneVoice, Cardinality(List) >= 2, ~handed_over  PROVE FALSE
    BY DEF SecondAdminNeedsHandover
  <2>1. PICK x \in List, y \in List : x # y
    BY VoicesAreFinite, TwoApart
  <2> QED  BY <2>1 DEF OneVoice, Voices
<1>3. TypeOK /\ OneVoice /\ [Next]_vars => TypeOK' /\ OneVoice'
  BY TypeNext, OneVoiceNext
<1> QED  BY TypeInit, <1>1, <1>2, <1>3, PTL DEF Spec, AdministratorsAccounted

-----------------------------------------------------------------------------
\* Shared power

LEMMA TypeAlways == Spec => []TypeOK
BY TypeInit, TypeNext, PTL DEF Spec

\* An executed proposal carries the votes of two accounts.
LEMMA ExecutedHasTwo ==
  ASSUME TypeOK, NEW a \in Accounts, NEW id \in Ids, execute_proposed_action(a, id)
  PROVE  /\ Pending(id) /\ actions'[id].executed
         /\ Cardinality(votes[id]) >= 2
<1>1. Pending(id) /\ actions' = [actions EXCEPT ![id].executed = TRUE]
  BY DEF execute_proposed_action
<1>2. actions[id] \in Action
  BY <1>1 DEF TypeOK, VotingTypeOK, Pending, Action
<1>3. actions'[id].executed
  BY <1>1, <1>2 DEF TypeOK, VotingTypeOK, Action
<1>4. Cardinality(votes[id]) \in Nat
  BY VoicesAreFinite, FS_CardinalityType
<1>5. Cardinality(votes[id]) >= get_min_quorum_threshold
  BY DEF execute_proposed_action
<1>6. Cardinality(votes[id]) >= 2
  BY <1>4, <1>5, QuorumIsTwo
<1> QED  BY <1>1, <1>3, <1>6

\* Why an account may join the list of a live contract.
Vetted(a) ==
  \/ /\ pending # None /\ pending.admin = a /\ now - pending.since >= ADMIN_TIMELOCK
     /\ List' = {a}
  \/ TwoSigned
  \/ \E id \in Ids :
       /\ Pending(id) /\ actions'[id].executed
       /\ actions[id].type = "RegisterAdmin" /\ actions[id].target = a
       /\ Cardinality(votes[id]) >= 2

LEMMA NewAdminVetted ==
  ASSUME TypeOK, [Next]_vars, NEW a \in Accounts, initialized, a \notin List, a \in List'
  PROVE  Vetted(a)
<1>1. CASE UNCHANGED admins
  BY <1>1 DEF List
<1>2. ASSUME NEW b \in Accounts, accept_admin(b)  PROVE Vetted(a)
  <2>1. pending # None /\ pending.admin = b /\ now >= pending.since + ADMIN_TIMELOCK
    BY <1>2 DEF accept_admin
  <2>2. a = b /\ List' = {a}
    BY <1>2, OracleAdminAssumption DEF accept_admin, List
  <2>3. now \in Nat /\ pending.since \in Nat
    BY <2>1 DEF TypeOK, AdminTypeOK
  <2> QED  BY <2>1, <2>2, <2>3, OracleAdminAssumption DEF Vetted
<1>3. ASSUME NEW b \in Accounts, renounce_ownership(b)  PROVE FALSE
  BY <1>3 DEF renounce_ownership, List
<1>4. ASSUME NEW b \in Accounts, NEW c \in Accounts, revoke_key(b, c)  PROVE FALSE
  BY <1>4 DEF revoke_key, List, is_authorized
<1>5. ASSUME NEW b \in Accounts, NEW c \in Accounts, TwoAuthorized(b, c)  PROVE Vetted(a)
  BY <1>5, TwoSign DEF Vetted
<1>6. ASSUME NEW b \in Accounts, NEW id \in Ids, execute_proposed_action(b, id)
      PROVE  Vetted(a)
  <2>1. CASE actions[id].type = "RegisterAdmin" /\ RegisterAdmin(actions[id].target)
    <3>1. actions[id].target = a
      BY <1>6, <2>1
         DEF RegisterAdmin, add_authorized, List, execute_proposed_action, is_authorized
    <3> QED  BY <1>6, <2>1, <3>1, ExecutedHasTwo DEF Vetted
  <2>2. CASE RemoveAdmin(actions[id].target)
    BY <1>6, <2>2 DEF RemoveAdmin, List, execute_proposed_action, is_authorized
  <2>3. CASE SelfDestruct
    BY <2>3 DEF SelfDestruct, Wipe, List
  <2>4. CASE TogglePause
    BY <1>1, <2>4 DEF TogglePause
  <2>5. CASE UNCHANGED adminVars
    BY <1>1, <2>5 DEF adminVars
  <2> QED
    BY <1>6, <2>1, <2>2, <2>3, <2>4, <2>5 DEF execute_proposed_action, Perform
<1>7. CASE AdminNext
  BY <1>1, <1>2, <1>3, <1>4, <1>5, <1>7
     DEF AdminNext, SoleNext, JointNext, Tick, initialize, init_admin, emergency_freeze, transfer_admin,
         toggle_pause, self_destruct, set_council, set_emergency_halt, register_admin,
         remove_admin
<1>8. CASE UNCHANGED vars
  BY <1>1, <1>8 DEF vars, adminVars
<1> QED
  BY <1>1, <1>6, <1>7, <1>8
     DEF Next, VotingNext, adminVars, set_admin_weight, set_weight_threshold, set_min_quorum_threshold,
         set_veflow_governance, clear_vote_delegate, delegate_vote, propose_action,
         vote_for_action, vote_against_action, cancel_proposed_action

\* What a call that stops, pauses or destroys the contract takes.
TwoPersons ==
  \/ TwoSigned
  \/ \E id \in Ids : /\ Pending(id) /\ actions'[id].executed
                     /\ Cardinality(votes[id]) >= 2

LEMMA TwoPersonsNeeded ==
  ASSUME TypeOK, [Next]_vars,
         paused' # paused \/ halted' # halted \/ destroyed' # destroyed
  PROVE  TwoPersons
<1>1. ASSUME NEW b \in Accounts, NEW c \in Accounts, TwoAuthorized(b, c)  PROVE TwoPersons
  BY <1>1, TwoSign DEF TwoPersons
<1>2. ASSUME NEW b \in Accounts, NEW id \in Ids, execute_proposed_action(b, id)
      PROVE  TwoPersons
  BY <1>2, ExecutedHasTwo DEF TwoPersons
<1>3. CASE AdminNext
  BY <1>1, <1>3
     DEF AdminNext, SoleNext, JointNext, Tick, initialize, init_admin, accept_admin, renounce_ownership,
         emergency_freeze, transfer_admin, revoke_key, toggle_pause, self_destruct,
         set_council, set_emergency_halt, register_admin, remove_admin
<1>4. CASE UNCHANGED adminVars
  BY <1>4 DEF adminVars
<1> QED
  BY <1>2, <1>3, <1>4
     DEF Next, VotingNext, vars, set_admin_weight, set_weight_threshold, set_min_quorum_threshold,
         set_veflow_governance, clear_vote_delegate, delegate_vote, propose_action,
         vote_for_action, vote_against_action, cancel_proposed_action

\* An account joins the list of a live contract as the successor one administrator
\* named a timelock ago, alone on the list from then on, or by two signatures or
\* two votes; and nobody pauses, halts or destroys the contract without two
\* signatures or two votes, for any number of accounts and proposals.
THEOREM PowerNeedsTwo == Spec => PowerIsShared
<1>1. TypeOK /\ [Next]_vars =>
        \A a \in Accounts : initialized /\ a \notin List /\ a \in List' => Vetted(a)
  BY NewAdminVetted
<1>2. TypeOK /\ [Next]_vars =>
        (paused' # paused \/ halted' # halted \/ destroyed' # destroyed => TwoPersons)
  BY TwoPersonsNeeded
<1>3. Spec => NewAdminsAreVetted
  BY TypeAlways, <1>1, PTL DEF Spec, NewAdminsAreVetted, Vetted
<1>4. Spec => TwoPersonRule
  BY TypeAlways, <1>2, PTL DEF Spec, TwoPersonRule, TwoPersons
<1> QED  BY <1>3, <1>4 DEF PowerIsShared

-----------------------------------------------------------------------------
\* What is settled

\* Identifiers are given out in order: no proposal has one of those to come.
IdsInOrder == \A id \in Ids : id > last_id => actions[id] = None

LEMMA IdsInOrderNext ==
  ASSUME TypeOK, IdsInOrder, [Next]_vars
  PROVE  IdsInOrder'
<1>1. CASE UNCHANGED <<actions, last_id>>
  BY <1>1 DEF IdsInOrder
<1>2. ASSUME NEW a \in Accounts, NEW y \in Types, NEW t \in Accounts \union {None},
             propose_action(a, y, t)
      PROVE  IdsInOrder'
  BY <1>2 DEF IdsInOrder, propose_action, TypeOK, VotingTypeOK, Ids
<1>3. ASSUME NEW id \in Ids, Pending(id), last_id' = last_id,
             \A i \in Ids : i # id => actions'[i] = actions[i]
      PROVE  IdsInOrder'
  BY <1>3 DEF IdsInOrder, Pending
<1>4. ASSUME NEW a \in Accounts, NEW id \in Ids,
             execute_proposed_action(a, id) \/ cancel_proposed_action(a, id)
      PROVE  IdsInOrder'
  <2>1. Pending(id) /\ last_id' = last_id /\ \A i \in Ids : i # id => actions'[i] = actions[i]
    BY <1>4 DEF execute_proposed_action, cancel_proposed_action, TypeOK, VotingTypeOK
  <2> QED  BY <1>3, <2>1
<1> QED
  BY <1>1, <1>2, <1>4
     DEF Next, VotingNext, vars, govVars, set_admin_weight, set_weight_threshold,
         set_min_quorum_threshold, set_veflow_governance, clear_vote_delegate,
         delegate_vote, vote_for_action, vote_against_action

\* No call reaches the record or the votes of a proposal that was decided.
LEMMA DecidedIsKept ==
  ASSUME TypeOK, IdsInOrder, [Next]_vars, NEW id \in Ids, actions[id] # None, ~Pending(id)
  PROVE  UNCHANGED <<actions[id], votes[id], affirmative[id], negative[id]>>
<1> DEFINE Kept == UNCHANGED <<actions[id], votes[id], affirmative[id], negative[id]>>
<1>1. CASE UNCHANGED <<actions, votes, affirmative, negative>>
  BY <1>1
<1>2. ASSUME NEW a \in Accounts, NEW y \in Types, NEW t \in Accounts \union {None},
             propose_action(a, y, t)
      PROVE  Kept
  <2>1. id # last_id + 1
    BY DEF IdsInOrder, Ids, TypeOK, VotingTypeOK
  <2> QED  BY <1>2, <2>1 DEF propose_action, TypeOK, VotingTypeOK
<1>3. ASSUME NEW a \in Accounts, NEW i \in Ids, vote_for_action(a, i) \/ vote_against_action(a, i)
      PROVE  Kept
  <2>1. Pending(i)
    BY <1>3 DEF vote_for_action, vote_against_action, MayRecord
  <2>2. i # id
    BY <2>1
  <2> QED
    BY <1>3, <2>2 DEF vote_for_action, vote_against_action, TypeOK, VotingTypeOK
<1>4. ASSUME NEW a \in Accounts, NEW i \in Ids,
             execute_proposed_action(a, i) \/ cancel_proposed_action(a, i)
      PROVE  Kept
  <2>1. Pending(i)
    BY <1>4 DEF execute_proposed_action, cancel_proposed_action
  <2>2. i # id
    BY <2>1
  <2> QED
    BY <1>4, <2>2 DEF execute_proposed_action, cancel_proposed_action, TypeOK, VotingTypeOK
<1> QED
  BY <1>1, <1>2, <1>3, <1>4
     DEF Next, VotingNext, vars, govVars, set_admin_weight, set_weight_threshold,
         set_min_quorum_threshold, set_veflow_governance, clear_vote_delegate, delegate_vote

\* No call undoes the council's freeze or what it protects.
LEMMA FrozenIsKept ==
  ASSUME [Next]_vars, frozen
  PROVE  /\ frozen'
         /\ UNCHANGED <<paused, council, destroyed, actions, votes, negative,
                        weight, weight_threshold, min_quorum, last_id>>
BY DEF Next, VotingNext, AdminNext, SoleNext, JointNext, vars, adminVars, govVars, Tick, initialize, init_admin, accept_admin,
       renounce_ownership, emergency_freeze, transfer_admin, revoke_key, toggle_pause,
       self_destruct, set_council, set_emergency_halt, register_admin, remove_admin,
       MayConfigure, set_admin_weight, set_weight_threshold, set_min_quorum_threshold,
       set_veflow_governance, clear_vote_delegate, delegate_vote, propose_action,
       vote_for_action, vote_against_action, execute_proposed_action, cancel_proposed_action

\* A decided proposal keeps its verdict and its votes, and a frozen contract its
\* pause flag, council, proposals, voting rules and life, through every later call.
THEOREM SettledIsFinal == Spec => SettledStaysSettled
<1>1. Init => IdsInOrder
  BY DEF Init, IdsInOrder
<1>2. Spec => []IdsInOrder
  BY TypeAlways, <1>1, IdsInOrderNext, PTL DEF Spec
<1>3. TypeOK /\ IdsInOrder /\ [Next]_vars =>
        \A id \in Ids : actions[id] # None /\ ~Pending(id) =>
          UNCHANGED <<actions[id], votes[id], affirmative[id], negative[id]>>
  BY DecidedIsKept
<1>4. [Next]_vars =>
        (frozen => /\ frozen'
                   /\ UNCHANGED <<paused, council, destroyed, actions, votes, negative,
                                  weight, weight_threshold, min_quorum, last_id>>)
  BY FrozenIsKept
<1>5. Spec => DecisionsAreFinal
  BY TypeAlways, <1>2, <1>3, PTL DEF Spec, DecisionsAreFinal
<1>6. Spec => FreezeHolds
  BY <1>4, PTL DEF Spec, FreezeHolds
<1> QED  BY <1>5, <1>6 DEF SettledStaysSettled
=============================================================================
