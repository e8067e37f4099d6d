-------------------------- MODULE GovernanceProofs --------------------------
(***************************************************************************)
(* Proofs about the governance contracts: the rotation of signer weights,  *)
(* early execution, and voting delegation, each for any signers, voters,   *)
(* weights, rates and times its constants allow.                           *)
(***************************************************************************)
EXTENDS MCGovernance, FiniteSetTheorems, TLAPS

\* What build_configuration promises of a configuration it returns.
Sound(c) ==
  /\ c.threshold # 0 /\ c.threshold <= SumOf(c.weights, Keys)
  /\ SumOf(c.weights, Keys) <= U32Max

(***************************************************************************)
(* The inductive invariant: stored configurations are sound, nothing is    *)
(* stored before initialize, the active configuration is no younger than   *)
(* the last rotation, and a pending one is far enough from it.             *)
(***************************************************************************)
IInv ==
  /\ TypeOK
  /\ active # None => Sound(active) /\ active.effective_at <= now
  /\ pending # None => Sound(pending) /\ active # None
  /\ admin = None <=> active = None
  /\ last_rotation # 0 => active # None /\ active.effective_at <= last_rotation
  /\ RotationsSpaced

\* A valid argument gives a well-formed and sound configuration.
LEMMA ValidIsSound ==
  ASSUME NEW s \in Submissions, NEW t \in 0..U32Max, NEW at \in Nat,
         ValidConfiguration(s, t)
  PROVE  /\ Configuration(s, t, at) \in WeightConfiguration
         /\ Sound(Configuration(s, t, at))
<1>1. PICK n \in 0..MaxEntries : s \in [1..n -> SignerWeight]
  BY DEF Submissions
<1>2. WeightMap(s) \in [Keys -> 0..MaxWeight]
  <2>1. ASSUME NEW k \in Keys  PROVE WeightMap(s)[k] \in 0..MaxWeight
    <3> DEFINE mine == {i \in DOMAIN s : s[i].public_key = k}
    <3>1. CASE mine = {}
      BY <3>1, WeightGuardAssumption DEF WeightMap
    <3>2. CASE mine # {}
      <4>1. (CHOOSE i \in mine : TRUE) \in 1..n
        BY <1>1, <3>2
      <4> QED  BY <1>1, <3>2, <4>1 DEF WeightMap, SignerWeight
    <3> QED  BY <3>1, <3>2
  <2> QED  BY <2>1 DEF WeightMap
<1>3. Configuration(s, t, at) \in WeightConfiguration
  BY <1>2 DEF Configuration, WeightConfiguration
<1>4. Sound(Configuration(s, t, at))
  BY DEF Sound, Configuration, ValidConfiguration
<1> QED  BY <1>3, <1>4

LEMMA IInvInit == Init => IInv
BY WeightGuardAssumption DEF Init, IInv, TypeOK, RotationsSpaced

\* Every step keeps the invariant.
LEMMA IInvNext ==
  ASSUME IInv, [Next]_vars
  PROVE  IInv'
<1> USE WeightGuardAssumption, NoneIsNoConfiguration DEF IInv, TypeOK, RotationsSpaced
<1>1. CASE UNCHANGED vars
  BY <1>1 DEF vars, Sound
<1>2. CASE Tick
  BY <1>2 DEF Tick, Sound, WeightConfiguration
<1>3. ASSUME NEW a \in Accounts, NEW s \in Submissions, NEW t \in 0..U32Max,
             initialize(a, s, t)
      PROVE  IInv'
  <2> DEFINE c == Configuration(s, t, now)
  <2>1. c \in WeightConfiguration /\ Sound(c)
    BY <1>3, ValidIsSound DEF initialize
  <2>2. c.effective_at = now
    BY DEF Configuration
  <2>3. /\ admin' = a /\ active' = c /\ last_rotation' = 0 /\ pending' = None
        /\ now' = now
    BY <1>3 DEF initialize
  <2>4. Sound(active')
    BY <2>1, <2>3
  <2> HIDE DEF c
  <2> QED  BY <2>1, <2>2, <2>3, <2>4 DEF Sound
<1>4. ASSUME NEW a \in Accounts, NEW s \in Submissions, NEW t \in 0..U32Max,
             propose_weight_rotation(a, s, t)
      PROVE  IInv'
  <2> DEFINE c == Configuration(s, t, now + Cooldown)
  <2>1. c \in WeightConfiguration /\ Sound(c)
    BY <1>4, ValidIsSound DEF propose_weight_rotation
  <2>2. c.effective_at = now + Cooldown
    BY DEF Configuration
  <2>3. /\ admin # None /\ (last_rotation = 0 \/ now - last_rotation >= Cooldown)
        /\ pending' = c /\ UNCHANGED <<now, admin, active, last_rotation>>
    BY <1>4 DEF propose_weight_rotation
  <2> HIDE DEF c
  <2>4. RotationsSpaced'
    BY <2>2, <2>3 DEF WeightConfiguration
  <2> QED  BY <2>1, <2>3, <2>4 DEF Sound
<1>5. CASE apply_pending_weights
  BY <1>5 DEF apply_pending_weights, Sound, WeightConfiguration
<1> QED  BY <1>1, <1>2, <1>3, <1>4, <1>5 DEF Next

\* The signers of a sound configuration meet it together, and nobody does not.
LEMMA IInvQuorum ==
  ASSUME IInv
  PROVE  QuorumAttainable
<1> SUFFICES ASSUME active # None  PROVE QuorumAttainable
  BY DEF QuorumAttainable
<1> DEFINE c == effective_configuration
<1>1. c \in WeightConfiguration /\ Sound(c)
  BY DEF IInv, TypeOK, effective_configuration
<1>2. /\ Cardinality(Keys) \in Nat
      /\ \E f \in [1..Cardinality(Keys) -> Keys] : \A k \in Keys : \E i \in 1..Cardinality(Keys) : f[i] = k
  BY WeightGuardAssumption, FS_CardinalityType
     DEF ExistsBijection, Bijection, Surjection, Injection
<1>3. PICK f \in [1..Cardinality(Keys) -> Keys] :
        \A k \in Keys : \E i \in 1..Cardinality(Keys) : f[i] = k
  BY <1>2
<1>4. {f[i] : i \in DOMAIN f} = Keys
  BY <1>3
<1>5. Collected(f) = SumOf(c.weights, Keys)
  BY <1>4 DEF Collected
<1>6. SumOf(c.weights, Keys) \in Nat
  <2>1. \A k \in Keys : c.weights[k] \in Nat
    BY <1>1 DEF WeightConfiguration
  <2> QED  BY <2>1, WeightGuardAssumption, SumNat
<1>7. Collected(<<>>) = 0
  <2>1. {<<>>[i] : i \in DOMAIN <<>>} = {}
    OBVIOUS
  <2> QED  BY <2>1, SumEmpty DEF Collected
<1>8. c.threshold \in Nat
  BY <1>1, WeightGuardAssumption DEF WeightConfiguration
<1> HIDE DEF c
<1>9. verify_quorum(f) /\ Collected(f) <= U32Max
  BY <1>1, <1>5, <1>6, <1>8 DEF verify_quorum, Sound, c
<1>10. ~verify_quorum(<<>>)
  BY <1>1, <1>7, <1>8 DEF verify_quorum, Sound, c
<1> QED  BY <1>9, <1>10 DEF QuorumAttainable

\* Only the clock changes the weights in force, to those announced, on time.
LEMMA OnNotice ==
  ASSUME IInv, [Next]_vars, active # None,
         effective_configuration' # effective_configuration
  PROVE  /\ now' > now
         /\ pending # None /\ effective_configuration' = pending
         /\ now' = pending.effective_at
<1> USE WeightGuardAssumption DEF IInv, TypeOK, effective_configuration
<1>1. CASE UNCHANGED vars
  BY <1>1 DEF vars
<1>2. CASE Tick
  BY <1>2 DEF Tick, WeightConfiguration
<1>3. ASSUME NEW a \in Accounts, NEW s \in Submissions, NEW t \in 0..U32Max,
             initialize(a, s, t)
      PROVE  FALSE
  BY <1>3 DEF initialize
<1>4. ASSUME NEW a \in Accounts, NEW s \in Submissions, NEW t \in 0..U32Max,
             propose_weight_rotation(a, s, t)
      PROVE  FALSE
  <2>1. pending = None /\ UNCHANGED <<now, active>> /\ pending'.effective_at = now + Cooldown
    BY <1>4 DEF propose_weight_rotation, Configuration
  <2> QED  BY <2>1
<1>5. CASE apply_pending_weights
  BY <1>5 DEF apply_pending_weights
<1> QED  BY <1>1, <1>2, <1>3, <1>4, <1>5 DEF Next

\* Signer weights change only by the passing of time, with the full notice, a
\* cooldown or two apart, and the signers in force can always reach the quorum.
THEOREM WeightsAreSafe == Spec => WeightChangesAreSafe
<1>1. Spec => []IInv
  BY IInvInit, IInvNext, PTL DEF Spec
<1>2. IInv => TypeOK /\ RotationsSpaced
  BY DEF IInv
<1>3. IInv /\ [Next]_vars =>
        (active # None /\ effective_configuration' # effective_configuration => now' > now)
  BY OnNotice
<1>4. IInv /\ [Next]_vars =>
        (active # None /\ effective_configuration' # effective_configuration
          => /\ pending # None
             /\ effective_configuration' = pending
             /\ now' = pending.effective_at)
  BY OnNotice
<1>5. Spec => OnlyTimeChangesWeights
  BY <1>1, <1>3, PTL DEF Spec, OnlyTimeChangesWeights
<1>6. Spec => NoticeGiven
  BY <1>1, <1>4, PTL DEF Spec, NoticeGiven
<1>7. Spec => []TypeOK /\ []QuorumAttainable /\ []RotationsSpaced
  BY <1>1, <1>2, IInvQuorum, PTL
<1> QED  BY <1>5, <1>6, <1>7 DEF WeightChangesAreSafe

-----------------------------------------------------------------------------
(***************************************************************************)
(* Early execution.  Beside types and tally, the invariant dates a         *)
(* proposal by the configuration: the window is fixed by initialize, which *)
(* nobody may call twice, and outlasts the timelock; an identifier handed  *)
(* out is never the next one.                                              *)
(***************************************************************************)

LEMMA EarlySum ==
  ASSUME NEW f, NEW S
  PROVE  Early!SumOf(f, S) = SumOf(f, S)
BY DEF Early!SumOf, SumOf, Early!MapThenSumSet, MapThenSumSet,
       Early!MapThenFoldSet, MapThenFoldSet

\* The instance counts with a copy of the same operators.
LEMMA EarlyCount ==
  ASSUME NEW S
  PROVE  (Early!IsFiniteSet(S) <=> IsFiniteSet(S)) /\ Early!Cardinality(S) = Cardinality(S)
<1>1. Early!IsFiniteSet(S) <=> IsFiniteSet(S)
  BY DEF Early!IsFiniteSet, IsFiniteSet
<1>2. Early!Cardinality(S) = Cardinality(S)
  BY DEF Early!Cardinality, Cardinality, Early!IsFiniteSet, IsFiniteSet
<1> QED
  BY <1>1, <1>2

LEMMA EarlyFacts ==
  /\ IsFiniteSet(EarlyAccounts) /\ None \notin EarlyAccounts /\ None \notin Early!ActiveProposal
  /\ None \notin EarlySupplies /\ None \notin EarlyWindows
  /\ EarlyTimelock \in Nat /\ EarlyMaxVoters \in Nat /\ EarlyMaxProposals \in Nat /\ EarlyMaxTime \in Nat
  /\ EarlyWindows \subseteq Nat /\ EarlySupplies \subseteq Nat /\ EarlyWeights \subseteq Nat
  /\ Early!Ids = 1..EarlyMaxProposals
BY VotersAssumption, EarlyCount DEF Early!EarlyExecutionAssumption, Early!Ids

\* A proposal opened under window w while the next identifier is n.
GoodProposal(p, w, n) ==
  /\ p \in Early!ActiveProposal /\ p.proposal_id < n
  /\ p.voting_ends_at = p.opened_at + w
  /\ p.timelock_ends_at = p.opened_at + EarlyTimelock

EarlyInv ==
  /\ Early!TypeOK
  /\ early_admin # None =>
       early_supply \in EarlySupplies /\ early_window \in EarlyWindows /\ early_window > EarlyTimelock
  /\ early_proposal # None =>
       early_admin # None /\ GoodProposal(early_proposal, early_window, early_next_id)
  /\ Early!TallyMatchesVotes

LEMMA EarlyRecord ==
  \A p \in Early!ActiveProposal :
    /\ p # None /\ p.proposal_id \in Early!Ids /\ p.opened_at \in Nat /\ p.voting_ends_at \in Nat
    /\ p.timelock_ends_at \in Nat /\ p.affirmative_weight \in Nat /\ p.executed \in BOOLEAN
BY EarlyFacts DEF Early!ActiveProposal

LEMMA EarlyShift ==
  \A f \in [EarlyAccounts -> Nat], g \in [EarlyAccounts -> Nat], a \in EarlyAccounts :
    (\A b \in EarlyAccounts : b # a => g[b] = f[b])
    => /\ SumOf(f, EarlyAccounts) \in Nat /\ SumOf(g, EarlyAccounts) \in Nat
       /\ SumOf(g, EarlyAccounts) = SumOf(f, EarlyAccounts) + g[a] - f[a]
BY EarlyFacts, SumShift

LEMMA EarlyNobody ==
  \A f : (\A a \in EarlyAccounts : f[a] = 0) => SumOf(f, EarlyAccounts) = 0
BY EarlyFacts, SumZero

LEMMA EarlyVotedFinite ==
  ASSUME NEW i
  PROVE  IsFiniteSet(Early!Voted(i)) /\ Cardinality(Early!Voted(i)) \in Nat
<1>1. IsFiniteSet(Early!Voted(i))
  BY EarlyFacts, FS_Subset DEF Early!Voted
<1> QED
  BY <1>1, FS_CardinalityType

LEMMA EarlyInvInit == Early!Init => EarlyInv
<1> SUFFICES ASSUME Early!Init PROVE EarlyInv
  OBVIOUS
<1>1. \A i \in Early!Ids : Early!Voted(i) = {}
  BY DEF Early!Init, Early!Voted
<1>2. \A i \in Early!Ids : Cardinality(Early!Voted(i)) <= EarlyMaxVoters
  <2>1. Cardinality({}) = 0 /\ 0 <= EarlyMaxVoters
    <3>1. 0 <= EarlyMaxVoters
      BY EarlyFacts
    <3> QED
      BY <3>1, FS_EmptySet
  <2> QED
    BY <1>1, <2>1
<1>2a. \A i \in Early!Ids : Early!Cardinality(Early!Voted(i)) <= EarlyMaxVoters
  BY <1>2, EarlyCount
<1>3. /\ early_now \in 0..EarlyMaxTime /\ early_next_id \in 1..(EarlyMaxProposals + 1)
      /\ early_voters \in [Early!Ids -> [EarlyAccounts -> EarlyWeights \union {0}]]
  BY EarlyFacts DEF Early!Init
<1>4. Early!TypeOK
  BY <1>2a, <1>3 DEF Early!Init, Early!TypeOK
<1>5. Early!TallyMatchesVotes
  BY <1>1 DEF Early!Init, Early!TallyMatchesVotes
<1> QED
  BY <1>4, <1>5 DEF Early!Init, EarlyInv

\* The votes of a proposal, and how one more changes them.
LEMMA EarlyCast ==
  ASSUME EarlyInv, NEW a \in EarlyAccounts, NEW i \in Early!Ids, NEW w \in EarlyWeights,
         Early!cast_affirmative_vote(a, i, w)
  PROVE  EarlyInv'
<1>0. /\ early_voters \in [Early!Ids -> [EarlyAccounts -> EarlyWeights \union {0}]]
      /\ early_next_id \in Nat /\ w \in Nat /\ w > 0 /\ early_voters[i][a] = 0
      /\ \A j \in Early!Ids : Early!Cardinality(Early!Voted(j)) <= EarlyMaxVoters
  BY EarlyFacts DEF EarlyInv, Early!TypeOK, Early!cast_affirmative_vote
<1>1. /\ early_voters' \in [Early!Ids -> [EarlyAccounts -> EarlyWeights \union {0}]]
      /\ \A j \in Early!Ids : j # i => early_voters'[j] = early_voters[j]
      /\ early_voters'[i][a] = w
      /\ \A b \in EarlyAccounts : b # a => early_voters'[i][b] = early_voters[i][b]
  BY <1>0 DEF Early!cast_affirmative_vote
<1>2. \A j \in Early!Ids : j # i => Early!Voted(j)' = Early!Voted(j)
  BY <1>1 DEF Early!Voted
<1>3. Early!Voted(i)' = Early!Voted(i) \union {a} /\ a \notin Early!Voted(i)
  BY <1>0, <1>1 DEF Early!Voted
<1>4. Early!Cardinality(Early!Voted(i)') <= EarlyMaxVoters
  <2>1. PICK A : A = Early!Voted(i)
    OBVIOUS
  <2>2. IsFiniteSet(A) /\ Cardinality(A) \in Nat /\ a \notin A
    BY <1>3, <2>1, EarlyVotedFinite
  <2>3. Cardinality(A \union {a}) = Cardinality(A) + 1
    BY <2>2, FS_AddElement
  <2>4. Cardinality(A) < EarlyMaxVoters
    BY <2>1, EarlyCount DEF Early!cast_affirmative_vote
  <2>5. Cardinality(A \union {a}) <= EarlyMaxVoters
    BY <2>2, <2>3, <2>4, EarlyFacts
  <2> QED
    BY <1>3, <2>1, <2>5, EarlyCount
<1>5. \A j \in Early!Ids : Early!Cardinality(Early!Voted(j)') <= EarlyMaxVoters
  BY <1>0, <1>2, <1>4
<1> DEFINE p == early_proposal
           q == [early_proposal EXCEPT !.affirmative_weight = @ + w]
<1>6. /\ p # None /\ p.proposal_id = i /\ early_proposal' = q
      /\ UNCHANGED <<early_now, early_admin, early_supply, early_window, early_next_id>>
  BY DEF Early!cast_affirmative_vote
<1>7. p \in Early!ActiveProposal /\ GoodProposal(p, early_window, early_next_id)
  BY <1>6 DEF EarlyInv, GoodProposal
<1>8. /\ q \in Early!ActiveProposal /\ q.proposal_id = p.proposal_id /\ q.opened_at = p.opened_at
      /\ q.voting_ends_at = p.voting_ends_at /\ q.timelock_ends_at = p.timelock_ends_at
      /\ q.affirmative_weight = p.affirmative_weight + w
  BY <1>0, <1>7 DEF Early!ActiveProposal
<1>9. q # None /\ GoodProposal(q, early_window, early_next_id)
  BY <1>7, <1>8, EarlyFacts DEF GoodProposal
<1>10. p.affirmative_weight = SumOf(early_voters[i], EarlyAccounts)
  BY <1>6, EarlySum DEF EarlyInv, Early!TallyMatchesVotes
<1>11. SumOf(early_voters'[i], EarlyAccounts) = SumOf(early_voters[i], EarlyAccounts) + w
  <2>1. PICK f, g : f = early_voters[i] /\ g = early_voters'[i]
    OBVIOUS
  <2>2. f \in [EarlyAccounts -> Nat] /\ g \in [EarlyAccounts -> Nat]
    <3>1. f \in [EarlyAccounts -> EarlyWeights \union {0}] /\ g \in [EarlyAccounts -> EarlyWeights \union {0}]
      BY <1>0, <1>1, <2>1
    <3>2. EarlyWeights \union {0} \subseteq Nat
      BY EarlyFacts
    <3> HIDE <1>0, <1>1, <2>1
    <3> QED
      BY <3>1, <3>2
  <2>3. f[a] = 0 /\ g[a] = w /\ \A b \in EarlyAccounts : b # a => g[b] = f[b]
    BY <1>0, <1>1, <2>1
  <2>4. SumOf(f, EarlyAccounts) \in Nat /\ SumOf(g, EarlyAccounts) = SumOf(f, EarlyAccounts) + g[a] - f[a]
    BY <2>2, <2>3, EarlyShift
  <2> QED
    BY <1>0, <2>1, <2>3, <2>4
<1> HIDE DEF p, q
<1>12. early_proposal' # None => early_proposal'.affirmative_weight =
         Early!SumOf(early_voters'[early_proposal'.proposal_id], EarlyAccounts)
  BY <1>6, <1>8, <1>10, <1>11, EarlySum
<1>13. \A j \in Early!Ids : j >= early_next_id' => Early!Voted(j)' = {}
  <2> SUFFICES ASSUME NEW j \in Early!Ids, j >= early_next_id PROVE Early!Voted(j)' = {}
    BY <1>6
  <2>1. j # i
    BY <1>0, <1>6, <1>7, EarlyFacts DEF GoodProposal
  <2> QED
    BY <1>2, <2>1 DEF EarlyInv, Early!TallyMatchesVotes
<1>14. Early!TallyMatchesVotes'
  BY <1>12, <1>13 DEF Early!TallyMatchesVotes
<1>15. Early!TypeOK'
  BY <1>1, <1>5, <1>6, <1>8 DEF EarlyInv, Early!TypeOK
<1>16. early_admin' # None
  BY <1>6 DEF EarlyInv, p
<1> QED
  BY <1>6, <1>8, <1>9, <1>14, <1>15, <1>16 DEF EarlyInv

LEMMA EarlyInvStep == EarlyInv /\ [Early!Next]_Early!vars => EarlyInv'
<1> SUFFICES ASSUME EarlyInv, [Early!Next]_Early!vars PROVE EarlyInv'
  OBVIOUS
<1>0. /\ early_now \in 0..EarlyMaxTime /\ early_next_id \in 1..(EarlyMaxProposals + 1)
      /\ early_voters \in [Early!Ids -> [EarlyAccounts -> EarlyWeights \union {0}]]
  BY DEF EarlyInv, Early!TypeOK
<1>1. ASSUME UNCHANGED <<early_proposal, early_voters, early_next_id>>,
             early_now' \in 0..EarlyMaxTime, early_admin' \in EarlyAccounts \union {None},
             early_supply' \in EarlySupplies \union {None}, early_window' \in EarlyWindows \union {None},
             early_admin' # None =>
               early_supply' \in EarlySupplies /\ early_window' \in EarlyWindows /\ early_window' > EarlyTimelock,
             early_proposal # None => early_admin' = early_admin /\ early_window' = early_window
      PROVE  EarlyInv'
  <2>1. \A i \in Early!Ids : Early!Voted(i)' = Early!Voted(i)
    BY <1>1 DEF Early!Voted
  <2>2. Early!TypeOK'
    BY <1>1, <2>1 DEF EarlyInv, Early!TypeOK
  <2>3. Early!TallyMatchesVotes'
    BY <1>1, <2>1 DEF EarlyInv, Early!TallyMatchesVotes
  <2>4. early_proposal' # None =>
          early_admin' # None /\ GoodProposal(early_proposal', early_window', early_next_id')
    BY <1>1 DEF EarlyInv
  <2> QED
    BY <1>1, <2>2, <2>3, <2>4 DEF EarlyInv
<1>2. CASE UNCHANGED Early!vars
  BY <1>1, <1>2 DEF Early!vars, EarlyInv, Early!TypeOK
<1>3. CASE Early!Tick
  <2>1. early_now' \in 0..EarlyMaxTime
    BY <1>0, <1>3, EarlyFacts DEF Early!Tick
  <2> QED
    BY <1>1, <1>3, <2>1 DEF Early!Tick, EarlyInv, Early!TypeOK
<1>4. ASSUME NEW a \in EarlyAccounts, NEW t \in EarlySupplies, NEW s \in EarlyWindows,
             Early!initialize(a, t, s)
      PROVE  EarlyInv'
  BY <1>0, <1>1, <1>4 DEF Early!initialize, EarlyInv, Early!TypeOK
<1>5. ASSUME NEW a \in EarlyAccounts, NEW t \in EarlySupplies, Early!set_eligible_supply(a, t)
      PROVE  EarlyInv'
  BY <1>0, <1>1, <1>5 DEF Early!set_eligible_supply, EarlyInv, Early!TypeOK
<1>6. ASSUME NEW a \in EarlyAccounts, Early!open_proposal(a)
      PROVE  EarlyInv'
  <2> DEFINE q == [proposal_id |-> early_next_id, proposer |-> a, opened_at |-> early_now,
                   voting_ends_at |-> early_now + early_window,
                   timelock_ends_at |-> early_now + EarlyTimelock,
                   affirmative_weight |-> 0, executed |-> FALSE, early |-> FALSE]
  <2>1. /\ early_proposal' = q /\ early_next_id' = early_next_id + 1 /\ early_next_id \in Early!Ids
        /\ early_admin # None
        /\ UNCHANGED <<early_now, early_admin, early_supply, early_window, early_voters>>
    BY <1>6 DEF Early!open_proposal
  <2>2. early_window \in Nat /\ early_window > EarlyTimelock
    BY <2>1, EarlyFacts DEF EarlyInv
  <2>3. /\ q \in Early!ActiveProposal /\ q.proposal_id = early_next_id /\ q.opened_at = early_now
        /\ q.voting_ends_at = early_now + early_window
        /\ q.timelock_ends_at = early_now + EarlyTimelock /\ q.affirmative_weight = 0
    BY <1>0, <2>1, <2>2, EarlyFacts DEF Early!ActiveProposal
  <2> HIDE DEF q
  <2>4. GoodProposal(q, early_window, early_next_id + 1)
    BY <1>0, <2>3, EarlyFacts DEF GoodProposal
  <2>5. \A i \in Early!Ids : Early!Voted(i)' = Early!Voted(i)
    BY <2>1 DEF Early!Voted
  <2>6. early_next_id' \in 1..(EarlyMaxProposals + 1)
    BY <1>0, <2>1, EarlyFacts
  <2>7. Early!TypeOK'
    BY <2>1, <2>3, <2>5, <2>6 DEF EarlyInv, Early!TypeOK
  <2>8. \A i \in Early!Ids : i >= early_next_id' => Early!Voted(i)' = {}
    <3> SUFFICES ASSUME NEW i \in Early!Ids, i >= early_next_id + 1 PROVE Early!Voted(i)' = {}
      BY <2>1
    <3>1. i >= early_next_id
      BY <1>0, EarlyFacts
    <3> QED
      BY <2>5, <3>1 DEF EarlyInv, Early!TallyMatchesVotes
  <2>9. SumOf(early_voters[early_next_id], EarlyAccounts) = 0
    <3>1. early_next_id >= early_next_id
      BY <1>0, EarlyFacts
    <3>2. Early!Voted(early_next_id) = {}
      BY <2>1, <3>1 DEF EarlyInv, Early!TallyMatchesVotes
    <3>3. \A b \in EarlyAccounts : early_voters[early_next_id][b] \in EarlyWeights \union {0}
      BY <1>0, <2>1
    <3>3a. \A w \in EarlyWeights \union {0} : w \in Nat
      BY EarlyFacts
    <3>4. \A b \in EarlyAccounts : early_voters[early_next_id][b] = 0
      BY <3>2, <3>3, <3>3a DEF Early!Voted
    <3> QED
      BY <3>4, EarlyNobody
  <2>10. Early!TallyMatchesVotes'
    BY <2>1, <2>3, <2>8, <2>9, EarlySum DEF Early!TallyMatchesVotes
  <2>11. early_proposal' # None =>
           early_admin' # None /\ GoodProposal(early_proposal', early_window', early_next_id')
    BY <2>1, <2>4
  <2>12. early_admin' # None =>
           early_supply' \in EarlySupplies /\ early_window' \in EarlyWindows /\ early_window' > EarlyTimelock
    BY <2>1 DEF EarlyInv
  <2> QED
    BY <2>7, <2>10, <2>11, <2>12 DEF EarlyInv
<1>7. ASSUME NEW a \in EarlyAccounts, NEW i \in Early!Ids, NEW w \in EarlyWeights,
             Early!cast_affirmative_vote(a, i, w)
      PROVE  EarlyInv'
  BY <1>7, EarlyCast
<1>8. ASSUME NEW i \in Early!Ids, Early!trigger_early_execution(i)
      PROVE  EarlyInv'
  <2> DEFINE p == early_proposal
             q == [early_proposal EXCEPT !.executed = TRUE, !.early = TRUE]
  <2>1. /\ p # None /\ early_proposal' = q
        /\ UNCHANGED <<early_now, early_admin, early_supply, early_window, early_next_id, early_voters>>
    BY <1>8 DEF Early!trigger_early_execution, Early!verify_early_execution
  <2>2. p \in Early!ActiveProposal /\ GoodProposal(p, early_window, early_next_id)
    BY <2>1 DEF EarlyInv, GoodProposal
  <2>3. /\ q \in Early!ActiveProposal /\ q.proposal_id = p.proposal_id /\ q.opened_at = p.opened_at
        /\ q.voting_ends_at = p.voting_ends_at /\ q.timelock_ends_at = p.timelock_ends_at
        /\ q.affirmative_weight = p.affirmative_weight
    BY <2>2 DEF Early!ActiveProposal
  <2>4. GoodProposal(q, early_window, early_next_id)
    BY <2>2, <2>3 DEF GoodProposal
  <2> HIDE DEF q
  <2>5. \A j \in Early!Ids : Early!Voted(j)' = Early!Voted(j)
    BY <2>1 DEF Early!Voted
  <2>6. Early!TypeOK'
    BY <2>1, <2>3, <2>5 DEF EarlyInv, Early!TypeOK
  <2>7. Early!TallyMatchesVotes'
    BY <2>1, <2>3, <2>5 DEF EarlyInv, Early!TallyMatchesVotes
  <2>8. early_proposal' # None =>
          early_admin' # None /\ GoodProposal(early_proposal', early_window', early_next_id')
    BY <2>1, <2>4 DEF EarlyInv
  <2> QED
    BY <2>1, <2>6, <2>7, <2>8 DEF EarlyInv
<1> QED
  BY <1>2, <1>3, <1>4, <1>5, <1>6, <1>7, <1>8 DEF Early!Next

\* The run's behaviours are behaviours of the proposals.
LEMMA EarlyIsPart == MCSpec => Early!Spec
<1>1. MCInit => Early!Init
  BY DEF MCInit
<1>2. [MCNext]_allVars => [Early!Next]_Early!vars
  BY DEF MCNext, VoteNext, VouchNext, allVars, voteVars, earlyVars, Early!vars
<1> QED
  BY <1>1, <1>2, PTL DEF MCSpec, Early!Spec

LEMMA EarlyAlways == Early!Spec => []EarlyInv
  BY EarlyInvInit, EarlyInvStep, PTL DEF Early!Spec

\* A weight above the required one is more than three quarters of the supply,
\* and a smaller supply requires no more.
LEMMA EarlyRequired ==
  ASSUME NEW s \in Nat, NEW t \in Nat, NEW w \in Nat
  PROVE  LET req(n) == Early!early_execution_required_weight(n)
         IN  /\ w > req(s) => 4 * w > 3 * s
             /\ t <= s => req(t) <= req(s)
             /\ req(s) \in Nat
<1> DEFINE q == (s * 7500) \div 10000
           r == (t * 7500) \div 10000
<1>1. q \in Int /\ 10000 * q <= s * 7500 /\ s * 7500 < 10000 * q + 10000 /\ q >= 0
  OBVIOUS
<1>2. r \in Int /\ 10000 * r <= t * 7500 /\ t * 7500 < 10000 * r + 10000
  OBVIOUS
<1>3. Early!early_execution_required_weight(s) = q /\ Early!early_execution_required_weight(t) = r
  BY DEF Early!early_execution_required_weight, Early!EARLY_EXECUTION_THRESHOLD_BPS, Early!BPS_DENOMINATOR
<1> HIDE DEF q, r
<1>4. w > q => 4 * w > 3 * s
  BY <1>1
<1>5. t <= s => r <= q
  BY <1>1, <1>2
<1> QED
  BY <1>1, <1>3, <1>4, <1>5

\* What a step makes of a proposal that stays in the slot.
LEMMA EarlyProposalStep ==
  ASSUME EarlyInv, [Early!Next]_Early!vars, early_proposal # None, early_proposal' # None,
         early_proposal'.proposal_id = early_proposal.proposal_id
  PROVE  \/ UNCHANGED <<early_proposal, early_supply>>
         \/ /\ UNCHANGED early_proposal /\ early_supply' \in EarlySupplies \ {0}
         \/ /\ \E w \in EarlyWeights :
                 early_proposal' = [early_proposal EXCEPT !.affirmative_weight = @ + w]
            /\ UNCHANGED early_supply
         \/ /\ Early!verify_early_execution(early_proposal.proposal_id)
            /\ early_proposal' = [early_proposal EXCEPT !.executed = TRUE, !.early = TRUE]
            /\ UNCHANGED early_supply
<1>1. CASE UNCHANGED Early!vars \/ Early!Tick
  BY <1>1 DEF Early!vars, Early!Tick
<1>2. ASSUME NEW a \in EarlyAccounts, NEW t \in EarlySupplies, NEW s \in EarlyWindows,
             Early!initialize(a, t, s)
      PROVE  FALSE
  BY <1>2 DEF Early!initialize, EarlyInv
<1>3. ASSUME NEW a \in EarlyAccounts, NEW t \in EarlySupplies, Early!set_eligible_supply(a, t)
      PROVE  early_supply' \in EarlySupplies \ {0} /\ UNCHANGED early_proposal
  BY <1>3 DEF Early!set_eligible_supply
<1>4. ASSUME NEW a \in EarlyAccounts, Early!open_proposal(a)
      PROVE  FALSE
  <2>1. early_proposal'.proposal_id = early_next_id
    BY <1>4 DEF Early!open_proposal
  <2>2. early_proposal.proposal_id < early_next_id /\ early_next_id \in Nat
    BY EarlyFacts DEF EarlyInv, GoodProposal, Early!TypeOK
  <2>3. early_proposal.proposal_id \in Nat
    BY EarlyFacts, EarlyRecord DEF EarlyInv, GoodProposal
  <2> QED
    BY <2>1, <2>2, <2>3
<1>5. ASSUME NEW a \in EarlyAccounts, NEW i \in Early!Ids, NEW w \in EarlyWeights,
             Early!cast_affirmative_vote(a, i, w)
      PROVE  /\ early_proposal' = [early_proposal EXCEPT !.affirmative_weight = @ + w]
             /\ UNCHANGED early_supply
  BY <1>5 DEF Early!cast_affirmative_vote
<1>6. ASSUME NEW i \in Early!Ids, Early!trigger_early_execution(i)
      PROVE  /\ Early!verify_early_execution(early_proposal.proposal_id)
             /\ early_proposal' = [early_proposal EXCEPT !.executed = TRUE, !.early = TRUE]
             /\ UNCHANGED early_supply
  BY <1>6 DEF Early!trigger_early_execution, Early!verify_early_execution
<1> QED
  BY <1>1, <1>2, <1>3, <1>4, <1>5, <1>6 DEF Early!Next

LEMMA EarlyBySupermajority ==
  ASSUME EarlyInv, [Early!Next]_Early!vars, early_proposal # None, early_proposal' # None,
         early_proposal'.proposal_id = early_proposal.proposal_id,
         ~early_proposal.executed, early_proposal'.executed
  PROVE  /\ 4 * early_proposal'.affirmative_weight > 3 * early_supply
         /\ early_now - early_proposal.opened_at >= EarlyTimelock
         /\ early_now - early_proposal.opened_at < early_window
<1>0. /\ early_proposal \in Early!ActiveProposal
      /\ early_proposal.voting_ends_at = early_proposal.opened_at + early_window
      /\ early_proposal.timelock_ends_at = early_proposal.opened_at + EarlyTimelock
      /\ early_supply \in Nat /\ early_window \in Nat /\ early_now \in Nat
  BY EarlyFacts DEF EarlyInv, GoodProposal, Early!TypeOK
<1>1. early_proposal.affirmative_weight \in Nat /\ early_proposal.opened_at \in Nat
  BY <1>0, EarlyRecord
<1>2. /\ Early!verify_early_execution(early_proposal.proposal_id)
      /\ early_proposal' = [early_proposal EXCEPT !.executed = TRUE, !.early = TRUE]
  <2>1. ASSUME NEW w \in EarlyWeights,
               early_proposal' = [early_proposal EXCEPT !.affirmative_weight = @ + w]
        PROVE  FALSE
    <3>1. early_proposal'.executed = early_proposal.executed
      BY <1>0, <2>1 DEF Early!ActiveProposal
    <3> QED
      BY <3>1
  <2>2. early_proposal' # early_proposal
    OBVIOUS
  <2> QED
    BY <2>1, <2>2, EarlyProposalStep
<1>3. early_proposal'.affirmative_weight = early_proposal.affirmative_weight
  BY <1>0, <1>2 DEF Early!ActiveProposal
<1>4. /\ early_now < early_proposal.voting_ends_at /\ early_now >= early_proposal.timelock_ends_at
      /\ Early!exceeds_early_execution_threshold(early_proposal.affirmative_weight, early_supply)
  BY <1>2 DEF Early!verify_early_execution, Early!evaluate
<1>5. 4 * early_proposal.affirmative_weight > 3 * early_supply
  BY <1>0, <1>1, <1>4, EarlyRequired DEF Early!exceeds_early_execution_threshold
<1> QED
  BY <1>0, <1>1, <1>3, <1>4, <1>5, EarlyFacts

LEMMA EarlyThresholdKept ==
  ASSUME EarlyInv, [Early!Next]_Early!vars, early_proposal # None, early_proposal' # None,
         early_proposal'.proposal_id = early_proposal.proposal_id,
         Early!evaluate(early_proposal).threshold_met, ~Early!evaluate(early_proposal)'.threshold_met
  PROVE  early_supply' > early_supply
<1> DEFINE over(w, s) == Early!exceeds_early_execution_threshold(w, s)
<1>0. /\ early_proposal \in Early!ActiveProposal /\ early_supply \in Nat
      /\ early_proposal.affirmative_weight \in Nat
  BY EarlyFacts, EarlyRecord DEF EarlyInv, GoodProposal
<1>1. /\ over(early_proposal.affirmative_weight, early_supply)
      /\ ~over(early_proposal'.affirmative_weight, early_supply')
  BY DEF Early!evaluate
<1>2. CASE UNCHANGED <<early_proposal, early_supply>>
  BY <1>1, <1>2
<1>3. CASE early_proposal' = early_proposal /\ early_supply' \in EarlySupplies \ {0}
  <2>1. early_supply' \in Nat /\ early_supply' # 0
    BY <1>3, EarlyFacts
  <2> SUFFICES ASSUME ~ (early_supply' > early_supply) PROVE FALSE
    OBVIOUS
  <2>2. PICK s \in Nat, t \in Nat, w \in Nat :
          s = early_supply /\ t = early_supply' /\ w = early_proposal.affirmative_weight
    BY <1>0, <2>1
  <2>3. t <= s
    BY <2>2
  <2>4. Early!early_execution_required_weight(t) <= Early!early_execution_required_weight(s)
        /\ Early!early_execution_required_weight(s) \in Nat
        /\ Early!early_execution_required_weight(t) \in Nat
    BY <2>3, EarlyRequired
  <2>5. over(w, s) /\ ~over(w, t) /\ t # 0
    BY <1>1, <1>3, <2>1, <2>2
  <2> QED
    BY <2>4, <2>5 DEF Early!exceeds_early_execution_threshold
<1>4. ASSUME NEW w \in EarlyWeights, early_supply' = early_supply,
             early_proposal' = [early_proposal EXCEPT !.affirmative_weight = @ + w]
      PROVE  FALSE
  <2>1. early_proposal'.affirmative_weight = early_proposal.affirmative_weight + w /\ w \in Nat
    BY <1>0, <1>4, EarlyFacts DEF Early!ActiveProposal
  <2>2. Early!early_execution_required_weight(early_supply) \in Nat
    BY <1>0, EarlyRequired
  <2> QED
    BY <1>0, <1>1, <1>4, <2>1, <2>2 DEF Early!exceeds_early_execution_threshold
<1>5. ASSUME early_supply' = early_supply,
             early_proposal' = [early_proposal EXCEPT !.executed = TRUE, !.early = TRUE]
      PROVE  FALSE
  <2>1. early_proposal'.affirmative_weight = early_proposal.affirmative_weight
    BY <1>0, <1>5 DEF Early!ActiveProposal
  <2> QED
    BY <1>1, <1>5, <2>1
<1> QED
  BY <1>2, <1>3, <1>4, <1>5, EarlyProposalStep

\* The state predicates, from the invariant.
LEMMA EarlyInvShows ==
  EarlyInv => Early!TypeOK /\ Early!TallyMatchesVotes /\ Early!StatusAgreesWithTrigger
              /\ Early!EarlyPathReachable
<1> SUFFICES ASSUME EarlyInv
             PROVE  Early!StatusAgreesWithTrigger /\ Early!EarlyPathReachable
  BY DEF EarlyInv
<1>1. ASSUME early_proposal # None
      PROVE  /\ early_proposal \in Early!ActiveProposal
             /\ early_proposal.voting_ends_at = early_proposal.opened_at + early_window
             /\ early_proposal.timelock_ends_at = early_proposal.opened_at + EarlyTimelock
             /\ early_window \in Nat /\ early_now \in Nat /\ early_window > EarlyTimelock
             /\ early_proposal.opened_at \in Nat /\ early_proposal.voting_ends_at \in Nat
             /\ early_proposal.timelock_ends_at \in Nat
  BY <1>1, EarlyFacts, EarlyRecord DEF EarlyInv, GoodProposal, Early!TypeOK
<1>2. Early!EarlyPathReachable
  BY <1>1, EarlyFacts DEF Early!EarlyPathReachable
<1>3. ASSUME NEW i \in Early!Ids, early_proposal # None, early_proposal.proposal_id = i
      PROVE  Early!verify_early_execution(i) <=>
               /\ ~early_proposal.executed
               /\ Early!evaluate(early_proposal).threshold_met
               /\ Early!evaluate(early_proposal).voting_window_remaining > 0
               /\ Early!evaluate(early_proposal).timelock_remaining = 0
  <2>1. Early!evaluate(early_proposal).voting_window_remaining > 0 <=> early_now < early_proposal.voting_ends_at
    BY <1>1, <1>3 DEF Early!evaluate, Early!Saturating
  <2>2. Early!evaluate(early_proposal).timelock_remaining = 0 <=> early_now >= early_proposal.timelock_ends_at
    BY <1>1, <1>3 DEF Early!evaluate, Early!Saturating
  <2> QED
    BY <1>3, <2>1, <2>2 DEF Early!verify_early_execution
<1> QED
  BY <1>2, <1>3 DEF Early!StatusAgreesWithTrigger

\* For any accounts, weights, supplies, windows and timelock: the early path is
\* taken only with more than three quarters of the supply, after the timelock
\* and inside the window; the tally is the votes cast, and a proposal over the
\* threshold falls back only when the supply is raised.
THEOREM EarlyIsEarned == MCSpec => EarlyExecutionIsEarned
<1>1. EarlyInv /\ [Early!Next]_Early!vars =>
        \A id \in Early!Ids :
          /\ early_proposal # None /\ early_proposal' # None
          /\ early_proposal.proposal_id = id /\ early_proposal'.proposal_id = id
          /\ ~early_proposal.executed /\ early_proposal'.executed
          => /\ 4 * early_proposal'.affirmative_weight > 3 * early_supply
             /\ early_now - early_proposal.opened_at >= EarlyTimelock
             /\ early_now - early_proposal.opened_at < early_window
  BY EarlyBySupermajority
<1>2. EarlyInv /\ [Early!Next]_Early!vars =>
        \A id \in Early!Ids :
          /\ early_proposal # None /\ early_proposal' # None
          /\ early_proposal.proposal_id = id /\ early_proposal'.proposal_id = id
          /\ Early!evaluate(early_proposal).threshold_met
          /\ ~Early!evaluate(early_proposal)'.threshold_met
          => early_supply' > early_supply
  BY EarlyThresholdKept
<1>3. Early!Spec => Early!EarlyOnlyBySupermajority
  BY <1>1, EarlyAlways, PTL DEF Early!Spec, Early!EarlyOnlyBySupermajority
<1>4. Early!Spec => Early!ThresholdLostOnlyToSupply
  BY <1>2, EarlyAlways, PTL DEF Early!Spec, Early!ThresholdLostOnlyToSupply
<1> QED
  BY <1>3, <1>4, EarlyInvShows, EarlyIsPart, EarlyAlways, PTL DEF EarlyExecutionIsEarned

-----------------------------------------------------------------------------
(***************************************************************************)
(* Delegated votes.  The invariant for all calls says that an account that *)
(* delegates has no direct weight.  Under the default configuration and    *)
(* without syncs three more facts hold together: each stake is worth its   *)
(* amount, an account's weight and delegation add up to its stake, and a   *)
(* delegate's total is the sum of what was given to it; the last makes the *)
(* saturating subtractions of the code exact.                              *)
(***************************************************************************)

LEMMA DelegSum ==
  ASSUME NEW f, NEW S
  PROVE  Delegation!SumOf(f, S) = SumOf(f, S)
BY DEF Delegation!SumOf, SumOf, Delegation!MapThenSumSet, MapThenSumSet,
       Delegation!MapThenFoldSet, MapThenFoldSet

LEMMA DelegFacts ==
  /\ IsFiniteSet(DelegStakers) /\ None \notin Delegation!Delegation
  /\ DelegAmounts \subseteq Nat /\ DelegRates \subseteq Nat /\ DelegMinimums \subseteq Nat
  /\ DelegScale \in Nat \ {0} /\ DelegMaxStake \in Nat /\ DelegMaxWeight \in Nat
<1>1. Delegation!IsFiniteSet(DelegStakers) <=> IsFiniteSet(DelegStakers)
  BY DEF Delegation!IsFiniteSet, IsFiniteSet
<1> QED
  BY <1>1, VotersAssumption DEF Delegation!VotingDelegationAssumption

\* What entry e of the delegations gives away, and what of it to d.
AmountOf(e) == IF e # None THEN e.amount ELSE 0
GivenTo(e, d) == IF e # None /\ e.delegate = d THEN e.amount ELSE 0

\* Entry e of account s next to its direct weight v.
GoodEntry(s, e, v) ==
  /\ e \in Delegation!Delegation \union {None} /\ v \in Nat
  /\ e # None => e.delegate # s /\ e.amount # 0 /\ v = 0

DelegInv ==
  /\ deleg_config \in Delegation!Config
  /\ deleg_stake \in [DelegStakers -> 0..DelegMaxStake]
  /\ deleg_weight \in [DelegStakers -> Nat]
  /\ deleg_delegated \in [DelegStakers -> Nat]
  /\ deleg_delegation \in [DelegStakers -> Delegation!Delegation \union {None}]
  /\ \A s \in DelegStakers : GoodEntry(s, deleg_delegation[s], deleg_weight[s])

DelegatedTo(d) == SumOf([s \in DelegStakers |-> GivenTo(deleg_delegation[s], d)], DelegStakers)

DefaultInv ==
  /\ deleg_config = Delegation!DefaultConfig
  /\ \A s \in DelegStakers : deleg_weight[s] + AmountOf(deleg_delegation[s]) = deleg_stake[s]
  /\ \A d \in DelegStakers : deleg_delegated[d] = DelegatedTo(d)

LEMMA DelegEntry ==
  \A e \in Delegation!Delegation \union {None} :
    /\ AmountOf(e) \in Nat /\ \A d : GivenTo(e, d) \in Nat /\ GivenTo(e, d) <= AmountOf(e)
    /\ e # None => e.delegate \in DelegStakers /\ e.amount \in Nat
BY DelegFacts DEF Delegation!Delegation, AmountOf, GivenTo

LEMMA DelegShift ==
  \A f \in [DelegStakers -> Nat], g \in [DelegStakers -> Nat], s \in DelegStakers :
    (\A t \in DelegStakers : t # s => g[t] = f[t])
    => /\ SumOf(f, DelegStakers) \in Nat /\ SumOf(g, DelegStakers) \in Nat
       /\ SumOf(g, DelegStakers) = SumOf(f, DelegStakers) + g[s] - f[s]
BY DelegFacts, SumShift

LEMMA DelegPart ==
  \A f \in [DelegStakers -> Nat], s \in DelegStakers : f[s] <= SumOf(f, DelegStakers)
BY DelegFacts, SumBound

\* What s gave to d is part of the total of d.
LEMMA DelegCovered ==
  ASSUME DelegInv, DefaultInv, NEW s \in DelegStakers, NEW d \in DelegStakers
  PROVE  GivenTo(deleg_delegation[s], d) <= deleg_delegated[d]
<1> DEFINE f == [t \in DelegStakers |-> GivenTo(deleg_delegation[t], d)]
<1>1. f \in [DelegStakers -> Nat] /\ f[s] = GivenTo(deleg_delegation[s], d)
  BY DelegEntry DEF DelegInv
<1>2. deleg_delegated[d] = SumOf(f, DelegStakers)
  BY DEF DefaultInv, DelegatedTo
<1> HIDE DEF f
<1> QED
  BY <1>1, <1>2, DelegPart

\* The invariants in the words of the module.
LEMMA DelegInvShows ==
  /\ DelegInv => Delegation!TypeOK /\ Delegation!NeverBothWays
  /\ DelegInv /\ DefaultInv => Delegation!DelegatedTotalsExact /\ Delegation!StakeVotesOnce
<1>1. ASSUME DelegInv PROVE Delegation!TypeOK /\ Delegation!NeverBothWays
  BY <1>1 DEF DelegInv, GoodEntry, Delegation!TypeOK, Delegation!NeverBothWays, Delegation!Delegating
<1>2. ASSUME DefaultInv PROVE Delegation!StakeVotesOnce
  BY <1>2 DEF DefaultInv, AmountOf, Delegation!StakeVotesOnce, Delegation!Delegating
<1>3. ASSUME DefaultInv PROVE Delegation!DelegatedTotalsExact
  <2> SUFFICES ASSUME NEW d \in DelegStakers
               PROVE  deleg_delegated[d] =
                        Delegation!SumOf([s \in DelegStakers |-> Delegation!Given(s, d)], DelegStakers)
    BY DEF Delegation!DelegatedTotalsExact
  <2>1. [s \in DelegStakers |-> Delegation!Given(s, d)] =
        [s \in DelegStakers |-> GivenTo(deleg_delegation[s], d)]
    BY DEF Delegation!Given, Delegation!Delegating, GivenTo
  <2>2. deleg_delegated[d] = SumOf([s \in DelegStakers |-> GivenTo(deleg_delegation[s], d)], DelegStakers)
    BY <1>3 DEF DefaultInv, DelegatedTo
  <2> QED
    BY <2>1, <2>2, DelegSum
<1> QED
  BY <1>1, <1>2, <1>3

LEMMA DelegInit == Delegation!Init => DelegInv /\ DefaultInv
<1> SUFFICES ASSUME Delegation!Init PROVE DelegInv /\ DefaultInv
  OBVIOUS
<1>1. Delegation!DefaultConfig \in Delegation!Config
  BY DelegFacts DEF Delegation!DefaultConfig, Delegation!Config
<1>2. DelegInv
  BY <1>1, DelegFacts DEF Delegation!Init, DelegInv, GoodEntry
<1>3. ASSUME NEW d \in DelegStakers PROVE DelegatedTo(d) = 0
  <2> DEFINE f == [s \in DelegStakers |-> GivenTo(deleg_delegation[s], d)]
  <2>1. \A s \in DelegStakers : f[s] = 0
    BY DEF Delegation!Init, GivenTo
  <2>2. DelegatedTo(d) = SumOf(f, DelegStakers)
    BY DEF DelegatedTo
  <2> HIDE DEF f
  <2> QED
    BY <2>1, <2>2, DelegFacts, SumZero
<1>4. DefaultInv
  BY <1>3 DEF Delegation!Init, DefaultInv, AmountOf
<1> QED
  BY <1>2, <1>4

\* A call on behalf of s writes entry e, weight v and stake k for s and the
\* totals g.
Writes(s, e, v, k, g) ==
  /\ deleg_delegation' = [deleg_delegation EXCEPT ![s] = e]
  /\ deleg_weight' = [deleg_weight EXCEPT ![s] = v]
  /\ deleg_stake' = [deleg_stake EXCEPT ![s] = k]
  /\ deleg_delegated' = g

LEMMA DelegWrite ==
  ASSUME DelegInv, NEW s \in DelegStakers, NEW e, NEW v, GoodEntry(s, e, v),
         NEW k \in 0..DelegMaxStake, NEW g \in [DelegStakers -> Nat], Writes(s, e, v, k, g),
         deleg_config' = deleg_config
  PROVE  DelegInv'
<1>1. e \in Delegation!Delegation \union {None} /\ v \in Nat
  BY DEF GoodEntry
<1>2. /\ deleg_stake' \in [DelegStakers -> 0..DelegMaxStake] /\ deleg_weight' \in [DelegStakers -> Nat]
      /\ deleg_delegation' \in [DelegStakers -> Delegation!Delegation \union {None}]
      /\ deleg_delegated' \in [DelegStakers -> Nat]
  BY <1>1 DEF DelegInv, Writes
<1>3. \A t \in DelegStakers : GoodEntry(t, deleg_delegation'[t], deleg_weight'[t])
  BY DEF DelegInv, Writes
<1> QED
  BY <1>2, <1>3 DEF DelegInv

LEMMA DefaultWrite ==
  ASSUME DelegInv, DefaultInv, NEW s \in DelegStakers, NEW e, NEW v, GoodEntry(s, e, v),
         NEW k \in 0..DelegMaxStake, NEW g \in [DelegStakers -> Nat], Writes(s, e, v, k, g),
         deleg_config' = deleg_config, v + AmountOf(e) = k,
         \A d \in DelegStakers :
           g[d] = deleg_delegated[d] + GivenTo(e, d) - GivenTo(deleg_delegation[s], d)
  PROVE  DefaultInv'
<1>1. e \in Delegation!Delegation \union {None}
  BY DEF GoodEntry
<1>2. /\ deleg_delegation \in [DelegStakers -> Delegation!Delegation \union {None}]
      /\ deleg_delegation' \in [DelegStakers -> Delegation!Delegation \union {None}]
      /\ deleg_delegation'[s] = e
      /\ \A t \in DelegStakers : t # s => deleg_delegation'[t] = deleg_delegation[t]
  BY <1>1 DEF DelegInv, Writes
<1>3. \A t \in DelegStakers : deleg_weight'[t] + AmountOf(deleg_delegation'[t]) = deleg_stake'[t]
  BY <1>2 DEF DelegInv, DefaultInv, Writes
<1>4. ASSUME NEW d \in DelegStakers PROVE deleg_delegated'[d] = DelegatedTo(d)'
  <2> DEFINE f == [t \in DelegStakers |-> GivenTo(deleg_delegation[t], d)]
             h == [t \in DelegStakers |-> GivenTo(deleg_delegation'[t], d)]
  <2>1. /\ f \in [DelegStakers -> Nat] /\ h \in [DelegStakers -> Nat]
        /\ \A t \in DelegStakers : t # s => h[t] = f[t]
        /\ f[s] = GivenTo(deleg_delegation[s], d) /\ h[s] = GivenTo(e, d)
    BY <1>2, DelegEntry
  <2>2. deleg_delegated[d] = SumOf(f, DelegStakers) /\ DelegatedTo(d)' = SumOf(h, DelegStakers)
    BY DEF DefaultInv, DelegatedTo
  <2>3. deleg_delegated'[d] = deleg_delegated[d] + GivenTo(e, d) - GivenTo(deleg_delegation[s], d)
    BY DEF Writes
  <2> HIDE DEF f, h
  <2>4. SumOf(h, DelegStakers) = SumOf(f, DelegStakers) + h[s] - f[s]
    BY <2>1, DelegShift
  <2> QED
    BY <2>1, <2>2, <2>3, <2>4
<1> QED
  BY <1>3, <1>4 DEF DefaultInv

\* AddWeight is exact.
LEMMA AddWeightWrites ==
  ASSUME DelegInv, NEW s \in DelegStakers, NEW w \in Nat, Delegation!AddWeight(s, w)
  PROVE  \E e, v, g :
           /\ GoodEntry(s, e, v) /\ g \in [DelegStakers -> Nat]
           /\ deleg_delegation' = [deleg_delegation EXCEPT ![s] = e]
           /\ deleg_weight' = [deleg_weight EXCEPT ![s] = v] /\ deleg_delegated' = g
           /\ v + AmountOf(e) = deleg_weight[s] + AmountOf(deleg_delegation[s]) + w
           /\ \A d \in DelegStakers :
                g[d] = deleg_delegated[d] + GivenTo(e, d) - GivenTo(deleg_delegation[s], d)
<1>0. /\ deleg_delegation \in [DelegStakers -> Delegation!Delegation \union {None}]
      /\ deleg_weight \in [DelegStakers -> Nat] /\ deleg_delegated \in [DelegStakers -> Nat]
      /\ GoodEntry(s, deleg_delegation[s], deleg_weight[s])
  BY DEF DelegInv
<1>1. CASE Delegation!Delegating(s)
  <2> DEFINE o == deleg_delegation[s]
             e == [deleg_delegation[s] EXCEPT !.amount = @ + w]
             g == [deleg_delegated EXCEPT ![o.delegate] = @ + w]
  <2>1. /\ o # None /\ o \in Delegation!Delegation /\ o.delegate \in DelegStakers /\ o.amount \in Nat
        /\ o.delegate # s /\ o.amount # 0 /\ deleg_weight[s] = 0
    BY <1>0, <1>1, DelegEntry DEF Delegation!Delegating, GoodEntry
  <2>2. e \in Delegation!Delegation /\ e.delegate = o.delegate /\ e.amount = o.amount + w /\ e # None
    BY <2>1, DelegFacts DEF Delegation!Delegation
  <2>3. /\ deleg_delegation' = [deleg_delegation EXCEPT ![s] = e] /\ deleg_delegated' = g
        /\ deleg_weight' = [deleg_weight EXCEPT ![s] = deleg_weight[s]]
    BY <1>0, <1>1 DEF Delegation!AddWeight
  <2>4. g \in [DelegStakers -> Nat]
    BY <1>0, <2>1
  <2>5. \A d \in DelegStakers : g[d] = deleg_delegated[d] + (IF d = o.delegate THEN w ELSE 0)
    BY <1>0, <2>1
  <2> HIDE DEF e, g, o
  <2>6. \A d \in DelegStakers : g[d] = deleg_delegated[d] + GivenTo(e, d) - GivenTo(o, d)
    BY <1>0, <2>1, <2>2, <2>5 DEF GivenTo
  <2>7. GoodEntry(s, e, deleg_weight[s]) /\ AmountOf(e) = AmountOf(o) + w /\ AmountOf(o) \in Nat
    BY <2>1, <2>2 DEF GoodEntry, AmountOf
  <2>8. deleg_weight[s] + AmountOf(e) = deleg_weight[s] + AmountOf(o) + w
    BY <1>0, <2>7
  <2> QED
    BY <2>3, <2>4, <2>6, <2>7, <2>8 DEF o
<1>2. CASE ~Delegation!Delegating(s)
  <2> DEFINE v == deleg_weight[s] + w
  <2>1. deleg_delegation[s] = None
    BY <1>2 DEF Delegation!Delegating
  <2>2. /\ deleg_delegation' = [deleg_delegation EXCEPT ![s] = None] /\ deleg_delegated' = deleg_delegated
        /\ deleg_weight' = [deleg_weight EXCEPT ![s] = v]
    BY <1>0, <1>2, <2>1 DEF Delegation!AddWeight
  <2>3. GoodEntry(s, None, v) /\ AmountOf(None) = 0 /\ (\A d : GivenTo(None, d) = 0) /\ v \in Nat
    BY <1>0 DEF GoodEntry, AmountOf, GivenTo
  <2>4. v + AmountOf(None) = deleg_weight[s] + AmountOf(deleg_delegation[s]) + w
    BY <1>0, <2>1, <2>3
  <2>5. \A d \in DelegStakers :
          deleg_delegated[d] = deleg_delegated[d] + GivenTo(None, d) - GivenTo(deleg_delegation[s], d)
    BY <1>0, <2>1, <2>3
  <2>6. deleg_delegated \in [DelegStakers -> Nat]
    BY <1>0
  <2> HIDE DEF v
  <2> WITNESS None, v, deleg_delegated
  <2> QED
    BY <2>2, <2>3, <2>4, <2>5, <2>6
<1> QED
  BY <1>1, <1>2

\* RemoveWeight is exact when there is enough to remove.
LEMMA RemoveWeightWrites ==
  ASSUME DelegInv, NEW s \in DelegStakers, NEW w \in Nat, Delegation!RemoveWeight(s, w)
  PROVE  \E e, v, g :
           /\ GoodEntry(s, e, v) /\ g \in [DelegStakers -> Nat]
           /\ deleg_delegation' = [deleg_delegation EXCEPT ![s] = e]
           /\ deleg_weight' = [deleg_weight EXCEPT ![s] = v] /\ deleg_delegated' = g
           /\ /\ w <= deleg_weight[s] + AmountOf(deleg_delegation[s])
              /\ \A d \in DelegStakers : GivenTo(deleg_delegation[s], d) <= deleg_delegated[d]
              => /\ v + AmountOf(e) = deleg_weight[s] + AmountOf(deleg_delegation[s]) - w
                 /\ \A d \in DelegStakers :
                      g[d] = deleg_delegated[d] + GivenTo(e, d) - GivenTo(deleg_delegation[s], d)
<1>0. /\ deleg_delegation \in [DelegStakers -> Delegation!Delegation \union {None}]
      /\ deleg_weight \in [DelegStakers -> Nat] /\ deleg_delegated \in [DelegStakers -> Nat]
      /\ GoodEntry(s, deleg_delegation[s], deleg_weight[s])
  BY DEF DelegInv
<1>1. CASE Delegation!Delegating(s)
  <2> DEFINE o == deleg_delegation[s]
             a == Delegation!SatSub(o.amount, w)
             e == IF a = 0 THEN None ELSE [delegate |-> o.delegate, amount |-> a]
             g == [deleg_delegated EXCEPT ![o.delegate] = Delegation!SatSub(@, w)]
  <2>1. /\ o # None /\ o \in Delegation!Delegation /\ o.delegate \in DelegStakers /\ o.amount \in Nat
        /\ o.delegate # s /\ o.amount # 0 /\ deleg_weight[s] = 0
    BY <1>0, <1>1, DelegEntry DEF Delegation!Delegating, GoodEntry
  <2>2. /\ deleg_delegation' = [deleg_delegation EXCEPT ![s] = e] /\ deleg_delegated' = g
        /\ deleg_weight' = [deleg_weight EXCEPT ![s] = deleg_weight[s]]
    BY <1>0, <1>1 DEF Delegation!RemoveWeight
  <2>3. a \in Nat /\ (w <= o.amount => a = o.amount - w)
    BY <2>1 DEF Delegation!SatSub
  <2>4. g \in [DelegStakers -> Nat]
    BY <1>0, <2>1 DEF Delegation!SatSub
  <2>5. \A d \in DelegStakers :
          g[d] = IF d = o.delegate THEN Delegation!SatSub(deleg_delegated[d], w) ELSE deleg_delegated[d]
    BY <1>0, <2>1
  <2> HIDE DEF a, g, o
  <2>6. /\ a # 0 => e \in Delegation!Delegation /\ e.delegate = o.delegate /\ e.amount = a /\ e # None
        /\ a = 0 => e = None
    BY <2>1, <2>3, DelegFacts DEF Delegation!Delegation
  <2> HIDE DEF e
  <2>7. GoodEntry(s, e, deleg_weight[s]) /\ AmountOf(e) = a /\ AmountOf(o) = o.amount
    BY <2>1, <2>3, <2>6 DEF GoodEntry, AmountOf
  <2>8. ASSUME w <= deleg_weight[s] + AmountOf(o),
               \A d \in DelegStakers : GivenTo(o, d) <= deleg_delegated[d]
        PROVE  /\ deleg_weight[s] + AmountOf(e) = deleg_weight[s] + AmountOf(o) - w
               /\ \A d \in DelegStakers : g[d] = deleg_delegated[d] + GivenTo(e, d) - GivenTo(o, d)
    <3>1. w <= o.amount /\ a = o.amount - w
      BY <2>1, <2>3, <2>7, <2>8
    <3>2. deleg_weight[s] + AmountOf(e) = deleg_weight[s] + AmountOf(o) - w
      BY <2>1, <2>7, <3>1
    <3>3. ASSUME NEW d \in DelegStakers
          PROVE  g[d] = deleg_delegated[d] + GivenTo(e, d) - GivenTo(o, d)
      <4>0. deleg_delegated[d] \in Nat
        BY <1>0
      <4>1. CASE d # o.delegate
        <5>1. GivenTo(e, d) = 0 /\ GivenTo(o, d) = 0 /\ g[d] = deleg_delegated[d]
          BY <2>1, <2>5, <2>6, <4>1 DEF GivenTo
        <5> QED
          BY <4>0, <5>1
      <4>2. CASE d = o.delegate
        <5>1. GivenTo(e, d) = a /\ GivenTo(o, d) = o.amount
          BY <2>1, <2>6, <4>2 DEF GivenTo
        <5>2. g[d] = Delegation!SatSub(deleg_delegated[d], w) /\ deleg_delegated[d] >= o.amount
          BY <2>5, <2>8, <4>0, <4>2, <5>1
        <5> QED
          BY <2>1, <3>1, <4>0, <5>1, <5>2 DEF Delegation!SatSub
      <4> QED
        BY <4>1, <4>2
    <3> QED
      BY <3>2, <3>3
  <2> QED
    BY <2>2, <2>4, <2>7, <2>8 DEF o
<1>2. CASE ~Delegation!Delegating(s)
  <2> DEFINE v == Delegation!SatSub(deleg_weight[s], w)
  <2>1. deleg_delegation[s] = None
    BY <1>2 DEF Delegation!Delegating
  <2>2. /\ deleg_delegation' = [deleg_delegation EXCEPT ![s] = None] /\ deleg_delegated' = deleg_delegated
        /\ deleg_weight' = [deleg_weight EXCEPT ![s] = v]
    BY <1>0, <1>2, <2>1 DEF Delegation!RemoveWeight
  <2>3. v \in Nat /\ (w <= deleg_weight[s] => v = deleg_weight[s] - w)
    BY <1>0 DEF Delegation!SatSub
  <2> HIDE DEF v
  <2>4. GoodEntry(s, None, v) /\ AmountOf(None) = 0 /\ (\A d : GivenTo(None, d) = 0)
    BY <2>3 DEF GoodEntry, AmountOf, GivenTo
  <2>5. w <= deleg_weight[s] + AmountOf(deleg_delegation[s])
        => v + AmountOf(None) = deleg_weight[s] + AmountOf(deleg_delegation[s]) - w
    BY <1>0, <2>1, <2>3, <2>4
  <2>6. \A d \in DelegStakers :
          deleg_delegated[d] = deleg_delegated[d] + GivenTo(None, d) - GivenTo(deleg_delegation[s], d)
    BY <1>0, <2>1, <2>4
  <2>7. /\ /\ w <= deleg_weight[s] + AmountOf(deleg_delegation[s])
           /\ \A d \in DelegStakers : GivenTo(deleg_delegation[s], d) <= deleg_delegated[d]
           => /\ v + AmountOf(None) = deleg_weight[s] + AmountOf(deleg_delegation[s]) - w
              /\ \A d \in DelegStakers :
                   deleg_delegated[d] = deleg_delegated[d] + GivenTo(None, d) - GivenTo(deleg_delegation[s], d)
    BY <2>5, <2>6, Zenon
  <2> WITNESS None, v, deleg_delegated
  <2> QED
    BY <1>0, <2>2, <2>4, <2>7, Zenon
<1> QED
  BY <1>1, <1>2

\* What a call does to the invariants: it keeps DelegInv, and DefaultInv where it
\* is exact.
LEMMA DelegStake ==
  ASSUME DelegInv, NEW s \in DelegStakers, NEW x \in DelegAmounts,
         Delegation!stake_governance(s, x)
  PROVE  DelegInv' /\ (DefaultInv => DefaultInv')
<1>0. /\ x \in Nat /\ deleg_stake[s] + x \in 0..DelegMaxStake /\ deleg_stake[s] \in Nat
      /\ deleg_stake' = [deleg_stake EXCEPT ![s] = deleg_stake[s] + x]
      /\ deleg_config' = deleg_config
  BY DelegFacts DEF DelegInv, Delegation!stake_governance
<1>1. CASE deleg_config.enabled /\ Delegation!Derived(x) >= deleg_config.min_stake_threshold
  <2>1. Delegation!AddWeight(s, Delegation!Derived(x))
    BY <1>1 DEF Delegation!stake_governance
  <2>2. Delegation!Derived(x) \in Nat
    BY <1>0, DelegFacts DEF DelegInv, Delegation!Config, Delegation!Derived
  <2>3. PICK w \in Nat : w = Delegation!Derived(x)
    BY <2>2
  <2>4. Delegation!AddWeight(s, w)
    BY <2>1, <2>3
  <2>5. PICK e, v, g :
           /\ GoodEntry(s, e, v) /\ g \in [DelegStakers -> Nat]
           /\ deleg_delegation' = [deleg_delegation EXCEPT ![s] = e]
           /\ deleg_weight' = [deleg_weight EXCEPT ![s] = v] /\ deleg_delegated' = g
           /\ v + AmountOf(e) = deleg_weight[s] + AmountOf(deleg_delegation[s]) + w
           /\ \A d \in DelegStakers :
                g[d] = deleg_delegated[d] + GivenTo(e, d) - GivenTo(deleg_delegation[s], d)
    BY <2>4, AddWeightWrites
  <2>6. Writes(s, e, v, deleg_stake[s] + x, g)
    BY <1>0, <2>5 DEF Writes
  <2>7. DelegInv'
    BY <1>0, <2>5, <2>6, DelegWrite
  <2>8. ASSUME DefaultInv PROVE DefaultInv'
    <3>1. w = x
      BY <1>0, <2>3, <2>8, DelegFacts DEF DefaultInv, Delegation!DefaultConfig, Delegation!Derived
    <3>2. v + AmountOf(e) = deleg_stake[s] + x
      BY <2>5, <2>8, <3>1 DEF DefaultInv
    <3> QED
      BY <1>0, <2>5, <2>6, <2>8, <3>2, DefaultWrite
  <2> QED
    BY <2>7, <2>8
<1>2. CASE ~(deleg_config.enabled /\ Delegation!Derived(x) >= deleg_config.min_stake_threshold)
  <2>1. UNCHANGED <<deleg_weight, deleg_delegation, deleg_delegated>>
    BY <1>2 DEF Delegation!stake_governance
  <2>2. DelegInv'
    BY <1>0, <2>1 DEF DelegInv
  <2>3. ASSUME DefaultInv PROVE FALSE
    <3>1. deleg_config.enabled /\ deleg_config.min_stake_threshold = 0
      BY <2>3 DEF DefaultInv, Delegation!DefaultConfig
    <3>2. Delegation!Derived(x) \in Nat
      BY <1>0, DelegFacts DEF DelegInv, Delegation!Config, Delegation!Derived
    <3> QED
      BY <1>2, <3>1, <3>2
  <2> QED
    BY <2>2, <2>3
<1> QED
  BY <1>1, <1>2

LEMMA DelegUnstake ==
  ASSUME DelegInv, NEW s \in DelegStakers, NEW x \in DelegAmounts,
         Delegation!unstake_governance(s, x)
  PROVE  DelegInv' /\ (DefaultInv => DefaultInv')
<1>0. /\ x \in Nat /\ x # 0 /\ deleg_stake[s] - x \in 0..DelegMaxStake /\ deleg_stake[s] \in Nat
      /\ x <= deleg_stake[s]
      /\ deleg_stake' = [deleg_stake EXCEPT ![s] = deleg_stake[s] - x]
      /\ deleg_config' = deleg_config
  BY DelegFacts DEF DelegInv, Delegation!unstake_governance
<1>1. CASE deleg_config.enabled /\ Delegation!Derived(x) > 0
  <2>1. Delegation!RemoveWeight(s, Delegation!Derived(x))
    BY <1>1 DEF Delegation!unstake_governance
  <2>2. Delegation!Derived(x) \in Nat
    BY <1>0, DelegFacts DEF DelegInv, Delegation!Config, Delegation!Derived
  <2>3. PICK w \in Nat : w = Delegation!Derived(x)
    BY <2>2
  <2>4. Delegation!RemoveWeight(s, w)
    BY <2>1, <2>3
  <2>5. PICK e, v, g :
           /\ GoodEntry(s, e, v) /\ g \in [DelegStakers -> Nat]
           /\ deleg_delegation' = [deleg_delegation EXCEPT ![s] = e]
           /\ deleg_weight' = [deleg_weight EXCEPT ![s] = v] /\ deleg_delegated' = g
           /\ /\ w <= deleg_weight[s] + AmountOf(deleg_delegation[s])
              /\ \A d \in DelegStakers : GivenTo(deleg_delegation[s], d) <= deleg_delegated[d]
              => /\ v + AmountOf(e) = deleg_weight[s] + AmountOf(deleg_delegation[s]) - w
                 /\ \A d \in DelegStakers :
                      g[d] = deleg_delegated[d] + GivenTo(e, d) - GivenTo(deleg_delegation[s], d)
    BY <2>4, RemoveWeightWrites
  <2>6. Writes(s, e, v, deleg_stake[s] - x, g)
    BY <1>0, <2>5 DEF Writes
  <2>7. DelegInv'
    BY <1>0, <2>5, <2>6, DelegWrite
  <2>8. ASSUME DefaultInv PROVE DefaultInv'
    <3>0. /\ GoodEntry(s, e, v) /\ g \in [DelegStakers -> Nat]
          /\ deleg_stake[s] - x \in 0..DelegMaxStake /\ deleg_config' = deleg_config
      BY <1>0, <2>5
    <3>1. w = x
      BY <1>0, <2>3, <2>8, DelegFacts DEF DefaultInv, Delegation!DefaultConfig, Delegation!Derived
    <3>2. deleg_weight[s] + AmountOf(deleg_delegation[s]) = deleg_stake[s]
      BY <2>8 DEF DefaultInv
    <3>3. \A d \in DelegStakers : GivenTo(deleg_delegation[s], d) <= deleg_delegated[d]
      BY <2>8, DelegCovered
    <3>4. /\ v + AmountOf(e) = deleg_weight[s] + AmountOf(deleg_delegation[s]) - w
          /\ \A d \in DelegStakers :
               g[d] = deleg_delegated[d] + GivenTo(e, d) - GivenTo(deleg_delegation[s], d)
      BY <1>0, <2>5, <3>1, <3>2, <3>3
    <3>5. v + AmountOf(e) = deleg_stake[s] - x
      <4>1. v + AmountOf(e) = deleg_weight[s] + AmountOf(deleg_delegation[s]) - w
        BY <3>4
      <4>2. deleg_weight[s] \in Nat /\ AmountOf(deleg_delegation[s]) \in Nat
        BY DelegEntry DEF DelegInv
      <4> QED
        BY <3>1, <3>2, <4>1, <4>2
    <3>6. PICK k \in 0..DelegMaxStake : k = deleg_stake[s] - x
      BY <3>0
    <3>7. Writes(s, e, v, k, g) /\ v + AmountOf(e) = k
      BY <2>6, <3>5, <3>6
    <3>8. \A d \in DelegStakers :
            g[d] = deleg_delegated[d] + GivenTo(e, d) - GivenTo(deleg_delegation[s], d)
      BY <3>4
    <3> QED
      BY <3>0, <2>8, <3>7, <3>8, DefaultWrite
  <2> QED
    BY <2>7, <2>8
<1>2. CASE ~(deleg_config.enabled /\ Delegation!Derived(x) > 0)
  <2>1. UNCHANGED <<deleg_weight, deleg_delegation, deleg_delegated>>
    BY <1>2 DEF Delegation!unstake_governance
  <2>2. DelegInv'
    BY <1>0, <2>1 DEF DelegInv
  <2>3. ASSUME DefaultInv PROVE FALSE
    <3>1. deleg_config.enabled
      BY <2>3 DEF DefaultInv, Delegation!DefaultConfig
    <3>2. Delegation!Derived(x) = x
      BY <1>0, <2>3, DelegFacts DEF DefaultInv, Delegation!DefaultConfig, Delegation!Derived
    <3> QED
      BY <1>0, <1>2, <3>1, <3>2
  <2> QED
    BY <2>2, <2>3
<1> QED
  BY <1>1, <1>2

LEMMA DelegSync ==
  ASSUME DelegInv, NEW s \in DelegStakers, Delegation!sync_voting_weight(s)
  PROVE  DelegInv'
<1> DEFINE target == Delegation!Derived(deleg_stake[s])
           current == Delegation!CurrentWeight(s)
<1>1. /\ deleg_stake[s] \in 0..DelegMaxStake /\ deleg_config' = deleg_config
      /\ deleg_stake' = [deleg_stake EXCEPT ![s] = deleg_stake[s]]
  BY DEF DelegInv, Delegation!sync_voting_weight
<1>2. target \in Nat
  <2>1. deleg_stake[s] \in Nat
    BY <1>1, DelegFacts
  <2> QED
    BY <2>1, DelegFacts DEF DelegInv, Delegation!Config, Delegation!Derived
<1>3. current \in Nat
  <2>1. deleg_delegation[s] # None => deleg_delegation[s].delegate \in DelegStakers
    BY DelegEntry DEF DelegInv
  <2> QED
    BY <2>1 DEF DelegInv, Delegation!CurrentWeight, Delegation!Delegating
<1>4. \/ target > current /\ Delegation!AddWeight(s, target - current)
      \/ target < current /\ Delegation!RemoveWeight(s, current - target)
  BY DEF Delegation!sync_voting_weight
<1> HIDE DEF target, current
<1>5. \E e, v, g :
        /\ GoodEntry(s, e, v) /\ g \in [DelegStakers -> Nat]
        /\ deleg_delegation' = [deleg_delegation EXCEPT ![s] = e]
        /\ deleg_weight' = [deleg_weight EXCEPT ![s] = v] /\ deleg_delegated' = g
  <2>1. CASE target > current /\ Delegation!AddWeight(s, target - current)
    <3>1. PICK w \in Nat : w = target - current
      BY <1>2, <1>3, <2>1
    <3>2. Delegation!AddWeight(s, w)
      BY <2>1, <3>1
    <3> QED
      BY <3>2, AddWeightWrites
  <2>2. CASE target < current /\ Delegation!RemoveWeight(s, current - target)
    <3>1. PICK w \in Nat : w = current - target
      BY <1>2, <1>3, <2>2
    <3>2. Delegation!RemoveWeight(s, w)
      BY <2>2, <3>1
    <3> QED
      BY <3>2, RemoveWeightWrites
  <2> QED
    BY <1>4, <2>1, <2>2
<1>6. PICK e, v, g :
        /\ GoodEntry(s, e, v) /\ g \in [DelegStakers -> Nat]
        /\ deleg_delegation' = [deleg_delegation EXCEPT ![s] = e]
        /\ deleg_weight' = [deleg_weight EXCEPT ![s] = v] /\ deleg_delegated' = g
  BY <1>5
<1>7. Writes(s, e, v, deleg_stake[s], g)
  BY <1>1, <1>6 DEF Writes
<1> QED
  BY <1>1, <1>6, <1>7, DelegWrite

LEMMA DelegConfigure ==
  ASSUME DelegInv, NEW b \in BOOLEAN, NEW r \in DelegRates, NEW m \in DelegMinimums,
         Delegation!set_gov_weight_config([enabled |-> b, weight_per_token |-> r,
                                           min_stake_threshold |-> m])
  PROVE  DelegInv'
<1>1. [enabled |-> b, weight_per_token |-> r, min_stake_threshold |-> m] \in Delegation!Config
  BY DelegFacts DEF Delegation!Config
<1> QED
  BY <1>1 DEF DelegInv, Delegation!set_gov_weight_config

LEMMA DelegDelegate ==
  ASSUME DelegInv, NEW s \in DelegStakers, NEW d \in DelegStakers, Delegation!delegate(s, d)
  PROVE  DelegInv' /\ (DefaultInv => DefaultInv')
<1> DEFINE o == deleg_delegation[s]
           a == IF Delegation!Delegating(s) THEN deleg_delegation[s].amount ELSE deleg_weight[s]
           e == [delegate |-> d, amount |-> a]
           h == IF Delegation!Delegating(s)
                THEN [deleg_delegated EXCEPT ![deleg_delegation[s].delegate] = Delegation!SatSub(@, a)]
                ELSE deleg_delegated
           g == [h EXCEPT ![d] = @ + a]
<1>1. /\ s # d /\ (~Delegation!Delegating(s) => deleg_weight[s] # 0)
      /\ deleg_weight' = [deleg_weight EXCEPT ![s] = 0]
      /\ deleg_delegation' = [deleg_delegation EXCEPT ![s] = e]
      /\ deleg_delegated' = g
      /\ deleg_config' = deleg_config /\ deleg_stake' = deleg_stake
  BY DEF Delegation!delegate
<1>2. /\ deleg_stake[s] \in 0..DelegMaxStake /\ GoodEntry(s, o, deleg_weight[s])
      /\ deleg_delegated \in [DelegStakers -> Nat] /\ o \in Delegation!Delegation \union {None}
      /\ deleg_weight[s] \in Nat
      /\ deleg_stake' = [deleg_stake EXCEPT ![s] = deleg_stake[s]]
  BY <1>1 DEF DelegInv
<1>3. /\ o # None => o.delegate \in DelegStakers /\ o.amount \in Nat /\ o.amount # 0 /\ deleg_weight[s] = 0
      /\ Delegation!Delegating(s) <=> o # None
  BY <1>2, DelegEntry DEF GoodEntry, Delegation!Delegating
<1>4. a \in Nat /\ a # 0 /\ a = deleg_weight[s] + AmountOf(o)
  BY <1>1, <1>2, <1>3 DEF AmountOf
<1>5. e \in Delegation!Delegation /\ e.delegate = d /\ e.amount = a
  BY <1>4 DEF Delegation!Delegation
<1>6. h \in [DelegStakers -> Nat]
  <2>1. \A n \in Nat : Delegation!SatSub(n, a) \in Nat
    BY <1>4 DEF Delegation!SatSub
  <2> HIDE DEF a
  <2> QED
    BY <1>2, <1>3, <2>1
<1>7. \A t \in DelegStakers :
        h[t] = IF o # None /\ o.delegate = t THEN Delegation!SatSub(deleg_delegated[t], a)
               ELSE deleg_delegated[t]
  <2> HIDE DEF a
  <2> QED
    BY <1>2, <1>3
<1> HIDE DEF h
<1>8. /\ g \in [DelegStakers -> Nat]
      /\ \A t \in DelegStakers : g[t] = h[t] + (IF t = d THEN a ELSE 0)
  <2> HIDE DEF a
  <2> QED
    BY <1>4, <1>6
<1>9. e # None
  BY <1>5, DelegFacts
<1> HIDE DEF a, e, g, o
<1>10. GoodEntry(s, e, 0)
  BY <1>1, <1>4, <1>5 DEF GoodEntry
<1>11. Writes(s, e, 0, deleg_stake[s], g)
  BY <1>1, <1>2 DEF Writes
<1>12. DelegInv'
  BY <1>1, <1>2, <1>8, <1>10, <1>11, DelegWrite
<1>13. ASSUME DefaultInv PROVE DefaultInv'
  <2>1. deleg_weight[s] + AmountOf(o) = deleg_stake[s]
    BY <1>13 DEF DefaultInv, o
  <2>2. AmountOf(e) = a
    BY <1>5, <1>9 DEF AmountOf
  <2>3. 0 + AmountOf(e) = deleg_stake[s]
    BY <1>4, <2>1, <2>2
  <2>4. ASSUME NEW t \in DelegStakers
        PROVE  g[t] = deleg_delegated[t] + GivenTo(e, t) - GivenTo(o, t)
    <3>1. GivenTo(o, t) <= deleg_delegated[t] /\ deleg_delegated[t] \in Nat
      BY <1>2, <1>13, DelegCovered DEF o
    <3>2. GivenTo(e, t) = IF t = d THEN a ELSE 0
      BY <1>5, <1>9 DEF GivenTo
    <3>3. CASE o # None /\ o.delegate = t
      <4>1. GivenTo(o, t) = o.amount /\ a = o.amount /\ o.amount \in Nat
        BY <1>2, <1>3, <1>4, <3>3 DEF GivenTo, AmountOf
      <4>2. h[t] = deleg_delegated[t] - a
        BY <1>7, <3>1, <3>3, <4>1 DEF Delegation!SatSub
      <4> QED
        BY <1>4, <1>8, <3>1, <3>2, <4>1, <4>2
    <3>4. CASE ~(o # None /\ o.delegate = t)
      <4>1. GivenTo(o, t) = 0
        BY <3>4 DEF GivenTo
      <4>2. h[t] = deleg_delegated[t]
        BY <1>7, <3>4
      <4> QED
        BY <1>4, <1>8, <3>1, <3>2, <4>1, <4>2
    <3> QED
      BY <3>3, <3>4
  <2> QED
    BY <1>1, <1>2, <1>8, <1>10, <1>11, <1>13, <2>3, <2>4, DefaultWrite DEF o
<1> QED
  BY <1>12, <1>13

LEMMA DelegUndelegate ==
  ASSUME DelegInv, NEW s \in DelegStakers, Delegation!undelegate(s)
  PROVE  DelegInv' /\ (DefaultInv => DefaultInv')
<1> DEFINE o == deleg_delegation[s]
           v == deleg_weight[s] + deleg_delegation[s].amount
           g == [deleg_delegated EXCEPT ![deleg_delegation[s].delegate] =
                   Delegation!SatSub(@, deleg_delegation[s].amount)]
<1>1. /\ o # None
      /\ deleg_weight' = [deleg_weight EXCEPT ![s] = v]
      /\ deleg_delegation' = [deleg_delegation EXCEPT ![s] = None]
      /\ deleg_delegated' = g
      /\ deleg_config' = deleg_config /\ deleg_stake' = deleg_stake
  BY DEF Delegation!undelegate, Delegation!Delegating, DelegInv
<1>2. /\ deleg_stake[s] \in 0..DelegMaxStake /\ GoodEntry(s, o, deleg_weight[s])
      /\ deleg_delegated \in [DelegStakers -> Nat] /\ o \in Delegation!Delegation \union {None}
      /\ deleg_weight[s] \in Nat
      /\ deleg_stake' = [deleg_stake EXCEPT ![s] = deleg_stake[s]]
  BY <1>1 DEF DelegInv
<1>3. o.delegate \in DelegStakers /\ o.amount \in Nat
  BY <1>1, <1>2, DelegEntry
<1>4. v \in Nat /\ v = deleg_weight[s] + AmountOf(o)
  BY <1>1, <1>2, <1>3 DEF AmountOf
<1>5. \A n \in Nat : Delegation!SatSub(n, o.amount) \in Nat
  BY <1>3 DEF Delegation!SatSub
<1>6. /\ g \in [DelegStakers -> Nat]
      /\ \A t \in DelegStakers :
           g[t] = IF o.delegate = t THEN Delegation!SatSub(deleg_delegated[t], o.amount)
                  ELSE deleg_delegated[t]
  BY <1>2, <1>3, <1>5
<1> HIDE DEF v, g, o
<1>7. GoodEntry(s, None, v)
  BY <1>4 DEF GoodEntry
<1>8. Writes(s, None, v, deleg_stake[s], g)
  BY <1>1, <1>2 DEF Writes
<1>9. DelegInv'
  BY <1>1, <1>2, <1>6, <1>7, <1>8, DelegWrite
<1>10. ASSUME DefaultInv PROVE DefaultInv'
  <2>1. AmountOf(None) = 0 /\ \A t : GivenTo(None, t) = 0
    BY DEF AmountOf, GivenTo
  <2>2. v + AmountOf(None) = deleg_stake[s]
    <3>1. deleg_weight[s] + AmountOf(o) = deleg_stake[s]
      BY <1>10 DEF DefaultInv, o
    <3> QED
      BY <1>4, <2>1, <3>1
  <2>3. ASSUME NEW t \in DelegStakers
        PROVE  g[t] = deleg_delegated[t] + GivenTo(None, t) - GivenTo(o, t)
    <3>1. GivenTo(o, t) <= deleg_delegated[t] /\ deleg_delegated[t] \in Nat
      BY <1>2, <1>10, DelegCovered DEF o
    <3>2. CASE o.delegate = t
      <4>1. GivenTo(o, t) = o.amount
        BY <1>1, <3>2 DEF GivenTo
      <4> QED
        BY <1>3, <1>6, <2>1, <3>1, <3>2, <4>1 DEF Delegation!SatSub
    <3>3. CASE o.delegate # t
      <4>1. GivenTo(o, t) = 0
        BY <3>3 DEF GivenTo
      <4> QED
        BY <1>6, <2>1, <3>1, <3>3, <4>1
    <3> QED
      BY <3>2, <3>3
  <2> QED
    BY <1>1, <1>2, <1>6, <1>7, <1>8, <1>10, <2>2, <2>3, DefaultWrite DEF o
<1> QED
  BY <1>9, <1>10

LEMMA DefaultStep ==
  ASSUME DelegInv, Delegation!DefaultNext
  PROVE  DelegInv' /\ (DefaultInv => DefaultInv')
BY DelegStake, DelegUnstake, DelegDelegate, DelegUndelegate DEF Delegation!DefaultNext

LEMMA DelegStep ==
  ASSUME DelegInv, Delegation!Next
  PROVE  DelegInv'
BY DefaultStep, DelegSync, DelegConfigure DEF Delegation!Next

\* No stake ever votes both ways, whatever is configured and synced when; and
\* while voting_delegation.rs keeps its default configuration and nobody syncs,
\* every stake votes exactly once and the total of each delegate is the sum of
\* what was delegated to it (MCGovernance!StakesVoteOnce), for any accounts and
\* amounts.
THEOREM StakesAlwaysVoteOnce == MCSpec => []StakesVoteOnce
<1> DEFINE Inv == DelegInv /\ (contract = "defaults" => DefaultInv)
<1>1. MCInit => Inv
  BY DelegInit DEF MCInit
<1>2. ASSUME Inv, [MCNext]_allVars PROVE Inv'
  <2>1. ASSUME UNCHANGED delegVars PROVE DelegInv' /\ (DefaultInv => DefaultInv')
    BY <1>2, <2>1 DEF delegVars, DelegInv, DefaultInv, DelegatedTo
  <2>2. \/ UNCHANGED delegVars
        \/ contract = "delegation" /\ Delegation!Next
        \/ contract = "defaults" /\ Delegation!DefaultNext
    BY <1>2 DEF MCNext, VoteNext, allVars, voteVars
  <2>3. contract' = contract
    BY <1>2 DEF MCNext, allVars
  <2> QED
    BY <1>2, <2>1, <2>2, <2>3, DelegStep, DefaultStep
<1>3. Inv => StakesVoteOnce
  BY DelegInvShows DEF StakesVoteOnce
<1> QED
  BY <1>1, <1>2, <1>3, PTL DEF MCSpec

-----------------------------------------------------------------------------
(***************************************************************************)
(* The relayers of the bridge.  The two menus of the run, all keys with    *)
(* few nonces and few keys with all nonces, are calls of one contract; all *)
(* that is said of it holds for all keys and all nonces.                   *)
(***************************************************************************)

LEMMA RelaySum ==
  ASSUME NEW f, NEW S
  PROVE  Relayer!SumOf(f, S) = SumOf(f, S)
BY DEF Relayer!SumOf, SumOf, Relayer!MapThenSumSet, MapThenSumSet,
       Relayer!MapThenFoldSet, MapThenFoldSet

LEMMA RelayCount ==
  ASSUME NEW S
  PROVE  /\ Relayer!IsFiniteSet(S) <=> IsFiniteSet(S)
         /\ Relayer!Cardinality(S) = Cardinality(S)
         /\ Quorums!Cardinality(S) = Cardinality(S)
         /\ Pairs!Cardinality(S) = Cardinality(S)
<1>1. Relayer!IsFiniteSet(S) <=> IsFiniteSet(S)
  BY DEF Relayer!IsFiniteSet, IsFiniteSet
<1>2. Relayer!Cardinality(S) = Cardinality(S)
  BY DEF Relayer!Cardinality, Cardinality, Relayer!IsFiniteSet, IsFiniteSet
<1>3. Quorums!Cardinality(S) = Cardinality(S)
  BY DEF Quorums!Cardinality, Cardinality, Quorums!IsFiniteSet, IsFiniteSet
<1>4. Pairs!Cardinality(S) = Cardinality(S)
  BY DEF Pairs!Cardinality, Cardinality, Pairs!IsFiniteSet, IsFiniteSet
<1> QED
  BY <1>1, <1>2, <1>3, <1>4

LEMMA RelayFacts ==
  /\ IsFiniteSet(ValidatorKeys) /\ RelayThresholds \subseteq Nat /\ RelayStakes \subseteq Int
  /\ FewKeys \subseteq ValidatorKeys /\ FewNonces \subseteq Nonces
  /\ Quorums!Messages \subseteq Relayer!Messages /\ Pairs!Messages = Relayer!Messages
<1>1. /\ IsFiniteSet(ValidatorKeys) /\ RelayThresholds \subseteq Nat /\ RelayStakes \subseteq Int
      /\ FewKeys \subseteq ValidatorKeys /\ FewNonces \subseteq Nonces
  BY RelayersAssumption, RelayCount DEF Relayer!BridgeRelayerAssumption
<1> QED
  BY <1>1 DEF Quorums!Messages, Pairs!Messages, Relayer!Messages

\* A call of either menu is a call of the contract.
LEMMA RelayMenus == Quorums!Next \/ Pairs!Next => Relayer!Next
<1>1. CASE Quorums!Next
  <2>1. ASSUME NEW m \in Quorums!Messages, NEW S \in SUBSET ValidatorKeys,
               Quorums!verify_cross_chain_payload(m, S)
        PROVE  Relayer!verify_cross_chain_payload(m, S)
    BY <2>1, RelayCount
    DEF Quorums!verify_cross_chain_payload, Relayer!verify_cross_chain_payload,
        Quorums!CountedSigners, Relayer!CountedSigners
  <2>2. ASSUME NEW k \in ValidatorKeys, NEW m \in Quorums!Messages, Quorums!Sign(k, m)
        PROVE  Relayer!Next
    <3>1. Relayer!Sign(k, m)
      BY <2>2 DEF Quorums!Sign, Relayer!Sign
    <3> QED
      BY <3>1, RelayFacts DEF Relayer!Next
  <2>3. ASSUME NEW t \in RelayThresholds, Quorums!configure_threshold(t)
        PROVE  Relayer!Next
    <3>1. Relayer!configure_threshold(t)
      BY <2>3 DEF Quorums!configure_threshold, Relayer!configure_threshold
    <3> QED
      BY <3>1, RelayFacts DEF Relayer!Next
  <2>4. ASSUME NEW k \in ValidatorKeys, Quorums!add_validator(k)
        PROVE  Relayer!Next
    <3>1. Relayer!add_validator(k)
      BY <2>4 DEF Quorums!add_validator, Relayer!add_validator
    <3> QED
      BY <3>1, RelayFacts DEF Relayer!Next
  <2>5. ASSUME NEW k \in ValidatorKeys, Quorums!remove_validator(k)
        PROVE  Relayer!Next
    <3>1. Relayer!remove_validator(k)
      BY <2>5 DEF Quorums!remove_validator, Relayer!remove_validator
    <3> QED
      BY <3>1, RelayFacts DEF Relayer!Next
  <2>6. ASSUME NEW k \in ValidatorKeys, NEW x \in RelayStakes, Quorums!stake_validator_collateral(k, x)
        PROVE  Relayer!Next
    <3>1. Relayer!stake_validator_collateral(k, x)
      BY <2>6 DEF Quorums!stake_validator_collateral, Relayer!stake_validator_collateral
    <3> QED
      BY <3>1, RelayFacts DEF Relayer!Next
  <2>7. ASSUME NEW k \in ValidatorKeys, NEW m \in Quorums!Messages, NEW n \in Quorums!Messages, Quorums!process_double_sign_proof(k, m, n)
        PROVE  Relayer!Next
    <3>1. Relayer!process_double_sign_proof(k, m, n)
      BY <2>7 DEF Quorums!process_double_sign_proof, Relayer!process_double_sign_proof
    <3> QED
      BY <3>1, RelayFacts DEF Relayer!Next
  <2>8. ASSUME NEW m \in Quorums!Messages, NEW S \in SUBSET ValidatorKeys, Quorums!verify_cross_chain_payload(m, S)
        PROVE  Relayer!Next
    <3>1. m \in Relayer!Messages /\ S \in SUBSET ValidatorKeys
      BY RelayFacts
    <3> QED
      BY <2>1, <2>8, <3>1 DEF Relayer!Next
  <2> QED
    BY <1>1, <2>2, <2>3, <2>4, <2>5, <2>6, <2>7, <2>8 DEF Quorums!Next
<1>2. CASE Pairs!Next
  <2>1. ASSUME NEW m \in Pairs!Messages, NEW S \in SUBSET FewKeys,
               Pairs!verify_cross_chain_payload(m, S)
        PROVE  Relayer!verify_cross_chain_payload(m, S)
    BY <2>1, RelayCount
    DEF Pairs!verify_cross_chain_payload, Relayer!verify_cross_chain_payload,
        Pairs!CountedSigners, Relayer!CountedSigners
  <2>2. ASSUME NEW k \in FewKeys, NEW m \in Pairs!Messages, Pairs!Sign(k, m)
        PROVE  Relayer!Next
    <3>1. Relayer!Sign(k, m)
      BY <2>2 DEF Pairs!Sign, Relayer!Sign
    <3> QED
      BY <3>1, RelayFacts DEF Relayer!Next
  <2>3. ASSUME NEW t \in RelayThresholds, Pairs!configure_threshold(t)
        PROVE  Relayer!Next
    <3>1. Relayer!configure_threshold(t)
      BY <2>3 DEF Pairs!configure_threshold, Relayer!configure_threshold
    <3> QED
      BY <3>1, RelayFacts DEF Relayer!Next
  <2>4. ASSUME NEW k \in FewKeys, Pairs!add_validator(k)
        PROVE  Relayer!Next
    <3>1. Relayer!add_validator(k)
      BY <2>4 DEF Pairs!add_validator, Relayer!add_validator
    <3> QED
      BY <3>1, RelayFacts DEF Relayer!Next
  <2>5. ASSUME NEW k \in FewKeys, Pairs!remove_validator(k)
        PROVE  Relayer!Next
    <3>1. Relayer!remove_validator(k)
      BY <2>5 DEF Pairs!remove_validator, Relayer!remove_validator
    <3> QED
      BY <3>1, RelayFacts DEF Relayer!Next
  <2>6. ASSUME NEW k \in FewKeys, NEW x \in RelayStakes, Pairs!stake_validator_collateral(k, x)
        PROVE  Relayer!Next
    <3>1. Relayer!stake_validator_collateral(k, x)
      BY <2>6 DEF Pairs!stake_validator_collateral, Relayer!stake_validator_collateral
    <3> QED
      BY <3>1, RelayFacts DEF Relayer!Next
  <2>7. ASSUME NEW k \in FewKeys, NEW m \in Pairs!Messages, NEW n \in Pairs!Messages, Pairs!process_double_sign_proof(k, m, n)
        PROVE  Relayer!Next
    <3>1. Relayer!process_double_sign_proof(k, m, n)
      BY <2>7 DEF Pairs!process_double_sign_proof, Relayer!process_double_sign_proof
    <3> QED
      BY <3>1, RelayFacts DEF Relayer!Next
  <2>8. ASSUME NEW m \in Pairs!Messages, NEW S \in SUBSET FewKeys, Pairs!verify_cross_chain_payload(m, S)
        PROVE  Relayer!Next
    <3>1. m \in Relayer!Messages /\ S \in SUBSET ValidatorKeys
      BY RelayFacts
    <3> QED
      BY <2>1, <2>8, <3>1 DEF Relayer!Next
  <2> QED
    BY <1>2, <2>2, <2>3, <2>4, <2>5, <2>6, <2>7, <2>8 DEF Pairs!Next
<1> QED
  BY <1>1, <1>2

LEMMA RelayIsPart == MCSpec => Relayer!Spec
<1>1. MCInit => Relayer!Init
  BY DEF MCInit
<1>2. [MCNext]_allVars => [Relayer!Next]_Relayer!vars
  BY RelayMenus DEF MCNext, VoteNext, VouchNext, allVars, vouchVars, relayVars, Relayer!vars
<1> QED
  BY <1>1, <1>2, PTL DEF MCSpec, Relayer!Spec

RelayInv ==
  /\ Relayer!TypeOK /\ Relayer!OneMessagePerNonce /\ Relayer!BansAreFinal
  /\ Relayer!CollateralConserved

\* Signing, configuring, adding and removing change no book.
LEMMA RelayStaffStep ==
  ASSUME RelayInv,
         \/ \E k \in ValidatorKeys, m \in Relayer!Messages : Relayer!Sign(k, m)
         \/ \E t \in RelayThresholds : Relayer!configure_threshold(t)
         \/ \E k \in ValidatorKeys : Relayer!add_validator(k) \/ Relayer!remove_validator(k)
  PROVE  RelayInv'
<1>1. ASSUME NEW k \in ValidatorKeys, NEW m \in Relayer!Messages, Relayer!Sign(k, m)
      PROVE  RelayInv'
  <2>1. rel_signed' = rel_signed \union {<<k, m>>}
        /\ UNCHANGED <<rel_threshold, rel_validators, rel_spent, rel_collateral, rel_banned,
                       rel_slashed, rel_accepted, rel_staked>>
    BY <1>1 DEF Relayer!Sign
  <2>2. Relayer!TypeOK'
    BY <2>1 DEF RelayInv, Relayer!TypeOK
  <2>3. Relayer!BansAreFinal'
    BY <2>1 DEF RelayInv, Relayer!BansAreFinal, Relayer!DoubleSigned
  <2> QED
    BY <2>1, <2>2, <2>3 DEF RelayInv, Relayer!OneMessagePerNonce, Relayer!CollateralConserved
<1>2. ASSUME NEW t \in RelayThresholds, Relayer!configure_threshold(t)
      PROVE  RelayInv'
  BY <1>2, RelayFacts
  DEF RelayInv, Relayer!TypeOK, Relayer!OneMessagePerNonce, Relayer!BansAreFinal,
      Relayer!DoubleSigned, Relayer!CollateralConserved, Relayer!configure_threshold
<1>3. ASSUME NEW k \in ValidatorKeys, Relayer!add_validator(k) \/ Relayer!remove_validator(k)
      PROVE  RelayInv'
  BY <1>3
  DEF RelayInv, Relayer!TypeOK, Relayer!OneMessagePerNonce, Relayer!BansAreFinal,
      Relayer!DoubleSigned, Relayer!CollateralConserved, Relayer!add_validator,
      Relayer!remove_validator
<1> QED
  BY <1>1, <1>2, <1>3

\* Collateral is added to the books and to its validator at once.
LEMMA RelayStakeStep ==
  ASSUME RelayInv, NEW k \in ValidatorKeys, NEW x \in RelayStakes,
         Relayer!stake_validator_collateral(k, x)
  PROVE  RelayInv'
<1>1. /\ x \in Nat /\ rel_collateral \in [ValidatorKeys -> Nat]
      /\ rel_staked \in Nat /\ rel_slashed \in Nat /\ k \notin rel_banned
      /\ rel_collateral' = [rel_collateral EXCEPT ![k] = rel_collateral[k] + x]
      /\ rel_staked' = rel_staked + x
      /\ UNCHANGED <<rel_threshold, rel_validators, rel_spent, rel_banned, rel_slashed, rel_signed,
                     rel_accepted>>
  BY RelayFacts DEF Relayer!stake_validator_collateral, RelayInv, Relayer!TypeOK
<1>2. Relayer!TypeOK'
  BY <1>1 DEF RelayInv, Relayer!TypeOK
<1>3. Relayer!BansAreFinal'
  <2>1. \A j \in rel_banned : j \notin rel_validators /\ rel_collateral[j] = 0 /\ Relayer!DoubleSigned(j)
    BY DEF RelayInv, Relayer!BansAreFinal
  <2>2. \A j \in rel_banned : j \in ValidatorKeys /\ j # k
    BY <1>1 DEF RelayInv, Relayer!TypeOK
  <2>3. \A j \in rel_banned : rel_collateral'[j] = 0
    BY <1>1, <2>1, <2>2
  <2> QED
    BY <1>1, <2>1, <2>3 DEF Relayer!BansAreFinal, Relayer!DoubleSigned
<1>4. Relayer!CollateralConserved'
  <2>1. PICK c \in [ValidatorKeys -> Nat] : c = rel_collateral'
    BY <1>1
  <2>2. /\ c[k] = rel_collateral[k] + x
        /\ \A z \in ValidatorKeys : z # k => c[z] = rel_collateral[z]
    BY <1>1, <2>1
  <2>3. /\ SumOf(rel_collateral, ValidatorKeys) \in Nat /\ SumOf(c, ValidatorKeys) \in Nat
        /\ SumOf(c, ValidatorKeys) = SumOf(rel_collateral, ValidatorKeys) + c[k] - rel_collateral[k]
    BY <1>1, <2>2, RelayFacts, SumShift
  <2>4. rel_staked = SumOf(rel_collateral, ValidatorKeys) + rel_slashed
    BY RelaySum DEF RelayInv, Relayer!CollateralConserved
  <2>5. rel_collateral[k] \in Nat
    BY <1>1
  <2>6. rel_staked' = SumOf(c, ValidatorKeys) + rel_slashed'
    BY <1>1, <2>2, <2>3, <2>4, <2>5
  <2> QED
    BY <2>1, <2>6, RelaySum DEF Relayer!CollateralConserved
<1> QED
  BY <1>1, <1>2, <1>3, <1>4 DEF RelayInv, Relayer!OneMessagePerNonce

\* An accepted message is the only one of its nonce.
LEMMA RelayAcceptStep ==
  ASSUME RelayInv, NEW m \in Relayer!Messages, NEW S \in SUBSET ValidatorKeys,
         Relayer!verify_cross_chain_payload(m, S)
  PROVE  RelayInv'
<1>1. /\ m.nonce \notin rel_spent /\ m.nonce \in Nonces
      /\ rel_spent' = rel_spent \union {m.nonce} /\ rel_accepted' = rel_accepted \union {m}
      /\ UNCHANGED <<rel_threshold, rel_validators, rel_collateral, rel_banned, rel_slashed,
                     rel_signed, rel_staked>>
  BY DEF Relayer!verify_cross_chain_payload, Relayer!Messages
<1>2. Relayer!OneMessagePerNonce'
  BY <1>1 DEF RelayInv, Relayer!OneMessagePerNonce
<1> QED
  BY <1>1, <1>2
  DEF RelayInv, Relayer!TypeOK, Relayer!BansAreFinal, Relayer!DoubleSigned, Relayer!CollateralConserved

\* The proof of a contradiction takes all the collateral of its signer.
LEMMA RelaySlashStep ==
  ASSUME RelayInv, NEW k \in ValidatorKeys, NEW m1 \in Relayer!Messages, NEW m2 \in Relayer!Messages,
         Relayer!process_double_sign_proof(k, m1, m2)
  PROVE  RelayInv'
<1>1. /\ rel_collateral \in [ValidatorKeys -> Nat] /\ rel_staked \in Nat /\ rel_slashed \in Nat
      /\ m1.nonce = m2.nonce /\ m1 # m2 /\ <<k, m1>> \in rel_signed /\ <<k, m2>> \in rel_signed
      /\ rel_collateral' = [rel_collateral EXCEPT ![k] = 0]
      /\ rel_slashed' = rel_slashed + rel_collateral[k]
      /\ rel_validators' = rel_validators \ {k} /\ rel_banned' = rel_banned \union {k}
      /\ UNCHANGED <<rel_threshold, rel_spent, rel_signed, rel_accepted, rel_staked>>
  BY DEF Relayer!process_double_sign_proof, RelayInv, Relayer!TypeOK
<1>2. Relayer!TypeOK'
  BY <1>1 DEF RelayInv, Relayer!TypeOK
<1>3. Relayer!BansAreFinal'
  <2>1. Relayer!DoubleSigned(k)
    BY <1>1 DEF Relayer!DoubleSigned
  <2>2. \A j \in rel_banned : j \notin rel_validators /\ rel_collateral[j] = 0 /\ Relayer!DoubleSigned(j)
    BY DEF RelayInv, Relayer!BansAreFinal
  <2>3. rel_banned \subseteq ValidatorKeys
    BY DEF RelayInv, Relayer!TypeOK
  <2>4. \A j \in rel_banned' : j \notin rel_validators' /\ rel_collateral'[j] = 0
    BY <1>1, <2>2, <2>3
  <2>5. \A j \in rel_banned' : Relayer!DoubleSigned(j)
    BY <1>1, <2>1, <2>2
  <2> QED
    BY <1>1, <2>4, <2>5 DEF Relayer!BansAreFinal, Relayer!DoubleSigned
<1>4. Relayer!CollateralConserved'
  <2>1. PICK c \in [ValidatorKeys -> Nat] : c = rel_collateral'
    BY <1>1
  <2>2. c[k] = 0 /\ \A z \in ValidatorKeys : z # k => c[z] = rel_collateral[z]
    BY <1>1, <2>1
  <2>3. /\ SumOf(rel_collateral, ValidatorKeys) \in Nat /\ SumOf(c, ValidatorKeys) \in Nat
        /\ SumOf(c, ValidatorKeys) = SumOf(rel_collateral, ValidatorKeys) + c[k] - rel_collateral[k]
    BY <1>1, <2>2, RelayFacts, SumShift
  <2>4. rel_staked = SumOf(rel_collateral, ValidatorKeys) + rel_slashed
    BY RelaySum DEF RelayInv, Relayer!CollateralConserved
  <2>5. rel_collateral[k] \in Nat
    BY <1>1
  <2>6. rel_staked' = SumOf(c, ValidatorKeys) + rel_slashed'
    BY <1>1, <2>2, <2>3, <2>4, <2>5
  <2> QED
    BY <2>1, <2>6, RelaySum DEF Relayer!CollateralConserved
<1> QED
  BY <1>1, <1>2, <1>3, <1>4 DEF RelayInv, Relayer!OneMessagePerNonce

LEMMA RelayAlways == Relayer!Spec => []RelayInv
<1>1. Relayer!Init => RelayInv
  <2> SUFFICES ASSUME Relayer!Init PROVE RelayInv
    OBVIOUS
  <2>1. SumOf(rel_collateral, ValidatorKeys) = 0
    <3>1. \A k \in ValidatorKeys : rel_collateral[k] = 0
      BY DEF Relayer!Init
    <3> QED
      BY <3>1, RelayFacts, SumZero
  <2>2. Relayer!CollateralConserved
    BY <2>1, RelaySum DEF Relayer!Init, Relayer!CollateralConserved
  <2> QED
    BY <2>2 DEF Relayer!Init, RelayInv, Relayer!TypeOK, Relayer!OneMessagePerNonce, Relayer!BansAreFinal
<1>2. RelayInv /\ [Relayer!Next]_Relayer!vars => RelayInv'
  <2> SUFFICES ASSUME RelayInv, [Relayer!Next]_Relayer!vars PROVE RelayInv'
    OBVIOUS
  <2>1. CASE UNCHANGED Relayer!vars
    BY <2>1 DEF RelayInv, Relayer!TypeOK, Relayer!OneMessagePerNonce, Relayer!BansAreFinal,
        Relayer!DoubleSigned, Relayer!CollateralConserved, Relayer!vars
  <2>2. CASE Relayer!Next
    BY <2>2, RelayStaffStep, RelayStakeStep, RelayAcceptStep, RelaySlashStep DEF Relayer!Next
  <2> QED
    BY <2>1, <2>2
<1> QED
  BY <1>1, <1>2, PTL DEF Relayer!Spec

\* For any keys, nonces, payloads, thresholds and collateral: one message per
\* nonce is let through, with the threshold's number of registered keys behind
\* it; bans are final and deserved, and what was staked is held or slashed
\* (relayer.rs, slashing.rs).
THEOREM RelayersAnswer == MCSpec => RelayerRecordsExact
<1>1. RelayInv /\ [Relayer!Next]_Relayer!vars =>
        [\A m \in rel_accepted' \ rel_accepted :
           Relayer!Cardinality({k \in rel_validators : <<k, m>> \in rel_signed}) >= rel_threshold]_Relayer!vars
  <2> SUFFICES ASSUME RelayInv, Relayer!Next, NEW m \in rel_accepted' \ rel_accepted
               PROVE  Relayer!Cardinality({k \in rel_validators : <<k, m>> \in rel_signed})
                        >= rel_threshold
    BY DEF Relayer!vars
  <2>1. PICK n \in Relayer!Messages, S \in SUBSET ValidatorKeys : Relayer!verify_cross_chain_payload(n, S)
    BY DEF Relayer!Next, Relayer!Sign, Relayer!configure_threshold, Relayer!add_validator,
        Relayer!remove_validator, Relayer!stake_validator_collateral,
        Relayer!process_double_sign_proof
  <2> DEFINE C == Relayer!CountedSigners(S)
             B == {k \in rel_validators : <<k, m>> \in rel_signed}
  <2>2. /\ m = n /\ C \subseteq B /\ B \subseteq ValidatorKeys /\ rel_threshold \in Nat
        /\ Cardinality(C) >= rel_threshold
    BY <2>1, RelayCount
    DEF Relayer!verify_cross_chain_payload, Relayer!CountedSigners, RelayInv, Relayer!TypeOK
  <2> HIDE DEF C, B
  <2>3. IsFiniteSet(B) /\ IsFiniteSet(C) /\ Cardinality(B) \in Nat /\ Cardinality(C) \in Nat
        /\ Cardinality(C) <= Cardinality(B)
    BY <2>2, RelayFacts, FS_Subset, FS_CardinalityType
  <2>4. Cardinality(B) >= rel_threshold
    BY <2>2, <2>3
  <2> QED
    BY <2>4, RelayCount DEF B
<1>2. Relayer!Spec => Relayer!QuorumBehindAcceptance
  BY <1>1, RelayAlways, PTL DEF Relayer!Spec, Relayer!QuorumBehindAcceptance
<1>3. RelayInv => /\ Relayer!TypeOK /\ Relayer!OneMessagePerNonce /\ Relayer!BansAreFinal
                  /\ Relayer!CollateralConserved
  BY DEF RelayInv
<1> QED
  BY <1>2, <1>3, RelayIsPart, RelayAlways, PTL DEF RelayerRecordsExact
=============================================================================
