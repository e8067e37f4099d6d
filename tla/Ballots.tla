------------------------------- MODULE Ballots -------------------------------
(***************************************************************************)
(* Four stand-alone contracts that count votes and carry them out: the     *)
(* vote archive, which packs ballots into words and folds an executed      *)
(* proposal into a Merkle root; the voting-weight locks with their         *)
(* delegation chains; the executer of timelocked proposals; and the        *)
(* rotation of a multisig's keys.                                          *)
(*                                                                         *)
(* A hash is the term it was computed from, so that two hashes are equal   *)
(* exactly when their inputs are.  The executer and the locks contain      *)
(* slips that keep them from compiling (a variable n for next, two         *)
(* functions named execute_batch); they are read as what they plainly      *)
(* mean.  A call reserved for an administrator is made by it.              *)
(***************************************************************************)
EXTENDS Integers, Sequences, SequencesExt, FiniteSetsExt

CONSTANTS
  Voters, None,
  ProposalIds,
  WordBits, WeightBits, WeightsPerWord,   \* 64, 7 and 9
  MaxVoteWeight, Weights,                 \* MAX_VOTE_WEIGHT; weights that are asked for
  Thresholds, MaxThreshold,               \* asked for; MAX_WEIGHT_THRESHOLD
  Users, Amounts,                         \* of the locks
  Delays, RotationDelay,                  \* seconds; 24 hours
  KeySets,                                \* key lists that may be proposed
  MaxTime, MaxLocked, MaxCreated          \* bounds

BallotsAssumption ==
  /\ {WordBits, WeightBits, WeightsPerWord, MaxVoteWeight, MaxThreshold, RotationDelay,
      MaxTime, MaxLocked, MaxCreated} \subseteq Nat \ {0}
  /\ MaxVoteWeight < 2^WeightBits
  /\ Weights \subseteq Nat /\ Thresholds \subseteq Nat /\ Amounts \subseteq Nat
  /\ Delays \subseteq Nat

VARIABLES
  now,
  register,   \* governance-vote-archive
  cast,       \* history: the weight with which a voter voted, per proposal
  chain,      \* governance-invariants
  executer,   \* governance_executer
  invoked,    \* history: proposals in the order in which their targets were called
  rotation    \* multisig-admin-rotation; since is history: when the keys last changed

vars == <<now, register, cast, chain, executer, invoked, rotation>>

SumOf(f, S) == FoldSet(LAMBDA x, n : f[x] + n, 0, S)

-----------------------------------------------------------------------------
(* Packed words: bits.rs *)

word_count(len, perWord) == IF len = 0 THEN 0 ELSE (len - 1) \div perWord + 1

\* Word number i, counted from 0; a word that was never stored is 0.
Word(words, i) == IF i < Len(words) THEN words[i + 1] ELSE 0

ensure_words(words, needed) ==
  [i \in 1..(IF Len(words) < needed THEN needed ELSE Len(words)) |-> Word(words, i - 1)]

\* The field of the given width at the given place of a word.
Field(word, place, width) == (word \div 2^(place * width)) % 2^width

\* The word with that field replaced, whatever it held before.
WithField(word, place, width, value) ==
  word + (value - Field(word, place, width)) * 2^(place * width)

is_bit_set(words, index) == Field(Word(words, index \div WordBits), index % WordBits, 1) = 1

set_packed_bit(words, index) ==
  LET w == index \div WordBits
  IN  [ensure_words(words, w + 1) EXCEPT ![w + 1] = WithField(@, index % WordBits, 1, 1)]

Packable(weight) == weight \in 1..MaxVoteWeight

packed_weight(words, index) ==
  Field(Word(words, index \div WeightsPerWord), index % WeightsPerWord, WeightBits)

set_packed_weight(words, index, weight) ==
  LET w == index \div WeightsPerWord
  IN  [ensure_words(words, w + 1) EXCEPT
        ![w + 1] = WithField(@, index % WeightsPerWord, WeightBits, weight)]

packed_weight_sum(bits, weights, len) ==
  MapThenSumSet(LAMBDA i : packed_weight(weights, i), {i \in 0..(len - 1) : is_bit_set(bits, i)})

-----------------------------------------------------------------------------
(* Hash trees: merkle.rs *)

empty_root == <<"empty">>
leaf_hash(id, index, option, weight, voter) == <<"leaf", id, index, option, weight, voter>>
node_hash(left, right) == <<"node", left, right>>

\* Neighbours are hashed together; an odd last node moves up as it is.
next_level(level) ==
  [i \in 1..((Len(level) + 1) \div 2) |->
     IF 2 * i <= Len(level) THEN node_hash(level[2 * i - 1], level[2 * i]) ELSE level[2 * i - 1]]

\* The level k steps above the leaves.
Levels(leaves) == LET level[k \in 0..Len(leaves)] == IF k = 0 THEN leaves ELSE next_level(level[k - 1])
                  IN  level

merkle_root(leaves) == IF leaves = <<>> THEN empty_root ELSE Levels(leaves)[Len(leaves)][1]

\* The sibling of node number idx (from 0), as a sequence of none or one.
Sibling(level, idx) ==
  IF idx % 2 = 1 THEN <<level[idx]>> ELSE IF idx + 1 < Len(level) THEN <<level[idx + 2]>> ELSE <<>>

merkle_proof(leaves, index) ==
  IF index >= Len(leaves) THEN <<>>
  ELSE LET proof[k \in 0..Len(leaves)] ==
             IF k = 0 THEN <<>>
             ELSE proof[k - 1] \o Sibling(Levels(leaves)[k - 1], index \div 2^(k - 1))
       IN  proof[Len(leaves)]

\* Hashing upwards from a leaf; a proof that is too short or too long fails.
\* A position outside the tree is accepted for the empty tree only.
verify_proof(root, leaf, index, size, proof) ==
  LET Up(s) ==
        IF s.size <= 1 THEN s
        ELSE LET rest == [s EXCEPT !.idx = @ \div 2, !.size = (@ - 1) \div 2 + 1]
                 needs == s.idx % 2 = 1 \/ s.idx + 1 < s.size
             IN  IF ~needs THEN rest
                 ELSE IF s.used = Len(proof) THEN [rest EXCEPT !.ok = FALSE]
                 ELSE [rest EXCEPT !.used = @ + 1,
                                   !.hash = IF s.idx % 2 = 1 THEN node_hash(proof[s.used + 1], @)
                                                             ELSE node_hash(@, proof[s.used + 1])]
      walk[k \in 0..size] ==
        IF k = 0 THEN [hash |-> leaf, idx |-> index, size |-> size, used |-> 0, ok |-> TRUE]
        ELSE Up(walk[k - 1])
      top == walk[size]
  IN  IF size = 0 \/ index >= size THEN root = empty_root
      ELSE top.ok /\ top.used = Len(proof) /\ top.hash = root

-----------------------------------------------------------------------------
(* The vote archive: register.rs *)

ProposalState ==
  [executed : BOOLEAN, cancelled : BOOLEAN, vote_count : Nat, final_tally : Nat]

voter_index(v) == SelectInSeq(register.voters, LAMBDA x : x = v) - 1
is_voter(v) == voter_index(v) >= 0

admin_weight(v) == IF register.weight[v] = None THEN 1 ELSE register.weight[v]

add_voter(v) ==
  /\ ~is_voter(v)
  /\ register' = [register EXCEPT !.voters = Append(@, v)]
  /\ UNCHANGED cast

set_admin_weight(v, w) ==
  /\ is_voter(v) /\ Packable(w)
  /\ register' = [register EXCEPT !.weight[v] = w]
  /\ UNCHANGED cast

set_weight_threshold(t) ==
  /\ t \in 1..MaxThreshold
  /\ register' = [register EXCEPT !.threshold = t]
  /\ UNCHANGED cast

required_threshold ==
  IF register.threshold /= None THEN register.threshold
  ELSE IF Len(register.voters) <= 3 THEN 2 ELSE 3

propose_action(id) ==
  /\ register.proposal[id] = None
  /\ register' = [register EXCEPT !.proposal[id] =
       [executed |-> FALSE, cancelled |-> FALSE, vote_count |-> 0, final_tally |-> 0]]
  /\ UNCHANGED cast

\* An executed proposal can still be cancelled; it stays executed as well.
cancel_action(id) ==
  /\ register.proposal[id] /= None /\ ~register.proposal[id].cancelled
  /\ register' = [register EXCEPT !.proposal[id].cancelled = TRUE]
  /\ UNCHANGED cast

Open(id) ==
  /\ register.proposal[id] /= None
  /\ ~register.proposal[id].executed /\ ~register.proposal[id].cancelled
  /\ register.archive[id] = None

\* The vote is in the bits or, where the weight could not be packed, in the list.
has_voted(id, v) ==
  is_bit_set(register.bits[id], voter_index(v)) \/ Contains(register.votes[id], v)

cast_vote(v, id) ==
  /\ Open(id) /\ is_voter(v) /\ ~has_voted(id, v)
  /\ register' =
       IF Packable(admin_weight(v))
       THEN [register EXCEPT !.bits[id] = set_packed_bit(@, voter_index(v)),
                             !.weights[id] = set_packed_weight(@, voter_index(v), admin_weight(v)),
                             !.proposal[id].vote_count = @ + 1]
       ELSE [register EXCEPT !.votes[id] = Append(@, v), !.proposal[id].vote_count = @ + 1]
  /\ cast' = [cast EXCEPT ![id][v] = admin_weight(v)]

tally(id) ==
  IF register.archive[id] /= None THEN register.archive[id].final_tally
  ELSE packed_weight_sum(register.bits[id], register.weights[id], Len(register.voters))
       + FoldSeq(LAMBDA v, n : admin_weight(v) + n, 0, register.votes[id])

\* What the views show of every registered voter.
get_vote_options(id) == [i \in DOMAIN register.voters |-> has_voted(id, register.voters[i])]
get_vote_weights(id) ==
  [i \in DOMAIN register.voters |->
     IF is_bit_set(register.bits[id], i - 1) THEN packed_weight(register.weights[id], i - 1)
     ELSE IF Contains(register.votes[id], register.voters[i]) THEN admin_weight(register.voters[i])
     ELSE 0]

finalize(id) ==
  /\ register.proposal[id] /= None
  /\ ~register.proposal[id].executed /\ ~register.proposal[id].cancelled
  /\ tally(id) >= required_threshold
  /\ register' = [register EXCEPT !.proposal[id].executed = TRUE,
                                  !.proposal[id].final_tally = tally(id)]
  /\ UNCHANGED cast

\* Everyone with a recorded vote, by ascending index.
participants(id) ==
  LET shown == get_vote_weights(id)
      present == SelectSeq([i \in DOMAIN shown |-> i], LAMBDA i : shown[i] > 0)
  IN  [k \in DOMAIN present |->
         [index |-> present[k] - 1, voter |-> register.voters[present[k]],
          weight |-> shown[present[k]]]]

LeavesOf(id, list) ==
  [k \in DOMAIN list |-> leaf_hash(id, list[k].index, TRUE, list[k].weight, list[k].voter)]

compress_after_execution(id) ==
  /\ register.proposal[id] /= None /\ register.proposal[id].executed
  /\ register.archive[id] = None
  /\ LET leaves == LeavesOf(id, participants(id))
     IN  register' = [register EXCEPT
           !.archive[id] = [root |-> merkle_root(leaves), leaf_count |-> Len(leaves),
                            final_tally |-> register.proposal[id].final_tally],
           !.bits[id] = <<>>, !.weights[id] = <<>>, !.votes[id] = <<>>]
  /\ UNCHANGED cast

\* Only while the detailed register is there; index is the voter's.
merkle_proof_for_voter(id, index) ==
  LET list == participants(id)
  IN  merkle_proof(LeavesOf(id, list), SelectInSeq(list, LAMBDA p : p.index = index) - 1)

verify_archived_vote(id, position, index, voter, option, weight, proof) ==
  /\ register.archive[id] /= None
  /\ verify_proof(register.archive[id].root, leaf_hash(id, index, option, weight, voter),
                  position, register.archive[id].leaf_count, proof)

ArchiveNext ==
  /\ UNCHANGED <<now, chain, executer, invoked, rotation>>
  /\ \/ \E v \in Voters :
          \/ add_voter(v)
          \/ \E w \in Weights : set_admin_weight(v, w)
          \/ \E id \in ProposalIds : cast_vote(v, id)
     \/ \E t \in Thresholds : set_weight_threshold(t)
     \/ \E id \in ProposalIds :
          propose_action(id) \/ cancel_action(id) \/ finalize(id) \/ compress_after_execution(id)

-----------------------------------------------------------------------------
(* Weight locks and delegation chains: governance-invariants *)

VotingWeightLock == [locked_amount : Nat, weight : Int]
DelegationRecord == [delegatee : Users, declared_weight : Int]

get_delegate(u) == chain.delegate[u]

\* Everyone reached by following delegates from u, u itself left out unless the
\* delegates lead back to it.
Upstream(u) ==
  LET reach[k \in 0..Cardinality(Users)] ==
        IF k = 0 THEN {get_delegate(u)} \ {None}
        ELSE reach[k - 1] \union ({get_delegate(x) : x \in reach[k - 1]} \ {None})
  IN  reach[Cardinality(Users)]

\* delta reaches everyone in S.
Shift(S, delta) == [u \in Users |-> chain.delegated[u] + (IF u \in S THEN delta ELSE 0)]

verify_identity(u) ==
  /\ chain' = [chain EXCEPT !.verified = @ \union {u}]

lock_tokens(u, amount) ==
  /\ amount > 0 /\ chain.lock[u] = None
  /\ chain' = [chain EXCEPT !.lock[u] = [locked_amount |-> amount, weight |-> amount],
                            !.delegated = Shift(Upstream(u), amount),
                            !.total = @ + amount]

\* Mutant: what is delegated is told nothing.
extend_lock_Quietly(u, amount) ==
  /\ amount > 0 /\ chain.lock[u] /= None
  /\ chain' = [chain EXCEPT !.lock[u].locked_amount = @ + amount, !.lock[u].weight = @ + amount,
                            !.total = @ + amount]

extend_lock(u, amount) ==
  /\ amount > 0 /\ chain.lock[u] /= None
  /\ chain' = [chain EXCEPT !.lock[u].locked_amount = @ + amount, !.lock[u].weight = @ + amount,
                            !.delegated = Shift(Upstream(u), amount),
                            !.total = @ + amount]

\* Moves weight between two locks and leaves what delegates hold as it was.
delegate_weight(d, e, amount) ==
  /\ amount > 0 /\ {d, e} \subseteq chain.verified
  /\ chain.lock[d] /= None /\ chain.lock[d].weight >= amount
  /\ LET from == [chain.lock EXCEPT ![d].weight = @ - amount, ![d].locked_amount = @ - amount]
         to == IF from[e] = None THEN [locked_amount |-> 0, weight |-> 0] ELSE from[e]
     IN  chain' = [chain EXCEPT
           !.lock = [from EXCEPT ![e] = [locked_amount |-> to.locked_amount + amount,
                                         weight |-> to.weight + amount]],
           !.record[d] = [delegatee |-> e, declared_weight |-> amount]]

\* Own and received weight leave the old chain and join the new one; naming
\* oneself takes them back.
delegate(d, to) ==
  /\ chain.lock[d] /= None /\ d \in chain.verified
  /\ LET old == get_delegate(d)
         shifted == chain.lock[d].weight + chain.delegated[d]
         left == IF old = None THEN chain.delegated ELSE Shift({old} \union Upstream(old), -shifted)
     IN  \/ /\ to /= d /\ to \in chain.verified /\ d \notin Upstream(to) /\ old /= to
            /\ chain' = [chain EXCEPT
                 !.delegated = [u \in Users |->
                    left[u] + (IF u \in {to} \union Upstream(to) THEN shifted ELSE 0)],
                 !.delegate[d] = to,
                 !.record[d] = [delegatee |-> to, declared_weight |-> shifted]]
         \/ /\ to = d /\ old /= None
            /\ chain' = [chain EXCEPT !.delegated = left, !.delegate[d] = None, !.record[d] = None]

checkpoint_reclaim_on_vote(u) == get_delegate(u) /= None /\ delegate(u, u)

get_voting_power(u) ==
  IF get_delegate(u) /= None THEN 0
  ELSE (IF chain.lock[u] = None THEN 0 ELSE chain.lock[u].weight) + chain.delegated[u]

ChainNext ==
  /\ UNCHANGED <<now, register, cast, executer, invoked, rotation>>
  /\ \E u \in Users :
       \/ verify_identity(u) \/ checkpoint_reclaim_on_vote(u)
       \/ \E amount \in Amounts : lock_tokens(u, amount) \/ extend_lock(u, amount)
       \/ \E v \in Users : delegate(u, v) \/ \E amount \in Amounts : delegate_weight(u, v, amount)
  /\ chain'.total <= MaxLocked

-----------------------------------------------------------------------------
(* Timelocked proposals: governance_executer *)

Priorities == {"Critical", "High", "Standard"}
rank(p) == CASE p = "Critical" -> 3 [] p = "High" -> 2 [] p = "Standard" -> 1

Proposal == [executed : BOOLEAN, timelock_until : Nat, priority : Priorities]

create_proposal_with_priority(delay, p) ==
  /\ Len(executer) < MaxCreated
  /\ executer' = Append(executer,
       [executed |-> FALSE, timelock_until |-> now + delay, priority |-> p])
  /\ UNCHANGED invoked

Executable(id) == ~executer[id].executed /\ now >= executer[id].timelock_until

MarkExecuted(ids) ==
  executer' = [i \in DOMAIN executer |->
                 IF i \in Range(ids) THEN [executer[i] EXCEPT !.executed = TRUE] ELSE executer[i]]

execute_single(id) ==
  Executable(id) /\ MarkExecuted(<<id>>) /\ invoked' = Append(invoked, id)

\* One after another by priority; a proposal named twice fails the second time
\* and takes the whole batch with it.
execute_batch(ids) ==
  /\ IsInjective(ids) /\ \A i \in DOMAIN ids : Executable(ids[i])
  /\ MarkExecuted(ids)
  /\ LET Of(p) == SelectSeq(ids, LAMBDA id : executer[id].priority = p)
     IN  invoked' = invoked \o Of("Critical") \o Of("High") \o Of("Standard")

\* All are looked at before the first is called: a repetition goes unnoticed.
execute_batch_checked(ids) ==
  /\ \A i \in DOMAIN ids : Executable(ids[i])
  /\ MarkExecuted(ids) /\ invoked' = invoked \o ids

Advance == now < MaxTime /\ now' = now + 1

Batches == {<<i, j>> : i, j \in DOMAIN executer}

ExecuterNext ==
  /\ UNCHANGED <<register, cast, chain, rotation>>
  /\ \/ /\ UNCHANGED now
        /\ \/ \E delay \in Delays, p \in Priorities : create_proposal_with_priority(delay, p)
           \/ \E id \in DOMAIN executer : execute_single(id)
           \/ \E ids \in Batches : execute_batch(ids) \/ execute_batch_checked(ids)
     \/ Advance /\ UNCHANGED <<executer, invoked>>

-----------------------------------------------------------------------------
(* Key rotation: multisig-admin-rotation *)

PendingAdminRotation == [new_admin_keys : KeySets, effective_at : Nat]

\* Every sitting key signs, and the approvers named are as many as the keys.
propose_rotation(approvers, keys) ==
  /\ keys /= <<>>
  /\ Len(approvers) = Len(rotation.keys) /\ Range(rotation.keys) \subseteq Range(approvers)
  /\ rotation' = [rotation EXCEPT
       !.pending = [new_admin_keys |-> keys, effective_at |-> now + RotationDelay]]

apply_rotation ==
  /\ rotation.pending /= None /\ now >= rotation.pending.effective_at
  /\ rotation' = [keys |-> rotation.pending.new_admin_keys, pending |-> None, since |-> now]

RotationNext ==
  /\ UNCHANGED <<register, cast, chain, executer, invoked>>
  /\ \/ /\ UNCHANGED now
        /\ \/ \E approvers \in KeySets, keys \in KeySets : propose_rotation(approvers, keys)
           \/ apply_rotation
     \/ Advance /\ UNCHANGED rotation

-----------------------------------------------------------------------------

Init ==
  /\ now = 0
  /\ register = [voters |-> <<>>, weight |-> [v \in Voters |-> None], threshold |-> None,
                 proposal |-> [id \in ProposalIds |-> None],
                 bits |-> [id \in ProposalIds |-> <<>>],
                 weights |-> [id \in ProposalIds |-> <<>>],
                 votes |-> [id \in ProposalIds |-> <<>>],
                 archive |-> [id \in ProposalIds |-> None]]
  /\ cast = [id \in ProposalIds |-> [v \in Voters |-> 0]]
  /\ chain = [lock |-> [u \in Users |-> None], delegate |-> [u \in Users |-> None],
              delegated |-> [u \in Users |-> 0], verified |-> {},
              record |-> [u \in Users |-> None], total |-> 0]
  /\ executer = <<>> /\ invoked = <<>>
  /\ rotation \in {[keys |-> k, pending |-> None, since |-> 0] : k \in KeySets \ {<<>>}}

TypeOK ==
  /\ now \in 0..MaxTime
  /\ register.voters \in Seq(Voters) /\ IsInjective(register.voters)
  /\ register.weight \in [Voters -> 1..MaxVoteWeight \union {None}]
  /\ register.threshold \in 1..MaxThreshold \union {None}
  /\ register.proposal \in [ProposalIds -> ProposalState \union {None}]
  /\ chain.lock \in [Users -> VotingWeightLock \union {None}]
  /\ chain.delegate \in [Users -> Users \union {None}] /\ chain.delegated \in [Users -> Int]
  /\ chain.record \in [Users -> DelegationRecord \union {None}]
  /\ executer \in Seq(Proposal)
  /\ rotation.pending \in PendingAdminRotation \union {None}

-----------------------------------------------------------------------------

\* The packed words lose nothing: before and after a proposal is archived its
\* tally is the sum of the weights its voters had when they voted, and the
\* views show exactly them while the words are kept.
TallyIsVotesCast ==
  \A id \in ProposalIds :
    register.proposal[id] /= None =>
      /\ (register.proposal[id].executed => register.proposal[id].final_tally = SumOf(cast[id], Voters))
      /\ tally(id) = SumOf(cast[id], Voters)
      /\ register.proposal[id].vote_count = Cardinality({v \in Voters : cast[id][v] > 0})
      /\ (register.archive[id] = None =>
            /\ get_vote_weights(id) = [i \in DOMAIN register.voters |-> cast[id][register.voters[i]]]
            /\ get_vote_options(id) = [i \in DOMAIN register.voters |-> cast[id][register.voters[i]] > 0])

\* An archived root answers for the votes that were cast and for no other: with
\* the path the register handed out every vote verifies at its place, while
\* with that path no other weight, voter or option does, and a place outside
\* the tree is never accepted.
ArchiveIsFaithful ==
  \A id \in ProposalIds :
    register.archive[id] /= None =>
      LET order == SelectSeq(register.voters, LAMBDA v : cast[id][v] > 0)
          leaves == [k \in DOMAIN order |->
                       leaf_hash(id, voter_index(order[k]), TRUE, cast[id][order[k]], order[k])]
          Verifies(k, v, option, w) ==
            verify_archived_vote(id, k, voter_index(v), v, option, w, merkle_proof(leaves, k))
      IN  /\ register.archive[id].leaf_count = Len(order)
          /\ \A k \in 0..(Len(order) - 1), v \in Range(register.voters), option \in BOOLEAN,
                w \in 1..MaxVoteWeight :
               Verifies(k, v, option, w) <=> v = order[k + 1] /\ option /\ w = cast[id][v]
          /\ \A v \in Range(register.voters) : ~Verifies(Len(order), v, TRUE, 1)

\* The path handed out for a voter before the register is folded is the one
\* that verifies against the root the fold will store.
PathsSurviveFolding ==
  [][ \A id \in ProposalIds :
        (register.archive[id] = None /\ register'.archive[id] /= None) =>
          \A k \in DOMAIN participants(id) :
            LET p == participants(id)[k]
            IN  verify_proof(register'.archive[id].root,
                             leaf_hash(id, p.index, TRUE, p.weight, p.voter), k - 1,
                             register'.archive[id].leaf_count, merkle_proof_for_voter(id, p.index)) ]_vars

\* A finalized proposal stays executed with the tally it was finalized with,
\* takes no further vote, and reached the threshold of its time.
FinalizedIsFinal ==
  [][ \A id \in ProposalIds :
        register'.proposal[id] /= None /\ register'.proposal[id].executed =>
          IF register.proposal[id].executed
          THEN /\ register'.proposal[id].final_tally = register.proposal[id].final_tally
               /\ cast'[id] = cast[id]
          ELSE register'.proposal[id].final_tally >= required_threshold ]_vars

\* Weight is neither made nor lost by locking, extending and moving it, and
\* delegates never lead back to where they started: the loops that follow them
\* end.
WeightsAddUp ==
  /\ chain.total = MapThenSumSet(LAMBDA u : chain.lock[u].weight, {u \in Users : chain.lock[u] /= None})
  /\ \A u \in Users : u \notin Upstream(u)

\* What a delegate holds is the weight of everyone whose chain leads to it.
DelegatedExact ==
  \A u \in Users :
    chain.delegated[u] = MapThenSumSet(LAMBDA v : chain.lock[v].weight,
                           {v \in Users : chain.lock[v] /= None /\ u \in Upstream(v)})

\* As long as that is so, every locked unit votes exactly once.
UnitsVoteOnce ==
  DelegatedExact => MapThenSumSet(get_voting_power, Users) = chain.total

\* Locks, extensions, delegations and reclaims keep delegated weight exact;
\* only moving weight directly between two locks can break it.
OnlyTransfersDrift ==
  [][ (DelegatedExact /\ ~DelegatedExact') =>
        \E d, e \in Users, amount \in Amounts : delegate_weight(d, e, amount) ]_vars

\* No target is called before its timelock, and none twice except in a batch
\* that names it twice and is checked up front.
InvokedInTime ==
  [][ \A i \in (Len(invoked) + 1)..Len(invoked') :
        /\ executer[invoked'[i]].timelock_until <= now
        /\ \/ \A j \in 1..(i - 1) : invoked'[j] /= invoked'[i]
           \/ \E id \in DOMAIN executer : execute_batch_checked(<<id, id>>) ]_vars

\* Two rotations lie a full delay apart, however proposals follow each other.
RotationsSpaced ==
  [][ rotation'.keys /= rotation.keys => now >= rotation.since + RotationDelay ]_vars

=============================================================================
