--------------------------- MODULE BridgeRelayer ---------------------------
(***************************************************************************)
(* The relayer set of the bridge: threshold, registration, acceptance of   *)
(* cross-chain messages (src/bridge/relayer.rs) and the slashing of        *)
(* validators that sign two messages for one nonce (src/bridge/slashing.rs)*)
(*                                                                         *)
(* Validators sign off-chain; signed is what they have ever put their key  *)
(* to.  A signature of a registered key that does not verify traps the     *)
(* call; repeated keys and keys that are not registered are skipped.       *)
(***************************************************************************)
EXTENDS Integers, FiniteSets, Balances

CONSTANTS
  Keys,          \* validator public keys
  Nonces,        \* (source chain, nonce) pairs
  Payloads,      \* (proof hash, recipient, amount) triples, amount > 0
  Thresholds,    \* thresholds the admin may configure
  Stakes,        \* collateral amounts offered
  MaxStake       \* bound: collateral one validator may accumulate

BridgeRelayerAssumption ==
  /\ IsFiniteSet(Keys)
  /\ Thresholds \subseteq Nat /\ Stakes \subseteq Int /\ MaxStake \in Nat

Messages == [nonce : Nonces, payload : Payloads]

VARIABLES
  threshold,    \* RelayerStorageKey::Threshold, 0 when absent
  validators,   \* RelayerStorageKey::Validator
  spent,        \* RelayerStorageKey::SpentNonce
  collateral,   \* SlashingDataKey::ValidatorCollateral
  banned,       \* SlashingDataKey::BannedValidator
  slashed,      \* SlashingDataKey::TotalSlashedCollateral
  signed,       \* signatures that exist (external): pairs of key and message
  accepted,     \* history: the messages verify_cross_chain_payload let through
  staked        \* history: total collateral ever deposited

vars == <<threshold, validators, spent, collateral, banned, slashed, signed,
          accepted, staked>>

-----------------------------------------------------------------------------

Init ==
  /\ threshold = 0
  /\ validators = {}
  /\ spent = {}
  /\ collateral = [k \in Keys |-> 0]
  /\ banned = {}
  /\ slashed = 0
  /\ signed = {}
  /\ accepted = {}
  /\ staked = 0

\* A validator puts its key to a message, honestly or not.
Sign(k, m) ==
  /\ signed' = signed \cup {<<k, m>>}
  /\ UNCHANGED <<threshold, validators, spent, collateral, banned, slashed, accepted, staked>>

\* Admin only.  Nothing relates the threshold to the number of validators.
configure_threshold(t) ==
  /\ t # 0
  /\ threshold' = t
  /\ UNCHANGED <<validators, spent, collateral, banned, slashed, signed, accepted, staked>>

\* Admin only.
add_validator(k) ==
  /\ k \notin banned
  /\ k \notin validators
  /\ validators' = validators \cup {k}
  /\ UNCHANGED <<threshold, spent, collateral, banned, slashed, signed, accepted, staked>>

\* Admin only.  The collateral stays where it is.
remove_validator(k) ==
  /\ k \in validators
  /\ validators' = validators \ {k}
  /\ UNCHANGED <<threshold, spent, collateral, banned, slashed, signed, accepted, staked>>

stake_validator_collateral(k, amount) ==
  /\ amount > 0
  /\ k \notin banned
  /\ k \in validators
  /\ collateral[k] + amount <= MaxStake
  /\ collateral' = [collateral EXCEPT ![k] = @ + amount]
  /\ staked' = staked + amount
  /\ UNCHANGED <<threshold, validators, spent, banned, slashed, signed, accepted>>

\* Mutant: every presented signature counts, registered or not.
CountedSigners_Any(signers) == signers

\* Distinct registered keys among those presented.
CountedSigners(signers) == signers \cap validators

\* Called by unlock_tokens.  The nonce is spent whatever the payload was.
verify_cross_chain_payload(m, signers) ==
  /\ threshold # 0
  /\ \A k \in CountedSigners(signers) : <<k, m>> \in signed
  /\ m.nonce \notin spent
  /\ Cardinality(CountedSigners(signers)) >= threshold
  /\ spent' = spent \cup {m.nonce}
  /\ accepted' = accepted \cup {m}
  /\ UNCHANGED <<threshold, validators, collateral, banned, slashed, signed, staked>>

\* Permissionless: the two signatures are the proof.
process_double_sign_proof(k, m1, m2) ==
  /\ k \notin banned
  /\ k \in validators
  /\ m1.nonce = m2.nonce /\ m1.payload # m2.payload
  /\ <<k, m1>> \in signed /\ <<k, m2>> \in signed
  /\ slashed' = slashed + collateral[k]
  /\ collateral' = [collateral EXCEPT ![k] = 0]
  /\ validators' = validators \ {k}
  /\ banned' = banned \cup {k}
  /\ UNCHANGED <<threshold, spent, signed, accepted, staked>>

Next ==
  \/ \E k \in Keys, m \in Messages : Sign(k, m)
  \/ \E t \in Thresholds : configure_threshold(t)
  \/ \E k \in Keys : add_validator(k)
  \/ \E k \in Keys : remove_validator(k)
  \/ \E k \in Keys, x \in Stakes : stake_validator_collateral(k, x)
  \/ \E m \in Messages, S \in SUBSET Keys : verify_cross_chain_payload(m, S)
  \/ \E k \in Keys, m1, m2 \in Messages : process_double_sign_proof(k, m1, m2)

Spec == Init /\ [][Next]_vars

-----------------------------------------------------------------------------

\* The relayer's storage keeps its types.
TypeOK ==
  /\ threshold \in Nat
  /\ validators \subseteq Keys
  /\ spent \subseteq Nonces
  /\ collateral \in [Keys -> Nat]
  /\ banned \subseteq Keys
  /\ slashed \in Nat
  /\ signed \subseteq Keys \X Messages
  /\ accepted \subseteq Messages
  /\ staked \in Nat

\* At most one message per nonce is ever accepted, even when a quorum signed two
\* that contradict each other, and across any change of the validator set.
OneMessagePerNonce ==
  /\ \A m1, m2 \in accepted : m1.nonce = m2.nonce => m1 = m2
  /\ spent = {m.nonce : m \in accepted}

DoubleSigned(k) ==
  \E m1, m2 \in Messages :
    /\ m1.nonce = m2.nonce /\ m1 # m2
    /\ <<k, m1>> \in signed /\ <<k, m2>> \in signed

\* A ban is permanent, complete and deserved: a banned key is never back among
\* the validators, has no collateral left, and did sign a contradiction.
BansAreFinal ==
  \A k \in banned : k \notin validators /\ collateral[k] = 0 /\ DoubleSigned(k)

\* All collateral ever staked is still held for its validator or was slashed.
CollateralConserved == staked = SumOf(collateral, Keys) + slashed

\* Acceptance takes as many registered keys as the threshold in force asks for,
\* each of which signed exactly that message.
QuorumBehindAcceptance ==
  [][\A m \in accepted' \ accepted :
       Cardinality({k \in validators : <<k, m>> \in signed}) >= threshold]_vars
=============================================================================
