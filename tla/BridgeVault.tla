---------------------------- MODULE BridgeVault ----------------------------
(***************************************************************************)
(* The native-asset vault of the bridge and the remittances paid out of    *)
(* the same contract (src/bridge/escrow.rs), with the rolling limit on     *)
(* unlocks (src/bridge/rate_limit.rs).  Whether the relayers vouch for an  *)
(* unlock is BridgeRelayer's subject; here any message may arrive with a   *)
(* quorum, and what matters is that its nonce is spent.                    *)
(***************************************************************************)
EXTENDS Balances, FiniteSets

CONSTANTS
  Users,         \* depositors, senders and recipients
  Self,          \* env.current_contract_address()
  Tokens,        \* token contracts
  None,          \* an absent storage entry
  Nonces,        \* (source chain, nonce) pairs
  Amounts,       \* amounts offered
  Lifetimes,     \* expires_at values offered, relative to now
  Window,        \* rate_limit::WINDOW_SECONDS
  Genesis,       \* ledger time at which the contract goes live
  MaxTime,       \* bound: last ledger time explored
  MaxIds,        \* bound: remittances created in one behaviour
  Supply         \* bound: tokens of each kind each user starts with

Remittance ==
  [sender : Users, recipient : Users, primary : Tokens,
   amount : {x \in Amounts : x > 0},
   fee_token : Tokens \cup {None}, fee : {x \in Amounts : x >= 0}, expires_at : Nat,
   released : BOOLEAN, refunded : BOOLEAN]

\* What Custody sees of a remittance.
Deposit ==
  [owner : Users, payee : Users, amount : {x \in Amounts : x > 0}, refundable_at : Nat,
   status : {"held", "settled", "returned"}]

BridgeVaultAssumption ==
  /\ Self \notin Users /\ None \notin Tokens \cup Remittance \cup Deposit
  /\ Amounts \subseteq Int /\ Lifetimes \subseteq Nat
  /\ Window \in Nat \ {0} /\ Genesis \in Nat \ {0}
  /\ MaxTime \in Nat /\ Genesis <= MaxTime /\ MaxIds \in Nat /\ Supply \in Nat

Ids == 0..(MaxIds - 1)

Times == Genesis..MaxTime

VARIABLES
  now,           \* env.ledger().timestamp()
  native,        \* config.native_token, None until configured
  processor,     \* whether config.processor is a real key
  vault,         \* VaultBalance(token)
  recent,        \* RateLimitKey::Mints(Native(token)), summed per timestamp
  spent,         \* RelayerStorageKey::SpentNonce
  nextId,        \* RemittanceNonce
  remittance,    \* Remittance(id)
  tok,           \* balances per token contract (external)
  elsewhere,     \* what the contract holds of a token for neither vault nor remittance
  paid           \* history: how often each nonce was paid

vars == <<now, native, processor, vault, recent, spent, nextId, remittance, tok, elsewhere,
          paid>>

settings == <<native, processor>>
unlocks == <<recent, spent, paid>>

Exists(i) == remittance[i] # None

Open(i) == Exists(i) /\ ~remittance[i].released /\ ~remittance[i].refunded

MoveOf(bal, t, from, to, x) == [bal EXCEPT ![t] = Move(bal[t], from, to, x)]

-----------------------------------------------------------------------------

Init ==
  /\ now = Genesis
  /\ native = None /\ processor = FALSE
  /\ vault = [t \in Tokens |-> 0]
  /\ recent = [t \in Tokens |-> [s \in Times |-> 0]]
  /\ spent = {}
  /\ nextId = 0
  /\ remittance = [i \in Ids |-> None]
  /\ tok = [t \in Tokens |-> [a \in Users \cup {Self} |-> IF a = Self THEN 0 ELSE Supply]]
  /\ elsewhere = [t \in Tokens |-> 0]
  /\ paid = [n \in Nonces |-> 0]

Tick ==
  /\ now < MaxTime
  /\ now' = now + 1
  /\ UNCHANGED <<settings, vault, unlocks, nextId, remittance, tok, elsewhere>>

\* Admin only.  ProcessorNonce(0) is never written, so configuring again also
\* resets the processor to the zero key.
configure(t) ==
  /\ native' = t
  /\ processor' = FALSE
  /\ UNCHANGED <<now, vault, unlocks, nextId, remittance, tok, elsewhere>>

\* Admin only.
register_processor ==
  /\ native # None
  /\ processor' = TRUE
  /\ UNCHANGED <<now, native, vault, unlocks, nextId, remittance, tok, elsewhere>>

\* The balance of the core contract is one, whoever it is held for: anybody may
\* transfer to it, and its other modules take deposits in any token and pay
\* them out again.
transfer_in(u, t, amount) ==
  /\ amount > 0 /\ CanMove(tok[t], u, amount)
  /\ tok' = MoveOf(tok, t, u, Self, amount)
  /\ elsewhere' = [elsewhere EXCEPT ![t] = @ + amount]
  /\ UNCHANGED <<now, settings, vault, unlocks, nextId, remittance>>

transfer_out(u, t, amount) ==
  /\ amount > 0 /\ amount <= elsewhere[t] /\ CanMove(tok[t], Self, amount)
  /\ tok' = MoveOf(tok, t, Self, u, amount)
  /\ elsewhere' = [elsewhere EXCEPT ![t] = @ - amount]
  /\ UNCHANGED <<now, settings, vault, unlocks, nextId, remittance>>

\* assert_balance_invariant: the call traps unless the contract's whole balance
\* of the native token is the tracked one.
Reconciled == tok[native][Self] = vault[native]

lock_tokens(depositor, amount) ==
  /\ amount > 0
  /\ native # None
  /\ Reconciled
  /\ CanMove(tok[native], depositor, amount)
  /\ tok' = MoveOf(tok, native, depositor, Self, amount)
  /\ vault' = [vault EXCEPT ![native] = @ + amount]
  /\ UNCHANGED <<now, settings, unlocks, nextId, remittance, elsewhere>>

InWindow(s) == s > (IF now < Window THEN 0 ELSE now - Window)

\* No limit is ever set for a native asset (the only entry point sets those of
\* wrapped ones), so the fallback applies: the vault's current balance.
enforce_and_record(t, amount) ==
  LET rolling == SumOf(recent[t], {s \in Times : InWindow(s)})
  IN /\ vault[t] > 0
     /\ rolling + amount <= vault[t]
     /\ recent' = [recent EXCEPT ![t] =
                     [s \in Times |-> (IF InWindow(s) THEN recent[t][s] ELSE 0)
                                      + (IF s = now THEN amount ELSE 0)]]

\* The end of verify_cross_chain_payload.
spend_nonce(n) ==
  /\ n \notin spent
  /\ spent' = spent \cup {n}

unlock_tokens(n, recipient, amount) ==
  /\ amount > 0
  /\ spend_nonce(n)
  /\ native # None
  /\ Reconciled
  /\ enforce_and_record(native, amount)
  /\ amount <= vault[native]
  /\ vault' = [vault EXCEPT ![native] = @ - amount]
  /\ CanMove(tok[native], Self, amount)
  /\ tok' = MoveOf(tok, native, Self, recipient, amount)
  /\ paid' = [paid EXCEPT ![n] = @ + 1]
  /\ UNCHANGED <<now, settings, nextId, remittance, elsewhere>>

\* Takes any token, the native one included, and does not touch VaultBalance.
create_remittance(sender, recipient, t, amount, ft, fee, expires_at) ==
  /\ amount > 0 /\ fee >= 0 /\ expires_at > now
  /\ ft = None => fee = 0
  /\ nextId < MaxIds
  /\ LET funded == MoveOf(tok, t, sender, Self, amount)
     IN /\ CanMove(tok[t], sender, amount)
        /\ IF ft = None THEN tok' = funded
           ELSE /\ CanMove(funded[ft], sender, fee)
                /\ tok' = MoveOf(funded, ft, sender, Self, fee)
  /\ nextId' = nextId + 1
  /\ remittance' = [remittance EXCEPT ![nextId] =
        [sender |-> sender, recipient |-> recipient, primary |-> t, amount |-> amount,
         fee_token |-> ft, fee |-> fee, expires_at |-> expires_at,
         released |-> FALSE, refunded |-> FALSE]]
  /\ UNCHANGED <<now, settings, vault, unlocks, elsewhere>>

\* Mutant: the fee stays behind.
PayOut_KeepsFee(i, to) ==
  /\ CanMove(tok[remittance[i].primary], Self, remittance[i].amount)
  /\ tok' = MoveOf(tok, remittance[i].primary, Self, to, remittance[i].amount)

\* Principal, then fee, each in its own token.
PayOut(i, to) ==
  LET r == remittance[i]
      sent == MoveOf(tok, r.primary, Self, to, r.amount)
  IN /\ CanMove(tok[r.primary], Self, r.amount)
     /\ IF r.fee_token = None THEN tok' = sent
        ELSE /\ CanMove(sent[r.fee_token], Self, r.fee)
             /\ tok' = MoveOf(sent, r.fee_token, Self, to, r.fee)

\* Submitted by anybody with the processor's signature; good up to and including
\* expires_at.
release_remittance(i) ==
  /\ Open(i)
  /\ now <= remittance[i].expires_at
  /\ native # None /\ processor
  /\ PayOut(i, remittance[i].recipient)
  /\ remittance' = [remittance EXCEPT ![i].released = TRUE]
  /\ UNCHANGED <<now, settings, vault, unlocks, nextId, elsewhere>>

\* Mutant: the sender may cancel at the expiry itself.
cancel_remittance_AtExpiry(i) ==
  /\ Open(i)
  /\ now >= remittance[i].expires_at
  /\ PayOut(i, remittance[i].sender)
  /\ remittance' = [remittance EXCEPT ![i].refunded = TRUE]
  /\ UNCHANGED <<now, settings, vault, unlocks, nextId, elsewhere>>

\* By the sender; reclaim_expired is the same call.
cancel_remittance(i) ==
  /\ Open(i)
  /\ now > remittance[i].expires_at
  /\ PayOut(i, remittance[i].sender)
  /\ remittance' = [remittance EXCEPT ![i].refunded = TRUE]
  /\ UNCHANGED <<now, settings, vault, unlocks, nextId, elsewhere>>

Next ==
  \/ Tick
  \/ \E t \in Tokens : configure(t)
  \/ register_processor
  \/ \E u \in Users, t \in Tokens, x \in Amounts : transfer_in(u, t, x)
  \/ \E u \in Users, t \in Tokens, x \in Amounts : transfer_out(u, t, x)
  \/ \E u \in Users, x \in Amounts : lock_tokens(u, x)
  \/ \E n \in Nonces, u \in Users, x \in Amounts : unlock_tokens(n, u, x)
  \/ \E s, r \in Users, t \in Tokens, ft \in Tokens \cup {None}, x, f \in Amounts,
        d \in Lifetimes : create_remittance(s, r, t, x, ft, f, now + d)
  \/ \E i \in Ids : release_remittance(i)
  \/ \E i \in Ids : cancel_remittance(i)

Spec == Init /\ [][Next]_vars

-----------------------------------------------------------------------------

\* Records, balances and recorded unlocks keep their types.
TypeOK ==
  /\ now \in Times
  /\ native \in Tokens \cup {None} /\ processor \in BOOLEAN
  /\ vault \in [Tokens -> Nat]
  /\ recent \in [Tokens -> [Times -> Nat]]
  /\ spent \subseteq Nonces
  /\ nextId \in 0..MaxIds
  /\ remittance \in [Ids -> Remittance \cup {None}]
  /\ tok \in [Tokens -> [Users \cup {Self} -> Nat]]
  /\ elsewhere \in [Tokens -> Nat]

\* What remittance i still claims of token t, principal and fee.
Claim(i, t) ==
  IF Open(i)
  THEN (IF remittance[i].primary = t THEN remittance[i].amount ELSE 0)
       + (IF remittance[i].fee_token = t THEN remittance[i].fee ELSE 0)
  ELSE 0

Owed(t) == SumOf([i \in Ids |-> Claim(i, t)], Ids)

\* In every token, whichever was the native one when, the contract holds exactly
\* the vault, what it owes on open remittances and what it holds for others: no
\* pool is ever paid out of another.
PoolsAreSeparate == \A t \in Tokens : tok[t][Self] = vault[t] + Owed(t) + elsewhere[t]

\* A message of the other chain is paid at most once, however often and with
\* whatever recipient or amount it is presented.
NoncePaysOnce == \A n \in Nonces : paid[n] <= 1

DepositOf(r) ==
  IF r = None THEN None
  ELSE [owner |-> r.sender, payee |-> r.recipient, amount |-> r.amount,
        refundable_at |-> r.expires_at + 1,
        status |-> IF r.released THEN "settled"
                   ELSE IF r.refunded THEN "returned" ELSE "held"]

C == INSTANCE Custody
     WITH Parties <- Users, NoDeposit <- None, Forgotten <- None, Exclusive <- TRUE,
          clock <- now, deposits <- [i \in Ids |-> DepositOf(remittance[i])]

\* The remittances implement the custody contract with exclusive windows.
ImplementsCustody == C!Spec

\* An expired remittance goes back to its sender in the end, whatever became of
\* the processor and of the native token.
ExpiredIsReturned ==
  \A i \in Ids : (Open(i) /\ now > remittance[i].expires_at) ~> ~Open(i)

\* assert_balance_invariant refuses every lock and unlock while the contract
\* holds anything of the native token besides the vault.  Remittances block the
\* vault only until they expire and are taken back; what has been transferred to
\* the contract or is held by its other modules blocks it for as long as it is
\* there, which nothing in the bridge can end.
BlockadeEnds ==
  ( /\ native # None /\ ~Reconciled
    /\ \A i \in Ids : Open(i) => now > remittance[i].expires_at )
  ~> (native # None /\ (Reconciled \/ elsewhere[native] > 0))
=============================================================================
