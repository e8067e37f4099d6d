------------------------------ MODULE MCBridge ------------------------------
(***************************************************************************)
(* The bridge's money, for model checking: the minting ceiling of          *)
(* BridgeCap, the wrapped asset of WrappedAsset, the vault with its        *)
(* remittances of BridgeVault, and the safes around it of Safekeeping: the *)
(* rescue of locked tokens, the timelock of withdrawals, the orders of the *)
(* order book and the emission of the staking pool.                        *)
(*                                                                         *)
(* They share no storage and do not call each other (what the ceiling      *)
(* knows of the mint engine is part of BridgeCap), so a behaviour of one   *)
(* is explored while the others rest: contract, fixed in the initial       *)
(* state, says which.                                                      *)
(***************************************************************************)
EXTENDS BridgeCap

CONSTANTS
  Self,                        \* the vault's own address
  Holders, Controllers,        \* parties of the wrapped asset
  MintAmounts, Caps,           \* amounts minted or burnt, limits and ceilings
  MintWindow, MintTime,        \* its rolling window, bound on its clock
  Users, Tokens, Nonces,       \* parties, tokens and messages of the vault
  VaultAmounts, Lifetimes,     \* amounts offered to it, life of a remittance
  VaultWindow, VaultTime,      \* its rolling window, bound on its clock
  MaxIds, Supply,              \* bounds: its remittances, tokens per user
  Genesis,                     \* ledger time at which both go live
  \* of Safekeeping
  KeepSenders, Committees, KeepThresholds, KeepTimeout, KeepAmounts, KeepLarge, KeepDelay,
  KeySets, Silence, KeepFull, Emissions, KeepSupply, KeepMaxTime, MaxLocks, MaxOrders,
  MaxRotations

VARIABLES
  contract,   \* which part of the bridge is called
  \* the state of WrappedAsset
  wrapped_now, wrapped_config, wrapped_balance, wrapped_cap, wrapped_recent,
  wrapped_minted,
  \* the state of BridgeVault
  vault_now, vault_native, vault_processor, vault_vault, vault_recent,
  vault_spent, vault_nextId, vault_remittance, vault_tok, vault_elsewhere, vault_paid,
  \* the state of Safekeeping
  k_now, k_rescue, k_queue, k_book, k_emission

wrappedVars ==
  <<wrapped_now, wrapped_config, wrapped_balance, wrapped_cap,
    wrapped_recent, wrapped_minted>>
vaultVars ==
  <<vault_now, vault_native, vault_processor, vault_vault, vault_recent,
    vault_spent, vault_nextId, vault_remittance, vault_tok, vault_elsewhere,
    vault_paid>>
keepVars == <<k_now, k_rescue, k_queue, k_book, k_emission>>
allVars == <<contract, vars, wrappedVars, vaultVars, keepVars>>

\* Committees of one, of one listed twice, and of two.
SmallCommittees == {<<"w1">>, <<"w1", "w1">>, <<"w1", "w2">>}
\* Emissions that start at once or later, decay or not or too much, with a cap
\* that is met or not, and one without epochs.
SmallEmissions ==
  {[start |-> s, rate |-> 7, epoch |-> e, decay |-> d, cap |-> c] :
     s \in {0, 2}, e \in {0, 1, 2}, d \in {0, 1, 5}, c \in {9, 50}}

-----------------------------------------------------------------------------

Wrapped == INSTANCE WrappedAsset WITH
  Amounts <- MintAmounts, Window <- MintWindow, MaxTime <- MintTime,
  now <- wrapped_now, config <- wrapped_config, balance <- wrapped_balance,
  cap <- wrapped_cap, recent <- wrapped_recent, minted <- wrapped_minted

Vault == INSTANCE BridgeVault WITH
  Amounts <- VaultAmounts, Window <- VaultWindow, MaxTime <- VaultTime,
  now <- vault_now, native <- vault_native, processor <- vault_processor,
  vault <- vault_vault, recent <- vault_recent, spent <- vault_spent,
  nextId <- vault_nextId, remittance <- vault_remittance, tok <- vault_tok,
  elsewhere <- vault_elsewhere, paid <- vault_paid

Keep == INSTANCE Safekeeping WITH
  Senders <- KeepSenders, Thresholds <- KeepThresholds, Timeout <- KeepTimeout,
  Amounts <- KeepAmounts, Large <- KeepLarge, Delay <- KeepDelay, Full <- KeepFull,
  Supply <- KeepSupply, MaxTime <- KeepMaxTime,
  now <- k_now, rescue <- k_rescue, queue <- k_queue, book <- k_book,
  emission <- k_emission

\* The timelock is explored for fewer seconds than the other safes.
MaxTimelockTime == 3

\* Bound: the core contract holds one of one token for others.
MaxElsewhere(t) == IF t = CHOOSE u \in Tokens : TRUE THEN 1 ELSE 0

ASSUME WrappedAssumption == Wrapped!WrappedAssetAssumption
ASSUME VaultAssumption == Vault!BridgeVaultAssumption
ASSUME SafesAssumption == Keep!SafekeepingAssumption

MCInit ==
  /\ contract \in {"ceiling", "wrapped", "vault", "rescue", "timelock", "book", "emission"}
  /\ Init /\ Wrapped!Init /\ Vault!Init /\ Keep!Init

MCNext ==
  /\ UNCHANGED contract
  /\ \/ contract = "ceiling" /\ Next /\ UNCHANGED <<wrappedVars, vaultVars, keepVars>>
     \/ contract = "wrapped" /\ Wrapped!Next /\ UNCHANGED <<vars, vaultVars, keepVars>>
     \/ /\ contract = "vault" /\ Vault!Next /\ UNCHANGED <<vars, wrappedVars, keepVars>>
        /\ \A t \in Tokens : vault_elsewhere'[t] <= MaxElsewhere(t)
     \/ /\ \/ contract = "rescue" /\ Keep!RescueNext
           \/ contract = "timelock" /\ Keep!TimelockNext /\ k_now' <= MaxTimelockTime
           \/ contract = "book" /\ Keep!BookNext
           \/ contract = "emission" /\ Keep!EmissionNext
        /\ UNCHANGED <<vars, wrappedVars, vaultVars>>

\* Of the vault: ledgers keep closing and a sender takes back what has expired.
MCSpec ==
  /\ MCInit /\ [][MCNext]_allVars
  /\ WF_vaultVars(contract = "vault" /\ Vault!Tick)
  /\ \A i \in Vault!Ids : WF_vaultVars(contract = "vault" /\ Vault!cancel_remittance(i))

-----------------------------------------------------------------------------

\* Every storage entry of the bridge is well formed; no balance, supply or
\* recorded mint is negative.
TypesOK == TypeOK /\ Wrapped!TypeOK /\ Vault!TypeOK

\* Storage is well formed; the supply of the wrapped asset is the sum of its
\* balances and within its bounds; in every token the contract holds exactly the
\* vault, what it owes on open remittances and what it holds for others, so no
\* pool is paid out of another; and a message of the other chain is paid at most once.
FundsAccounted ==
  TypesOK /\ Wrapped!SupplyIsBalances /\ Vault!PoolsAreSeparate /\ Vault!NoncePaysOnce

\* A mint never brings what was really minted within the last window above the
\* rolling limit in force, whatever the limiter dropped from its list.
RollingLimitHolds == Wrapped!RollingLimitHolds

\* A remittance of the vault is released or returned once, never returned
\* before it expires or released after; an expired one goes back in the end,
\* whatever became of the processor and of the native token, and no longer
\* keeps the vault from locking and unlocking: only what the contract holds for
\* others does.
ExpiredIsReturned ==
  Vault!ImplementsCustody /\ Vault!ExpiredIsReturned /\ Vault!BlockadeEnds

\* The rescue, the timelock, the order book and the emission keep what they were
\* given and let go of it on their terms.
KeptUntilDue ==
  /\ []Keep!TypeOK
  /\ [](contract = "rescue" => Keep!RescueIsExact /\ Keep!NoLockIsStranded)
  /\ [](contract = "book" => Keep!OrdersAreHeld)
  /\ [](contract = "emission" => Keep!EmissionIsPathIndependent)
  /\ [](contract = "emission" /\ Keep!Init => Keep!SpentTreeIsExact)
  /\ Keep!WindowDecides /\ Keep!LargeWithdrawalsWait /\ Keep!OnlySilenceReturns
=============================================================================
