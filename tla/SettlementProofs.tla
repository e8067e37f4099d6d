-------------------------- MODULE SettlementProofs --------------------------
(***************************************************************************)
(* Proofs about the three settlement contracts, for every value of their   *)
(* constants.  Htlc: the quota counter is exact, and the HTLCs implement   *)
(* Custody with exclusive windows.  FiatEscrow and TimelockEscrow, as      *)
(* parts of MCSettlement: both implement Custody, and the time-locked      *)
(* escrows are covered by what the contract holds.                         *)
(***************************************************************************)
EXTENDS MCSettlement, FiniteSetTheorems, Balances, TLAPS

(***************************************************************************)
(* The inductive invariant.  Records exist only up to the nonce, or        *)
(* create_htlc could overwrite an open record and inflate the counter.     *)
(***************************************************************************)
FreshIds == \A i \in Ids : i > nonce => htlc[i] = None

IInv ==
  /\ TypeOK
  /\ FreshIds
  /\ QuotaExact

\* The set of a depositor's open HTLCs is finite, so that it can be counted.
LEMMA ActiveFinite ==
  ASSUME NEW a
  PROVE  IsFiniteSet(ActiveOf(a)) /\ Cardinality(ActiveOf(a)) \in Nat
<1>1. IsFiniteSet(Ids)
  BY FS_Interval, HtlcAssumption DEF Ids
<1>2. IsFiniteSet(ActiveOf(a))
  BY <1>1, FS_Subset DEF ActiveOf
<1> QED
  BY <1>2, FS_CardinalityType

\* A fresh deployment satisfies IInv.
LEMMA InitEstablishesIInv == Init => IInv
<1> SUFFICES ASSUME Init PROVE IInv
  OBVIOUS
<1> USE HtlcAssumption
<1>1. TypeOK /\ FreshIds
  BY DEF Init, TypeOK, FreshIds, Ids
<1>2. \A a \in Accounts : ActiveOf(a) = {}
  BY DEF Init, ActiveOf, IsActive, Exists
<1>3. QuotaExact
  BY <1>2, FS_EmptySet DEF Init, QuotaExact
<1> QED
  BY <1>1, <1>3 DEF IInv

\* Closing an open HTLC takes exactly it out of its depositor's open set and one
\* off the counter, whichever of the three calls closes it.
LEMMA CloseKeepsIInv ==
  ASSUME IInv, NEW i \in Ids, IsActive(i),
         NEW st \in {"Claimed", "Settled", "Refunded"}, Close(i, st)
  PROVE  IInv'
<1> USE HtlcAssumption
<1>0. htlc[i] \in HtlcRecord /\ htlc[i].depositor \in Accounts
  BY DEF IInv, TypeOK, IsActive, Exists, HtlcRecord
<1>1. PICK d \in Accounts : d = htlc[i].depositor
  BY <1>0
<1>2. /\ htlc'[i] \in HtlcRecord
      /\ htlc'[i].depositor = d /\ htlc'[i].state = st
  BY <1>0, <1>1 DEF Close, HtlcRecord, IInv, TypeOK
<1>3. \A j \in Ids : j # i => htlc'[j] = htlc[j]
  BY DEF Close, IInv, TypeOK
<1>4. htlc' \in [Ids -> HtlcRecord \cup {None}]
  BY <1>2, <1>3 DEF Close, IInv, TypeOK
<1>5. FreshIds'
  BY <1>0, <1>3 DEF Close, FreshIds, IInv
<1>6. ActiveOf(d)' = ActiveOf(d) \ {i} /\ i \in ActiveOf(d)
  BY <1>0, <1>1, <1>2, <1>3 DEF ActiveOf, IsActive, Exists
<1>7. \A a \in Accounts : a # d => ActiveOf(a)' = ActiveOf(a)
  BY <1>0, <1>1, <1>2, <1>3 DEF ActiveOf, IsActive, Exists
<1>8. Cardinality(ActiveOf(d)') = Cardinality(ActiveOf(d)) - 1
  <2> DEFINE A == ActiveOf(d)
  <2>1. IsFiniteSet(A) /\ i \in A
    BY <1>6, ActiveFinite
  <2> HIDE DEF A
  <2>2. Cardinality(A \ {i}) = Cardinality(A) - 1
    BY <2>1, FS_RemoveElement
  <2> QED
    BY <1>6, <2>2 DEF A
<1>9. Cardinality(ActiveOf(d)) \in Nat /\ Cardinality(ActiveOf(d)') \in Nat
  <2>1. IsFiniteSet(ActiveOf(d)) /\ IsFiniteSet(ActiveOf(d)')
    BY <1>6, ActiveFinite, FS_RemoveElement
  <2> QED
    BY <2>1, FS_CardinalityType
<1>10. active[d] = Cardinality(ActiveOf(d)) /\ active[d] <= MaxActive
  BY <1>1 DEF IInv, QuotaExact
<1>11. /\ active' \in [Accounts -> Nat]
       /\ active'[d] = Cardinality(ActiveOf(d)') /\ active'[d] <= MaxActive
       /\ \A a \in Accounts : a # d => active'[a] = active[a]
  <2>1. active[d] \in Nat /\ active[d] > 0
    BY <1>8, <1>9, <1>10
  <2>2. active' = [active EXCEPT ![d] = active[d] - 1]
    BY <1>1, <2>1 DEF Close
  <2>3. /\ active' \in [Accounts -> Nat]
        /\ active'[d] = active[d] - 1 /\ active'[d] <= MaxActive
        /\ \A a \in Accounts : a # d => active'[a] = active[a]
    BY <1>1, <1>10, <2>1, <2>2 DEF IInv, TypeOK
  <2>4. active'[d] = Cardinality(ActiveOf(d)')
    BY <1>8, <1>10, <2>3
  <2> QED
    BY <2>3, <2>4
<1>12. QuotaExact'
  <2> SUFFICES ASSUME NEW a \in Accounts
               PROVE  active'[a] = Cardinality(ActiveOf(a)') /\ active'[a] <= MaxActive
    BY DEF QuotaExact
  <2>1. CASE a = d
    BY <1>11, <2>1
  <2>2. CASE a # d
    BY <1>7, <1>11, <2>2 DEF IInv, QuotaExact
  <2> QED
    BY <2>1, <2>2
<1> QED
  BY <1>4, <1>5, <1>11, <1>12 DEF Close, IInv, TypeOK

\* Every call, and every ledger close, keeps IInv.
LEMMA NextKeepsIInv == IInv /\ [Next]_vars => IInv'
<1> SUFFICES ASSUME IInv, [Next]_vars PROVE IInv'
  OBVIOUS
<1> USE HtlcAssumption
<1>1. CASE CloseLedger
  BY <1>1
  DEF CloseLedger, IInv, TypeOK, FreshIds, QuotaExact, ActiveOf, IsActive, Exists
<1>2. ASSUME NEW d \in Accounts, NEW b \in Accounts, NEW h \in Hashes,
             NEW o \in (MinOffset + 1)..MaxOffset, NEW x \in Amounts,
             create_htlc(d, b, h, seq + o, x)
      PROVE  IInv'
  <2> DEFINE r == [depositor |-> d, beneficiary |-> b, hash_lock |-> h,
                   deadline_sequence |-> seq + o, amount |-> x, state |-> "Active"]
             n == nonce + 1
  <2>0. nonce \in 0..MaxIds /\ nonce < MaxIds
    BY <1>2 DEF create_htlc, IInv, TypeOK
  <2>1. n \in Ids /\ htlc[n] = None
    BY <2>0 DEF IInv, FreshIds, Ids
  <2>2. r \in HtlcRecord /\ r.depositor = d /\ r.state = "Active" /\ r # None
    <3>1. x \in Amounts \ {0}
      BY <1>2 DEF create_htlc
    <3> QED
      BY <3>1 DEF HtlcRecord, IInv, TypeOK
  <2>3. /\ htlc' = [htlc EXCEPT ![n] = r] /\ nonce' = n /\ seq' = seq
        /\ active' = [active EXCEPT ![d] = @ + 1] /\ active[d] < MaxActive
    BY <1>2 DEF create_htlc
  <2> HIDE DEF r
  <2>4. htlc'[n] = r /\ \A j \in Ids : j # n => htlc'[j] = htlc[j]
    BY <2>1, <2>3 DEF IInv, TypeOK
  <2>5. TypeOK'
    BY <2>1, <2>2, <2>3 DEF IInv, TypeOK, Ids
  <2>6. FreshIds'
    BY <2>3, <2>4 DEF IInv, TypeOK, FreshIds, Ids
  <2>7. ActiveOf(d)' = ActiveOf(d) \cup {n} /\ n \notin ActiveOf(d)
    BY <2>1, <2>2, <2>4 DEF ActiveOf, IsActive, Exists
  <2>8. \A a \in Accounts : a # d => ActiveOf(a)' = ActiveOf(a)
    BY <2>1, <2>2, <2>4 DEF ActiveOf, IsActive, Exists
  <2>9. Cardinality(ActiveOf(d)') = Cardinality(ActiveOf(d)) + 1
    <3> DEFINE A == ActiveOf(d)
    <3>1. IsFiniteSet(A) /\ n \notin A
      BY <2>7, ActiveFinite
    <3> HIDE DEF A
    <3>2. Cardinality(A \cup {n}) = Cardinality(A) + 1
      BY <3>1, FS_AddElement
    <3> QED
      BY <2>7, <3>2 DEF A
  <2>10. QuotaExact'
    BY <2>3, <2>8, <2>9 DEF IInv, TypeOK, QuotaExact
  <2> QED
    BY <2>5, <2>6, <2>10 DEF IInv
<1>3. ASSUME NEW c \in Accounts, NEW i \in Ids, NEW p \in PreImages, claim(c, i, p)
      PROVE  IInv'
  BY <1>3, CloseKeepsIInv DEF claim, IsActive
<1>4. ASSUME NEW c \in Accounts, NEW i \in Ids, anchor_settle(c, i)
      PROVE  IInv'
  BY <1>4, CloseKeepsIInv DEF anchor_settle, IsActive
<1>5. ASSUME NEW c \in Accounts, NEW i \in Ids, refund(c, i)
      PROVE  IInv'
  BY <1>5, CloseKeepsIInv DEF refund, IsActive
<1>6. ASSUME NEW T \in SUBSET Ids, prune_expired_keys(T)
      PROVE  IInv'
  <2>1. TypeOK' /\ FreshIds'
    BY <1>6 DEF prune_expired_keys, IInv, TypeOK, FreshIds
  <2>2. \A i \in Ids : htlc'[i] = htlc[i] \/ (~IsActive(i) /\ htlc'[i] = None)
    BY <1>6 DEF prune_expired_keys, Prunable, IsActive
  <2>3. \A a \in Accounts : ActiveOf(a)' = ActiveOf(a)
    BY <2>2 DEF ActiveOf, IsActive, Exists
  <2> QED
    BY <1>6, <2>1, <2>3 DEF prune_expired_keys, IInv, QuotaExact
<1>7. CASE UNCHANGED vars
  BY <1>7
  DEF vars, IInv, TypeOK, FreshIds, QuotaExact, ActiveOf, IsActive, Exists
<1> QED
  BY <1>1, <1>2, <1>3, <1>4, <1>5, <1>6, <1>7 DEF Next

\* IInv holds in every reachable state.
LEMMA IInvAlways == Spec => []IInv
  BY InitEstablishesIInv, NextKeepsIInv, PTL DEF Spec

\* The counter of each depositor is exact and the quota is respected.
THEOREM QuotaIsExact == Spec => []QuotaExact
<1>1. IInv => QuotaExact
  BY DEF IInv
<1> QED
  BY <1>1, IInvAlways, PTL

-----------------------------------------------------------------------------

\* An HTLC record and its image under the refinement mapping, field by field.
LEMMA DepositFields ==
  ASSUME NEW r \in HtlcRecord
  PROVE  /\ DepositOf(r) \notin {None, Forgotten}
         /\ DepositOf(r).owner = r.depositor /\ DepositOf(r).payee = r.beneficiary
         /\ DepositOf(r).amount = r.amount
         /\ DepositOf(r).refundable_at = r.deadline_sequence
         /\ DepositOf(r).status = "held" <=> r.state = "Active"
<1> USE HtlcAssumption
<1>1. CustodyStatus[r.state] \in {"held", "settled", "returned"}
  BY DEF HtlcRecord, CustodyStatus
<1>2. DepositOf(r) \in Deposit
  BY <1>1 DEF DepositOf, Deposit, HtlcRecord
<1>3. CustodyStatus[r.state] = "held" <=> r.state = "Active"
  BY DEF HtlcRecord, CustodyStatus
<1> QED
  BY <1>2, <1>3 DEF DepositOf

\* Closing a record changes only the status of its image.
LEMMA CloseOneDeposit ==
  ASSUME IInv, NEW i \in Ids, IsActive(i),
         NEW st \in {"Claimed", "Settled", "Refunded"}, Close(i, st)
  PROVE  /\ C!Held(i)
         /\ deposits[i].refundable_at = htlc[i].deadline_sequence
         /\ deposits' = [deposits EXCEPT ![i].status = CustodyStatus[st]]
         /\ seq' = seq
<1> USE HtlcAssumption
<1>1. htlc[i] \in HtlcRecord /\ htlc[i].state = "Active" /\ htlc[i] # None
  BY DEF IInv, TypeOK, IsActive, Exists
<1>2. htlc'[i] = [htlc[i] EXCEPT !.state = st]
  BY DEF Close, IInv, TypeOK
<1>3. htlc'[i] \in HtlcRecord /\ htlc'[i] # None
  BY <1>1, <1>2 DEF HtlcRecord
<1>4. DepositOf(htlc'[i]) = [DepositOf(htlc[i]) EXCEPT !.status = CustodyStatus[st]]
  BY <1>1, <1>2, <1>3 DEF DepositOf, HtlcRecord
<1>5. deposits[i] = DepositOf(htlc[i]) /\ deposits'[i] = DepositOf(htlc'[i])
  BY <1>1, <1>3 DEF deposits, Exists
<1>6. \A j \in Ids : j # i => deposits'[j] = deposits[j]
  BY DEF deposits, Exists, Close, IInv, TypeOK
<1>7. deposits' = [deposits EXCEPT ![i].status = CustodyStatus[st]]
  BY <1>4, <1>5, <1>6 DEF deposits
<1> QED
  BY <1>1, <1>5, <1>7, DepositFields DEF C!Held, Close

\* For every value of the constants: an HTLC is resolved once, to the
\* beneficiary only before its deadline and to the depositor only from it on;
\* pruning drops closed records only and never recycles an identifier.
THEOREM HtlcImplementsCustody == Spec => ImplementsCustody
<1> USE HtlcAssumption
<1>1. Init => C!Init
  BY DEF Init, C!Init, deposits, Exists, Ids
<1>2. IInv /\ [Next]_vars => [C!Next]_C!vars
  <2> SUFFICES ASSUME IInv, [Next]_vars PROVE [C!Next]_C!vars
    OBVIOUS
  <2>1. CASE CloseLedger
    <3>1. C!Advance
      BY <2>1 DEF CloseLedger, C!Advance, IInv, TypeOK, deposits, Exists
    <3> QED
      BY <3>1 DEF C!Next
  <2>2. ASSUME NEW d \in Accounts, NEW b \in Accounts, NEW h \in Hashes,
               NEW o \in (MinOffset + 1)..MaxOffset, NEW x \in Amounts,
               create_htlc(d, b, h, seq + o, x)
        PROVE  [C!Next]_C!vars
    <3> DEFINE r == [depositor |-> d, beneficiary |-> b, hash_lock |-> h,
                     deadline_sequence |-> seq + o, amount |-> x, state |-> "Active"]
               n == nonce + 1
    <3>1. n \in Ids /\ htlc[n] = None
      BY <2>2 DEF create_htlc, IInv, TypeOK, FreshIds, Ids
    <3>2. /\ r \in HtlcRecord /\ r # None /\ r.state = "Active"
          /\ r.depositor = d /\ r.beneficiary = b /\ r.amount = x
      <4>1. x \in Amounts \ {0}
        BY <2>2 DEF create_htlc
      <4> QED
        BY <4>1 DEF HtlcRecord, IInv, TypeOK
    <3>3. htlc' = [htlc EXCEPT ![n] = r] /\ nonce' = n /\ seq' = seq /\ x > 0
      BY <2>2 DEF create_htlc
    <3> HIDE DEF r
    <3>4. deposits[n] = None /\ deposits'[n] = DepositOf(r)
      BY <3>1, <3>2, <3>3 DEF deposits, Exists, IInv, TypeOK
    <3>5. \A j \in Ids : j # n => deposits'[j] = deposits[j]
      <4> SUFFICES ASSUME NEW j \in Ids, j # n PROVE deposits'[j] = deposits[j]
        OBVIOUS
      <4>1. htlc'[j] = htlc[j] /\ (j <= nonce' <=> j <= nonce)
        BY <3>3 DEF IInv, TypeOK, Ids
      <4> QED
        BY <4>1 DEF deposits, Exists
    <3>6. deposits' = [deposits EXCEPT ![n] = DepositOf(r)]
      BY <3>4, <3>5 DEF deposits
    <3>7. C!Open(n)
      BY <3>2, <3>3, <3>4, <3>6, DepositFields DEF C!Open
    <3> QED
      BY <3>1, <3>7 DEF C!Next
  <2>3. ASSUME NEW c \in Accounts, NEW i \in Ids, NEW p \in PreImages, claim(c, i, p)
        PROVE  [C!Next]_C!vars
    <3>1. C!Settle(i)
      BY <2>3, CloseOneDeposit DEF claim, IsActive, C!Settle, CustodyStatus
    <3> QED
      BY <3>1 DEF C!Next
  <2>4. ASSUME NEW c \in Accounts, NEW i \in Ids, anchor_settle(c, i)
        PROVE  [C!Next]_C!vars
    <3>1. C!Settle(i)
      BY <2>4, CloseOneDeposit DEF anchor_settle, IsActive, C!Settle, CustodyStatus
    <3> QED
      BY <3>1 DEF C!Next
  <2>5. ASSUME NEW c \in Accounts, NEW i \in Ids, refund(c, i)
        PROVE  [C!Next]_C!vars
    <3>1. C!Return(i)
      BY <2>5, CloseOneDeposit DEF refund, IsActive, C!Return, CustodyStatus
    <3> QED
      BY <3>1 DEF C!Next
  <2>6. ASSUME NEW T \in SUBSET Ids, prune_expired_keys(T)
        PROVE  [C!Next]_C!vars
    <3> DEFINE S == {i \in T : Prunable(i)}
    <3>1. \A i \in S : htlc[i] \in HtlcRecord /\ htlc[i] # None /\ htlc[i].state # "Active"
                       /\ i <= nonce
      BY DEF Prunable, Exists, IInv, TypeOK, FreshIds, Ids
    <3>2. \A i \in S : deposits[i] \notin {None, Forgotten} /\ ~C!Held(i)
      BY <3>1, DepositFields DEF deposits, Exists, C!Held
    <3>3. \A i \in Ids : htlc'[i] = IF i \in S THEN None ELSE htlc[i]
      BY <2>6 DEF prune_expired_keys
    <3>4. nonce' = nonce /\ seq' = seq
      BY <2>6 DEF prune_expired_keys
    <3>5. deposits' = [i \in Ids |-> IF i \in S THEN Forgotten ELSE deposits[i]]
      BY <3>1, <3>3, <3>4 DEF deposits, Exists
    <3>6. C!Forget
      BY <3>2, <3>4, <3>5 DEF C!Forget
    <3> QED
      BY <3>6 DEF C!Next
  <2>7. CASE UNCHANGED vars
    BY <2>7 DEF vars, C!vars, deposits, Exists
  <2> QED
    BY <2>1, <2>2, <2>3, <2>4, <2>5, <2>6, <2>7 DEF Next
<1> QED
  BY <1>1, <1>2, IInvAlways, PTL DEF Spec, ImplementsCustody, C!Spec

-----------------------------------------------------------------------------
(***************************************************************************)
(* The fiat escrow.  Beside the types, the invariant says that records     *)
(* exist only below the counter, or an open escrow could be overwritten.   *)
(***************************************************************************)

LEMMA FiatFacts ==
  /\ FiatAmounts \subseteq Nat /\ FiatTimeout \in Nat /\ FiatMaxTime \in Nat /\ FiatMaxIds \in Nat
  /\ FiatGenesis \in Nat \ {0} /\ FiatGenesis <= FiatMaxTime
  /\ None \notin Fiat!FiatEscrowRecord /\ None \notin Fiat!Deposit
  /\ Fiat!Ids = 0..(FiatMaxIds - 1)
BY EscrowsAssumption DEF Fiat!FiatEscrowAssumption, Fiat!Ids

FiatInv ==
  /\ Fiat!TypeOK
  /\ \A i \in Fiat!Ids : i >= fiat_counter => fiat_escrow[i] = None

LEMMA FiatInvInit == Fiat!Init => FiatInv
<1> SUFFICES ASSUME Fiat!Init PROVE FiatInv
  OBVIOUS
<1>1. fiat_now \in FiatGenesis..FiatMaxTime /\ fiat_counter \in 0..FiatMaxIds
  BY FiatFacts DEF Fiat!Init
<1>2. \A i \in Fiat!Ids : fiat_escrow[i] = None
  BY DEF Fiat!Init
<1> QED
  BY <1>1, <1>2 DEF Fiat!Init, FiatInv, Fiat!TypeOK, Fiat!Exists

\* A call that moves escrow i on to state st, not back to Pending.
LEMMA FiatMove ==
  ASSUME FiatInv, NEW i \in Fiat!Ids, fiat_escrow[i] # None,
         NEW r \in Fiat!FiatEscrowRecord, r.state # "Pending", r.locked_at # 0,
         fiat_escrow' = [fiat_escrow EXCEPT ![i] = r],
         UNCHANGED <<fiat_now, fiat_counter>>
  PROVE  FiatInv'
<1>1. fiat_escrow \in [Fiat!Ids -> Fiat!FiatEscrowRecord \cup {None}]
  BY DEF FiatInv, Fiat!TypeOK
<1>2. /\ fiat_escrow' \in [Fiat!Ids -> Fiat!FiatEscrowRecord \cup {None}]
      /\ fiat_escrow'[i] = r /\ \A j \in Fiat!Ids : j # i => fiat_escrow'[j] = fiat_escrow[j]
  BY <1>1
<1>3. \A j \in Fiat!Ids : j >= fiat_counter' => fiat_escrow'[j] = None
  BY <1>2 DEF FiatInv
<1>4. \A j \in Fiat!Ids : Fiat!Exists(j)' => (fiat_escrow'[j].locked_at = 0 <=> Fiat!InState(j, {"Pending"})')
  <2> SUFFICES ASSUME NEW j \in Fiat!Ids, fiat_escrow'[j] # None
               PROVE  fiat_escrow'[j].locked_at = 0 <=> fiat_escrow'[j].state = "Pending"
    BY DEF Fiat!Exists, Fiat!InState
  <2>1. CASE j = i
    BY <1>2, <2>1
  <2>2. CASE j # i
    BY <1>2, <2>2 DEF FiatInv, Fiat!TypeOK, Fiat!Exists, Fiat!InState
  <2> QED
    BY <2>1, <2>2
<1> QED
  BY <1>2, <1>3, <1>4 DEF FiatInv, Fiat!TypeOK

\* What the calls after the opening do to a record.
LEMMA FiatCalls ==
  ASSUME FiatInv, NEW i \in Fiat!Ids, fiat_escrow[i] # None, NEW st \in {"Dispatched", "Settled", "Refunded"},
         fiat_escrow[i].state # "Pending"
  PROVE  LET r == [fiat_escrow[i] EXCEPT !.state = st]
         IN  /\ [fiat_escrow EXCEPT ![i].state = st] = [fiat_escrow EXCEPT ![i] = r]
             /\ fiat_escrow[i] \in Fiat!FiatEscrowRecord /\ fiat_escrow[i].locked_at # 0
             /\ r \in Fiat!FiatEscrowRecord /\ r.state = st /\ r.locked_at = fiat_escrow[i].locked_at
             /\ r.sender = fiat_escrow[i].sender /\ r.anchor = fiat_escrow[i].anchor
             /\ r.amount = fiat_escrow[i].amount
<1>1. fiat_escrow \in [Fiat!Ids -> Fiat!FiatEscrowRecord \cup {None}]
  BY DEF FiatInv, Fiat!TypeOK
<1>2. fiat_escrow[i] \in Fiat!FiatEscrowRecord
  BY <1>1
<1>3. fiat_escrow[i].locked_at # 0
  BY DEF FiatInv, Fiat!TypeOK, Fiat!Exists, Fiat!InState
<1> QED
  BY <1>1, <1>2, <1>3 DEF Fiat!FiatEscrowRecord, Fiat!States

\* Locking records the moment, which is never 0.
LEMMA FiatLock ==
  ASSUME FiatInv, NEW s, NEW i \in Fiat!Ids, Fiat!lock_fiat_escrow(s, i)
  PROVE  /\ fiat_escrow[i] \in Fiat!FiatEscrowRecord /\ fiat_escrow[i].state = "Pending"
         /\ \E r \in Fiat!FiatEscrowRecord :
              /\ r.state = "Locked" /\ r.locked_at = fiat_now /\ r.locked_at # 0
              /\ r.sender = fiat_escrow[i].sender /\ r.anchor = fiat_escrow[i].anchor
              /\ r.amount = fiat_escrow[i].amount
              /\ fiat_escrow' = [fiat_escrow EXCEPT ![i] = r]
<1> DEFINE r == [fiat_escrow[i] EXCEPT !.state = "Locked", !.locked_at = fiat_now]
<1>1. fiat_escrow \in [Fiat!Ids -> Fiat!FiatEscrowRecord \cup {None}]
  BY DEF FiatInv, Fiat!TypeOK
<1>2. fiat_escrow[i] \in Fiat!FiatEscrowRecord /\ fiat_escrow[i].state = "Pending"
  BY <1>1 DEF Fiat!lock_fiat_escrow, Fiat!InState, Fiat!Exists
<1>3. fiat_now \in Nat /\ fiat_now # 0
  BY FiatFacts DEF FiatInv, Fiat!TypeOK
<1>4. /\ r \in Fiat!FiatEscrowRecord /\ r.state = "Locked" /\ r.locked_at = fiat_now
      /\ r.sender = fiat_escrow[i].sender /\ r.anchor = fiat_escrow[i].anchor
      /\ r.amount = fiat_escrow[i].amount
  BY <1>2, <1>3 DEF Fiat!FiatEscrowRecord, Fiat!States
<1>5. fiat_escrow' = [fiat_escrow EXCEPT ![i] = r]
  BY <1>1 DEF Fiat!lock_fiat_escrow
<1> QED
  BY <1>2, <1>3, <1>4, <1>5

LEMMA FiatInvStep == FiatInv /\ [Fiat!Next]_Fiat!vars => FiatInv'
<1> SUFFICES ASSUME FiatInv, [Fiat!Next]_Fiat!vars PROVE FiatInv'
  OBVIOUS
<1>0. /\ fiat_escrow \in [Fiat!Ids -> Fiat!FiatEscrowRecord \cup {None}]
      /\ fiat_now \in FiatGenesis..FiatMaxTime /\ fiat_counter \in 0..FiatMaxIds
  BY DEF FiatInv, Fiat!TypeOK
<1>1. CASE UNCHANGED Fiat!vars
  BY <1>1 DEF Fiat!vars, FiatInv, Fiat!TypeOK, Fiat!Exists, Fiat!InState
<1>2. CASE Fiat!Tick
  <2>1. fiat_now' \in FiatGenesis..FiatMaxTime
    BY <1>0, <1>2, FiatFacts DEF Fiat!Tick
  <2> QED
    BY <1>2, <2>1 DEF Fiat!Tick, FiatInv, Fiat!TypeOK, Fiat!Exists, Fiat!InState
<1>3. ASSUME NEW s \in FiatAccounts, NEW a \in FiatAccounts, NEW x \in FiatAmounts,
             Fiat!open_fiat_escrow(s, a, x)
      PROVE  FiatInv'
  <2> DEFINE r == [sender |-> s, anchor |-> a, amount |-> x, state |-> "Pending", locked_at |-> 0]
  <2>1. PICK i \in Fiat!Ids : i = fiat_counter
    BY <1>0, <1>3, FiatFacts DEF Fiat!open_fiat_escrow
  <2>2. /\ fiat_escrow' = [fiat_escrow EXCEPT ![i] = r] /\ fiat_now' = fiat_now
        /\ fiat_counter' = i + 1 /\ i < FiatMaxIds
    BY <1>3, <2>1 DEF Fiat!open_fiat_escrow
  <2>3. r \in Fiat!FiatEscrowRecord /\ r.state = "Pending" /\ r.locked_at = 0
    BY DEF Fiat!FiatEscrowRecord, Fiat!States
  <2> HIDE DEF r
  <2>4. /\ fiat_escrow' \in [Fiat!Ids -> Fiat!FiatEscrowRecord \cup {None}]
        /\ fiat_escrow'[i] = r /\ \A j \in Fiat!Ids : j # i => fiat_escrow'[j] = fiat_escrow[j]
    BY <1>0, <2>2, <2>3
  <2>5. fiat_counter' \in 0..FiatMaxIds /\ i \in Nat
    BY <1>0, <2>1, <2>2, FiatFacts
  <2>6. \A j \in Fiat!Ids : j >= fiat_counter' => fiat_escrow'[j] = None
    <3> SUFFICES ASSUME NEW j \in Fiat!Ids, j >= fiat_counter' PROVE fiat_escrow'[j] = None
      OBVIOUS
    <3>1. j # i /\ j >= fiat_counter
      BY <2>1, <2>2, <2>5, FiatFacts
    <3> QED
      BY <2>4, <3>1 DEF FiatInv
  <2>7. \A j \in Fiat!Ids : Fiat!Exists(j)' => (fiat_escrow'[j].locked_at = 0 <=> Fiat!InState(j, {"Pending"})')
    <3> SUFFICES ASSUME NEW j \in Fiat!Ids, fiat_escrow'[j] # None
                 PROVE  fiat_escrow'[j].locked_at = 0 <=> fiat_escrow'[j].state = "Pending"
      BY DEF Fiat!Exists, Fiat!InState
    <3>1. CASE j = i
      BY <2>3, <2>4, <3>1
    <3>2. CASE j # i
      BY <2>4, <3>2 DEF FiatInv, Fiat!TypeOK, Fiat!Exists, Fiat!InState
    <3> QED
      BY <3>1, <3>2
  <2> QED
    BY <1>0, <2>2, <2>4, <2>5, <2>6, <2>7 DEF FiatInv, Fiat!TypeOK
<1>4. ASSUME NEW s \in FiatAccounts, NEW i \in Fiat!Ids, Fiat!lock_fiat_escrow(s, i)
      PROVE  FiatInv'
  <2>1. PICK r \in Fiat!FiatEscrowRecord :
          /\ r.state = "Locked" /\ r.locked_at # 0
          /\ fiat_escrow' = [fiat_escrow EXCEPT ![i] = r]
    BY <1>4, FiatLock
  <2>2. fiat_escrow[i] # None /\ UNCHANGED <<fiat_now, fiat_counter>>
    BY <1>4 DEF Fiat!lock_fiat_escrow, Fiat!InState, Fiat!Exists
  <2>3. r.state # "Pending"
    BY <2>1
  <2> QED
    BY <2>1, <2>2, <2>3, FiatMove
<1>5. ASSUME NEW i \in Fiat!Ids, NEW st \in {"Dispatched", "Settled", "Refunded"},
             Fiat!InState(i, {"Locked", "Dispatched"}),
             fiat_escrow' = [fiat_escrow EXCEPT ![i].state = st],
             UNCHANGED <<fiat_now, fiat_counter>>
      PROVE  FiatInv'
  <2> DEFINE r == [fiat_escrow[i] EXCEPT !.state = st]
  <2>1. fiat_escrow[i] # None /\ fiat_escrow[i].state # "Pending"
    BY <1>5 DEF Fiat!InState, Fiat!Exists
  <2>2. /\ [fiat_escrow EXCEPT ![i].state = st] = [fiat_escrow EXCEPT ![i] = r]
        /\ r \in Fiat!FiatEscrowRecord /\ r.state # "Pending" /\ r.locked_at # 0
    BY <2>1, FiatCalls
  <2> HIDE DEF r
  <2>3. fiat_escrow' = [fiat_escrow EXCEPT ![i] = r]
    BY <1>5, <2>2
  <2> QED
    BY <1>5, <2>1, <2>2, <2>3, FiatMove
<1>6. ASSUME NEW a \in FiatAccounts, NEW i \in Fiat!Ids, Fiat!dispatch_fiat_payout(a, i)
      PROVE  FiatInv'
  BY <1>5, <1>6 DEF Fiat!dispatch_fiat_payout, Fiat!InState
<1>7. ASSUME NEW a \in FiatAccounts, NEW i \in Fiat!Ids, Fiat!settle_fiat_escrow(a, i)
      PROVE  FiatInv'
  BY <1>5, <1>7 DEF Fiat!settle_fiat_escrow
<1>8. ASSUME NEW i \in Fiat!Ids, Fiat!refund_fiat_escrow(i)
      PROVE  FiatInv'
  BY <1>5, <1>8 DEF Fiat!refund_fiat_escrow
<1> QED
  BY <1>1, <1>2, <1>3, <1>4, <1>6, <1>7, <1>8 DEF Fiat!Next

\* The run's behaviours are behaviours of the fiat escrow.
LEMMA FiatIsPart == MCSpec => Fiat!Spec
<1>1. MCInit => Fiat!Init
  BY DEF MCInit
<1>2. [MCNext]_allVars => [Fiat!Next]_Fiat!vars
  BY DEF MCNext, allVars, fiatVars, Fiat!vars
<1> QED
  BY <1>1, <1>2, PTL DEF MCSpec, Fiat!Spec

LEMMA FiatAlways == Fiat!Spec => []FiatInv
  BY FiatInvInit, FiatInvStep, PTL DEF Fiat!Spec

\* The image of an escrow that was locked, under the refinement mapping.
LEMMA FiatDeposit ==
  ASSUME NEW r \in Fiat!FiatEscrowRecord, r.state # "Pending"
  PROVE  /\ Fiat!DepositOf(r) =
              [owner |-> r.sender, payee |-> r.anchor, amount |-> r.amount,
               refundable_at |-> r.locked_at + FiatTimeout,
               status |-> Fiat!CustodyStatus[r.state]]
         /\ Fiat!DepositOf(r) \in Fiat!Deposit /\ Fiat!DepositOf(r) # None
<1>1. /\ r # None /\ r.sender \in FiatAccounts /\ r.anchor \in FiatAccounts
      /\ r.amount \in FiatAmounts /\ r.locked_at + FiatTimeout \in Nat
      /\ r.state \in {"Locked", "Dispatched", "Settled", "Refunded"}
  BY FiatFacts DEF Fiat!FiatEscrowRecord, Fiat!States
<1>2. Fiat!CustodyStatus[r.state] \in {"held", "settled", "returned"}
  BY <1>1 DEF Fiat!CustodyStatus
<1>3. Fiat!DepositOf(r) =
        [owner |-> r.sender, payee |-> r.anchor, amount |-> r.amount,
         refundable_at |-> r.locked_at + FiatTimeout, status |-> Fiat!CustodyStatus[r.state]]
  BY <1>1 DEF Fiat!DepositOf
<1>4. Fiat!DepositOf(r) \in Fiat!Deposit
  BY <1>1, <1>2, <1>3 DEF Fiat!Deposit
<1> QED
  BY <1>3, <1>4, FiatFacts

\* A record that changes only its state changes only the status of its image.
LEMMA FiatStatus ==
  ASSUME NEW r \in Fiat!FiatEscrowRecord, NEW u \in Fiat!FiatEscrowRecord,
         r.state # "Pending", u.state # "Pending", u.sender = r.sender, u.anchor = r.anchor,
         u.amount = r.amount, u.locked_at = r.locked_at
  PROVE  Fiat!DepositOf(u) = [Fiat!DepositOf(r) EXCEPT !.status = Fiat!CustodyStatus[u.state]]
<1> DEFINE v == Fiat!CustodyStatus[r.state]
           w == Fiat!CustodyStatus[u.state]
<1>1. /\ Fiat!DepositOf(r) = [owner |-> r.sender, payee |-> r.anchor, amount |-> r.amount,
                              refundable_at |-> r.locked_at + FiatTimeout, status |-> v]
      /\ Fiat!DepositOf(u) = [owner |-> r.sender, payee |-> r.anchor, amount |-> r.amount,
                              refundable_at |-> r.locked_at + FiatTimeout, status |-> w]
  BY FiatDeposit
<1> HIDE DEF v, w
<1>2. Fiat!DepositOf(u) = [Fiat!DepositOf(r) EXCEPT !.status = w]
  BY <1>1
<1> QED
  BY <1>2 DEF w

\* The fiat escrows implement the custody contract with exclusive windows, for
\* any parties, amounts and timeout.
LEMMA FiatCustody == Fiat!Spec => Fiat!ImplementsCustody
<1> DEFINE D == [i \in Fiat!Ids |-> Fiat!DepositOf(fiat_escrow[i])]
<1>1. Fiat!Init => Fiat!C!Init
  BY FiatFacts DEF Fiat!Init, Fiat!C!Init, Fiat!DepositOf
<1>2. FiatInv /\ [Fiat!Next]_Fiat!vars => [Fiat!C!Next]_Fiat!C!vars
  <2> SUFFICES ASSUME FiatInv, [Fiat!Next]_Fiat!vars
               PROVE  [Fiat!C!Next]_Fiat!C!vars
    OBVIOUS
  <2>0. /\ fiat_escrow \in [Fiat!Ids -> Fiat!FiatEscrowRecord \cup {None}]
        /\ fiat_now \in Nat /\ fiat_counter \in 0..FiatMaxIds
    BY FiatFacts DEF FiatInv, Fiat!TypeOK
  <2>1. CASE UNCHANGED Fiat!vars
    BY <2>1 DEF Fiat!vars, Fiat!C!vars
  <2>2. CASE Fiat!Tick
    <3>1. Fiat!C!Advance
      BY <2>0, <2>2 DEF Fiat!Tick, Fiat!C!Advance
    <3> QED
      BY <3>1 DEF Fiat!C!Next
  <2>3. ASSUME NEW s \in FiatAccounts, NEW a \in FiatAccounts, NEW x \in FiatAmounts,
               Fiat!open_fiat_escrow(s, a, x)
        PROVE  UNCHANGED Fiat!C!vars
    <3> DEFINE r == [sender |-> s, anchor |-> a, amount |-> x, state |-> "Pending", locked_at |-> 0]
    <3>1. PICK i \in Fiat!Ids : i = fiat_counter
      BY <2>0, <2>3, FiatFacts DEF Fiat!open_fiat_escrow
    <3>2. fiat_escrow' = [fiat_escrow EXCEPT ![i] = r] /\ fiat_now' = fiat_now
      BY <2>3, <3>1 DEF Fiat!open_fiat_escrow
    <3>3. fiat_escrow[i] = None
      BY <3>1, FiatFacts DEF FiatInv
    <3>4. r.state = "Pending"
      OBVIOUS
    <3> HIDE DEF r
    <3>5. \A j \in Fiat!Ids : Fiat!DepositOf(fiat_escrow'[j]) = Fiat!DepositOf(fiat_escrow[j])
      <4> SUFFICES ASSUME NEW j \in Fiat!Ids
                   PROVE  Fiat!DepositOf(fiat_escrow'[j]) = Fiat!DepositOf(fiat_escrow[j])
        OBVIOUS
      <4>1. CASE j = i
        BY <2>0, <3>2, <3>3, <3>4, <4>1 DEF Fiat!DepositOf
      <4>2. CASE j # i
        BY <2>0, <3>2, <4>2
      <4> QED
        BY <4>1, <4>2
    <3> QED
      BY <3>2, <3>5 DEF Fiat!C!vars
  <2>4. ASSUME NEW s \in FiatAccounts, NEW i \in Fiat!Ids, Fiat!lock_fiat_escrow(s, i)
        PROVE  Fiat!C!Open(i)
    <3>1. fiat_escrow[i] \in Fiat!FiatEscrowRecord /\ fiat_escrow[i].state = "Pending"
      BY <2>4, FiatLock
    <3>2. PICK r \in Fiat!FiatEscrowRecord :
            r.state = "Locked" /\ fiat_escrow' = [fiat_escrow EXCEPT ![i] = r]
      BY <2>4, FiatLock
    <3>3. D[i] = None /\ D'[i] = Fiat!DepositOf(r)
      BY <2>0, <3>1, <3>2 DEF Fiat!DepositOf
    <3>4. D' = [D EXCEPT ![i] = Fiat!DepositOf(r)]
      BY <2>0, <3>2
    <3>5. r.state # "Pending" /\ r.sender \in FiatAccounts /\ r.anchor \in FiatAccounts
          /\ r.amount \in Nat
      BY <3>2, FiatFacts DEF Fiat!FiatEscrowRecord
    <3>6. /\ Fiat!DepositOf(r) # None /\ Fiat!DepositOf(r).status = "held"
          /\ Fiat!DepositOf(r).amount >= 0
          /\ Fiat!DepositOf(r).owner \in FiatAccounts
          /\ Fiat!DepositOf(r).payee \in FiatAccounts
      BY <3>2, <3>5, FiatDeposit DEF Fiat!CustodyStatus
    <3>7. fiat_now' = fiat_now
      BY <2>4 DEF Fiat!lock_fiat_escrow
    <3> QED
      BY <3>3, <3>4, <3>6, <3>7 DEF Fiat!C!Open
  <2>5. ASSUME NEW i \in Fiat!Ids, NEW st \in {"Dispatched", "Settled", "Refunded"},
               Fiat!InState(i, {"Locked", "Dispatched"}),
               fiat_escrow' = [fiat_escrow EXCEPT ![i].state = st]
        PROVE  /\ fiat_escrow[i].locked_at \in Nat \ {0}
               /\ D[i] # None /\ D[i].status = "held"
               /\ D[i].refundable_at = fiat_escrow[i].locked_at + FiatTimeout
               /\ D' = [D EXCEPT ![i].status = Fiat!CustodyStatus[st]]
               /\ st = "Dispatched" => D' = D
    <3> DEFINE r == fiat_escrow[i]
               u == [fiat_escrow[i] EXCEPT !.state = st]
    <3>1. r # None /\ r.state \in {"Locked", "Dispatched"} /\ r.state # "Pending"
      BY <2>5 DEF Fiat!InState, Fiat!Exists
    <3>2. /\ r \in Fiat!FiatEscrowRecord /\ r.locked_at # 0
          /\ [fiat_escrow EXCEPT ![i].state = st] = [fiat_escrow EXCEPT ![i] = u]
          /\ u \in Fiat!FiatEscrowRecord /\ u.state = st /\ u.locked_at = r.locked_at
          /\ u.sender = r.sender /\ u.anchor = r.anchor /\ u.amount = r.amount
      BY <3>1, FiatCalls
    <3> HIDE DEF u
    <3>3. u.state # "Pending" /\ r.locked_at \in Nat
      BY <3>2 DEF Fiat!FiatEscrowRecord
    <3>4. fiat_escrow' = [fiat_escrow EXCEPT ![i] = u]
      BY <2>5, <3>2
    <3>5. Fiat!DepositOf(u) = [Fiat!DepositOf(r) EXCEPT !.status = Fiat!CustodyStatus[st]]
      BY <3>1, <3>2, <3>3, FiatStatus
    <3>6. D'[i] = [D[i] EXCEPT !.status = Fiat!CustodyStatus[st]]
      BY <2>0, <3>4, <3>5
    <3>7. \A j \in Fiat!Ids : j # i => D'[j] = D[j]
      BY <2>0, <3>4
    <3>8. D' = [D EXCEPT ![i].status = Fiat!CustodyStatus[st]]
      BY <3>6, <3>7
    <3>9. D[i] # None /\ D[i].status = "held" /\ D[i].refundable_at = r.locked_at + FiatTimeout
      BY <3>1, <3>2, FiatDeposit DEF Fiat!CustodyStatus
    <3>10. ASSUME st = "Dispatched" PROVE D' = D
      <4>1. Fiat!CustodyStatus[st] = "held"
        BY <3>10 DEF Fiat!CustodyStatus
      <4>2. Fiat!DepositOf(r) \in Fiat!Deposit /\ Fiat!DepositOf(r).status = "held"
        BY <3>1, <3>2, <3>9, FiatDeposit
      <4>3. Fiat!DepositOf(u) = Fiat!DepositOf(r)
        BY <3>5, <4>1, <4>2 DEF Fiat!Deposit
      <4>4. D'[i] = D[i]
        BY <2>0, <3>4, <4>3
      <4> QED
        BY <3>7, <4>4
    <3> QED
      BY <3>2, <3>3, <3>8, <3>9, <3>10
  <2>6. ASSUME NEW a \in FiatAccounts, NEW i \in Fiat!Ids, Fiat!dispatch_fiat_payout(a, i)
        PROVE  UNCHANGED Fiat!C!vars
    <3>1. Fiat!InState(i, {"Locked", "Dispatched"})
      BY <2>6 DEF Fiat!dispatch_fiat_payout, Fiat!InState
    <3>2. fiat_escrow' = [fiat_escrow EXCEPT ![i].state = "Dispatched"] /\ fiat_now' = fiat_now
      BY <2>6 DEF Fiat!dispatch_fiat_payout
    <3>3. D' = D
      BY <2>5, <3>1, <3>2
    <3> QED
      BY <3>2, <3>3 DEF Fiat!C!vars
  <2>7. ASSUME NEW a \in FiatAccounts, NEW i \in Fiat!Ids, Fiat!settle_fiat_escrow(a, i)
        PROVE  Fiat!C!Settle(i)
    <3>1. /\ Fiat!InState(i, {"Locked", "Dispatched"}) /\ ~Fiat!fiat_escrow_expired(i)
          /\ fiat_escrow' = [fiat_escrow EXCEPT ![i].state = "Settled"] /\ fiat_now' = fiat_now
      BY <2>7 DEF Fiat!settle_fiat_escrow
    <3>2. /\ fiat_escrow[i].locked_at \in Nat \ {0}
          /\ D[i] # None /\ D[i].status = "held"
          /\ D[i].refundable_at = fiat_escrow[i].locked_at + FiatTimeout
          /\ D' = [D EXCEPT ![i].status = Fiat!CustodyStatus["Settled"]]
      BY <2>5, <3>1
    <3>3. fiat_now < D[i].refundable_at
      BY <2>0, <3>1, <3>2, FiatFacts DEF Fiat!fiat_escrow_expired
    <3> QED
      BY <3>1, <3>2, <3>3 DEF Fiat!C!Settle, Fiat!C!Held, Fiat!CustodyStatus
  <2>8. ASSUME NEW i \in Fiat!Ids, Fiat!refund_fiat_escrow(i)
        PROVE  Fiat!C!Return(i)
    <3>1. /\ Fiat!InState(i, {"Locked", "Dispatched"}) /\ Fiat!fiat_escrow_expired(i)
          /\ fiat_escrow' = [fiat_escrow EXCEPT ![i].state = "Refunded"] /\ fiat_now' = fiat_now
      BY <2>8 DEF Fiat!refund_fiat_escrow
    <3>2. /\ fiat_escrow[i].locked_at \in Nat \ {0}
          /\ D[i] # None /\ D[i].status = "held"
          /\ D[i].refundable_at = fiat_escrow[i].locked_at + FiatTimeout
          /\ D' = [D EXCEPT ![i].status = Fiat!CustodyStatus["Refunded"]]
      BY <2>5, <3>1
    <3>3. fiat_now >= D[i].refundable_at
      BY <2>0, <3>1, <3>2, FiatFacts DEF Fiat!fiat_escrow_expired
    <3> QED
      BY <3>1, <3>2, <3>3 DEF Fiat!C!Return, Fiat!C!Held, Fiat!CustodyStatus
  <2> QED
    BY <2>1, <2>2, <2>3, <2>4, <2>6, <2>7, <2>8 DEF Fiat!Next, Fiat!C!Next
<1> QED
  BY <1>1, <1>2, FiatAlways, PTL DEF Fiat!Spec, Fiat!ImplementsCustody, Fiat!C!Spec

-----------------------------------------------------------------------------
(***************************************************************************)
(* The time-locked escrow.  Beside the types and the balance, the          *)
(* invariant says that records exist only below the counter, and that the  *)
(* payout deadline of a record is never before its expiry: timeout_refund  *)
(* looks only at the former, and Custody returns nothing before the latter.*)
(***************************************************************************)

LEMMA LockSum ==
  ASSUME NEW f, NEW S
  PROVE  Timelock!SumOf(f, S) = SumOf(f, S)
BY DEF Timelock!SumOf, SumOf, Timelock!MapThenSumSet, MapThenSumSet,
       Timelock!MapThenFoldSet, MapThenFoldSet

LEMMA LockFacts ==
  /\ LockSelf \notin Timelock!Parties /\ None # Forgotten
  /\ None \notin Timelock!Escrow /\ None \notin Timelock!Deposit /\ Forgotten \notin Timelock!Deposit
  /\ LockAmounts \subseteq Nat /\ LockExpiries \subseteq Nat /\ LockTimeout \in Nat
  /\ LockMaxSeq \in Nat /\ LockMaxIds \in Nat /\ LockSupply \in Nat
  /\ Timelock!Ids = 1..LockMaxIds
  /\ LockSenders \subseteq Timelock!Parties /\ LockReceivers \subseteq Timelock!Parties
  /\ LockDepositors \subseteq Timelock!Parties /\ LockAnchors \subseteq Timelock!Parties
BY EscrowsAssumption DEF Timelock!TimelockAssumption, Timelock!Ids, Timelock!Parties

LockHolding == [Timelock!Parties \cup {LockSelf} -> Nat]

\* What the contract holds for record r.
Worth(r) == IF r # None /\ r.state = "Locked" THEN r.amount ELSE 0

LockHeld == SumOf([i \in Timelock!Ids |-> Worth(lock_escrow[i])], Timelock!Ids)

\* The terms of an escrow, which no call after its creation changes.
SameTerms(u, r) ==
  /\ u.sender = r.sender /\ u.receiver = r.receiver /\ u.depositor = r.depositor
  /\ u.amount = r.amount /\ u.expiry_ledger = r.expiry_ledger
  /\ u.payout_deadline = r.payout_deadline

\* A record as the calls leave it.
GoodRecord(r) ==
  /\ r \in Timelock!Escrow
  /\ r.released <=> r.state # "Locked"
  /\ r.payout_deadline >= r.expiry_ledger

LockInv ==
  /\ lock_seq \in 0..LockMaxSeq /\ lock_nextId \in 1..(LockMaxIds + 1)
  /\ lock_escrow \in [Timelock!Ids -> Timelock!Escrow \cup {None}]
  /\ lock_tok \in LockHolding
  /\ \A i \in Timelock!Ids : lock_escrow[i] # None => GoodRecord(lock_escrow[i])
  /\ \A i \in Timelock!Ids : i >= lock_nextId => lock_escrow[i] = None
  /\ lock_tok[LockSelf] = LockHeld

LEMMA LockRecord ==
  \A r \in Timelock!Escrow :
    /\ r # None /\ r.sender \in LockSenders /\ r.receiver \in LockReceivers
    /\ r.depositor \in LockDepositors /\ r.amount \in LockAmounts /\ r.amount \in Nat
    /\ r.expiry_ledger \in Nat /\ r.payout_deadline \in Nat
    /\ r.state \in {"Locked", "Settled", "Refunded"} /\ r.released \in BOOLEAN
BY LockFacts DEF Timelock!Escrow

LEMMA LockIn ==
  ASSUME NEW bal \in LockHolding, NEW u \in Timelock!Parties, NEW x \in Nat,
         Timelock!CanMove(bal, u, x)
  PROVE  /\ Timelock!Move(bal, u, LockSelf, x) \in LockHolding
         /\ Timelock!Move(bal, u, LockSelf, x)[LockSelf] = bal[LockSelf] + x
<1>1. LockSelf # u
  BY LockFacts
<1> QED
  BY <1>1 DEF LockHolding, Timelock!Move, Timelock!CanMove

LEMMA LockOut ==
  ASSUME NEW bal \in LockHolding, NEW u \in Timelock!Parties, NEW x \in Nat,
         Timelock!CanMove(bal, LockSelf, x)
  PROVE  /\ Timelock!Move(bal, LockSelf, u, x) \in LockHolding
         /\ Timelock!Move(bal, LockSelf, u, x)[LockSelf] = bal[LockSelf] - x
<1>1. LockSelf # u
  BY LockFacts
<1> QED
  BY <1>1 DEF LockHolding, Timelock!Move, Timelock!CanMove

LEMMA LockShift ==
  \A f \in [Timelock!Ids -> Nat], g \in [Timelock!Ids -> Nat], i \in Timelock!Ids :
    (\A j \in Timelock!Ids : j # i => g[j] = f[j])
    => /\ SumOf(f, Timelock!Ids) \in Nat /\ SumOf(g, Timelock!Ids) \in Nat
       /\ SumOf(g, Timelock!Ids) = SumOf(f, Timelock!Ids) + g[i] - f[i]
<1>1. IsFiniteSet(Timelock!Ids)
  BY LockFacts, FS_Interval
<1> QED
  BY <1>1, SumShift

\* The invariant in the words of the module.
LEMMA LockInvShows == LockInv => Timelock!TypeOK /\ Timelock!HoldsTheOpenEscrows
<1> SUFFICES ASSUME LockInv PROVE Timelock!TypeOK /\ Timelock!HoldsTheOpenEscrows
  OBVIOUS
<1>1. \A i \in Timelock!Ids :
        Timelock!Exists(i) => (lock_escrow[i].released <=> lock_escrow[i].state # "Locked")
  BY DEF LockInv, GoodRecord, Timelock!Exists
<1>2. Timelock!TypeOK
  BY <1>1 DEF LockInv, LockHolding, Timelock!TypeOK
<1> DEFINE f == [i \in Timelock!Ids |-> Worth(lock_escrow[i])]
           g == [i \in Timelock!Ids |-> IF Timelock!Open(i) THEN lock_escrow[i].amount ELSE 0]
<1>3. \A i \in Timelock!Ids :
        Timelock!Open(i) <=> lock_escrow[i] # None /\ lock_escrow[i].state = "Locked"
  BY <1>1 DEF Timelock!Open, Timelock!Exists
<1>4. f = g
  BY <1>3 DEF Worth
<1>5. Timelock!HoldsTheOpenEscrows <=> lock_tok[LockSelf] = Timelock!SumOf(g, Timelock!Ids)
  BY DEF Timelock!HoldsTheOpenEscrows
<1>6. LockHeld = SumOf(f, Timelock!Ids)
  BY DEF LockHeld
<1> HIDE DEF f, g
<1>7. Timelock!HoldsTheOpenEscrows
  BY <1>4, <1>5, <1>6, LockSum DEF LockInv
<1> QED
  BY <1>2, <1>7

LEMMA LockInvInit == Timelock!Init => LockInv
<1> SUFFICES ASSUME Timelock!Init PROVE LockInv
  OBVIOUS
<1>1. /\ lock_seq \in 0..LockMaxSeq /\ lock_nextId \in 1..(LockMaxIds + 1)
      /\ lock_tok \in LockHolding /\ lock_tok[LockSelf] = 0
  BY LockFacts DEF Timelock!Init, LockHolding
<1>2. \A i \in Timelock!Ids : lock_escrow[i] = None
  BY DEF Timelock!Init
<1> DEFINE f == [i \in Timelock!Ids |-> Worth(lock_escrow[i])]
<1>3. \A i \in Timelock!Ids : f[i] = 0
  BY <1>2 DEF Worth
<1>4. LockHeld = SumOf(f, Timelock!Ids) /\ IsFiniteSet(Timelock!Ids)
  BY LockFacts, FS_Interval DEF LockHeld
<1> HIDE DEF f
<1>5. LockHeld = 0
  BY <1>3, <1>4, SumZero
<1> QED
  BY <1>1, <1>2, <1>5 DEF Timelock!Init, LockInv

\* Writing one record moves what the contract must hold by the difference.
LEMMA LockWrite ==
  ASSUME LockInv, NEW i \in Timelock!Ids, NEW r, GoodRecord(r),
         lock_escrow' = [lock_escrow EXCEPT ![i] = r], lock_seq' = lock_seq,
         lock_nextId' \in 1..(LockMaxIds + 1), lock_nextId' >= lock_nextId, lock_nextId' > i,
         lock_tok' \in LockHolding,
         lock_tok'[LockSelf] = lock_tok[LockSelf] + Worth(r) - Worth(lock_escrow[i])
  PROVE  LockInv'
<1>0. /\ lock_escrow \in [Timelock!Ids -> Timelock!Escrow \cup {None}]
      /\ lock_tok[LockSelf] = LockHeld /\ lock_nextId \in Nat
  BY LockFacts DEF LockInv
<1>1. r \in Timelock!Escrow
  BY DEF GoodRecord
<1>2. /\ lock_escrow' \in [Timelock!Ids -> Timelock!Escrow \cup {None}]
      /\ lock_escrow'[i] = r
      /\ \A j \in Timelock!Ids : j # i => lock_escrow'[j] = lock_escrow[j]
  BY <1>0, <1>1
<1>3. \A j \in Timelock!Ids : lock_escrow'[j] # None => GoodRecord(lock_escrow'[j])
  BY <1>2 DEF LockInv
<1>4. \A j \in Timelock!Ids : j >= lock_nextId' => lock_escrow'[j] = None
  <2> SUFFICES ASSUME NEW j \in Timelock!Ids, j >= lock_nextId' PROVE lock_escrow'[j] = None
    OBVIOUS
  <2>1. j # i /\ j >= lock_nextId
    BY <1>0, LockFacts
  <2> QED
    BY <1>2, <2>1 DEF LockInv
<1>5. lock_tok'[LockSelf] = LockHeld'
  <2> DEFINE f == [j \in Timelock!Ids |-> Worth(lock_escrow[j])]
             g == [j \in Timelock!Ids |-> Worth(lock_escrow'[j])]
  <2>1. \A e \in Timelock!Escrow \cup {None} : Worth(e) \in Nat
    BY LockRecord DEF Worth
  <2>2. /\ f \in [Timelock!Ids -> Nat] /\ g \in [Timelock!Ids -> Nat]
        /\ \A j \in Timelock!Ids : j # i => g[j] = f[j]
        /\ f[i] = Worth(lock_escrow[i]) /\ g[i] = Worth(r)
    BY <1>0, <1>2, <2>1
  <2>3. LockHeld = SumOf(f, Timelock!Ids) /\ LockHeld' = SumOf(g, Timelock!Ids)
    BY DEF LockHeld
  <2>4. Worth(r) \in Nat /\ Worth(lock_escrow[i]) \in Nat
    BY <1>0, <1>1, <2>1
  <2> HIDE DEF f, g
  <2>5. LockHeld \in Nat /\ LockHeld' = LockHeld + g[i] - f[i]
    BY <2>2, <2>3, LockShift
  <2> QED
    BY <1>0, <2>2, <2>4, <2>5
<1> QED
  BY <1>2, <1>3, <1>4, <1>5 DEF LockInv

\* What the approvals and set_anchor make of a record.
Touched(r, a) ==
  {[r EXCEPT !.sender_approved = TRUE], [r EXCEPT !.receiver_approved = TRUE],
   [r EXCEPT !.anchor = a]}

LEMMA LockCalls ==
  ASSUME NEW r, GoodRecord(r), NEW a \in Timelock!Parties, NEW u \in Touched(r, a)
  PROVE  GoodRecord(u) /\ SameTerms(u, r) /\ u.state = r.state
<1>1. r \in Timelock!Escrow /\ (r.released <=> r.state # "Locked") /\ r.payout_deadline >= r.expiry_ledger
  BY DEF GoodRecord
<1>2. u \in Timelock!Escrow
  BY <1>1 DEF Timelock!Escrow, Touched
<1>3. u.released = r.released /\ u.state = r.state /\ SameTerms(u, r)
  BY <1>1 DEF Timelock!Escrow, SameTerms, Touched
<1> QED
  BY <1>1, <1>2, <1>3 DEF GoodRecord, SameTerms

\* What the four payouts do to a record.
LEMMA LockClosed ==
  ASSUME NEW r, GoodRecord(r), NEW st \in {"Settled", "Refunded"}
  PROVE  LET u == [r EXCEPT !.released = TRUE, !.state = st]
         IN  GoodRecord(u) /\ SameTerms(u, r) /\ u.state = st
<1>1. r \in Timelock!Escrow /\ r.payout_deadline >= r.expiry_ledger
  BY DEF GoodRecord
<1> DEFINE w == [r EXCEPT !.released = TRUE, !.state = st]
<1>2. w \in Timelock!Escrow
  BY <1>1 DEF Timelock!Escrow
<1>3. w.released = TRUE /\ w.state = st /\ SameTerms(w, r)
  BY <1>1 DEF Timelock!Escrow, SameTerms
<1>4. GoodRecord(w)
  BY <1>1, <1>2, <1>3 DEF GoodRecord, SameTerms
<1> QED
  BY <1>3, <1>4

\* A call that leaves the state of an existing record alone, and one that pays
\* the record out: what each writes.
LEMMA LockTouch ==
  ASSUME LockInv, NEW i \in Timelock!Ids, lock_escrow[i] # None, NEW a \in Timelock!Parties,
         \/ lock_escrow' = [lock_escrow EXCEPT ![i].sender_approved = TRUE]
         \/ lock_escrow' = [lock_escrow EXCEPT ![i].receiver_approved = TRUE]
         \/ lock_escrow' = [lock_escrow EXCEPT ![i].anchor = a]
  PROVE  \E u : /\ GoodRecord(u) /\ SameTerms(u, lock_escrow[i]) /\ u.state = lock_escrow[i].state
                /\ lock_escrow' = [lock_escrow EXCEPT ![i] = u]
<1>1. GoodRecord(lock_escrow[i]) /\ lock_escrow \in [Timelock!Ids -> Timelock!Escrow \cup {None}]
  BY DEF LockInv
<1>2. PICK u \in Touched(lock_escrow[i], a) : lock_escrow' = [lock_escrow EXCEPT ![i] = u]
  BY <1>1 DEF Touched
<1> QED
  BY <1>1, <1>2, LockCalls

LEMMA LockPayOut ==
  ASSUME LockInv, NEW i \in Timelock!Ids, Timelock!Open(i), NEW to \in Timelock!Parties,
         NEW st \in {"Settled", "Refunded"}, Timelock!PayOut(i, to, st)
  PROVE  /\ lock_escrow[i] \in Timelock!Escrow /\ lock_escrow[i].state = "Locked"
         /\ \E u : /\ GoodRecord(u) /\ SameTerms(u, lock_escrow[i]) /\ u.state = st
                   /\ lock_escrow' = [lock_escrow EXCEPT ![i] = u]
         /\ lock_tok' \in LockHolding
         /\ lock_tok'[LockSelf] = lock_tok[LockSelf] - lock_escrow[i].amount
         /\ UNCHANGED <<lock_seq, lock_nextId>>
<1>0. GoodRecord(lock_escrow[i]) /\ lock_escrow \in [Timelock!Ids -> Timelock!Escrow \cup {None}]
  BY DEF LockInv, Timelock!Open, Timelock!Exists
<1>1. lock_escrow[i] \in Timelock!Escrow /\ lock_escrow[i].state = "Locked"
  BY <1>0 DEF GoodRecord, Timelock!Open
<1> DEFINE u == [lock_escrow[i] EXCEPT !.released = TRUE, !.state = st]
<1>2. lock_escrow' = [lock_escrow EXCEPT ![i] = u]
  BY <1>0 DEF Timelock!PayOut
<1>3. GoodRecord(u) /\ SameTerms(u, lock_escrow[i]) /\ u.state = st
  BY <1>0, LockClosed
<1> HIDE DEF u
<1>4. lock_escrow[i].amount \in Nat
  BY <1>1, LockRecord
<1>5. lock_tok' \in LockHolding /\ lock_tok'[LockSelf] = lock_tok[LockSelf] - lock_escrow[i].amount
  BY <1>4, LockOut DEF Timelock!PayOut, LockInv
<1> QED
  BY <1>1, <1>2, <1>3, <1>5 DEF Timelock!PayOut

\* Creation writes a fresh record under the counter's value.
LEMMA LockCreate ==
  ASSUME LockInv, NEW s \in LockSenders, NEW r \in LockReceivers, NEW d \in LockDepositors,
         NEW x \in LockAmounts, NEW e \in LockExpiries,
         Timelock!create(s, r, d, x, lock_seq + e)
  PROVE  /\ lock_nextId \in Timelock!Ids /\ lock_escrow[lock_nextId] = None
         /\ \E u : /\ GoodRecord(u) /\ u.depositor = d /\ u.receiver = r /\ u.amount = x /\ x \in Nat
                   /\ u.state = "Locked"
                   /\ lock_escrow' = [lock_escrow EXCEPT ![lock_nextId] = u]
         /\ lock_nextId' = lock_nextId + 1 /\ lock_seq' = lock_seq
         /\ lock_tok' \in LockHolding /\ lock_tok'[LockSelf] = lock_tok[LockSelf] + x
<1> DEFINE k == lock_seq + e
           u == [sender |-> s, receiver |-> r, depositor |-> d, anchor |-> r, amount |-> x,
                 expiry_ledger |-> k, payout_deadline |-> k + LockTimeout,
                 sender_approved |-> FALSE, receiver_approved |-> FALSE, released |-> FALSE,
                 state |-> "Locked"]
<1>1. lock_nextId \in Nat /\ lock_seq \in Nat /\ x \in Nat /\ d \in Timelock!Parties /\ r \in Timelock!Parties
  BY LockFacts DEF LockInv
<1>2. lock_nextId \in Timelock!Ids /\ lock_escrow[lock_nextId] = None
  <2>1. lock_nextId \in Timelock!Ids
    BY LockFacts DEF LockInv, Timelock!create
  <2> QED
    BY <1>1, <2>1 DEF LockInv
<1>3. k \in Nat /\ k + LockTimeout \in Nat /\ k + LockTimeout >= k
  BY <1>1, LockFacts
<1>4. lock_escrow' = [lock_escrow EXCEPT ![lock_nextId] = u]
  BY DEF Timelock!create
<1> HIDE DEF k
<1>5. u \in Timelock!Escrow
  BY <1>1, <1>3 DEF Timelock!Escrow
<1>6. /\ u.depositor = d /\ u.receiver = r /\ u.amount = x /\ u.state = "Locked"
      /\ u.released = FALSE /\ u.payout_deadline >= u.expiry_ledger
  BY <1>3
<1>7. GoodRecord(u)
  BY <1>5, <1>6 DEF GoodRecord
<1> HIDE DEF u
<1>8. lock_tok' \in LockHolding /\ lock_tok'[LockSelf] = lock_tok[LockSelf] + x
  BY <1>1, LockIn DEF Timelock!create, LockInv
<1> QED
  BY <1>1, <1>2, <1>4, <1>6, <1>7, <1>8 DEF Timelock!create

\* The admin's pruning evicts records that hold nothing.
LEMMA LockPrune ==
  ASSUME LockInv, NEW T \in SUBSET Timelock!Ids, Timelock!prune_expired_keys(T)
  PROVE  LockInv'
<1>0. /\ lock_escrow \in [Timelock!Ids -> Timelock!Escrow \cup {None}]
      /\ \A i \in Timelock!Ids : lock_escrow[i] # None => GoodRecord(lock_escrow[i])
  BY DEF LockInv
<1>1. \A i \in Timelock!Ids :
        \/ lock_escrow'[i] = lock_escrow[i]
        \/ lock_escrow'[i] = None /\ lock_escrow[i] # None /\ lock_escrow[i].released
  BY DEF Timelock!prune_expired_keys, Timelock!Open, Timelock!Exists
<1>2. \A i \in Timelock!Ids : Worth(lock_escrow'[i]) = Worth(lock_escrow[i])
  BY <1>0, <1>1 DEF Worth, GoodRecord
<1>3. lock_escrow' \in [Timelock!Ids -> Timelock!Escrow \cup {None}]
  BY <1>0 DEF Timelock!prune_expired_keys
<1>4. LockHeld' = LockHeld
  <2> DEFINE f == [j \in Timelock!Ids |-> Worth(lock_escrow[j])]
             g == [j \in Timelock!Ids |-> Worth(lock_escrow'[j])]
  <2>1. f = g
    BY <1>2
  <2>2. LockHeld = SumOf(f, Timelock!Ids) /\ LockHeld' = SumOf(g, Timelock!Ids)
    BY DEF LockHeld
  <2> HIDE DEF f, g
  <2> QED
    BY <2>1, <2>2
<1>5. UNCHANGED <<lock_seq, lock_nextId, lock_tok>>
  BY DEF Timelock!prune_expired_keys
<1>6. \A i \in Timelock!Ids : lock_escrow'[i] # None => GoodRecord(lock_escrow'[i])
  BY <1>0, <1>1
<1>7. \A i \in Timelock!Ids : i >= lock_nextId' => lock_escrow'[i] = None
  BY <1>1, <1>5 DEF LockInv
<1> QED
  BY <1>3, <1>4, <1>5, <1>6, <1>7 DEF LockInv

LEMMA LockInvStep == LockInv /\ [Timelock!Next]_Timelock!vars => LockInv'
<1> SUFFICES ASSUME LockInv, [Timelock!Next]_Timelock!vars PROVE LockInv'
  OBVIOUS
<1>0. /\ lock_escrow \in [Timelock!Ids -> Timelock!Escrow \cup {None}] /\ lock_tok \in LockHolding
      /\ lock_seq \in 0..LockMaxSeq /\ lock_nextId \in 1..(LockMaxIds + 1)
      /\ \A i \in Timelock!Ids : i >= lock_nextId => lock_escrow[i] = None
  BY DEF LockInv
<1>1. CASE UNCHANGED Timelock!vars
  BY <1>1 DEF Timelock!vars, LockInv, LockHeld
<1>2. CASE Timelock!CloseLedger
  <2>1. lock_seq' \in 0..LockMaxSeq
    BY <1>0, <1>2, LockFacts DEF Timelock!CloseLedger
  <2> QED
    BY <1>2, <2>1 DEF Timelock!CloseLedger, LockInv, LockHeld
<1>3. ASSUME NEW s \in LockSenders, NEW r \in LockReceivers, NEW d \in LockDepositors,
             NEW x \in LockAmounts, NEW e \in LockExpiries,
             Timelock!create(s, r, d, x, lock_seq + e)
      PROVE  LockInv'
  <2>1. PICK i \in Timelock!Ids : i = lock_nextId
    BY <1>3, LockCreate
  <2>2. PICK u : /\ GoodRecord(u) /\ u.amount = x /\ u.state = "Locked" /\ x \in Nat
                 /\ lock_escrow' = [lock_escrow EXCEPT ![i] = u]
    BY <1>3, <2>1, LockCreate
  <2>3. /\ lock_escrow[i] = None /\ lock_nextId' = i + 1 /\ lock_seq' = lock_seq
        /\ lock_tok' \in LockHolding /\ lock_tok'[LockSelf] = lock_tok[LockSelf] + x
    BY <1>3, <2>1, LockCreate
  <2>4. u # None
    BY <2>2, LockRecord DEF GoodRecord
  <2>5. Worth(u) = x /\ Worth(lock_escrow[i]) = 0
    BY <2>2, <2>3, <2>4 DEF Worth
  <2>6. lock_tok[LockSelf] \in Nat
    BY <1>0 DEF LockHolding
  <2>7. lock_tok'[LockSelf] = lock_tok[LockSelf] + Worth(u) - Worth(lock_escrow[i])
    BY <2>2, <2>3, <2>5, <2>6
  <2>8. lock_nextId' \in 1..(LockMaxIds + 1) /\ lock_nextId' >= lock_nextId /\ lock_nextId' > i
    BY <2>1, <2>3, LockFacts
  <2> QED
    BY <2>2, <2>3, <2>7, <2>8, LockWrite
<1>4. ASSUME NEW i \in Timelock!Ids, Timelock!Exists(i), NEW a \in Timelock!Parties,
             \/ lock_escrow' = [lock_escrow EXCEPT ![i].sender_approved = TRUE]
             \/ lock_escrow' = [lock_escrow EXCEPT ![i].receiver_approved = TRUE]
             \/ lock_escrow' = [lock_escrow EXCEPT ![i].anchor = a],
             UNCHANGED <<lock_seq, lock_nextId, lock_tok>>
      PROVE  LockInv'
  <2>0. lock_escrow[i] # None
    BY <1>4 DEF Timelock!Exists
  <2>1. PICK u : /\ GoodRecord(u) /\ SameTerms(u, lock_escrow[i]) /\ u.state = lock_escrow[i].state
                 /\ lock_escrow' = [lock_escrow EXCEPT ![i] = u]
    BY <1>4, <2>0, LockTouch
  <2>2. u # None
    BY <2>1, LockRecord DEF GoodRecord
  <2>3. lock_escrow[i] \in Timelock!Escrow
    BY <1>0, <2>0
  <2>4. Worth(u) = Worth(lock_escrow[i]) /\ Worth(u) \in Nat
    BY <2>0, <2>1, <2>2, <2>3, LockRecord DEF Worth, SameTerms
  <2>5. lock_tok'[LockSelf] = lock_tok[LockSelf] + Worth(u) - Worth(lock_escrow[i])
    BY <1>0, <1>4, <2>4 DEF LockHolding
  <2>6. lock_nextId' \in 1..(LockMaxIds + 1) /\ lock_nextId' >= lock_nextId /\ lock_nextId' > i
    BY <1>0, <1>4, <2>0, LockFacts
  <2>7. lock_tok' \in LockHolding /\ lock_seq' = lock_seq
    BY <1>0, <1>4
  <2> QED
    BY <2>1, <2>5, <2>6, <2>7, LockWrite
<1>5. ASSUME NEW i \in Timelock!Ids, Timelock!Open(i), NEW to \in Timelock!Parties,
             NEW st \in {"Settled", "Refunded"}, Timelock!PayOut(i, to, st)
      PROVE  LockInv'
  <2>1. PICK u : /\ GoodRecord(u) /\ u.state = st /\ lock_escrow' = [lock_escrow EXCEPT ![i] = u]
    BY <1>5, LockPayOut
  <2>2. /\ lock_escrow[i] \in Timelock!Escrow /\ lock_escrow[i].state = "Locked"
        /\ lock_tok' \in LockHolding
        /\ lock_tok'[LockSelf] = lock_tok[LockSelf] - lock_escrow[i].amount
        /\ UNCHANGED <<lock_seq, lock_nextId>>
    BY <1>5, LockPayOut
  <2>3. lock_escrow[i] # None /\ lock_escrow[i].amount \in Nat
    BY <2>2, LockRecord
  <2>4. Worth(u) = 0 /\ Worth(lock_escrow[i]) = lock_escrow[i].amount
    BY <2>1, <2>2, <2>3 DEF Worth
  <2>5. lock_tok[LockSelf] \in Nat
    BY <1>0 DEF LockHolding
  <2>6. lock_tok'[LockSelf] = lock_tok[LockSelf] + Worth(u) - Worth(lock_escrow[i])
    BY <2>2, <2>3, <2>4, <2>5
  <2>7. lock_nextId' \in 1..(LockMaxIds + 1) /\ lock_nextId' >= lock_nextId /\ lock_nextId' > i
    BY <1>0, <2>2, <2>3, LockFacts
  <2> QED
    BY <2>1, <2>2, <2>6, <2>7, LockWrite
<1>6. \A i \in Timelock!Ids : Timelock!Open(i) =>
        /\ lock_escrow[i].sender \in Timelock!Parties /\ lock_escrow[i].receiver \in Timelock!Parties
        /\ lock_escrow[i].depositor \in Timelock!Parties
  BY <1>0, LockRecord, LockFacts DEF Timelock!Open, Timelock!Exists
<1>7. ASSUME NEW i \in Timelock!Ids, NEW c \in Timelock!Parties,
             \/ Timelock!approve_by_sender(c, i) \/ Timelock!approve_by_receiver(c, i)
      PROVE  LockInv'
  BY <1>4, <1>7 DEF Timelock!approve_by_sender, Timelock!approve_by_receiver
<1>8. ASSUME NEW i \in Timelock!Ids, NEW a \in LockAnchors, Timelock!set_anchor(i, a)
      PROVE  LockInv'
  BY <1>4, <1>8, LockFacts DEF Timelock!set_anchor
<1>9. ASSUME NEW i \in Timelock!Ids,
             Timelock!release(i) \/ (\E c \in Timelock!Parties : Timelock!signal_fiat_payout(c, i))
      PROVE  LockInv'
  BY <1>5, <1>6, <1>9 DEF Timelock!release, Timelock!signal_fiat_payout
<1>10. ASSUME NEW i \in Timelock!Ids,
              Timelock!timeout_refund(i) \/ (\E c \in Timelock!Parties : Timelock!refund(c, i))
       PROVE  LockInv'
  BY <1>5, <1>6, <1>10 DEF Timelock!timeout_refund, Timelock!refund
<1>11. ASSUME NEW T \in SUBSET Timelock!Ids, Timelock!prune_expired_keys(T)
       PROVE  LockInv'
  BY <1>11, LockPrune
<1> QED
  BY <1>1, <1>2, <1>3, <1>7, <1>8, <1>9, <1>10, <1>11 DEF Timelock!Next

LEMMA LockIsPart == MCSpec => Timelock!Spec
<1>1. MCInit => Timelock!Init
  BY DEF MCInit
<1>2. [MCNext]_allVars => [Timelock!Next]_Timelock!vars
  BY DEF MCNext, allVars, lockVars, Timelock!vars
<1> QED
  BY <1>1, <1>2, PTL DEF MCSpec, Timelock!Spec

LEMMA LockAlways == Timelock!Spec => []LockInv
  BY LockInvInit, LockInvStep, PTL DEF Timelock!Spec

\* The image of a record under the refinement mapping.
LEMMA LockDeposit ==
  ASSUME NEW r \in Timelock!Escrow
  PROVE  /\ Timelock!DepositOf(r) \in Timelock!Deposit
         /\ Timelock!DepositOf(r) \notin {None, Forgotten}
         /\ Timelock!DepositOf(r) =
              [owner |-> r.depositor, payee |-> r.receiver, amount |-> r.amount,
               refundable_at |-> r.expiry_ledger, status |-> Timelock!CustodyStatus[r.state]]
         /\ Timelock!DepositOf(r).status = "held" <=> r.state = "Locked"
<1>1. /\ r.depositor \in LockDepositors /\ r.receiver \in LockReceivers /\ r.amount \in LockAmounts
      /\ r.expiry_ledger \in Nat /\ r.state \in {"Locked", "Settled", "Refunded"}
  BY LockRecord
<1>2. /\ Timelock!CustodyStatus[r.state] \in {"held", "settled", "returned"}
      /\ Timelock!CustodyStatus[r.state] = "held" <=> r.state = "Locked"
  BY <1>1 DEF Timelock!CustodyStatus
<1>3. Timelock!DepositOf(r) =
        [owner |-> r.depositor, payee |-> r.receiver, amount |-> r.amount,
         refundable_at |-> r.expiry_ledger, status |-> Timelock!CustodyStatus[r.state]]
  BY DEF Timelock!DepositOf
<1>4. Timelock!DepositOf(r) \in Timelock!Deposit
  BY <1>1, <1>2, <1>3 DEF Timelock!Deposit
<1> QED
  BY <1>2, <1>3, <1>4, LockFacts

\* A record that keeps its terms keeps its image, but for the status.
LEMMA LockStatus ==
  ASSUME NEW r \in Timelock!Escrow, NEW u \in Timelock!Escrow, SameTerms(u, r)
  PROVE  Timelock!DepositOf(u) =
           [Timelock!DepositOf(r) EXCEPT !.status = Timelock!CustodyStatus[u.state]]
<1> DEFINE v == Timelock!CustodyStatus[r.state]
           w == Timelock!CustodyStatus[u.state]
<1>1. /\ Timelock!DepositOf(r) = [owner |-> r.depositor, payee |-> r.receiver, amount |-> r.amount,
                                  refundable_at |-> r.expiry_ledger, status |-> v]
      /\ Timelock!DepositOf(u) = [owner |-> r.depositor, payee |-> r.receiver, amount |-> r.amount,
                                  refundable_at |-> r.expiry_ledger, status |-> w]
  BY DEF SameTerms, Timelock!DepositOf
<1> HIDE DEF v, w
<1>2. Timelock!DepositOf(u) = [Timelock!DepositOf(r) EXCEPT !.status = w]
  BY <1>1
<1> QED
  BY <1>2 DEF w

\* The time-locked escrows implement the custody contract, for any parties,
\* amounts, expiries and timeout.
LEMMA LockCustody == Timelock!Spec => Timelock!ImplementsCustody
<1> DEFINE D == Timelock!deposits
<1>1. Timelock!Init => Timelock!C!Init
  BY LockFacts DEF Timelock!Init, Timelock!C!Init, Timelock!deposits, Timelock!Exists
<1>2. LockInv /\ [Timelock!Next]_Timelock!vars => [Timelock!C!Next]_Timelock!C!vars
  <2> SUFFICES ASSUME LockInv, [Timelock!Next]_Timelock!vars
               PROVE  [Timelock!C!Next]_Timelock!C!vars
    OBVIOUS
  <2>0. /\ lock_escrow \in [Timelock!Ids -> Timelock!Escrow \cup {None}]
        /\ lock_seq \in Nat /\ lock_nextId \in Nat
        /\ \A i \in Timelock!Ids : i >= lock_nextId => lock_escrow[i] = None
    BY LockFacts DEF LockInv
  <2>1. CASE UNCHANGED Timelock!vars
    BY <2>1 DEF Timelock!vars, Timelock!C!vars, Timelock!deposits, Timelock!Exists
  <2>2. CASE Timelock!CloseLedger
    <3>1. Timelock!C!Advance
      BY <2>0, <2>2 DEF Timelock!CloseLedger, Timelock!C!Advance, Timelock!deposits, Timelock!Exists
    <3> QED
      BY <3>1 DEF Timelock!C!Next
  <2>3. ASSUME NEW s \in LockSenders, NEW r \in LockReceivers, NEW d \in LockDepositors,
               NEW x \in LockAmounts, NEW e \in LockExpiries,
               Timelock!create(s, r, d, x, lock_seq + e)
        PROVE  \E i \in Timelock!Ids : Timelock!C!Open(i)
    <3>1. PICK i \in Timelock!Ids : i = lock_nextId
      BY <2>3, LockCreate
    <3>2. PICK u : /\ GoodRecord(u) /\ u.depositor = d /\ u.receiver = r /\ u.amount = x /\ x \in Nat
                   /\ u.state = "Locked"
                   /\ lock_escrow' = [lock_escrow EXCEPT ![i] = u]
      BY <2>3, <3>1, LockCreate
    <3>3. lock_escrow[i] = None /\ lock_nextId' = i + 1 /\ lock_seq' = lock_seq
      BY <2>3, <3>1, LockCreate
    <3>4. u \in Timelock!Escrow /\ u # None
      BY <3>2, LockRecord DEF GoodRecord
    <3>5. D[i] = None
      BY <2>0, <3>1, <3>3 DEF Timelock!deposits, Timelock!Exists
    <3>6. D'[i] = Timelock!DepositOf(u)
      BY <2>0, <3>2, <3>4 DEF Timelock!deposits, Timelock!Exists
    <3>7. \A j \in Timelock!Ids : j # i => D'[j] = D[j]
      <4> SUFFICES ASSUME NEW j \in Timelock!Ids, j # i PROVE D'[j] = D[j]
        OBVIOUS
      <4>1. lock_escrow'[j] = lock_escrow[j] /\ (j < lock_nextId' <=> j < lock_nextId)
        BY <2>0, <3>1, <3>2, <3>3, LockFacts
      <4> QED
        BY <4>1 DEF Timelock!deposits, Timelock!Exists
    <3>8. D' = [D EXCEPT ![i] = Timelock!DepositOf(u)]
      BY <3>6, <3>7 DEF Timelock!deposits
    <3>9. /\ Timelock!DepositOf(u) \notin {None, Forgotten} /\ Timelock!DepositOf(u).status = "held"
          /\ Timelock!DepositOf(u).amount >= 0
          /\ Timelock!DepositOf(u).owner \in Timelock!Parties
          /\ Timelock!DepositOf(u).payee \in Timelock!Parties
      BY <3>2, <3>4, LockDeposit, LockFacts
    <3>10. Timelock!C!Open(i)
      BY <3>3, <3>5, <3>6, <3>8, <3>9 DEF Timelock!C!Open
    <3> QED
      BY <3>10
  <2>4. ASSUME NEW i \in Timelock!Ids, lock_escrow[i] # None, NEW u, GoodRecord(u),
               SameTerms(u, lock_escrow[i]),
               lock_escrow' = [lock_escrow EXCEPT ![i] = u], lock_nextId' = lock_nextId
        PROVE  /\ D[i] = Timelock!DepositOf(lock_escrow[i]) /\ lock_escrow[i] \in Timelock!Escrow
               /\ D' = [D EXCEPT ![i].status = Timelock!CustodyStatus[u.state]]
               /\ u.state = lock_escrow[i].state => D' = D
    <3>1. lock_escrow[i] \in Timelock!Escrow /\ u \in Timelock!Escrow /\ u # None
      BY <2>0, <2>4, LockRecord DEF GoodRecord
    <3>2. D[i] = Timelock!DepositOf(lock_escrow[i])
      BY <2>4 DEF Timelock!deposits, Timelock!Exists
    <3>3. D'[i] = Timelock!DepositOf(u)
      BY <2>0, <2>4, <3>1 DEF Timelock!deposits, Timelock!Exists
    <3>4. \A j \in Timelock!Ids : j # i => D'[j] = D[j]
      BY <2>0, <2>4 DEF Timelock!deposits, Timelock!Exists
    <3>5. Timelock!DepositOf(u) =
            [Timelock!DepositOf(lock_escrow[i]) EXCEPT !.status = Timelock!CustodyStatus[u.state]]
      BY <2>4, <3>1, LockStatus
    <3>6. D' = [D EXCEPT ![i].status = Timelock!CustodyStatus[u.state]]
      BY <3>2, <3>3, <3>4, <3>5 DEF Timelock!deposits
    <3>7. ASSUME u.state = lock_escrow[i].state PROVE D' = D
      <4>1. Timelock!DepositOf(u) = Timelock!DepositOf(lock_escrow[i])
        BY <2>4, <3>7 DEF SameTerms, Timelock!DepositOf
      <4> QED
        BY <3>2, <3>3, <3>4, <4>1 DEF Timelock!deposits
    <3> QED
      BY <3>1, <3>2, <3>6, <3>7
  <2>5. ASSUME NEW i \in Timelock!Ids, Timelock!Exists(i), NEW a \in Timelock!Parties,
               \/ lock_escrow' = [lock_escrow EXCEPT ![i].sender_approved = TRUE]
               \/ lock_escrow' = [lock_escrow EXCEPT ![i].receiver_approved = TRUE]
               \/ lock_escrow' = [lock_escrow EXCEPT ![i].anchor = a],
               UNCHANGED <<lock_seq, lock_nextId, lock_tok>>
        PROVE  UNCHANGED Timelock!C!vars
    <3>0. lock_escrow[i] # None
      BY <2>5 DEF Timelock!Exists
    <3>1. PICK u : /\ GoodRecord(u) /\ SameTerms(u, lock_escrow[i]) /\ u.state = lock_escrow[i].state
                   /\ lock_escrow' = [lock_escrow EXCEPT ![i] = u]
      BY <2>5, <3>0, LockTouch
    <3>2. D' = D
      BY <2>4, <2>5, <3>0, <3>1
    <3> QED
      BY <2>5, <3>2 DEF Timelock!C!vars
  <2>6. ASSUME NEW i \in Timelock!Ids, Timelock!Open(i), NEW to \in Timelock!Parties,
               NEW st \in {"Settled", "Refunded"}, Timelock!PayOut(i, to, st)
        PROVE  /\ Timelock!C!Held(i) /\ D[i].refundable_at = lock_escrow[i].expiry_ledger
               /\ D' = [D EXCEPT ![i].status = Timelock!CustodyStatus[st]]
               /\ lock_seq' = lock_seq
    <3>0. lock_escrow[i] # None
      BY <2>6 DEF Timelock!Open, Timelock!Exists
    <3>1. PICK u : /\ GoodRecord(u) /\ SameTerms(u, lock_escrow[i]) /\ u.state = st
                   /\ lock_escrow' = [lock_escrow EXCEPT ![i] = u]
      BY <2>6, LockPayOut
    <3>2. lock_escrow[i].state = "Locked" /\ UNCHANGED <<lock_seq, lock_nextId>>
      BY <2>6, LockPayOut
    <3>3. /\ D[i] = Timelock!DepositOf(lock_escrow[i]) /\ lock_escrow[i] \in Timelock!Escrow
          /\ D' = [D EXCEPT ![i].status = Timelock!CustodyStatus[st]]
      BY <2>4, <3>0, <3>1, <3>2
    <3>4. /\ D[i] \notin {None, Forgotten} /\ D[i].status = "held"
          /\ D[i].refundable_at = lock_escrow[i].expiry_ledger
      BY <3>2, <3>3, LockDeposit
    <3> QED
      BY <3>2, <3>3, <3>4 DEF Timelock!C!Held
  <2>7. \A i \in Timelock!Ids : Timelock!Open(i) =>
          /\ lock_escrow[i].sender \in Timelock!Parties /\ lock_escrow[i].receiver \in Timelock!Parties
          /\ lock_escrow[i].depositor \in Timelock!Parties
          /\ lock_escrow[i].expiry_ledger \in Nat /\ lock_escrow[i].payout_deadline \in Nat
          /\ lock_escrow[i].payout_deadline >= lock_escrow[i].expiry_ledger
    <3> SUFFICES ASSUME NEW i \in Timelock!Ids, lock_escrow[i] # None
                 PROVE  /\ lock_escrow[i].sender \in Timelock!Parties /\ lock_escrow[i].receiver \in Timelock!Parties
                        /\ lock_escrow[i].depositor \in Timelock!Parties
                        /\ lock_escrow[i].expiry_ledger \in Nat /\ lock_escrow[i].payout_deadline \in Nat
                        /\ lock_escrow[i].payout_deadline >= lock_escrow[i].expiry_ledger
      BY DEF Timelock!Open, Timelock!Exists
    <3>1. lock_escrow[i] \in Timelock!Escrow /\ lock_escrow[i].payout_deadline >= lock_escrow[i].expiry_ledger
      BY DEF LockInv, GoodRecord
    <3> QED
      BY <3>1, LockRecord, LockFacts
  <2>8. ASSUME NEW i \in Timelock!Ids, NEW c \in Timelock!Parties,
               \/ Timelock!approve_by_sender(c, i) \/ Timelock!approve_by_receiver(c, i)
        PROVE  UNCHANGED Timelock!C!vars
    BY <2>5, <2>8 DEF Timelock!approve_by_sender, Timelock!approve_by_receiver
  <2>9. ASSUME NEW i \in Timelock!Ids, NEW a \in LockAnchors, Timelock!set_anchor(i, a)
        PROVE  UNCHANGED Timelock!C!vars
    BY <2>5, <2>9, LockFacts DEF Timelock!set_anchor
  <2>10. ASSUME NEW i \in Timelock!Ids,
                Timelock!release(i) \/ (\E c \in Timelock!Parties : Timelock!signal_fiat_payout(c, i))
         PROVE  Timelock!C!Settle(i)
    <3>1. Timelock!Open(i) /\ Timelock!PayOut(i, lock_escrow[i].receiver, "Settled")
      BY <2>10 DEF Timelock!release, Timelock!signal_fiat_payout
    <3>2. /\ Timelock!C!Held(i) /\ D' = [D EXCEPT ![i].status = Timelock!CustodyStatus["Settled"]]
          /\ lock_seq' = lock_seq
      BY <2>6, <2>7, <3>1
    <3> QED
      BY <3>2 DEF Timelock!C!Settle, Timelock!CustodyStatus
  <2>11. ASSUME NEW i \in Timelock!Ids,
                Timelock!timeout_refund(i) \/ (\E c \in Timelock!Parties : Timelock!refund(c, i))
         PROVE  Timelock!C!Return(i)
    <3>1. Timelock!Open(i) /\ \E to \in Timelock!Parties : Timelock!PayOut(i, to, "Refunded")
      BY <2>7, <2>11 DEF Timelock!timeout_refund, Timelock!refund
    <3>2. lock_seq >= lock_escrow[i].expiry_ledger
      BY <2>0, <2>7, <2>11, <3>1 DEF Timelock!timeout_refund, Timelock!refund, Timelock!is_expired
    <3>3. /\ Timelock!C!Held(i) /\ D' = [D EXCEPT ![i].status = Timelock!CustodyStatus["Refunded"]]
          /\ D[i].refundable_at = lock_escrow[i].expiry_ledger /\ lock_seq' = lock_seq
      BY <2>6, <3>1
    <3> QED
      BY <3>2, <3>3 DEF Timelock!C!Return, Timelock!CustodyStatus
  <2>12. ASSUME NEW T \in SUBSET Timelock!Ids, Timelock!prune_expired_keys(T)
         PROVE  Timelock!C!Forget
    <3> DEFINE S == {i \in T : Timelock!Exists(i) /\ ~Timelock!Open(i)}
    <3>1. \A i \in S : /\ i \in Timelock!Ids /\ lock_escrow[i] \in Timelock!Escrow /\ lock_escrow[i] # None
                       /\ lock_escrow[i].state # "Locked" /\ i < lock_nextId
      <4> SUFFICES ASSUME NEW i \in S
                   PROVE  /\ i \in Timelock!Ids /\ lock_escrow[i] \in Timelock!Escrow /\ lock_escrow[i] # None
                          /\ lock_escrow[i].state # "Locked" /\ i < lock_nextId
        OBVIOUS
      <4>1. i \in Timelock!Ids /\ lock_escrow[i] # None /\ lock_escrow[i].released
        BY DEF Timelock!Exists, Timelock!Open
      <4>2. lock_escrow[i] \in Timelock!Escrow /\ lock_escrow[i].state # "Locked"
        BY <4>1 DEF LockInv, GoodRecord
      <4>3. i < lock_nextId
        BY <2>0, <4>1, LockFacts
      <4> QED
        BY <4>1, <4>2, <4>3
    <3>2. \A i \in S : D[i] \notin {None, Forgotten} /\ ~Timelock!C!Held(i)
      BY <3>1, LockDeposit DEF Timelock!deposits, Timelock!Exists, Timelock!C!Held
    <3>3. \A i \in Timelock!Ids : lock_escrow'[i] = IF i \in S THEN None ELSE lock_escrow[i]
      BY <2>12 DEF Timelock!prune_expired_keys
    <3>4. lock_nextId' = lock_nextId /\ lock_seq' = lock_seq
      BY <2>12 DEF Timelock!prune_expired_keys
    <3>5. S \in SUBSET Timelock!Ids
      OBVIOUS
    <3> HIDE DEF S
    <3>6. D' = [i \in Timelock!Ids |-> IF i \in S THEN Forgotten ELSE D[i]]
      BY <3>1, <3>3, <3>4 DEF Timelock!deposits, Timelock!Exists
    <3> QED
      BY <3>2, <3>4, <3>5, <3>6 DEF Timelock!C!Forget
  <2> QED
    BY <2>1, <2>2, <2>3, <2>8, <2>9, <2>10, <2>11, <2>12 DEF Timelock!Next, Timelock!C!Next
<1> QED
  BY <1>1, <1>2, LockAlways, PTL DEF Timelock!Spec, Timelock!ImplementsCustody, Timelock!C!Spec

-----------------------------------------------------------------------------

LEMMA HtlcIsPart == MCSpec => Spec
<1>1. MCInit => Init
  BY DEF MCInit
<1>2. [MCNext]_allVars => [Next]_vars
  BY DEF MCNext, allVars, vars
<1> QED
  BY <1>1, <1>2, PTL DEF MCSpec, Spec

\* For every value of the constants: fiat and time-locked escrows are resolved
\* once, on the terms they were opened with and not before their time, the
\* time-locked ones are exactly covered by what the contract holds, and the
\* storage of all three settlement contracts stays well formed.
THEOREM EscrowsAreCustody == MCSpec => EscrowsImplementCustody
<1>1. IInv => TypeOK
  BY DEF IInv
<1>2. FiatInv => Fiat!TypeOK
  BY DEF FiatInv
<1>3. LockInv => Timelock!TypeOK /\ Timelock!HoldsTheOpenEscrows
  BY LockInvShows
<1> QED
  BY <1>1, <1>2, <1>3, HtlcIsPart, IInvAlways, FiatIsPart, FiatAlways, FiatCustody,
     LockIsPart, LockAlways, LockCustody, PTL
  DEF EscrowsImplementCustody
=============================================================================
