-------------------------- MODULE RemittanceProofs --------------------------
(***************************************************************************)
(* Proofs about the three contracts that escrow a remittance for an        *)
(* anchor, for any parties, amounts, bonds, windows, destination lists and *)
(* number of remittances: the bonded escrow of RemittanceEscrow first,     *)
(* then the anchored remittances, then the split orders.                   *)
(***************************************************************************)
EXTENDS MCRemittances, FiniteSetTheorems, SequenceTheorems, TLAPS

\* Slashing never takes more than the bond.
LEMMA SlashWithinBond ==
  ASSUME NEW b \in Nat
  PROVE  Slash(b) \in Nat /\ Slash(b) <= b
<1> DEFINE q == b * SlashPercent
<1>1. q \in Nat /\ q <= b * 100
  BY RemittanceAssumption
<1> HIDE DEF q
<1>2. q \div 100 \in Nat /\ q \div 100 <= b
  BY <1>1
<1> QED
  BY <1>2 DEF Slash, q

\* A transfer the balance covers leaves every balance a natural number.
LEMMA MoveType ==
  ASSUME NEW S, NEW bal \in [S -> Nat], NEW from \in S, NEW to \in S,
         NEW x \in Nat, CanMove(bal, from, x)
  PROVE  Move(bal, from, to, x) \in [S -> Nat]
  BY DEF CanMove, Move

(***************************************************************************)
(* The inductive invariant: identifiers from NextRemittanceId on are       *)
(* unused, or create_remittance could overwrite a live record and leave    *)
(* the counter of its anchor one too high.  initialize resets the counter, *)
(* which is harmless only because nothing was created before it.           *)
(***************************************************************************)
FreshIds ==
  /\ \A i \in Ids : i >= nextId => remittance[i] = None
  /\ admin = None => nextId = 0

IInv ==
  /\ TypeOK
  /\ FreshIds
  /\ PendingCountExact

\* A newly deployed escrow satisfies IInv.
LEMMA InitEstablishesIInv == Init => IInv
<1> SUFFICES ASSUME Init PROVE IInv
  OBVIOUS
<1> USE RemittanceAssumption
<1>1. TypeOK
  BY DEF Init, TypeOK, Ids, Accounts
<1>2. FreshIds
  BY DEF Init, FreshIds
<1>3. \A a \in Anchors : PendingOf(a) = {}
  BY DEF Init, PendingOf, IsPending, Exists
<1>4. PendingCountExact
  BY <1>3, FS_EmptySet DEF Init, PendingCountExact
<1> QED
  BY <1>1, <1>2, <1>4 DEF IInv

\* The set of an anchor's pending remittances is finite.
LEMMA PendingFinite ==
  ASSUME NEW a
  PROVE  IsFiniteSet(PendingOf(a))
<1>1. IsFiniteSet(Ids)
  BY FS_Interval, RemittanceAssumption DEF Ids
<1> QED
  BY <1>1, FS_Subset DEF PendingOf

\* Finalising remittance i takes exactly it out of its anchor's pending set,
\* and decrement_pending_and_unlock does the same to the counter and the flag.
LEMMA FinaliseKeepsCount ==
  ASSUME IInv, NEW i \in Ids, IsPending(i), NEW st \in {"Completed", "Refunded"},
         remittance' = [remittance EXCEPT ![i].status = st],
         decrement_pending_and_unlock(remittance[i].anchor)
  PROVE  /\ remittance' \in [Ids -> Remittance \cup {None}]
         /\ pending' \in [Anchors -> Nat]
         /\ bondLocked' \subseteq Anchors
         /\ PendingCountExact'
         /\ \A j \in Ids : remittance[j] = None => remittance'[j] = None
<1> USE RemittanceAssumption
<1>0. remittance[i] \in Remittance /\ remittance[i].anchor \in Anchors
  BY DEF IInv, TypeOK, IsPending, Exists, Remittance
<1>1. PICK anc \in Anchors : anc = remittance[i].anchor
  BY <1>0
<1>2. remittance'[i] \in Remittance /\ remittance'[i].anchor = anc
      /\ remittance'[i].status = st
  BY <1>0, <1>1 DEF Remittance, IInv, TypeOK
<1>3. \A j \in Ids : j # i => remittance'[j] = remittance[j]
  BY DEF IInv, TypeOK
<1>4. remittance' \in [Ids -> Remittance \cup {None}]
  BY <1>2, <1>3 DEF IInv, TypeOK
<1>5. PendingOf(anc)' = PendingOf(anc) \ {i}
  BY <1>0, <1>1, <1>2, <1>3 DEF PendingOf, IsPending, Exists
<1>6. \A a \in Anchors : a # anc => PendingOf(a)' = PendingOf(a)
  BY <1>0, <1>1, <1>2, <1>3 DEF PendingOf, IsPending, Exists
<1>7. i \in PendingOf(anc)
  BY <1>1 DEF PendingOf
<1>8. /\ Cardinality(PendingOf(anc)) \in Nat \ {0}
      /\ Cardinality(PendingOf(anc)') = Cardinality(PendingOf(anc)) - 1
      /\ Cardinality(PendingOf(anc)') = 0 <=> PendingOf(anc)' = {}
  <2> DEFINE P == PendingOf(anc)
  <2>0. IsFiniteSet(P) /\ i \in P
    BY <1>7, PendingFinite
  <2> HIDE DEF P
  <2>1. IsFiniteSet(P \ {i}) /\ Cardinality(P \ {i}) = Cardinality(P) - 1
    BY <2>0, FS_RemoveElement
  <2>2. Cardinality(P) \in Nat /\ Cardinality(P \ {i}) \in Nat
    BY <2>0, <2>1, FS_CardinalityType
  <2>3. Cardinality(P \ {i}) = 0 <=> P \ {i} = {}
    BY <2>1, FS_EmptySet
  <2>4. PendingOf(anc)' = P \ {i}
    BY <1>5 DEF P
  <2>5. /\ Cardinality(P) \in Nat \ {0}
        /\ Cardinality(P \ {i}) = Cardinality(P) - 1
        /\ Cardinality(P \ {i}) = 0 <=> P \ {i} = {}
    BY <2>1, <2>2, <2>3
  <2> QED
    BY <2>4, <2>5, Zenon DEF P
<1>9. pending[anc] = Cardinality(PendingOf(anc)) /\ anc \in bondLocked
  BY <1>1, <1>7 DEF IInv, TypeOK, PendingCountExact
<1>10. /\ pending' \in [Anchors -> Nat]
       /\ bondLocked' \subseteq Anchors
       /\ pending'[anc] = Cardinality(PendingOf(anc)')
       /\ anc \in bondLocked' <=> PendingOf(anc)' # {}
       /\ \A a \in Anchors : a # anc => pending'[a] = pending[a] /\ (a \in bondLocked' <=> a \in bondLocked)
  BY <1>1, <1>8, <1>9 DEF decrement_pending_and_unlock, IInv, TypeOK
<1>11. PendingCountExact'
  BY <1>6, <1>10 DEF IInv, PendingCountExact
<1> QED
  BY <1>0, <1>3, <1>4, <1>10, <1>11

\* Every call of the escrow, and every tick of the clock, keeps IInv.
LEMMA NextKeepsIInv == IInv /\ [Next]_vars => IInv'
<1> SUFFICES ASSUME IInv, [Next]_vars PROVE IInv'
  OBVIOUS
<1> USE RemittanceAssumption
<1>0. ASSUME UNCHANGED <<remittance, pending, bondLocked>>
      PROVE  PendingCountExact'
  BY <1>0 DEF IInv, PendingCountExact, PendingOf, IsPending, Exists
<1>1. CASE Tick
  BY <1>0, <1>1 DEF Tick, IInv, TypeOK, FreshIds, config, books
<1>2. ASSUME NEW a \in Admins, initialize(a) PROVE IInv'
  BY <1>0, <1>2 DEF initialize, IInv, TypeOK, FreshIds, books
<1>3. ASSUME NEW c \in Admins, NEW t \in Treasuries, set_treasury(c, t) PROVE IInv'
  BY <1>0, <1>3 DEF set_treasury, IInv, TypeOK, FreshIds, books
<1>4. ASSUME NEW a \in Anchors, NEW x \in Stakes, deposit_collateral(a, x) PROVE IInv'
  <2>1. tok' \in [Accounts \cup {Self} -> Nat]
    BY <1>4, MoveType DEF deposit_collateral, IInv, TypeOK, Accounts
  <2> QED
    BY <1>0, <1>4, <2>1 DEF deposit_collateral, IInv, TypeOK, FreshIds, config
<1>5. ASSUME NEW s \in Senders, NEW a \in Anchors, NEW x \in Amounts, NEW d \in DeadlineSecs,
             create_remittance(s, a, x, d)
      PROVE  IInv'
  <2>1. tok' \in [Accounts \cup {Self} -> Nat]
    BY <1>5, MoveType DEF create_remittance, IInv, TypeOK, Accounts
  <2>2. nextId \in Ids /\ remittance[nextId] = None
    BY <1>5 DEF create_remittance, IInv, TypeOK, FreshIds, Ids
  <2> DEFINE r == [sender |-> s, anchor |-> a, amount |-> x,
                   deadline |-> now + d, status |-> "Pending"]
  <2>3. r \in Remittance /\ r.anchor = a /\ r.status = "Pending" /\ r # None
    BY <1>5 DEF create_remittance, Remittance, IInv, TypeOK
  <2>4. /\ remittance' = [remittance EXCEPT ![nextId] = r]
        /\ nextId' = nextId + 1
        /\ UNCHANGED <<now, config, collateral, seized>>
    BY <1>5 DEF create_remittance
  <2> HIDE DEF r
  <2>5. remittance' \in [Ids -> Remittance \cup {None}]
    BY <2>3, <2>4 DEF IInv, TypeOK
  <2>6. remittance'[nextId] = r /\ \A j \in Ids : j # nextId => remittance'[j] = remittance[j]
    BY <2>2, <2>4 DEF IInv, TypeOK
  <2>7. PendingOf(a)' = PendingOf(a) \cup {nextId} /\ nextId \notin PendingOf(a)
    BY <2>2, <2>3, <2>6 DEF PendingOf, IsPending, Exists
  <2>8. \A b \in Anchors : b # a => PendingOf(b)' = PendingOf(b)
    BY <2>2, <2>3, <2>6 DEF PendingOf, IsPending, Exists
  <2>9. /\ Cardinality(PendingOf(a)) \in Nat
        /\ Cardinality(PendingOf(a)') = Cardinality(PendingOf(a)) + 1
    BY <2>7, PendingFinite, FS_AddElement, FS_CardinalityType
  <2>9a. pending[a] = Cardinality(PendingOf(a)) /\ (a \in bondLocked <=> PendingOf(a) # {})
    BY DEF IInv, PendingCountExact
  <2>9b. pending[a] = 0 <=> PendingOf(a) = {}
    BY <2>9a, PendingFinite, FS_EmptySet
  <2>10. /\ pending' \in [Anchors -> Nat] /\ bondLocked' \subseteq Anchors
         /\ pending'[a] = Cardinality(PendingOf(a)')
         /\ a \in bondLocked'
         /\ \A b \in Anchors : b # a => pending'[b] = pending[b] /\ (b \in bondLocked' <=> b \in bondLocked)
    BY <1>5, <2>9, <2>9a, <2>9b DEF create_remittance, IInv, TypeOK
  <2>11. PendingCountExact'
    BY <2>7, <2>8, <2>10 DEF IInv, PendingCountExact
  <2>12. FreshIds'
    <3>1. admin' # None
      BY <1>5 DEF create_remittance, config
    <3>2. ASSUME NEW j \in Ids, j >= nextId' PROVE remittance'[j] = None
      <4>1. j \in Int /\ nextId \in Int /\ j >= nextId + 1
        BY <2>2, <2>4, <3>2 DEF Ids
      <4>2. j # nextId /\ j >= nextId
        BY <4>1
      <4> QED
        BY <2>6, <4>2 DEF IInv, FreshIds
    <3> QED
      BY <3>1, <3>2 DEF FreshIds
  <2>13. nextId' \in 0..MaxIds
    BY <2>2, <2>4 DEF Ids, IInv, TypeOK
  <2> QED
    BY <2>1, <2>4, <2>5, <2>10, <2>11, <2>12, <2>13 DEF IInv, TypeOK, config
<1>6. ASSUME NEW a \in Anchors, NEW i \in Ids, submit_payout_proof(a, i) PROVE IInv'
  <2>1. /\ IsPending(i)
        /\ remittance' = [remittance EXCEPT ![i].status = "Completed"]
        /\ decrement_pending_and_unlock(remittance[i].anchor)
        /\ UNCHANGED <<now, config, nextId, collateral, tok, seized>>
    BY <1>6 DEF submit_payout_proof, IsPending
  <2>2. /\ remittance' \in [Ids -> Remittance \cup {None}]
        /\ pending' \in [Anchors -> Nat]
        /\ bondLocked' \subseteq Anchors
        /\ PendingCountExact'
        /\ \A j \in Ids : remittance[j] = None => remittance'[j] = None
    BY <2>1, FinaliseKeepsCount
  <2> QED
    BY <2>1, <2>2 DEF IInv, TypeOK, FreshIds, config
<1>7. ASSUME NEW s \in Senders, NEW i \in Ids, open_dispute(s, i) PROVE IInv'
  <2> DEFINE r == remittance[i]
             bond == collateral[r.anchor]
             left == Available(bond)
             locked == Seized(left, r.amount)
             slashed == Move(tok, Self, treasury, Slash(bond))
  <2>1. /\ IsPending(i)
        /\ remittance' = [remittance EXCEPT ![i].status = "Refunded"]
        /\ decrement_pending_and_unlock(r.anchor)
        /\ treasury # None
        /\ UNCHANGED <<now, config, nextId>>
        /\ CanMove(tok, Self, Slash(bond))
        /\ CanMove(slashed, Self, r.amount)
        /\ tok' = Move(slashed, Self, s, r.amount)
        /\ collateral' = [collateral EXCEPT ![r.anchor] = left - locked]
        /\ seized' = seized + locked
    BY <1>7 DEF open_dispute, Disputable
  <2>2. r \in Remittance /\ r.anchor \in Anchors /\ r.amount \in Nat
    BY <2>1 DEF IInv, TypeOK, IsPending, Exists, Remittance
  <2>3. bond \in Nat
    BY <2>2 DEF IInv, TypeOK
  <2>4. Slash(bond) \in Nat /\ left \in Nat
    BY <2>3, SlashWithinBond DEF Available
  <2>5. slashed \in [Accounts \cup {Self} -> Nat]
    BY <2>1, <2>4, MoveType DEF IInv, TypeOK, Accounts
  <2>6. tok' \in [Accounts \cup {Self} -> Nat]
    BY <2>1, <2>2, <2>5, MoveType DEF Accounts
  <2>7. collateral' \in [Anchors -> Nat] /\ seized' \in Nat
    BY <2>1, <2>2, <2>4 DEF IInv, TypeOK, Seized
  <2>8. /\ remittance' \in [Ids -> Remittance \cup {None}]
        /\ pending' \in [Anchors -> Nat]
        /\ bondLocked' \subseteq Anchors
        /\ PendingCountExact'
        /\ \A j \in Ids : remittance[j] = None => remittance'[j] = None
    BY <2>1, FinaliseKeepsCount
  <2> QED
    BY <2>1, <2>6, <2>7, <2>8 DEF IInv, TypeOK, FreshIds, config
<1>8. CASE UNCHANGED vars
  BY <1>0, <1>8 DEF vars, IInv, TypeOK, FreshIds, config, books
<1> QED
  BY <1>1, <1>2, <1>3, <1>4, <1>5, <1>6, <1>7, <1>8 DEF Next

\* IInv holds in every reachable state.
LEMMA IInvAlways == Spec => []IInv
  BY InitEstablishesIInv, NextKeepsIInv, PTL DEF Spec

\* Storage keeps its declared types and no balance goes negative.
THEOREM TypesHold == Spec => []TypeOK
<1>1. IInv => TypeOK
  BY DEF IInv
<1> QED
  BY <1>1, IInvAlways, PTL

\* The pending counter and the bond lock always describe the records.
THEOREM CountersDescribeRecords == Spec => []PendingCountExact
<1>1. IInv => PendingCountExact
  BY DEF IInv
<1> QED
  BY <1>1, IInvAlways, PTL

-----------------------------------------------------------------------------

\* Two sums the books are made of, and what a change of one entry does to them.
Kept == SumOf([i \in Ids |-> Retained(i)], Ids)

LEMMA KeptShift ==
  \A f \in [Ids -> Nat], g \in [Ids -> Nat], i \in Ids :
    (\A j \in Ids : j # i => g[j] = f[j])
    => SumOf(f, Ids) \in Nat /\ SumOf(g, Ids) = SumOf(f, Ids) + g[i] - f[i]
<1>1. IsFiniteSet(Ids)
  BY FS_Interval, RemittanceAssumption DEF Ids
<1> QED
  BY <1>1, SumShift

LEMMA BondShift ==
  \A f \in [Anchors -> Nat], g \in [Anchors -> Nat], a \in Anchors :
    (\A b \in Anchors : b # a => g[b] = f[b])
    => SumOf(f, Anchors) \in Nat /\ SumOf(g, Anchors) = SumOf(f, Anchors) + g[a] - f[a]
<1>1. IsFiniteSet(Anchors)
  BY RemittanceAssumption
<1> QED
  BY <1>1, SumShift

LEMMA KeptType ==
  ASSUME remittance \in [Ids -> Remittance \cup {None}]
  PROVE  Kept \in Nat
<1> DEFINE f == [j \in Ids |-> Retained(j)]
<1>1. \A r \in Remittance : r.amount \in Nat
  BY RemittanceAssumption DEF Remittance
<1>2. \A j \in Ids : f[j] \in Nat
  BY <1>1 DEF Retained, Exists
<1>3. IsFiniteSet(Ids)
  BY FS_Interval, RemittanceAssumption DEF Ids
<1> HIDE DEF f
<1>4. SumOf(f, Ids) \in Nat
  BY <1>2, <1>3, SumNat
<1> QED
  BY <1>4 DEF Kept, f

\* A step that touches remittance i changes what is kept by what it changes there.
LEMMA KeptChange ==
  ASSUME remittance \in [Ids -> Remittance \cup {None}],
         remittance' \in [Ids -> Remittance \cup {None}],
         NEW i \in Ids, \A j \in Ids : j # i => remittance'[j] = remittance[j]
  PROVE  /\ Kept \in Nat /\ Retained(i) \in Nat /\ Retained(i)' \in Nat
         /\ Kept' = Kept + Retained(i)' - Retained(i)
<1> DEFINE f == [j \in Ids |-> Retained(j)]
           g == [j \in Ids |-> Retained(j)']
<1>1. \A r \in Remittance : r.amount \in Nat
  BY RemittanceAssumption DEF Remittance
<1>2. \A j \in Ids : Retained(j) \in Nat
  BY <1>1 DEF Retained, Exists
<1>3. \A j \in Ids : Retained(j)' \in Nat
  BY <1>1 DEF Retained, Exists
<1>4. \A j \in Ids : j # i => Retained(j)' = Retained(j)
  BY DEF Retained, Exists
<1>5. /\ f \in [Ids -> Nat] /\ g \in [Ids -> Nat]
      /\ \A j \in Ids : j # i => g[j] = f[j]
      /\ f[i] = Retained(i) /\ g[i] = Retained(i)'
  BY <1>2, <1>3, <1>4
<1>6. Kept = SumOf(f, Ids) /\ Kept' = SumOf(g, Ids)
  BY DEF Kept
<1> HIDE DEF f, g
<1> QED
  BY <1>2, <1>3, <1>5, <1>6, KeptShift

\* A transfer between the contract and another account moves the contract's
\* balance by the amount.
LEMMA MoveSelf ==
  ASSUME NEW bal \in [Accounts \cup {Self} -> Nat], NEW u \in Accounts, NEW x \in Nat
  PROVE  /\ Move(bal, u, Self, x)[Self] = bal[Self] + x
         /\ Move(bal, Self, u, x)[Self] = bal[Self] - x
BY RemittanceAssumption DEF Move

\* Every call keeps the books: what a dispute slashes, seizes and refunds is
\* exactly what leaves the anchor's bond and the remittance.
LEMMA NextKeepsBooks == IInv /\ BooksBalance /\ [Next]_vars => BooksBalance'
<1> SUFFICES ASSUME IInv, BooksBalance, [Next]_vars PROVE BooksBalance'
  OBVIOUS
<1> DEFINE Bonded == SumOf(collateral, Anchors)
<1>0. /\ remittance \in [Ids -> Remittance \cup {None}]
      /\ collateral \in [Anchors -> Nat] /\ seized \in Nat
      /\ tok \in [Accounts \cup {Self} -> Nat]
      /\ tok[Self] \in Nat
      /\ tok[Self] = Kept + Bonded + seized
  BY DEF IInv, TypeOK, BooksBalance, Kept
<1>0a. IInv'
  BY NextKeepsIInv
<1>0b. remittance' \in [Ids -> Remittance \cup {None}] /\ collateral' \in [Anchors -> Nat]
  BY <1>0a DEF IInv, TypeOK
<1>0c. BooksBalance' <=> tok'[Self] = Kept' + SumOf(collateral', Anchors) + seized'
  BY DEF BooksBalance, Kept
<1>1. ASSUME UNCHANGED <<remittance, collateral, tok, seized>> PROVE BooksBalance'
  BY <1>1 DEF BooksBalance, Retained, Exists
<1>2. ASSUME NEW a \in Anchors, NEW x \in Stakes, deposit_collateral(a, x) PROVE BooksBalance'
  <2>1. /\ tok' = Move(tok, a, Self, x)
        /\ collateral' = [collateral EXCEPT ![a] = @ + x]
        /\ remittance' = remittance /\ seized' = seized
    BY <1>2 DEF deposit_collateral
  <2>2. x \in Nat /\ a \in Accounts
    BY RemittanceAssumption DEF Accounts
  <2>3. tok'[Self] = tok[Self] + x
    BY <1>0, <2>1, <2>2, MoveSelf
  <2>4. /\ collateral'[a] = collateral[a] + x /\ collateral[a] \in Nat
        /\ \A b \in Anchors : b # a => collateral'[b] = collateral[b]
    BY <1>0, <2>1
  <2>5. Bonded \in Nat /\ SumOf(collateral', Anchors) = Bonded + collateral'[a] - collateral[a]
    BY <1>0, <1>0b, <2>4, BondShift
  <2>6. Kept' = Kept
    BY <2>1 DEF Kept, Retained, Exists
  <2>8. Kept \in Nat
    BY <1>0, KeptType
  <2> HIDE DEF Bonded
  <2> QED
    BY <1>0, <1>0c, <2>1, <2>2, <2>3, <2>4, <2>5, <2>6, <2>8
<1>3. ASSUME NEW s \in Senders, NEW a \in Anchors, NEW x \in Amounts, NEW d \in DeadlineSecs,
             create_remittance(s, a, x, d)
      PROVE  BooksBalance'
  <2> DEFINE r == [sender |-> s, anchor |-> a, amount |-> x,
                   deadline |-> now + d, status |-> "Pending"]
  <2>1. /\ tok' = Move(tok, s, Self, x)
        /\ remittance' = [remittance EXCEPT ![nextId] = r]
        /\ collateral' = collateral /\ seized' = seized
        /\ now + d <= MaxTime /\ nextId < MaxIds
    BY <1>3 DEF create_remittance
  <2>2. x \in Nat /\ s \in Accounts
    BY RemittanceAssumption DEF Accounts
  <2>3. tok'[Self] = tok[Self] + x
    BY <1>0, <2>1, <2>2, MoveSelf
  <2>4. r \in Remittance /\ r # None /\ r.amount = x /\ r.status # "Refunded"
    BY <2>1, RemittanceAssumption DEF Remittance, IInv, TypeOK
  <2> HIDE DEF r
  <2>5. PICK i \in Ids : i = nextId /\ remittance[i] = None
    <3>1. nextId \in Ids
      BY <2>1, RemittanceAssumption DEF IInv, TypeOK, Ids
    <3> QED
      BY <3>1 DEF IInv, FreshIds, Ids
  <2>6. remittance'[i] = r /\ \A j \in Ids : j # i => remittance'[j] = remittance[j]
    BY <1>0, <2>1, <2>5
  <2>7. Retained(i) = 0 /\ Retained(i)' = x
    BY <2>4, <2>5, <2>6 DEF Retained, Exists
  <2>8. Kept \in Nat /\ Kept' = Kept + Retained(i)' - Retained(i)
    BY <1>0, <1>0b, <2>6, KeptChange
  <2>9. Bonded \in Nat
    BY <1>0, SumNat, RemittanceAssumption
  <2>10. SumOf(collateral', Anchors) = Bonded
    BY <2>1
  <2> HIDE DEF Bonded
  <2> QED
    BY <1>0, <1>0c, <2>1, <2>2, <2>3, <2>7, <2>8, <2>9, <2>10
<1>4. ASSUME NEW a \in Anchors, NEW i \in Ids, submit_payout_proof(a, i) PROVE BooksBalance'
  <2>1. /\ remittance' = [remittance EXCEPT ![i].status = "Completed"]
        /\ UNCHANGED <<collateral, tok, seized>>
        /\ remittance[i] \in Remittance /\ remittance[i].status = "Pending"
    BY <1>0, <1>4 DEF submit_payout_proof, Exists
  <2>2. /\ remittance'[i] \in Remittance /\ remittance'[i].status = "Completed"
        /\ remittance'[i].amount = remittance[i].amount
        /\ \A j \in Ids : j # i => remittance'[j] = remittance[j]
    BY <1>0, <2>1 DEF Remittance
  <2>3. Retained(i)' = Retained(i)
    BY <2>1, <2>2, RemittanceAssumption DEF Retained, Exists
  <2>4. Kept \in Nat /\ Retained(i) \in Nat /\ Kept' = Kept + Retained(i)' - Retained(i)
    BY <1>0, <1>0b, <2>2, KeptChange
  <2>5. Kept' = Kept
    BY <2>3, <2>4
  <2> QED
    BY <1>0, <1>0c, <2>1, <2>5
<1>5. ASSUME NEW s \in Senders, NEW i \in Ids, open_dispute(s, i) PROVE BooksBalance'
  <2> DEFINE r == remittance[i]
             bond == collateral[r.anchor]
             left == Available(bond)
             locked == Seized(left, r.amount)
             slashed == Move(tok, Self, treasury, Slash(bond))
  <2>1. /\ IsPending(i)
        /\ remittance' = [remittance EXCEPT ![i].status = "Refunded"]
        /\ treasury # None
        /\ CanMove(tok, Self, Slash(bond))
        /\ CanMove(slashed, Self, r.amount)
        /\ tok' = Move(slashed, Self, s, r.amount)
        /\ collateral' = [collateral EXCEPT ![r.anchor] = left - locked]
        /\ seized' = seized + locked
    BY <1>5 DEF open_dispute, Disputable
  <2>2. r \in Remittance /\ r.anchor \in Anchors /\ r.amount \in Nat /\ r.status = "Pending"
    BY <2>1, RemittanceAssumption DEF IInv, TypeOK, IsPending, Exists, Remittance
  <2>3. bond \in Nat
    BY <1>0, <2>2
  <2>4. Slash(bond) \in Nat /\ left \in Nat /\ left + Slash(bond) = bond
    BY <2>3, SlashWithinBond DEF Available
  <2>5. treasury \in Accounts /\ s \in Accounts
    BY <2>1 DEF IInv, TypeOK, Accounts
  <2>6. slashed \in [Accounts \cup {Self} -> Nat]
    BY <1>0, <2>1, <2>4, <2>5, MoveType
  <2>7. slashed[Self] = tok[Self] - Slash(bond)
    BY <1>0, <2>4, <2>5, MoveSelf
  <2>8. tok'[Self] = slashed[Self] - r.amount
    <3> HIDE DEF slashed
    <3> QED
      BY <2>1, <2>2, <2>5, <2>6, MoveSelf
  <2>9. locked \in Nat
    BY <2>2, <2>4 DEF Seized
  <2>10. /\ collateral'[r.anchor] = left - locked
         /\ \A b \in Anchors : b # r.anchor => collateral'[b] = collateral[b]
    BY <1>0, <2>1, <2>2
  <2>11. Bonded \in Nat /\ SumOf(collateral', Anchors) = Bonded + collateral'[r.anchor] - bond
    BY <1>0, <1>0b, <2>2, <2>10, BondShift
  <2>12. /\ remittance'[i] \in Remittance /\ remittance'[i].status = "Refunded"
         /\ \A j \in Ids : j # i => remittance'[j] = remittance[j]
    BY <1>0, <2>1, <2>2 DEF Remittance
  <2>13. Retained(i) = r.amount /\ Retained(i)' = 0
    BY <2>1, <2>2, <2>12 DEF Retained, IsPending
  <2>14. Kept \in Nat /\ Kept' = Kept + Retained(i)' - Retained(i)
    BY <1>0, <1>0b, <2>12, KeptChange
  <2> HIDE DEF Bonded, r, bond, left, locked, slashed
  <2>15. tok'[Self] = tok[Self] - Slash(bond) - r.amount
    BY <1>0, <2>7, <2>8
  <2>16. SumOf(collateral', Anchors) = Bonded - Slash(bond) - locked
    BY <2>4, <2>9, <2>10, <2>11, <2>3
  <2>17. Kept' = Kept - r.amount
    BY <2>2, <2>13, <2>14
  <2> QED
    BY <1>0, <1>0c, <2>1, <2>2, <2>4, <2>9, <2>11, <2>14, <2>15, <2>16, <2>17
<1> QED
  BY <1>1, <1>2, <1>3, <1>4, <1>5
  DEF Next, Tick, initialize, set_treasury, vars, books

\* Every token in the bonded escrow's custody is accounted for: refundable,
\* stranded by a completed remittance, bonded or seized.
THEOREM EscrowBooksBalance == Spec => []BooksBalance
<1>1. Init => BooksBalance
  <2> SUFFICES ASSUME Init PROVE BooksBalance
    OBVIOUS
  <2> DEFINE f == [i \in Ids |-> Retained(i)]
  <2>1. \A i \in Ids : f[i] = 0
    BY DEF Init, Retained, Exists
  <2>2. IsFiniteSet(Ids) /\ IsFiniteSet(Anchors)
    BY FS_Interval, RemittanceAssumption DEF Ids
  <2>3. \A a \in Anchors : collateral[a] = 0
    BY DEF Init
  <2>4. tok[Self] = 0 /\ seized = 0
    BY DEF Init
  <2> HIDE DEF f
  <2>5. SumOf(f, Ids) = 0 /\ SumOf(collateral, Anchors) = 0
    BY <2>1, <2>2, <2>3, SumZero
  <2> QED
    BY <2>4, <2>5 DEF BooksBalance, f
<1> QED
  BY <1>1, NextKeepsBooks, IInvAlways, PTL DEF Spec

-----------------------------------------------------------------------------

\* A remittance and its image under the refinement mapping, field by field.
LEMMA DepositFields ==
  ASSUME NEW r \in Remittance
  PROVE  /\ DepositOf(r) \in Deposit /\ DepositOf(r) # None
         /\ DepositOf(r).owner = r.sender /\ DepositOf(r).payee = r.anchor
         /\ DepositOf(r).amount = r.amount
         /\ DepositOf(r).refundable_at = r.deadline + DisputeWindow
         /\ r.status = "Pending" => DepositOf(r).status = "held"
<1> USE RemittanceAssumption
<1>1. r # None /\ r.deadline + DisputeWindow \in Nat
  BY DEF Remittance
<1>2. CustodyStatus[r.status] \in {"held", "settled", "returned"}
  BY DEF Remittance, CustodyStatus
<1>3. DepositOf(r) = [owner |-> r.sender, payee |-> r.anchor, amount |-> r.amount,
                      refundable_at |-> r.deadline + DisputeWindow,
                      status |-> CustodyStatus[r.status]]
  BY <1>1 DEF DepositOf
<1>4. DepositOf(r) \in Deposit
  BY <1>1, <1>2, <1>3 DEF Deposit, Remittance
<1> QED
  BY <1>3, <1>4 DEF CustodyStatus

\* Changing only the status of a remittance changes only the status of its image.
LEMMA DepositStatus ==
  ASSUME NEW r \in Remittance, NEW st \in {"Completed", "Refunded"}
  PROVE  DepositOf([r EXCEPT !.status = st])
           = [DepositOf(r) EXCEPT !.status = CustodyStatus[st]]
<1> USE RemittanceAssumption
<1>1. [r EXCEPT !.status = st] \in Remittance
  BY DEF Remittance
<1> QED
  BY <1>1 DEF DepositOf, Remittance

\* The escrow implements the custody contract for every value of the constants:
\* each remittance is resolved at most once, its terms never change, and no
\* refund happens before its dispute window is over.
THEOREM EscrowImplementsCustody == Spec => ImplementsCustody
<1> USE RemittanceAssumption
<1> DEFINE D == [i \in Ids |-> DepositOf(remittance[i])]
<1>1. Init => C!Init
  BY DEF Init, C!Init, DepositOf
<1>2. IInv /\ [Next]_vars => [C!Next]_C!vars
  <2> SUFFICES ASSUME IInv, [Next]_vars PROVE [C!Next]_C!vars
    OBVIOUS
  <2>1. CASE Tick
    <3>1. C!Advance
      BY <2>1 DEF Tick, C!Advance, IInv, TypeOK
    <3> QED
      BY <3>1 DEF C!Next
  <2>2. ASSUME UNCHANGED <<now, remittance>> PROVE [C!Next]_C!vars
    BY <2>2 DEF C!vars
  <2>3. ASSUME NEW s \in Senders, NEW a \in Anchors, NEW x \in Amounts, NEW d \in DeadlineSecs,
               create_remittance(s, a, x, d)
        PROVE  [C!Next]_C!vars
    <3> DEFINE r == [sender |-> s, anchor |-> a, amount |-> x,
                     deadline |-> now + d, status |-> "Pending"]
    <3>1. nextId \in Ids /\ remittance[nextId] = None
      BY <2>3 DEF create_remittance, IInv, TypeOK, FreshIds, Ids
    <3>2. r \in Remittance /\ r.sender = s /\ r.anchor = a /\ r.amount = x /\ r.status = "Pending"
      BY <2>3 DEF create_remittance, Remittance, IInv, TypeOK
    <3>3. x >= 0 /\ remittance' = [remittance EXCEPT ![nextId] = r] /\ now' = now
      BY <2>3 DEF create_remittance
    <3> HIDE DEF r
    <3>4. D[nextId] = None /\ D'[nextId] = DepositOf(r)
      BY <3>1, <3>3 DEF DepositOf, IInv, TypeOK
    <3>5. D' = [D EXCEPT ![nextId] = DepositOf(r)]
      BY <3>1, <3>3 DEF IInv, TypeOK
    <3>5a. /\ DepositOf(r) # None /\ DepositOf(r).status = "held"
           /\ DepositOf(r).amount >= 0
           /\ DepositOf(r).owner \in Accounts /\ DepositOf(r).payee \in Accounts
      BY <3>2, <3>3, DepositFields DEF Accounts
    <3>6. C!Open(nextId)
      BY <3>3, <3>4, <3>5, <3>5a DEF C!Open
    <3> QED
      BY <3>1, <3>6 DEF C!Next
  <2>4. ASSUME NEW i \in Ids, NEW st \in {"Completed", "Refunded"}, IsPending(i),
               remittance' = [remittance EXCEPT ![i].status = st]
        PROVE  /\ D[i] # None /\ D[i].status = "held"
               /\ D[i].refundable_at = remittance[i].deadline + DisputeWindow
               /\ D' = [D EXCEPT ![i].status = CustodyStatus[st]]
    <3>1. remittance[i] \in Remittance /\ remittance[i].status = "Pending"
      BY <2>4 DEF IInv, TypeOK, IsPending, Exists
    <3>2. remittance'[i] = [remittance[i] EXCEPT !.status = st]
      BY <2>4 DEF IInv, TypeOK
    <3>3. D'[i] = [D[i] EXCEPT !.status = CustodyStatus[st]]
      BY <3>1, <3>2, DepositStatus
    <3>4. \A j \in Ids : j # i => D'[j] = D[j]
      BY <2>4 DEF IInv, TypeOK
    <3>5. D' = [D EXCEPT ![i].status = CustodyStatus[st]]
      BY <3>3, <3>4
    <3> QED
      BY <3>1, <3>5, DepositFields
  <2>5. ASSUME NEW a \in Anchors, NEW i \in Ids, submit_payout_proof(a, i)
        PROVE  [C!Next]_C!vars
    <3>1. C!Settle(i)
      BY <2>4, <2>5
      DEF submit_payout_proof, IsPending, C!Settle, C!Held, CustodyStatus
    <3> QED
      BY <3>1 DEF C!Next
  <2>6. ASSUME NEW s \in Senders, NEW i \in Ids, open_dispute(s, i)
        PROVE  [C!Next]_C!vars
    <3>1. /\ IsPending(i) /\ now >= remittance[i].deadline + DisputeWindow
          /\ remittance' = [remittance EXCEPT ![i].status = "Refunded"] /\ now' = now
      BY <2>6 DEF open_dispute, Disputable
    <3>2. C!Return(i)
      BY <2>4, <3>1 DEF C!Return, C!Held, CustodyStatus
    <3> QED
      BY <3>2 DEF C!Next
  <2> QED
    BY <2>1, <2>2, <2>3, <2>5, <2>6
    DEF Next, initialize, set_treasury, deposit_collateral, vars
<1> QED
  BY <1>1, <1>2, IInvAlways, PTL DEF Spec, ImplementsCustody, C!Spec

-----------------------------------------------------------------------------
(***************************************************************************)
(* The anchored remittances.                                               *)
(***************************************************************************)

LEMMA AnchoredSum ==
  ASSUME NEW f, NEW S
  PROVE  Anchored!SumOf(f, S) = SumOf(f, S)
BY DEF Anchored!SumOf, SumOf, Anchored!MapThenSumSet, MapThenSumSet,
       Anchored!MapThenFoldSet, MapThenFoldSet

\* The parameters of the anchored remittances.
LEMMA AnchoredFacts ==
  /\ Self \notin Anchored!Accounts /\ None \notin Destinations
  /\ None \notin Anchored!Remittance /\ None \notin Anchored!Deposit
  /\ Principals \subseteq Int /\ Bonds \subseteq Int /\ DisputeExpiry \in Nat
  /\ AnchTime \in Nat /\ AnchIds \in Nat /\ AnchSupply \in Nat
  /\ Anchored!Ids = 1..AnchIds
BY AnchAssumption DEF Anchored!AnchoredAssumption, Anchored!Ids

LEMMA AnchoredRecord ==
  \A r \in Anchored!Remittance :
    /\ r.sender \in AnchSenders /\ r.anchor \in AnchAnchors
    /\ r.principal \in Nat /\ r.anchor_bond \in Nat /\ r.created_at \in Nat
    /\ r.principal \in Principals /\ r.anchor_bond \in {b \in Bonds : b > 0}
    /\ r.status \in {"Pending", "Settled", "Disputed"}
    /\ r # None
<1>1. \A x \in {p \in Principals : p > 0} : x \in Nat
  BY AnchoredFacts
<1>2. \A x \in {b \in Bonds : b > 0} : x \in Nat
  BY AnchoredFacts
<1> QED
  BY <1>1, <1>2, AnchoredFacts DEF Anchored!Remittance

AnchHolding == [Anchored!Accounts \cup {Self} -> Nat]

\* A transfer into and out of the contract, seen from every account.
LEMMA AnchoredIn ==
  ASSUME NEW bal \in AnchHolding, NEW u \in Anchored!Accounts, NEW x \in Nat,
         Anchored!CanMove(bal, u, x)
  PROVE  /\ Anchored!Move(bal, u, Self, x) \in AnchHolding
         /\ Anchored!Move(bal, u, Self, x)[Self] = bal[Self] + x
         /\ \A q \in Anchored!Accounts :
              Anchored!Move(bal, u, Self, x)[q] = bal[q] - (IF q = u THEN x ELSE 0)
<1>1. Self # u /\ \A q \in Anchored!Accounts : q # Self
  BY AnchoredFacts
<1> QED
  BY <1>1 DEF AnchHolding, Anchored!Move, Anchored!CanMove

LEMMA AnchoredOut ==
  ASSUME NEW bal \in AnchHolding, NEW u \in Anchored!Accounts, NEW x \in Nat,
         Anchored!CanMove(bal, Self, x)
  PROVE  /\ Anchored!Move(bal, Self, u, x) \in AnchHolding
         /\ Anchored!Move(bal, Self, u, x)[Self] = bal[Self] - x
         /\ \A q \in Anchored!Accounts :
              Anchored!Move(bal, Self, u, x)[q] = bal[q] + (IF q = u THEN x ELSE 0)
<1>1. Self # u /\ \A q \in Anchored!Accounts : q # Self
  BY AnchoredFacts
<1> QED
  BY <1>1 DEF AnchHolding, Anchored!Move, Anchored!CanMove

\* Identifiers past RemittanceCounter are unused, or a creation could erase what
\* is held for somebody else.
AnchUnused == \A i \in Anchored!Ids : i > anch_counter => anch_remittance[i] = None

AnchoredInv == Anchored!TypeOK /\ AnchUnused /\ Anchored!EveryPartySquare

Custodial == SumOf([i \in Anchored!Ids |-> Anchored!InCustody(i)], Anchored!Ids)

LEMMA AnchoredShift ==
  \A f \in [Anchored!Ids -> Nat], g \in [Anchored!Ids -> Nat], i \in Anchored!Ids :
    (\A j \in Anchored!Ids : j # i => g[j] = f[j])
    => /\ SumOf(f, Anchored!Ids) \in Nat /\ SumOf(g, Anchored!Ids) \in Nat
       /\ SumOf(g, Anchored!Ids) = SumOf(f, Anchored!Ids) + g[i] - f[i]
<1>1. IsFiniteSet(Anchored!Ids)
  BY AnchoredFacts, FS_Interval
<1> QED
  BY <1>1, SumShift

\* A step that touches remittance i changes what is held, and what each party has
\* paid, by what it changes there.
LEMMA AnchoredChange ==
  ASSUME anch_remittance \in [Anchored!Ids -> Anchored!Remittance \cup {None}],
         anch_remittance' \in [Anchored!Ids -> Anchored!Remittance \cup {None}],
         NEW i \in Anchored!Ids, \A j \in Anchored!Ids : j # i => anch_remittance'[j] = anch_remittance[j]
  PROVE  /\ Custodial \in Nat /\ Custodial' \in Nat
         /\ Anchored!InCustody(i) \in Nat /\ Anchored!InCustody(i)' \in Nat
         /\ Custodial' = Custodial + Anchored!InCustody(i)' - Anchored!InCustody(i)
         /\ \A q : /\ Anchored!CostTo(q) \in Nat /\ Anchored!CostTo(q)' \in Nat
                   /\ Anchored!Cost(i, q) \in Nat /\ Anchored!Cost(i, q)' \in Nat
                   /\ Anchored!CostTo(q)' = Anchored!CostTo(q) + Anchored!Cost(i, q)' - Anchored!Cost(i, q)
<1>1. \A j \in Anchored!Ids :
        /\ anch_remittance[j] # None => anch_remittance[j].principal \in Nat /\ anch_remittance[j].anchor_bond \in Nat
        /\ anch_remittance'[j] # None => anch_remittance'[j].principal \in Nat /\ anch_remittance'[j].anchor_bond \in Nat
  BY AnchoredRecord
<1>2. \A j \in Anchored!Ids : Anchored!InCustody(j) \in Nat /\ Anchored!InCustody(j)' \in Nat
  BY <1>1 DEF Anchored!InCustody, Anchored!InStatus
<1>3. \A j \in Anchored!Ids : j # i => Anchored!InCustody(j)' = Anchored!InCustody(j)
  BY DEF Anchored!InCustody, Anchored!InStatus
<1>4. Custodial \in Nat /\ Custodial' \in Nat
      /\ Custodial' = Custodial + Anchored!InCustody(i)' - Anchored!InCustody(i)
  <2> DEFINE f == [j \in Anchored!Ids |-> Anchored!InCustody(j)]
             g == [j \in Anchored!Ids |-> Anchored!InCustody(j)']
  <2>1. /\ f \in [Anchored!Ids -> Nat] /\ g \in [Anchored!Ids -> Nat]
        /\ \A j \in Anchored!Ids : j # i => g[j] = f[j]
        /\ f[i] = Anchored!InCustody(i) /\ g[i] = Anchored!InCustody(i)'
    BY <1>2, <1>3
  <2>2. Custodial = SumOf(f, Anchored!Ids) /\ Custodial' = SumOf(g, Anchored!Ids)
    BY DEF Custodial
  <2> HIDE DEF f, g
  <2> QED
    BY <2>1, <2>2, AnchoredShift
<1>5. ASSUME NEW q
      PROVE  /\ Anchored!CostTo(q) \in Nat /\ Anchored!CostTo(q)' \in Nat
             /\ Anchored!Cost(i, q) \in Nat /\ Anchored!Cost(i, q)' \in Nat
             /\ Anchored!CostTo(q)' = Anchored!CostTo(q) + Anchored!Cost(i, q)' - Anchored!Cost(i, q)
  <2> DEFINE f == [j \in Anchored!Ids |-> Anchored!Cost(j, q)]
             g == [j \in Anchored!Ids |-> Anchored!Cost(j, q)']
  <2>1. \A j \in Anchored!Ids : Anchored!Cost(j, q) \in Nat /\ Anchored!Cost(j, q)' \in Nat
    BY <1>1 DEF Anchored!Cost, Anchored!InStatus
  <2>2. \A j \in Anchored!Ids : j # i => Anchored!Cost(j, q)' = Anchored!Cost(j, q)
    BY DEF Anchored!Cost, Anchored!InStatus
  <2>3. /\ f \in [Anchored!Ids -> Nat] /\ g \in [Anchored!Ids -> Nat]
        /\ \A j \in Anchored!Ids : j # i => g[j] = f[j]
        /\ f[i] = Anchored!Cost(i, q) /\ g[i] = Anchored!Cost(i, q)'
    BY <2>1, <2>2
  <2>4. Anchored!CostTo(q) = SumOf(f, Anchored!Ids) /\ Anchored!CostTo(q)' = SumOf(g, Anchored!Ids)
    BY AnchoredSum DEF Anchored!CostTo
  <2> HIDE DEF f, g
  <2> QED
    BY <2>1, <2>3, <2>4, AnchoredShift
<1> QED
  BY <1>2, <1>4, <1>5

LEMMA AnchoredInit == Anchored!Init => AnchoredInv
<1> SUFFICES ASSUME Anchored!Init PROVE AnchoredInv
  OBVIOUS
<1>1. /\ anch_now = 0 /\ anch_counter = 0 /\ anch_destination = None
      /\ \A i \in Anchored!Ids : anch_remittance[i] = None
      /\ anch_remittance \in [Anchored!Ids -> {None}]
      /\ anch_tok = [a \in Anchored!Accounts \cup {Self} |-> IF a = Self THEN 0 ELSE AnchSupply]
  BY DEF Anchored!Init
<1>2. Anchored!TypeOK /\ AnchUnused
  BY <1>1, AnchoredFacts DEF Anchored!TypeOK, AnchUnused
<1>3. IsFiniteSet(Anchored!Ids)
  BY AnchoredFacts, FS_Interval
<1>4. anch_tok[Self] = SumOf([i \in Anchored!Ids |-> Anchored!InCustody(i)], Anchored!Ids)
  <2> DEFINE f == [i \in Anchored!Ids |-> Anchored!InCustody(i)]
  <2>1. \A i \in Anchored!Ids : f[i] = 0
    BY <1>1 DEF Anchored!InCustody, Anchored!InStatus
  <2> HIDE DEF f
  <2>2. SumOf(f, Anchored!Ids) = 0
    BY <1>3, <2>1, SumZero
  <2> QED
    BY <1>1, <2>2 DEF f
<1>5. ASSUME NEW q \in AnchSenders \cup AnchAnchors
      PROVE  anch_tok[q] + Anchored!CostTo(q) = AnchSupply
  <2> DEFINE f == [i \in Anchored!Ids |-> Anchored!Cost(i, q)]
  <2>1. \A i \in Anchored!Ids : f[i] = 0
    BY <1>1 DEF Anchored!Cost, Anchored!InStatus
  <2>2. Anchored!CostTo(q) = SumOf(f, Anchored!Ids)
    BY AnchoredSum DEF Anchored!CostTo
  <2> HIDE DEF f
  <2>3. SumOf(f, Anchored!Ids) = 0
    BY <1>3, <2>1, SumZero
  <2>4. anch_tok[q] = AnchSupply
    BY <1>1, AnchoredFacts DEF Anchored!Accounts
  <2> QED
    BY <2>2, <2>3, <2>4, AnchoredFacts
<1>6. Anchored!EveryPartySquare
  BY <1>4, <1>5, AnchoredSum, AnchoredFacts DEF Anchored!EveryPartySquare
<1> QED
  BY <1>2, <1>6 DEF AnchoredInv

\* A remittance that is paid out leaves the books square: the bond goes to the
\* anchor that settled, or to the slash destination.
LEMMA ResolveKeepsInv ==
  ASSUME AnchoredInv, NEW i \in Anchored!Ids, Anchored!InStatus(i, {"Pending"}),
         NEW to \in Anchored!Accounts, NEW st \in {"Settled", "Disputed"},
         st = "Settled" => to = anch_remittance[i].anchor,
         st = "Disputed" => to \in Destinations,
         Anchored!Resolve(i, to, st)
  PROVE  AnchoredInv'
<1>0. /\ anch_now \in 0..AnchTime /\ anch_counter \in 0..AnchIds
      /\ anch_remittance \in [Anchored!Ids -> Anchored!Remittance \cup {None}]
      /\ anch_destination \in Destinations \cup {None} /\ anch_tok \in AnchHolding
      /\ AnchUnused /\ Anchored!EveryPartySquare
  BY DEF AnchoredInv, Anchored!TypeOK, AnchHolding
<1> DEFINE r == anch_remittance[i]
           x == r.principal
           b == r.anchor_bond
           paid == Anchored!Move(anch_tok, Self, r.sender, x)
<1>1. /\ r \in Anchored!Remittance /\ r.status = "Pending" /\ r # None
      /\ r.sender \in AnchSenders /\ r.anchor \in AnchAnchors
      /\ x \in Nat /\ b \in Nat
  BY <1>0, AnchoredRecord DEF Anchored!InStatus
<1>2. /\ Anchored!CanMove(anch_tok, Self, x) /\ Anchored!CanMove(paid, Self, b)
      /\ anch_tok' = Anchored!Move(paid, Self, to, b)
      /\ anch_remittance' = [anch_remittance EXCEPT ![i].status = st]
      /\ UNCHANGED <<anch_now, anch_counter, anch_destination>>
  BY DEF Anchored!Resolve
<1>3. /\ anch_remittance'[i] = [r EXCEPT !.status = st]
      /\ \A j \in Anchored!Ids : j # i => anch_remittance'[j] = anch_remittance[j]
      /\ [r EXCEPT !.status = st] \in Anchored!Remittance
  BY <1>0, <1>1, <1>2 DEF Anchored!Remittance
<1>4. anch_remittance' \in [Anchored!Ids -> Anchored!Remittance \cup {None}]
  BY <1>0, <1>2, <1>3
<1>5. r.sender \in Anchored!Accounts
  BY <1>1 DEF Anchored!Accounts
<1>6. /\ paid \in AnchHolding /\ paid[Self] = anch_tok[Self] - x
      /\ \A q \in Anchored!Accounts : paid[q] = anch_tok[q] + (IF q = r.sender THEN x ELSE 0)
  BY <1>0, <1>1, <1>2, <1>5, AnchoredOut
<1> HIDE DEF paid
<1>7. /\ anch_tok' \in AnchHolding /\ anch_tok'[Self] = paid[Self] - b
      /\ \A q \in Anchored!Accounts : anch_tok'[q] = paid[q] + (IF q = to THEN b ELSE 0)
  BY <1>1, <1>2, <1>6, AnchoredOut
<1>8. /\ Custodial \in Nat /\ Custodial' \in Nat
      /\ Custodial' = Custodial + Anchored!InCustody(i)' - Anchored!InCustody(i)
      /\ \A q : /\ Anchored!CostTo(q) \in Nat /\ Anchored!CostTo(q)' \in Nat
                /\ Anchored!CostTo(q)' = Anchored!CostTo(q) + Anchored!Cost(i, q)' - Anchored!Cost(i, q)
  BY <1>0, <1>3, <1>4, AnchoredChange
<1>9. /\ anch_remittance'[i] # None /\ anch_remittance'[i].status = st
      /\ anch_remittance'[i].sender = r.sender /\ anch_remittance'[i].anchor = r.anchor
      /\ anch_remittance'[i].anchor_bond = b
  BY <1>1, <1>3, AnchoredFacts DEF Anchored!Remittance
<1>10. Anchored!InCustody(i) = x + b /\ Anchored!InCustody(i)' = 0
  BY <1>1, <1>9 DEF Anchored!InCustody, Anchored!InStatus
<1>11. ASSUME NEW q
       PROVE  /\ Anchored!Cost(i, q) = (IF r.sender = q THEN x ELSE 0) + (IF r.anchor = q THEN b ELSE 0)
              /\ Anchored!Cost(i, q)' = IF st = "Disputed" /\ r.anchor = q THEN b ELSE 0
  BY <1>1, <1>9 DEF Anchored!Cost, Anchored!InStatus
<1>12. anch_tok[Self] \in Nat /\ anch_tok[Self] = Custodial
       /\ \A q \in AnchSenders \cup AnchAnchors :
            /\ q \in Anchored!Accounts /\ anch_tok[q] \in Nat
            /\ anch_tok[q] + Anchored!CostTo(q) >= AnchSupply
            /\ q \notin Destinations => anch_tok[q] + Anchored!CostTo(q) = AnchSupply
  BY <1>0, AnchoredSum DEF Anchored!EveryPartySquare, Custodial, AnchHolding, Anchored!Accounts
<1>13. anch_tok'[Self] = Custodial'
  BY <1>1, <1>6, <1>7, <1>8, <1>10, <1>12
<1>14. ASSUME NEW q \in AnchSenders \cup AnchAnchors
       PROVE  /\ anch_tok'[q] + Anchored!CostTo(q)' >= AnchSupply
              /\ q \notin Destinations => anch_tok'[q] + Anchored!CostTo(q)' = AnchSupply
  <2>1. anch_tok'[q] = anch_tok[q] + (IF q = r.sender THEN x ELSE 0) + (IF q = to THEN b ELSE 0)
    BY <1>1, <1>6, <1>7, <1>12
  <2>2. Anchored!CostTo(q) \in Nat /\ anch_tok[q] \in Nat
    BY <1>8, <1>12
  <2>3. Anchored!CostTo(q)' = Anchored!CostTo(q)
          + (IF st = "Disputed" /\ r.anchor = q THEN b ELSE 0)
          - ((IF r.sender = q THEN x ELSE 0) + (IF r.anchor = q THEN b ELSE 0))
    BY <1>8, <1>11
  <2>4. anch_tok'[q] + Anchored!CostTo(q)' =
          anch_tok[q] + Anchored!CostTo(q)
          + (IF q = to THEN b ELSE 0)
          + (IF st = "Disputed" /\ r.anchor = q THEN b ELSE 0)
          - (IF r.anchor = q THEN b ELSE 0)
    BY <1>1, <2>1, <2>2, <2>3
  <2>5. CASE st = "Settled"
    <3>1. to = r.anchor /\ st # "Disputed"
      BY <2>5
    <3>2. anch_tok'[q] + Anchored!CostTo(q)' = anch_tok[q] + Anchored!CostTo(q)
      BY <1>1, <2>2, <2>4, <3>1
    <3> QED
      BY <1>12, <3>2
  <2>6. CASE st = "Disputed"
    BY <1>1, <1>12, <2>2, <2>4, <2>6, AnchoredFacts
  <2> QED
    BY <2>5, <2>6
<1>15. Anchored!EveryPartySquare'
  BY <1>13, <1>14, AnchoredSum DEF Anchored!EveryPartySquare, Custodial
<1>16. AnchUnused'
  BY <1>0, <1>1, <1>2, <1>3 DEF AnchUnused
<1> QED
  BY <1>0, <1>2, <1>4, <1>7, <1>15, <1>16 DEF AnchoredInv, Anchored!TypeOK, AnchHolding

\* Every step of the anchored remittances keeps the invariant.
LEMMA AnchoredStep == AnchoredInv /\ [Anchored!Next]_anchoredVars => AnchoredInv'
<1> SUFFICES ASSUME AnchoredInv, [Anchored!Next]_anchoredVars PROVE AnchoredInv'
  OBVIOUS
<1>0. /\ anch_now \in 0..AnchTime /\ anch_counter \in 0..AnchIds
      /\ anch_remittance \in [Anchored!Ids -> Anchored!Remittance \cup {None}]
      /\ anch_destination \in Destinations \cup {None} /\ anch_tok \in AnchHolding
      /\ AnchUnused /\ Anchored!EveryPartySquare
  BY DEF AnchoredInv, Anchored!TypeOK, AnchHolding
<1>1. ASSUME UNCHANGED <<anch_remittance, anch_tok, anch_counter>>
      PROVE  AnchUnused' /\ Anchored!EveryPartySquare'
  BY <1>0, <1>1
  DEF AnchUnused, Anchored!EveryPartySquare, Anchored!CostTo, Anchored!Cost,
      Anchored!InCustody, Anchored!InStatus
<1>2. CASE Anchored!Tick
  BY <1>0, <1>1, <1>2, AnchoredFacts DEF Anchored!Tick, AnchoredInv, Anchored!TypeOK, AnchHolding
<1>3. ASSUME NEW d \in Destinations, Anchored!set_slash_destination(d) PROVE AnchoredInv'
  BY <1>0, <1>1, <1>3
  DEF Anchored!set_slash_destination, AnchoredInv, Anchored!TypeOK, AnchHolding
<1>4. ASSUME NEW i \in Anchored!Ids, Anchored!settle_remittance(i) PROVE AnchoredInv'
  <2>1. Anchored!InStatus(i, {"Pending"}) /\ Anchored!Resolve(i, anch_remittance[i].anchor, "Settled")
    BY <1>4 DEF Anchored!settle_remittance
  <2>2. anch_remittance[i].anchor \in Anchored!Accounts
    BY <1>0, <2>1, AnchoredRecord DEF Anchored!InStatus, Anchored!Accounts
  <2> QED
    BY <2>1, <2>2, ResolveKeepsInv
<1>5. ASSUME NEW i \in Anchored!Ids, Anchored!escalate_dispute(i) PROVE AnchoredInv'
  <2>1. /\ Anchored!InStatus(i, {"Pending"}) /\ anch_destination # None
        /\ Anchored!Resolve(i, anch_destination, "Disputed")
    BY <1>5 DEF Anchored!escalate_dispute
  <2>2. anch_destination \in Destinations /\ anch_destination \in Anchored!Accounts
    BY <1>0, <2>1 DEF Anchored!Accounts
  <2> QED
    BY <2>1, <2>2, ResolveKeepsInv
<1>6. ASSUME NEW s \in AnchSenders, NEW a \in AnchAnchors, NEW x \in Principals, NEW b \in Bonds,
             Anchored!create_anchored_remittance(s, a, x, b)
      PROVE  AnchoredInv'
  <2> DEFINE r == [sender |-> s, anchor |-> a, principal |-> x, anchor_bond |-> b,
                   created_at |-> anch_now, status |-> "Pending"]
             funded == Anchored!Move(anch_tok, s, Self, x)
  <2>1. /\ x > 0 /\ b > 0 /\ anch_counter < AnchIds
        /\ Anchored!CanMove(anch_tok, s, x) /\ Anchored!CanMove(funded, a, b)
        /\ anch_tok' = Anchored!Move(funded, a, Self, b)
        /\ anch_counter' = anch_counter + 1
        /\ anch_remittance' = [anch_remittance EXCEPT ![anch_counter + 1] = r]
        /\ UNCHANGED <<anch_now, anch_destination>>
    BY <1>6 DEF Anchored!create_anchored_remittance
  <2>2. x \in Nat /\ b \in Nat /\ s \in Anchored!Accounts /\ a \in Anchored!Accounts
    BY <2>1, AnchoredFacts DEF Anchored!Accounts
  <2>3. PICK i \in Anchored!Ids : i = anch_counter + 1
    BY <1>0, <2>1, AnchoredFacts
  <2>4. anch_remittance[i] = None
    BY <1>0, <2>3, AnchoredFacts DEF AnchUnused
  <2>5. r \in Anchored!Remittance
    BY <1>0, <2>1, AnchoredFacts DEF Anchored!Remittance
  <2>6. /\ anch_remittance'[i] = r
        /\ \A j \in Anchored!Ids : j # i => anch_remittance'[j] = anch_remittance[j]
        /\ anch_remittance' \in [Anchored!Ids -> Anchored!Remittance \cup {None}]
    BY <1>0, <2>1, <2>3, <2>5
  <2>7. /\ anch_remittance'[i] # None /\ anch_remittance'[i].status = "Pending"
        /\ anch_remittance'[i].sender = s /\ anch_remittance'[i].anchor = a
        /\ anch_remittance'[i].principal = x /\ anch_remittance'[i].anchor_bond = b
    BY <2>5, <2>6, AnchoredRecord
  <2>8. /\ funded \in AnchHolding /\ funded[Self] = anch_tok[Self] + x
        /\ \A q \in Anchored!Accounts : funded[q] = anch_tok[q] - (IF q = s THEN x ELSE 0)
    BY <1>0, <2>1, <2>2, AnchoredIn
  <2> HIDE DEF funded
  <2>9. /\ anch_tok' \in AnchHolding /\ anch_tok'[Self] = funded[Self] + b
        /\ \A q \in Anchored!Accounts : anch_tok'[q] = funded[q] - (IF q = a THEN b ELSE 0)
    BY <2>1, <2>2, <2>8, AnchoredIn
  <2>10. /\ Custodial \in Nat /\ Custodial' \in Nat
         /\ Custodial' = Custodial + Anchored!InCustody(i)' - Anchored!InCustody(i)
         /\ \A q : /\ Anchored!CostTo(q) \in Nat /\ Anchored!CostTo(q)' \in Nat
                   /\ Anchored!CostTo(q)' = Anchored!CostTo(q) + Anchored!Cost(i, q)' - Anchored!Cost(i, q)
    BY <1>0, <2>6, AnchoredChange
  <2>11. Anchored!InCustody(i) = 0 /\ Anchored!InCustody(i)' = x + b
    BY <2>4, <2>7 DEF Anchored!InCustody, Anchored!InStatus
  <2>12. ASSUME NEW q
         PROVE  /\ Anchored!Cost(i, q) = 0
                /\ Anchored!Cost(i, q)' = (IF s = q THEN x ELSE 0) + (IF a = q THEN b ELSE 0)
    BY <2>4, <2>7 DEF Anchored!Cost, Anchored!InStatus
  <2>13. anch_tok[Self] \in Nat /\ anch_tok[Self] = Custodial
         /\ \A q \in AnchSenders \cup AnchAnchors :
              /\ q \in Anchored!Accounts /\ anch_tok[q] \in Nat
              /\ anch_tok[q] + Anchored!CostTo(q) >= AnchSupply
              /\ q \notin Destinations => anch_tok[q] + Anchored!CostTo(q) = AnchSupply
    BY <1>0, AnchoredSum DEF Anchored!EveryPartySquare, Custodial, AnchHolding, Anchored!Accounts
  <2>14. anch_tok'[Self] = Custodial'
    BY <2>2, <2>8, <2>9, <2>10, <2>11, <2>13
  <2>15. ASSUME NEW q \in AnchSenders \cup AnchAnchors
         PROVE  /\ anch_tok'[q] + Anchored!CostTo(q)' >= AnchSupply
                /\ q \notin Destinations => anch_tok'[q] + Anchored!CostTo(q)' = AnchSupply
    <3>1. anch_tok'[q] = anch_tok[q] - (IF q = s THEN x ELSE 0) - (IF q = a THEN b ELSE 0)
      BY <2>2, <2>8, <2>9, <2>13
    <3>2. Anchored!CostTo(q) \in Nat /\ anch_tok[q] \in Nat
      BY <2>10, <2>13
    <3>3. Anchored!CostTo(q)' = Anchored!CostTo(q) + (IF s = q THEN x ELSE 0) + (IF a = q THEN b ELSE 0)
      BY <2>2, <2>10, <2>12, <3>2
    <3>4. anch_tok'[q] + Anchored!CostTo(q)' = anch_tok[q] + Anchored!CostTo(q)
      BY <2>2, <3>1, <3>2, <3>3
    <3> QED
      BY <2>13, <3>4
  <2>16. Anchored!EveryPartySquare'
    BY <2>14, <2>15, AnchoredSum DEF Anchored!EveryPartySquare, Custodial
  <2>17. AnchUnused'
    BY <1>0, <2>1, <2>3, <2>6, AnchoredFacts DEF AnchUnused
  <2> QED
    BY <1>0, <2>1, <2>6, <2>9, <2>16, <2>17, AnchoredFacts
    DEF AnchoredInv, Anchored!TypeOK, AnchHolding
<1>7. CASE UNCHANGED anchoredVars
  BY <1>0, <1>1, <1>7 DEF anchoredVars, AnchoredInv, Anchored!TypeOK, AnchHolding
<1> QED
  BY <1>2, <1>3, <1>4, <1>5, <1>6, <1>7 DEF Anchored!Next

LEMMA AnchoredIsPart == MCSpec => Anchored!Spec
<1>1. MCInit => Anchored!Init
  BY DEF MCInit
<1>2. [MCNext]_allVars => [Anchored!Next]_Anchored!vars
  BY DEF MCNext, allVars, anchoredVars, Anchored!vars
<1> QED
  BY <1>1, <1>2, PTL DEF MCSpec, Anchored!Spec

LEMMA AnchoredAlways == Anchored!Spec => []AnchoredInv
<1>1. AnchoredInv /\ [Anchored!Next]_Anchored!vars => AnchoredInv'
  BY AnchoredStep DEF Anchored!vars, anchoredVars
<1> QED
  BY <1>1, AnchoredInit, PTL DEF Anchored!Spec

\* The image of a well-formed anchored remittance under the refinement mapping.
LEMMA AnchoredDeposit ==
  ASSUME NEW r \in Anchored!Remittance
  PROVE  /\ Anchored!DepositOf(r) =
              [owner |-> r.sender, payee |-> r.anchor, amount |-> r.anchor_bond,
               refundable_at |-> r.created_at + DisputeExpiry,
               status |-> Anchored!CustodyStatus[r.status]]
         /\ Anchored!DepositOf(r) \in Anchored!Deposit /\ Anchored!DepositOf(r) # None
<1>1. /\ r # None /\ r.sender \in AnchSenders /\ r.anchor \in AnchAnchors
      /\ r.anchor_bond \in {b \in Bonds : b > 0} /\ r.created_at + DisputeExpiry \in Nat
      /\ Anchored!CustodyStatus[r.status] \in {"held", "settled", "returned"}
  BY AnchoredRecord, AnchoredFacts DEF Anchored!CustodyStatus
<1> QED
  BY <1>1, AnchoredFacts DEF Anchored!DepositOf, Anchored!Deposit

LEMMA AnchoredStatus ==
  ASSUME NEW r \in Anchored!Remittance, NEW u \in Anchored!Remittance,
         u.sender = r.sender, u.anchor = r.anchor, u.anchor_bond = r.anchor_bond,
         u.created_at = r.created_at
  PROVE  Anchored!DepositOf(u) =
           [Anchored!DepositOf(r) EXCEPT !.status = Anchored!CustodyStatus[u.status]]
<1>1. /\ Anchored!DepositOf(u) =
           [owner |-> r.sender, payee |-> r.anchor, amount |-> r.anchor_bond,
            refundable_at |-> r.created_at + DisputeExpiry,
            status |-> Anchored!CustodyStatus[u.status]]
      /\ Anchored!DepositOf(r) =
           [owner |-> r.sender, payee |-> r.anchor, amount |-> r.anchor_bond,
            refundable_at |-> r.created_at + DisputeExpiry,
            status |-> Anchored!CustodyStatus[r.status]]
  BY AnchoredDeposit
<1> QED
  BY <1>1

\* The anchored remittances implement the custody contract: one resolution per
\* remittance, under the terms of its creation, and no escalation before the
\* processing window is over, for any parties, amounts and window.
THEOREM AnchoredImplementsCustody == MCSpec => Anchored!ImplementsCustody
<1> DEFINE D == [i \in Anchored!Ids |-> Anchored!DepositOf(anch_remittance[i])]
<1>1. Anchored!Init => Anchored!C!Init
  BY AnchoredFacts DEF Anchored!Init, Anchored!C!Init, Anchored!DepositOf
<1>2. AnchoredInv /\ [Anchored!Next]_Anchored!vars => [Anchored!C!Next]_Anchored!C!vars
  <2> SUFFICES ASSUME AnchoredInv, [Anchored!Next]_Anchored!vars
               PROVE  [Anchored!C!Next]_Anchored!C!vars
    OBVIOUS
  <2>0. /\ anch_now \in Nat /\ AnchUnused /\ anch_counter \in Nat
        /\ anch_remittance \in [Anchored!Ids -> Anchored!Remittance \cup {None}]
    BY AnchoredFacts DEF AnchoredInv, Anchored!TypeOK
  <2>1. CASE Anchored!Tick
    <3>1. Anchored!C!Advance
      BY <2>0, <2>1 DEF Anchored!Tick, Anchored!C!Advance
    <3> QED
      BY <3>1 DEF Anchored!C!Next
  <2>2. ASSUME UNCHANGED <<anch_now, anch_remittance>> PROVE [Anchored!C!Next]_Anchored!C!vars
    BY <2>2 DEF Anchored!C!vars
  <2>3. ASSUME NEW s \in AnchSenders, NEW a \in AnchAnchors, NEW x \in Principals, NEW b \in Bonds,
               Anchored!create_anchored_remittance(s, a, x, b)
        PROVE  [Anchored!C!Next]_Anchored!C!vars
    <3> DEFINE r == [sender |-> s, anchor |-> a, principal |-> x, anchor_bond |-> b,
                     created_at |-> anch_now, status |-> "Pending"]
    <3>1. /\ x > 0 /\ b > 0 /\ anch_counter < AnchIds /\ anch_now' = anch_now
          /\ anch_remittance' = [anch_remittance EXCEPT ![anch_counter + 1] = r]
      BY <2>3 DEF Anchored!create_anchored_remittance
    <3>2. PICK i \in Anchored!Ids : i = anch_counter + 1
      BY <2>0, <3>1, AnchoredFacts
    <3>3. anch_remittance[i] = None
      BY <2>0, <3>2 DEF AnchUnused
    <3>4. r \in Anchored!Remittance /\ r.sender = s /\ r.anchor = a /\ r.anchor_bond = b /\ r.status = "Pending"
      BY <2>0, <3>1, AnchoredFacts DEF Anchored!Remittance
    <3>5. anch_remittance' = [anch_remittance EXCEPT ![i] = r]
      BY <3>1, <3>2
    <3> HIDE DEF r
    <3>6. D[i] = None /\ D'[i] = Anchored!DepositOf(r)
      BY <2>0, <3>3, <3>5 DEF Anchored!DepositOf
    <3>7. D' = [D EXCEPT ![i] = Anchored!DepositOf(r)]
      BY <2>0, <3>5
    <3>8. /\ Anchored!DepositOf(r) # None /\ Anchored!DepositOf(r).status = "held"
          /\ Anchored!DepositOf(r).amount >= 0
          /\ Anchored!DepositOf(r).owner \in Anchored!Accounts
          /\ Anchored!DepositOf(r).payee \in Anchored!Accounts
      BY <3>1, <3>4, AnchoredDeposit, AnchoredFacts DEF Anchored!Accounts, Anchored!CustodyStatus
    <3>9. Anchored!C!Open(i)
      BY <3>1, <3>6, <3>7, <3>8 DEF Anchored!C!Open
    <3> QED
      BY <3>9 DEF Anchored!C!Next
  <2>4. ASSUME NEW i \in Anchored!Ids, NEW st \in {"Settled", "Disputed"},
               Anchored!InStatus(i, {"Pending"}),
               anch_remittance' = [anch_remittance EXCEPT ![i].status = st]
        PROVE  /\ D[i] # None /\ D[i].status = "held"
               /\ D[i].refundable_at = anch_remittance[i].created_at + DisputeExpiry
               /\ D' = [D EXCEPT ![i].status = Anchored!CustodyStatus[st]]
    <3>1. anch_remittance[i] \in Anchored!Remittance /\ anch_remittance[i].status = "Pending"
      BY <2>0, <2>4 DEF Anchored!InStatus
    <3>2. /\ anch_remittance'[i] = [anch_remittance[i] EXCEPT !.status = st]
          /\ [anch_remittance[i] EXCEPT !.status = st] \in Anchored!Remittance
      BY <2>0, <2>4, <3>1 DEF Anchored!Remittance
    <3> DEFINE u == [anch_remittance[i] EXCEPT !.status = st]
    <3>3. /\ u.sender = anch_remittance[i].sender /\ u.anchor = anch_remittance[i].anchor
          /\ u.anchor_bond = anch_remittance[i].anchor_bond
          /\ u.created_at = anch_remittance[i].created_at /\ u.status = st
      BY <3>1 DEF Anchored!Remittance
    <3>3a. u \in Anchored!Remittance /\ anch_remittance'[i] = u
      BY <3>2
    <3> HIDE DEF u
    <3>3b. Anchored!DepositOf(u) =
             [Anchored!DepositOf(anch_remittance[i]) EXCEPT !.status = Anchored!CustodyStatus[st]]
      BY <3>1, <3>3, <3>3a, AnchoredStatus
    <3>4. D'[i] = [D[i] EXCEPT !.status = Anchored!CustodyStatus[st]]
      BY <3>3a, <3>3b
    <3>5. \A j \in Anchored!Ids : j # i => D'[j] = D[j]
      BY <2>0, <2>4
    <3>6. D' = [D EXCEPT ![i].status = Anchored!CustodyStatus[st]]
      BY <3>4, <3>5
    <3>7. D[i] # None /\ D[i].status = "held"
          /\ D[i].refundable_at = anch_remittance[i].created_at + DisputeExpiry
      BY <3>1, AnchoredDeposit DEF Anchored!CustodyStatus
    <3> QED
      BY <3>6, <3>7
  <2>5. ASSUME NEW i \in Anchored!Ids, Anchored!settle_remittance(i)
        PROVE  [Anchored!C!Next]_Anchored!C!vars
    <3>1. /\ Anchored!InStatus(i, {"Pending"}) /\ anch_now' = anch_now
          /\ anch_remittance' = [anch_remittance EXCEPT ![i].status = "Settled"]
      BY <2>5 DEF Anchored!settle_remittance, Anchored!Resolve
    <3>2. Anchored!C!Settle(i)
      BY <2>4, <3>1 DEF Anchored!C!Settle, Anchored!C!Held, Anchored!CustodyStatus
    <3> QED
      BY <3>2 DEF Anchored!C!Next
  <2>6. ASSUME NEW i \in Anchored!Ids, Anchored!escalate_dispute(i)
        PROVE  [Anchored!C!Next]_Anchored!C!vars
    <3>1. /\ Anchored!InStatus(i, {"Pending"}) /\ anch_now' = anch_now
          /\ anch_now - anch_remittance[i].created_at >= DisputeExpiry
          /\ anch_remittance' = [anch_remittance EXCEPT ![i].status = "Disputed"]
      BY <2>6 DEF Anchored!escalate_dispute, Anchored!Resolve
    <3>2. anch_now >= anch_remittance[i].created_at + DisputeExpiry
      BY <2>0, <3>1, AnchoredRecord, AnchoredFacts DEF Anchored!InStatus
    <3>3. Anchored!C!Return(i)
      BY <2>4, <3>1, <3>2 DEF Anchored!C!Return, Anchored!C!Held, Anchored!CustodyStatus
    <3> QED
      BY <3>3 DEF Anchored!C!Next
  <2> QED
    BY <2>1, <2>2, <2>3, <2>5, <2>6
    DEF Anchored!Next, Anchored!set_slash_destination, Anchored!vars
<1> QED
  BY <1>1, <1>2, AnchoredIsPart, AnchoredAlways, PTL
  DEF Anchored!Spec, Anchored!ImplementsCustody, Anchored!C!Spec

-----------------------------------------------------------------------------
(***************************************************************************)
(* The split orders.                                                       *)
(***************************************************************************)

\* No destination list names an anchor twice.  create_split_order does not check
\* it, and with a repeated anchor the books do come apart (run
\* split_remittance_repeated); every other list keeps them square.
DistinctLists ==
  \A l \in SplitLists : \A i, j \in DOMAIN l : l[i].anchor = l[j].anchor => i = j

LEMMA SplitSum ==
  ASSUME NEW f, NEW S
  PROVE  Split!SumOf(f, S) = SumOf(f, S)
BY DEF Split!SumOf, SumOf, Split!MapThenSumSet, MapThenSumSet,
       Split!MapThenFoldSet, MapThenFoldSet

\* The parameters of the split orders.
LEMMA SplitFacts ==
  /\ Self \notin SplitSenders \cup SplitAnchors
  /\ Window \in Nat /\ BpsDenom \in Nat \ {0} /\ Bps \subseteq Nat /\ Totals \subseteq Nat
  /\ SplitSupply \in Nat /\ MaxOrders \in Nat /\ SplitTime \in Nat
  /\ SplitLists \subseteq Seq([anchor : SplitAnchors, bps : Bps])
  /\ None \notin Split!Order
  /\ Split!Ids = 0..(MaxOrders - 1)
BY SplitAssumption DEF Split!SplitRemittanceAssumption, Split!Ids

LEMMA SplitIdsFinite == IsFiniteSet(Split!Ids)
<1>1. 0 \in Int /\ MaxOrders - 1 \in Int
  BY SplitFacts
<1> QED
  BY <1>1, FS_Interval, SplitFacts

\* The amounts of a list of legs that have one of the statuses.
LegTotal(l, S) == SumOf(Split!AmountsIn(l, S), DOMAIN l)

LEMMA LegSumIs ==
  ASSUME NEW id, NEW S
  PROVE  Split!LegSum(id, S) = LegTotal(split_order[id].legs, S)
BY SplitSum DEF Split!LegSum, LegTotal

\* A list of legs is a function on an initial segment of the positive integers.
LEMMA LegsDomain ==
  ASSUME NEW l \in Seq(Split!Leg)
  PROVE  /\ Len(l) \in Nat /\ DOMAIN l = 1..Len(l) /\ IsFiniteSet(DOMAIN l)
         /\ \A i \in DOMAIN l : /\ l[i] \in Split!Leg /\ l[i].amount \in Nat
                                /\ l[i].status \in Split!LegStatus /\ l[i].anchor \in SplitAnchors
<1>1. Len(l) \in Nat /\ DOMAIN l = 1..Len(l) /\ \A i \in DOMAIN l : l[i] \in Split!Leg
  OBVIOUS
<1>2. IsFiniteSet(1..Len(l))
  BY <1>1, FS_Interval
<1> QED
  BY <1>1, <1>2 DEF Split!Leg

LEMMA SameDomainIsLegs ==
  ASSUME NEW l \in Seq(Split!Leg), NEW m \in [DOMAIN l -> Split!Leg]
  PROVE  m \in Seq(Split!Leg) /\ DOMAIN m = DOMAIN l
BY LegsDomain, SeqDef

LEMMA LegAmountsType ==
  ASSUME NEW l \in Seq(Split!Leg), NEW S
  PROVE  /\ Split!AmountsIn(l, S) \in [DOMAIN l -> Nat] /\ LegTotal(l, S) \in Nat
         /\ \A i \in DOMAIN l :
              Split!AmountsIn(l, S)[i] = IF l[i].status \in S THEN l[i].amount ELSE 0
<1>1. /\ Split!AmountsIn(l, S) \in [DOMAIN l -> Nat]
      /\ \A i \in DOMAIN l : Split!AmountsIn(l, S)[i] = IF l[i].status \in S THEN l[i].amount ELSE 0
  BY LegsDomain DEF Split!AmountsIn
<1>2. \A i \in DOMAIN l : Split!AmountsIn(l, S)[i] \in Nat
  BY <1>1
<1> QED
  BY <1>1, <1>2, LegsDomain, SumNat DEF LegTotal

\* Lists whose legs count the same have the same total.
LEMMA LegTotalSame ==
  ASSUME NEW l \in Seq(Split!Leg), NEW m \in Seq(Split!Leg), DOMAIN m = DOMAIN l, NEW S, NEW T,
         \A i \in DOMAIN l : Split!AmountsIn(m, T)[i] = Split!AmountsIn(l, S)[i]
  PROVE  LegTotal(m, T) = LegTotal(l, S)
BY LegsDomain, SumAgree DEF LegTotal

\* A list whose leg k changes.
LEMMA LegTotalShift ==
  ASSUME NEW l \in Seq(Split!Leg), NEW m \in Seq(Split!Leg), DOMAIN m = DOMAIN l, NEW S,
         NEW k \in DOMAIN l, \A i \in DOMAIN l : i # k => m[i] = l[i]
  PROVE  LegTotal(m, S) = LegTotal(l, S) + Split!AmountsIn(m, S)[k] - Split!AmountsIn(l, S)[k]
<1> DEFINE f == Split!AmountsIn(l, S)
           g == Split!AmountsIn(m, S)
<1>1. /\ f \in [DOMAIN l -> Nat] /\ g \in [DOMAIN l -> Nat]
      /\ \A i \in DOMAIN l : i # k => g[i] = f[i]
  <2>1. /\ f \in [DOMAIN l -> Nat] /\ g \in [DOMAIN m -> Nat]
        /\ \A i \in DOMAIN l : f[i] = IF l[i].status \in S THEN l[i].amount ELSE 0
        /\ \A i \in DOMAIN m : g[i] = IF m[i].status \in S THEN m[i].amount ELSE 0
    BY LegAmountsType
  <2> HIDE DEF f, g
  <2> QED
    BY <2>1
<1> HIDE DEF f, g
<1>2. IsFiniteSet(DOMAIN l)
  BY LegsDomain
<1>3. SumOf(g, DOMAIN l) = SumOf(f, DOMAIN l) + g[k] - f[k]
  BY <1>1, <1>2, SumShift
<1> QED
  BY <1>3 DEF f, g, LegTotal

\* One pending leg is settled: its amount moves from the pending total to the
\* settled one.
LEMMA SettleOneLeg ==
  ASSUME NEW l \in Seq(Split!Leg), NEW m \in Seq(Split!Leg), DOMAIN m = DOMAIN l,
         NEW k \in DOMAIN l, \A i \in DOMAIN l : i # k => m[i] = l[i],
         l[k].status = "Pending", m[k].status = "Settled", m[k].amount = l[k].amount
  PROVE  /\ LegTotal(m, Split!LegStatus) = LegTotal(l, Split!LegStatus)
         /\ LegTotal(m, {"Settled"}) = LegTotal(l, {"Settled"}) + l[k].amount
         /\ LegTotal(m, {"Pending"}) = LegTotal(l, {"Pending"}) - l[k].amount
         /\ l[k].amount <= LegTotal(l, {"Pending"})
<1>0. l[k].amount \in Nat
  BY LegsDomain
<1>1. \A S : LegTotal(l, S) \in Nat
             /\ LegTotal(m, S) = LegTotal(l, S) + Split!AmountsIn(m, S)[k] - Split!AmountsIn(l, S)[k]
  BY LegTotalShift, LegAmountsType
<1>2. \A S : /\ Split!AmountsIn(l, S)[k] = IF "Pending" \in S THEN l[k].amount ELSE 0
             /\ Split!AmountsIn(m, S)[k] = IF "Settled" \in S THEN l[k].amount ELSE 0
  BY LegAmountsType
<1>3. /\ Split!AmountsIn(l, {"Pending"})[k] = l[k].amount
      /\ Split!AmountsIn(m, {"Pending"})[k] = 0
      /\ Split!AmountsIn(l, {"Settled"})[k] = 0
      /\ Split!AmountsIn(m, {"Settled"})[k] = l[k].amount
      /\ Split!AmountsIn(l, Split!LegStatus)[k] = l[k].amount
      /\ Split!AmountsIn(m, Split!LegStatus)[k] = l[k].amount
  BY <1>2 DEF Split!LegStatus
<1>4. l[k].amount <= LegTotal(l, {"Pending"})
  <2> DEFINE f == Split!AmountsIn(l, {"Pending"})
  <2>1. \A i \in DOMAIN l : f[i] \in Nat
    BY LegAmountsType
  <2>2. f[k] <= SumOf(f, DOMAIN l)
    BY <2>1, LegsDomain, SumBound
  <2> QED
    BY <1>3, <2>2 DEF LegTotal
<1>5. LegTotal(m, Split!LegStatus) = LegTotal(l, Split!LegStatus)
  BY <1>0, <1>1, <1>3
<1>6. LegTotal(m, {"Settled"}) = LegTotal(l, {"Settled"}) + l[k].amount
  BY <1>0, <1>1, <1>3
<1>7. LegTotal(m, {"Pending"}) = LegTotal(l, {"Pending"}) - l[k].amount
  BY <1>0, <1>1, <1>3
<1> QED
  BY <1>4, <1>5, <1>6, <1>7

\* The pending legs are marked refunded: nothing is pending any more, and what was
\* settled stays so.
LEMMA RefundLegs ==
  ASSUME NEW l \in Seq(Split!Leg), NEW m \in Seq(Split!Leg), DOMAIN m = DOMAIN l,
         \A i \in DOMAIN l : /\ m[i].amount = l[i].amount
                             /\ l[i].status = "Pending" => m[i].status = "Refunded"
                             /\ l[i].status # "Pending" => m[i].status = l[i].status
  PROVE  /\ LegTotal(m, Split!LegStatus) = LegTotal(l, Split!LegStatus)
         /\ LegTotal(m, {"Settled"}) = LegTotal(l, {"Settled"})
         /\ LegTotal(m, {"Pending"}) = 0
<1>0. \A S : \A i \in DOMAIN l :
        /\ Split!AmountsIn(l, S)[i] = IF l[i].status \in S THEN l[i].amount ELSE 0
        /\ Split!AmountsIn(m, S)[i] = IF m[i].status \in S THEN l[i].amount ELSE 0
  BY LegAmountsType
<1>0a. \A i \in DOMAIN l : l[i].status \in Split!LegStatus /\ m[i].status \in Split!LegStatus
  BY LegsDomain
<1>1. \A i \in DOMAIN l :
        Split!AmountsIn(m, Split!LegStatus)[i] = Split!AmountsIn(l, Split!LegStatus)[i]
  BY <1>0, <1>0a
<1>2. \A i \in DOMAIN l : Split!AmountsIn(m, {"Settled"})[i] = Split!AmountsIn(l, {"Settled"})[i]
  <2>1. \A i \in DOMAIN l : m[i].status \in {"Settled"} <=> l[i].status \in {"Settled"}
    OBVIOUS
  <2> QED
    BY <1>0, <2>1
<1>3. \A i \in DOMAIN m : Split!AmountsIn(m, {"Pending"})[i] = 0
  BY LegAmountsType
<1>4. LegTotal(m, {"Pending"}) = 0
  BY <1>3, LegsDomain, SumZero DEF LegTotal
<1>5. LegTotal(m, Split!LegStatus) = LegTotal(l, Split!LegStatus)
  BY <1>1, LegTotalSame
<1>6. LegTotal(m, {"Settled"}) = LegTotal(l, {"Settled"})
  BY <1>2, LegTotalSame
<1> QED
  BY <1>4, <1>5, <1>6

\* A positive pending total has a pending leg behind it.
LEMMA PendingLegExists ==
  ASSUME NEW l \in Seq(Split!Leg), LegTotal(l, {"Pending"}) # 0
  PROVE  \E i \in DOMAIN l : l[i].status = "Pending"
<1>1. SUFFICES ASSUME \A i \in DOMAIN l : l[i].status # "Pending" PROVE FALSE
  OBVIOUS
<1>2. \A i \in DOMAIN l : Split!AmountsIn(l, {"Pending"})[i] = 0
  BY <1>1, LegAmountsType
<1>3. LegTotal(l, {"Pending"}) = 0
  BY <1>2, LegsDomain, SumZero DEF LegTotal
<1> QED
  BY <1>3

LEMMA ElementsOf ==
  ASSUME NEW R, NEW q \in Seq(R)
  PROVE  \A i \in DOMAIN q : q[i] \in R
OBVIOUS

\* build_legs: the shares are rounded down, the last leg takes what is left, and
\* so the legs add up to the total.
LEMMA BuiltLegs ==
  ASSUME NEW t \in Totals, NEW d \in SplitLists, Split!ValidSplit(t, d)
  PROVE  /\ Split!Legs(t, d) \in Seq(Split!Leg) /\ DOMAIN Split!Legs(t, d) = DOMAIN d
         /\ DOMAIN d # {}
         /\ \A i \in DOMAIN d : Split!Legs(t, d)[i].status = "Pending"
                                /\ Split!Legs(t, d)[i].anchor = d[i].anchor
         /\ LegTotal(Split!Legs(t, d), Split!LegStatus) = t
         /\ LegTotal(Split!Legs(t, d), {"Pending"}) = t
         /\ LegTotal(Split!Legs(t, d), {"Settled"}) = 0
<1> DEFINE n == Len(d)
           l == Split!Legs(t, d)
           part == [j \in DOMAIN d |-> (t * d[j].bps) \div BpsDenom]
<1>1. d \in Seq([anchor : SplitAnchors, bps : Bps]) /\ d # <<>> /\ t \in Nat
  BY SplitFacts DEF Split!ValidSplit
<1>2. n \in Nat \ {0} /\ DOMAIN d = 1..n
      /\ \A i \in DOMAIN d : d[i].anchor \in SplitAnchors /\ d[i].bps \in Nat
  <2>1. n \in Nat \ {0} /\ DOMAIN d = 1..n
    BY <1>1
  <2>2. \A i \in DOMAIN d : d[i] \in [anchor : SplitAnchors, bps : Bps]
    BY <1>1, ElementsOf
  <2> QED
    BY <2>1, <2>2, SplitFacts
<1> HIDE DEF n
<1>3. \A j \in DOMAIN d : part[j] \in Nat
  <2>1. \A a \in Nat, b \in Nat : a * b \in Nat
    OBVIOUS
  <2>2. \A a \in Nat : a \div BpsDenom \in Nat
    BY SplitFacts
  <2> QED
    BY <1>1, <1>2, <2>1, <2>2
<1>4. \A j \in DOMAIN d :
        Split!LegAmount(t, d, j) = IF j = n THEN t - SumOf(part, 1..(n - 1)) ELSE part[j]
  BY SplitSum DEF Split!LegAmount, n
<1> HIDE DEF part
<1>5. IsFiniteSet(1..n) /\ IsFiniteSet(1..(n - 1)) /\ (1..n) \ {n} = 1..(n - 1) /\ n \in 1..n
      /\ \A j \in 1..(n - 1) : j \in DOMAIN d /\ j # n
  <2>1. IsFiniteSet(1..n) /\ IsFiniteSet(1..(n - 1))
    BY <1>2, FS_Interval
  <2> QED
    BY <1>2, <2>1
<1>6. SumOf(part, 1..(n - 1)) \in Nat
  BY <1>3, <1>5, SumNat
<1>7. \A j \in DOMAIN d : Split!LegAmount(t, d, j) \in Nat
  BY <1>1, <1>3, <1>4, <1>6 DEF Split!ValidSplit
<1>8. /\ l \in [DOMAIN d -> Split!Leg]
      /\ \A i \in DOMAIN d : /\ l[i].status = "Pending" /\ l[i].anchor = d[i].anchor
                             /\ l[i].amount = Split!LegAmount(t, d, i)
  BY <1>2, <1>7 DEF Split!Legs, Split!Leg, Split!LegStatus
<1> HIDE DEF l
<1>9. l \in Seq(Split!Leg) /\ DOMAIN l = DOMAIN d
  BY <1>2, <1>8, SeqDef
<1>10. LegTotal(l, Split!LegStatus) = t
  <2> DEFINE f == Split!AmountsIn(l, Split!LegStatus)
  <2>1. \A i \in 1..n : f[i] = Split!LegAmount(t, d, i) /\ f[i] \in Int
    BY <1>2, <1>7, <1>8, <1>9, LegAmountsType DEF Split!LegStatus
  <2> HIDE DEF f
  <2>2. SumOf(f, 1..n) = f[n] + SumOf(f, (1..n) \ {n})
    BY <1>5, <2>1, SumRemove
  <2>3. \A j \in 1..(n - 1) : f[j] = part[j]
    BY <1>2, <1>4, <1>5, <2>1
  <2>4. SumOf(f, 1..(n - 1)) = SumOf(part, 1..(n - 1))
    BY <1>5, <2>3, SumAgree
  <2>5. f[n] = t - SumOf(part, 1..(n - 1))
    BY <1>2, <1>4, <1>5, <2>1
  <2>6. SumOf(f, 1..n) = f[n] + SumOf(part, 1..(n - 1))
    BY <1>5, <2>2, <2>4, Zenon
  <2>6a. SumOf(f, 1..n) = t
    BY <1>1, <1>6, <2>5, <2>6
  <2> QED
    BY <1>2, <1>9, <2>6a DEF LegTotal, f
<1>11. LegTotal(l, {"Pending"}) = t
  <2>1. \A i \in DOMAIN l : Split!AmountsIn(l, {"Pending"})[i] = Split!AmountsIn(l, Split!LegStatus)[i]
    BY <1>8, <1>9, LegAmountsType DEF Split!LegStatus
  <2>2. LegTotal(l, {"Pending"}) = LegTotal(l, Split!LegStatus)
    BY <1>9, <2>1, LegTotalSame
  <2> QED
    BY <1>10, <2>2
<1>12. LegTotal(l, {"Settled"}) = 0
  <2>1. \A i \in DOMAIN l : Split!AmountsIn(l, {"Settled"})[i] = 0
    BY <1>8, <1>9, LegAmountsType
  <2> QED
    BY <1>9, <2>1, LegsDomain, SumZero DEF LegTotal
<1> QED
  BY <1>2, <1>8, <1>9, <1>10, <1>11, <1>12 DEF l

\* What is true of order o while rel has been released from it and rem is locked:
\* the last leg completes it, refunding one leg closes it, every anchor has one
\* leg, the legs add up and the running balances follow them.
GoodOrder(o, rel, rem) ==
  /\ o.status = "Completed" <=> \A i \in DOMAIN o.legs : o.legs[i].status = "Settled"
  /\ o.status = "Open" => \A i \in DOMAIN o.legs : o.legs[i].status # "Refunded"
  /\ \A i, j \in DOMAIN o.legs : o.legs[i].anchor = o.legs[j].anchor => i = j
  /\ LegTotal(o.legs, Split!LegStatus) = o.total_amount
  /\ rel = LegTotal(o.legs, {"Settled"}) /\ rem = LegTotal(o.legs, {"Pending"})

SplitHolding == [Split!Accounts -> Nat]

\* The inductive invariant: identifiers from NextOrderId on are unused and lock
\* nothing, every order is good, and the contract holds what is locked.
SplitInv ==
  /\ split_now \in 0..SplitTime /\ split_initialized \in BOOLEAN
  /\ split_tok \in SplitHolding
  /\ split_order \in [Split!Ids -> Split!Order \cup {None}]
  /\ split_released \in [Split!Ids -> Nat] /\ split_remaining \in [Split!Ids -> Nat]
  /\ split_next_id \in 0..MaxOrders
  /\ \A id \in Split!Ids : id >= split_next_id => split_order[id] = None /\ split_remaining[id] = 0
  /\ \A id \in Split!Ids : split_order[id] # None =>
       GoodOrder(split_order[id], split_released[id], split_remaining[id])
  /\ split_tok[Self] = SumOf(split_remaining, Split!Ids)

LEMMA OrderFields ==
  ASSUME NEW o \in Split!Order
  PROVE  /\ o # None /\ o.legs \in Seq(Split!Leg) /\ o.status \in Split!OrderStatus
         /\ o.total_amount \in Nat /\ o.deadline \in Nat /\ o.sender \in SplitSenders
BY SplitFacts DEF Split!Order

LEMMA SplitInvSquares ==
  SplitInv => /\ Split!TypeOK /\ Split!LegsAddUp /\ Split!HoldsTheRemaining
              /\ Split!BalancesFollowLegs
<1> SUFFICES ASSUME SplitInv
             PROVE  /\ Split!TypeOK /\ Split!LegsAddUp /\ Split!HoldsTheRemaining
                    /\ Split!BalancesFollowLegs
  OBVIOUS
<1>1. Split!TypeOK
  BY DEF SplitInv, SplitHolding, GoodOrder, Split!TypeOK, Split!HasOrder
<1>2. Split!LegsAddUp
  BY LegSumIs DEF SplitInv, GoodOrder, Split!LegsAddUp, Split!HasOrder
<1>3. Split!HoldsTheRemaining
  BY SplitSum DEF SplitInv, Split!HoldsTheRemaining
<1>4. Split!BalancesFollowLegs
  BY LegSumIs DEF SplitInv, GoodOrder, Split!BalancesFollowLegs, Split!HasOrder
<1> QED
  BY <1>1, <1>2, <1>3, <1>4

LEMMA SplitInit == Split!Init => SplitInv
<1> SUFFICES ASSUME Split!Init PROVE SplitInv
  OBVIOUS
<1>1. /\ split_now = 0 /\ split_initialized = FALSE /\ split_next_id = 0
      /\ split_order = [id \in Split!Ids |-> None]
      /\ split_released = [id \in Split!Ids |-> 0] /\ split_remaining = [id \in Split!Ids |-> 0]
      /\ split_tok = [a \in Split!Accounts |-> IF a \in SplitSenders THEN SplitSupply ELSE 0]
  BY DEF Split!Init
<1>2. \A id \in Split!Ids : split_remaining[id] = 0
  BY <1>1
<1>3. SumOf(split_remaining, Split!Ids) = 0
  BY <1>2, SplitIdsFinite, SumZero
<1>4. split_tok[Self] = 0
  BY <1>1, SplitFacts DEF Split!Accounts
<1>5. split_tok \in SplitHolding
  BY <1>1, SplitFacts DEF SplitHolding
<1>6. /\ split_order \in [Split!Ids -> Split!Order \cup {None}]
      /\ split_released \in [Split!Ids -> Nat] /\ split_remaining \in [Split!Ids -> Nat]
      /\ \A id \in Split!Ids : split_order[id] = None /\ split_remaining[id] = 0
  BY <1>1
<1>7. split_now \in 0..SplitTime /\ split_next_id \in 0..MaxOrders
  BY <1>1, SplitFacts
<1>8. split_initialized \in BOOLEAN
  BY <1>1, Zenon
<1> QED
  BY <1>3, <1>4, <1>5, <1>6, <1>7, <1>8 DEF SplitInv

\* Transfers into and out of the contract.
LEMMA SplitIn ==
  ASSUME NEW bal \in SplitHolding, NEW u \in SplitSenders \cup SplitAnchors, NEW x \in Nat,
         Split!CanMove(bal, u, x)
  PROVE  /\ Split!Move(bal, u, Self, x) \in SplitHolding
         /\ Split!Move(bal, u, Self, x)[Self] = bal[Self] + x
<1>1. Self # u /\ u \in Split!Accounts /\ Self \in Split!Accounts
  BY SplitFacts DEF Split!Accounts
<1> QED
  BY <1>1 DEF SplitHolding, Split!Move, Split!CanMove

LEMMA SplitOut ==
  ASSUME NEW bal \in SplitHolding, NEW u \in SplitSenders \cup SplitAnchors, NEW x \in Nat,
         Split!CanMove(bal, Self, x)
  PROVE  /\ Split!Move(bal, Self, u, x) \in SplitHolding
         /\ Split!Move(bal, Self, u, x)[Self] = bal[Self] - x
         /\ Split!Move(bal, Self, u, x)[u] = bal[u] + x
<1>1. Self # u /\ u \in Split!Accounts /\ Self \in Split!Accounts
  BY SplitFacts DEF Split!Accounts
<1> QED
  BY <1>1 DEF SplitHolding, Split!Move, Split!CanMove

LEMMA RemainingShift ==
  \A f \in [Split!Ids -> Nat], g \in [Split!Ids -> Nat], i \in Split!Ids :
    (\A j \in Split!Ids : j # i => g[j] = f[j])
    => SumOf(f, Split!Ids) \in Nat /\ SumOf(g, Split!Ids) = SumOf(f, Split!Ids) + g[i] - f[i]
BY SplitIdsFinite, SumShift

\* A step that writes one order, good with its two balances, and moves the change
\* of the locked balance into or out of the contract, keeps the invariant.
LEMMA SplitWrite ==
  ASSUME SplitInv, NEW k \in Split!Ids, NEW o \in Split!Order, NEW rel \in Nat, NEW rem \in Nat,
         GoodOrder(o, rel, rem),
         split_order' = [split_order EXCEPT ![k] = o],
         split_released' = [split_released EXCEPT ![k] = rel],
         split_remaining' = [split_remaining EXCEPT ![k] = rem],
         split_next_id' \in 0..MaxOrders, split_next_id <= split_next_id', k < split_next_id',
         split_tok' \in SplitHolding,
         split_tok'[Self] = split_tok[Self] + rem - split_remaining[k],
         UNCHANGED <<split_now, split_initialized>>
  PROVE  SplitInv'
<1>1. /\ split_tok \in SplitHolding /\ split_next_id \in 0..MaxOrders
      /\ split_order \in [Split!Ids -> Split!Order \cup {None}]
      /\ split_released \in [Split!Ids -> Nat] /\ split_remaining \in [Split!Ids -> Nat]
      /\ split_tok[Self] = SumOf(split_remaining, Split!Ids)
  BY DEF SplitInv
<1>2. /\ split_order' \in [Split!Ids -> Split!Order \cup {None}]
      /\ split_released' \in [Split!Ids -> Nat] /\ split_remaining' \in [Split!Ids -> Nat]
      /\ split_order'[k] = o /\ split_released'[k] = rel /\ split_remaining'[k] = rem
      /\ \A j \in Split!Ids : j # k => /\ split_order'[j] = split_order[j]
                                       /\ split_released'[j] = split_released[j]
                                       /\ split_remaining'[j] = split_remaining[j]
  BY <1>1
<1>3. \A id \in Split!Ids : id >= split_next_id' => split_order'[id] = None /\ split_remaining'[id] = 0
  <2> SUFFICES ASSUME NEW id \in Split!Ids, id >= split_next_id'
               PROVE  split_order'[id] = None /\ split_remaining'[id] = 0
    OBVIOUS
  <2>0. id \in Int /\ k \in Int /\ split_next_id \in Int /\ split_next_id' \in Int
    BY <1>1, SplitFacts
  <2>1. id # k /\ id >= split_next_id
    BY <2>0
  <2> QED
    BY <1>2, <2>1 DEF SplitInv
<1>4. ASSUME NEW id \in Split!Ids, split_order'[id] # None
      PROVE  GoodOrder(split_order'[id], split_released'[id], split_remaining'[id])
  <2>1. CASE id = k
    BY <1>2, <2>1
  <2>2. CASE id # k
    BY <1>2, <1>4, <2>2 DEF SplitInv
  <2> QED
    BY <2>1, <2>2
<1>5. SumOf(split_remaining', Split!Ids) =
        SumOf(split_remaining, Split!Ids) + split_remaining'[k] - split_remaining[k]
  <2> HIDE DEF SplitInv
  <2>1. \A j \in Split!Ids : j # k => split_remaining'[j] = split_remaining[j]
    BY <1>2
  <2> QED
    BY <1>1, <1>2, <2>1, RemainingShift
<1>6. split_tok'[Self] = SumOf(split_remaining', Split!Ids)
  BY <1>1, <1>2, <1>5
<1> QED
  BY <1>2, <1>3, <1>4, <1>6 DEF SplitInv

LEMMA CreateKeepsInv ==
  ASSUME DistinctLists, SplitInv, NEW s \in SplitSenders, NEW t \in Totals, NEW d \in SplitLists,
         Split!create_split_order(s, t, d)
  PROVE  SplitInv'
<1> DEFINE o == [sender |-> s, total_amount |-> t, deadline |-> split_now + Window,
                 status |-> "Open", legs |-> Split!Legs(t, d)]
<1>1. /\ t > 0 /\ Split!ValidSplit(t, d) /\ Split!CanMove(split_tok, s, t)
      /\ split_next_id \in Split!Ids
      /\ split_tok' = Split!Move(split_tok, s, Self, t)
      /\ split_order' = [split_order EXCEPT ![split_next_id] = o]
      /\ split_released' = [split_released EXCEPT ![split_next_id] = 0]
      /\ split_remaining' = [split_remaining EXCEPT ![split_next_id] = t]
      /\ split_next_id' = split_next_id + 1
      /\ UNCHANGED <<split_now, split_initialized>>
  BY DEF Split!create_split_order
<1>2. /\ split_tok \in SplitHolding /\ split_now \in Nat /\ split_next_id \in Nat
      /\ split_remaining[split_next_id] = 0
  BY <1>1, SplitFacts DEF SplitInv
<1>3. PICK k \in Split!Ids : k = split_next_id
  BY <1>1
<1>4. /\ Split!Legs(t, d) \in Seq(Split!Leg) /\ DOMAIN Split!Legs(t, d) = DOMAIN d
      /\ DOMAIN d # {}
      /\ \A i \in DOMAIN d : Split!Legs(t, d)[i].status = "Pending"
                             /\ Split!Legs(t, d)[i].anchor = d[i].anchor
      /\ LegTotal(Split!Legs(t, d), Split!LegStatus) = t
      /\ LegTotal(Split!Legs(t, d), {"Pending"}) = t
      /\ LegTotal(Split!Legs(t, d), {"Settled"}) = 0
  BY <1>1, BuiltLegs
<1>5. t \in Nat
  BY SplitFacts
<1>6. o \in Split!Order /\ o.legs = Split!Legs(t, d) /\ o.status = "Open" /\ o.total_amount = t
  BY <1>2, <1>4, <1>5, SplitFacts DEF Split!Order, Split!OrderStatus
<1> HIDE DEF o
<1>7. GoodOrder(o, 0, t)
  <2>1. \A i \in DOMAIN o.legs : o.legs[i].status = "Pending"
    BY <1>4, <1>6
  <2>2. \A i, j \in DOMAIN o.legs : o.legs[i].anchor = o.legs[j].anchor => i = j
    BY <1>4, <1>6 DEF DistinctLists
  <2>3. DOMAIN o.legs # {}
    BY <1>4, <1>6
  <2> QED
    BY <1>4, <1>6, <2>1, <2>2, <2>3 DEF GoodOrder
<1>8. split_tok' \in SplitHolding /\ split_tok'[Self] = split_tok[Self] + t
  BY <1>1, <1>2, <1>5, SplitIn
<1>9. split_tok[Self] \in Nat
  BY <1>2 DEF SplitHolding, Split!Accounts
<1>10. split_next_id' \in 0..MaxOrders /\ split_next_id <= split_next_id' /\ k < split_next_id'
  BY <1>1, <1>2, <1>3, SplitFacts
<1>11. /\ split_order' = [split_order EXCEPT ![k] = o]
       /\ split_released' = [split_released EXCEPT ![k] = 0]
       /\ split_remaining' = [split_remaining EXCEPT ![k] = t]
       /\ split_tok'[Self] = split_tok[Self] + t - split_remaining[k]
  BY <1>1, <1>2, <1>3, <1>5, <1>8, <1>9
<1> QED
  BY <1>1, <1>5, <1>6, <1>7, <1>8, <1>10, <1>11, SplitWrite

\* The anchor's only leg is paid what the contract still owes it.
LEMMA SettleKeepsInv ==
  ASSUME SplitInv, NEW a \in SplitAnchors, NEW id \in Split!Ids, Split!settle_leg(a, id)
  PROVE  SplitInv'
<1> DEFINE o == split_order[id]
           l == o.legs
           m == [i \in DOMAIN l |-> IF i \in Split!LegsOf(id, a)
                                    THEN [l[i] EXCEPT !.status = "Settled"] ELSE l[i]]
           n == Split!Settled(id, a)
<1>1. /\ o # None /\ o.status = "Open" /\ Split!LegsOf(id, a) # {}
      /\ \A i \in Split!LegsOf(id, a) : l[i].status = "Pending"
      /\ Split!CanMove(split_tok, Self, l[Split!Max(Split!LegsOf(id, a))].amount)
      /\ split_tok' = Split!Move(split_tok, Self, a, l[Split!Max(Split!LegsOf(id, a))].amount)
      /\ split_released' = [split_released EXCEPT ![id] = @ + l[Split!Max(Split!LegsOf(id, a))].amount]
      /\ split_remaining' = [split_remaining EXCEPT ![id] = @ - l[Split!Max(Split!LegsOf(id, a))].amount]
      /\ split_order' = [split_order EXCEPT ![id] = n]
      /\ UNCHANGED <<split_now, split_initialized, split_next_id>>
  BY DEF Split!settle_leg, Split!HasOrder
<1>2. /\ split_tok \in SplitHolding /\ split_next_id \in 0..MaxOrders
      /\ split_order \in [Split!Ids -> Split!Order \cup {None}]
      /\ split_released \in [Split!Ids -> Nat] /\ split_remaining \in [Split!Ids -> Nat]
  BY DEF SplitInv
<1>3. o \in Split!Order /\ GoodOrder(o, split_released[id], split_remaining[id]) /\ id < split_next_id
  <2>1. id \in Int /\ split_next_id \in Int
    BY <1>2, SplitFacts
  <2>2. id < split_next_id
    BY <1>1, <2>1 DEF SplitInv
  <2> QED
    BY <1>1, <1>2, <2>2 DEF SplitInv
<1>4. /\ l \in Seq(Split!Leg) /\ o.total_amount \in Nat /\ o.deadline \in Nat /\ o.sender \in SplitSenders
  BY <1>3, OrderFields
<1>5. /\ Len(l) \in Nat /\ DOMAIN l = 1..Len(l)
      /\ \A i \in DOMAIN l : l[i] \in Split!Leg /\ l[i].amount \in Nat /\ l[i].status \in Split!LegStatus
  BY <1>4, LegsDomain
<1>6. PICK k \in DOMAIN l : Split!LegsOf(id, a) = {k} /\ l[k].anchor = a
  <2>1. PICK k \in Split!LegsOf(id, a) : TRUE
    BY <1>1
  <2>2. k \in DOMAIN l /\ l[k].anchor = a
    BY <2>1 DEF Split!LegsOf
  <2>3. \A i \in Split!LegsOf(id, a) : i = k
    BY <1>3, <2>2 DEF Split!LegsOf, GoodOrder
  <2> QED
    BY <2>1, <2>2, <2>3
<1>7. Split!Max(Split!LegsOf(id, a)) = k
  <2>1. k \in Int
    BY <1>5, <1>6
  <2>2. \A z : z \in {k} /\ (\A y \in {k} : z >= y) <=> z = k
    BY <2>1
  <2> QED
    BY <1>6, <2>2 DEF Split!Max
<1>8. l[k].status = "Pending" /\ l[k].amount \in Nat
  BY <1>1, <1>5, <1>6
<1>9. /\ m \in [DOMAIN l -> Split!Leg] /\ m[k].status = "Settled" /\ m[k].amount = l[k].amount
      /\ m[k].anchor = l[k].anchor
      /\ \A i \in DOMAIN l : i # k => m[i] = l[i]
  <2>1. \A i \in DOMAIN l : m[i] = IF i = k THEN [l[i] EXCEPT !.status = "Settled"] ELSE l[i]
    BY <1>6
  <2>2. \A i \in DOMAIN l : l[i] \in [anchor : SplitAnchors, amount : Nat, status : Split!LegStatus]
    BY <1>5 DEF Split!Leg
  <2>3. \A i \in DOMAIN l : m[i] \in Split!Leg
    BY <2>1, <2>2 DEF Split!Leg, Split!LegStatus
  <2> QED
    BY <2>1, <2>2, <2>3
<1>10. m \in Seq(Split!Leg) /\ DOMAIN m = DOMAIN l
  BY <1>4, <1>9, SameDomainIsLegs
<1>11. n = [o EXCEPT !.legs = m,
                     !.status = IF \A i \in DOMAIN m : m[i].status = "Settled" THEN "Completed" ELSE @]
  BY DEF Split!Settled
<1> HIDE DEF m, n
<1>12. /\ n \in Split!Order /\ n.legs = m /\ n.total_amount = o.total_amount
       /\ n.status = IF \A i \in DOMAIN m : m[i].status = "Settled" THEN "Completed" ELSE "Open"
  BY <1>1, <1>3, <1>10, <1>11 DEF Split!Order, Split!OrderStatus
<1> DEFINE x == l[k].amount
<1>13. /\ LegTotal(m, Split!LegStatus) = LegTotal(l, Split!LegStatus)
       /\ LegTotal(m, {"Settled"}) = LegTotal(l, {"Settled"}) + x
       /\ LegTotal(m, {"Pending"}) = LegTotal(l, {"Pending"}) - x
       /\ x <= LegTotal(l, {"Pending"})
  BY <1>4, <1>8, <1>9, <1>10, SettleOneLeg
<1>14. /\ split_released[id] = LegTotal(l, {"Settled"}) /\ split_remaining[id] = LegTotal(l, {"Pending"})
       /\ LegTotal(l, Split!LegStatus) = o.total_amount
       /\ \A i, j \in DOMAIN l : l[i].anchor = l[j].anchor => i = j
       /\ \A i \in DOMAIN l : l[i].status # "Refunded"
  BY <1>1, <1>3 DEF GoodOrder
<1>15. split_released[id] + x \in Nat /\ split_remaining[id] - x \in Nat
  BY <1>2, <1>8, <1>13, <1>14
<1>16. GoodOrder(n, split_released[id] + x, split_remaining[id] - x)
  <2>1. \A i \in DOMAIN m : m[i].anchor = l[i].anchor
    BY <1>9, <1>10
  <2>2. \A i, j \in DOMAIN m : m[i].anchor = m[j].anchor => i = j
    BY <1>10, <1>14, <2>1
  <2>3. \A i \in DOMAIN m : m[i].status # "Refunded"
    BY <1>9, <1>10, <1>14
  <2>4. /\ n.status = "Completed" <=> \A i \in DOMAIN m : m[i].status = "Settled"
        /\ n.status = "Open" => \A i \in DOMAIN m : m[i].status # "Refunded"
    BY <1>12, <2>3
  <2> QED
    BY <1>12, <1>13, <1>14, <2>2, <2>4 DEF GoodOrder
<1>17. split_tok' \in SplitHolding /\ split_tok'[Self] = split_tok[Self] - x
  BY <1>1, <1>2, <1>7, <1>8, SplitOut
<1>18. /\ split_released' = [split_released EXCEPT ![id] = split_released[id] + x]
       /\ split_remaining' = [split_remaining EXCEPT ![id] = split_remaining[id] - x]
  BY <1>1, <1>7
<1>19. split_tok[Self] \in Nat /\ split_remaining[id] \in Nat
  BY <1>2 DEF SplitHolding, Split!Accounts
<1>20. split_tok'[Self] = split_tok[Self] + (split_remaining[id] - x) - split_remaining[id]
  BY <1>8, <1>17, <1>19
<1>21. /\ split_next_id' \in 0..MaxOrders /\ split_next_id <= split_next_id' /\ id < split_next_id'
       /\ split_order' = [split_order EXCEPT ![id] = n] /\ UNCHANGED <<split_now, split_initialized>>
  BY <1>1, <1>2, <1>3
<1> QED
  BY <1>12, <1>15, <1>16, <1>17, <1>18, <1>20, <1>21, SplitWrite

\* The sender takes back exactly what the pending legs had left.
LEMMA RefundKeepsInv ==
  ASSUME SplitInv, NEW s \in SplitSenders, NEW id \in Split!Ids, Split!refund_unsettled(s, id)
  PROVE  SplitInv'
<1> DEFINE o == split_order[id]
           l == o.legs
           m == [i \in DOMAIN l |-> IF l[i].status = "Pending"
                                    THEN [l[i] EXCEPT !.status = "Refunded"] ELSE l[i]]
           n == Split!Refunded(id)
           x == split_remaining[id]
<1>1. /\ o # None /\ o.status = "Open" /\ x > 0
      /\ Split!CanMove(split_tok, Self, x)
      /\ split_tok' = Split!Move(split_tok, Self, s, x)
      /\ split_order' = [split_order EXCEPT ![id] = n]
      /\ split_remaining' = [split_remaining EXCEPT ![id] = 0]
      /\ UNCHANGED <<split_now, split_initialized, split_released, split_next_id>>
  BY DEF Split!refund_unsettled, Split!HasOrder
<1>2. /\ split_tok \in SplitHolding /\ split_next_id \in 0..MaxOrders
      /\ split_order \in [Split!Ids -> Split!Order \cup {None}]
      /\ split_released \in [Split!Ids -> Nat] /\ split_remaining \in [Split!Ids -> Nat]
  BY DEF SplitInv
<1>3. o \in Split!Order /\ GoodOrder(o, split_released[id], x) /\ id < split_next_id
  <2>1. id \in Int /\ split_next_id \in Int
    BY <1>2, SplitFacts
  <2>2. id < split_next_id
    BY <1>1, <2>1 DEF SplitInv
  <2> QED
    BY <1>1, <1>2, <2>2 DEF SplitInv
<1>4. l \in Seq(Split!Leg)
  BY <1>3, OrderFields
<1>5. \A i \in DOMAIN l : l[i] \in [anchor : SplitAnchors, amount : Nat, status : Split!LegStatus]
  BY <1>4, LegsDomain DEF Split!Leg
<1>6. /\ m \in [DOMAIN l -> Split!Leg]
      /\ \A i \in DOMAIN l : /\ m[i].amount = l[i].amount /\ m[i].anchor = l[i].anchor
                             /\ l[i].status = "Pending" => m[i].status = "Refunded"
                             /\ l[i].status # "Pending" => m[i].status = l[i].status
  BY <1>5 DEF Split!Leg, Split!LegStatus
<1>7. m \in Seq(Split!Leg) /\ DOMAIN m = DOMAIN l
  BY <1>4, <1>6, SameDomainIsLegs
<1>8. n = [o EXCEPT !.status = "Refunded", !.legs = m]
  BY DEF Split!Refunded
<1> HIDE DEF m, n
<1>9. n \in Split!Order /\ n.legs = m /\ n.total_amount = o.total_amount /\ n.status = "Refunded"
  BY <1>3, <1>7, <1>8 DEF Split!Order, Split!OrderStatus
<1>10. /\ LegTotal(m, Split!LegStatus) = LegTotal(l, Split!LegStatus)
       /\ LegTotal(m, {"Settled"}) = LegTotal(l, {"Settled"})
       /\ LegTotal(m, {"Pending"}) = 0
  BY <1>4, <1>6, <1>7, RefundLegs
<1>11. /\ split_released[id] = LegTotal(l, {"Settled"}) /\ x = LegTotal(l, {"Pending"})
       /\ LegTotal(l, Split!LegStatus) = o.total_amount
       /\ \A i, j \in DOMAIN l : l[i].anchor = l[j].anchor => i = j
  BY <1>3 DEF GoodOrder
<1>12. x \in Nat /\ split_released[id] \in Nat /\ split_tok[Self] \in Nat
  BY <1>2 DEF SplitHolding, Split!Accounts
<1>13. PICK k \in DOMAIN l : l[k].status = "Pending"
  <2>1. LegTotal(l, {"Pending"}) # 0
    BY <1>1, <1>11, <1>12
  <2> QED
    BY <1>4, <2>1, PendingLegExists
<1>14. GoodOrder(n, split_released[id], 0)
  <2>1. \A i, j \in DOMAIN m : m[i].anchor = m[j].anchor => i = j
    BY <1>6, <1>7, <1>11
  <2>2. ~ \A i \in DOMAIN m : m[i].status = "Settled"
    BY <1>6, <1>7, <1>13
  <2> QED
    BY <1>9, <1>10, <1>11, <2>1, <2>2 DEF GoodOrder
<1>15. split_tok' \in SplitHolding /\ split_tok'[Self] = split_tok[Self] + 0 - split_remaining[id]
  <2>1. split_tok' \in SplitHolding /\ split_tok'[Self] = split_tok[Self] - x
    BY <1>1, <1>2, <1>12, SplitOut
  <2> QED
    BY <1>12, <2>1
<1>16. split_released' = [split_released EXCEPT ![id] = split_released[id]]
  BY <1>1, <1>2
<1>17. /\ split_next_id' \in 0..MaxOrders /\ split_next_id <= split_next_id' /\ id < split_next_id'
       /\ split_order' = [split_order EXCEPT ![id] = n]
       /\ split_remaining' = [split_remaining EXCEPT ![id] = 0]
       /\ UNCHANGED <<split_now, split_initialized>>
  BY <1>1, <1>2, <1>3
<1> QED
  BY <1>9, <1>12, <1>14, <1>15, <1>16, <1>17, SplitWrite

LEMMA SplitStep ==
  ASSUME DistinctLists
  PROVE  SplitInv /\ [Split!Next]_splitVars => SplitInv'
<1> SUFFICES ASSUME SplitInv, [Split!Next]_splitVars PROVE SplitInv'
  OBVIOUS
<1>1. CASE Split!Tick
  <2>1. split_now' \in 0..SplitTime
    BY <1>1, SplitFacts DEF Split!Tick, SplitInv
  <2> QED
    BY <1>1, <2>1 DEF Split!Tick, SplitInv
<1>2. CASE Split!initialize
  <2>1. split_initialized' \in BOOLEAN
    BY <1>2, Zenon DEF Split!initialize
  <2> QED
    BY <1>2, <2>1 DEF Split!initialize, SplitInv
<1>3. ASSUME NEW s \in SplitSenders, NEW t \in Totals, NEW d \in SplitLists,
             Split!create_split_order(s, t, d)
      PROVE  SplitInv'
  BY <1>3, CreateKeepsInv
<1>4. ASSUME NEW a \in SplitAnchors, NEW id \in Split!Ids, Split!settle_leg(a, id) PROVE SplitInv'
  BY <1>4, SettleKeepsInv
<1>5. ASSUME NEW s \in SplitSenders, NEW id \in Split!Ids, Split!refund_unsettled(s, id) PROVE SplitInv'
  BY <1>5, RefundKeepsInv
<1>6. CASE UNCHANGED splitVars
  BY <1>6 DEF splitVars, SplitInv
<1> QED
  BY <1>1, <1>2, <1>3, <1>4, <1>5, <1>6 DEF Split!Next

LEMMA SplitIsPart == MCSpec => Split!Spec
<1>1. MCInit => Split!Init
  BY DEF MCInit
<1>2. [MCNext]_allVars => [Split!Next]_Split!vars
  BY DEF MCNext, allVars, splitVars, Split!vars
<1> QED
  BY <1>1, <1>2, PTL DEF MCSpec, Split!Spec

LEMMA SplitAlways ==
  ASSUME DistinctLists
  PROVE  Split!Spec => []SplitInv
<1>1. SplitInv /\ [Split!Next]_Split!vars => SplitInv'
  BY SplitStep DEF Split!vars, splitVars
<1> QED
  BY <1>1, SplitInit, PTL DEF Split!Spec

LEMMA EscrowIsPart == MCSpec => Spec
<1>1. MCInit => Init
  BY DEF MCInit
<1>2. [MCNext]_allVars => [Next]_vars
  BY DEF MCNext, allVars
<1> QED
  BY <1>1, <1>2, PTL DEF MCSpec, Spec

-----------------------------------------------------------------------------

\* The books of all three contracts are square in every reachable state, for any
\* parties, amounts, shares, bonds and windows and any number of remittances, as
\* long as no split order names an anchor twice.
THEOREM BooksAreSquare ==
  ASSUME DistinctLists
  PROVE  MCSpec => []BooksSquare
<1>1. TypeOK /\ BooksBalance /\ AnchoredInv /\ SplitInv => BooksSquare
  BY SplitInvSquares DEF AnchoredInv, BooksSquare, TypesOK
<1> QED
  BY <1>1, EscrowIsPart, TypesHold, EscrowBooksBalance, AnchoredIsPart, AnchoredAlways,
     SplitIsPart, SplitAlways, PTL

\* What a settlement takes out of an order goes to the anchor that settled.
LEMMA SettlementPaysAnchor ==
  ASSUME SplitInv, NEW a \in SplitAnchors, NEW k \in Split!Ids, Split!settle_leg(a, k)
  PROVE  /\ \A id \in Split!Ids : id # k => split_remaining'[id] = split_remaining[id]
         /\ split_tok'[a] - split_tok[a] = split_remaining[k] - split_remaining'[k]
<1> DEFINE x == split_order[k].legs[Split!Max(Split!LegsOf(k, a))].amount
<1>1. /\ split_order[k] # None /\ Split!LegsOf(k, a) # {}
      /\ Split!CanMove(split_tok, Self, x)
      /\ split_tok' = Split!Move(split_tok, Self, a, x)
      /\ split_remaining' = [split_remaining EXCEPT ![k] = @ - x]
  BY DEF Split!settle_leg, Split!HasOrder
<1>2. /\ split_tok \in SplitHolding /\ split_remaining \in [Split!Ids -> Nat]
      /\ split_order[k] \in Split!Order /\ GoodOrder(split_order[k], split_released[k], split_remaining[k])
  BY <1>1 DEF SplitInv
<1> DEFINE l == split_order[k].legs
<1>3. l \in Seq(Split!Leg)
  BY <1>2, OrderFields
<1>4. DOMAIN l \subseteq Int /\ \A i \in DOMAIN l : l[i].amount \in Nat
  <2>1. Len(l) \in Nat /\ DOMAIN l = 1..Len(l) /\ \A i \in DOMAIN l : l[i].amount \in Nat
    BY <1>3, LegsDomain
  <2> QED
    BY <2>1
<1>5. PICK j \in DOMAIN l : Split!LegsOf(k, a) = {j}
  <2>1. PICK j \in Split!LegsOf(k, a) : TRUE
    BY <1>1
  <2>2. \A i \in Split!LegsOf(k, a) : i = j
    BY <1>2, <2>1 DEF Split!LegsOf, GoodOrder
  <2>3. j \in DOMAIN l
    BY <2>1 DEF Split!LegsOf
  <2> QED
    BY <2>1, <2>2, <2>3
<1>6. Split!Max(Split!LegsOf(k, a)) = j
  <2>1. j \in Int
    BY <1>4
  <2>2. \A z : z \in {j} /\ (\A y \in {j} : z >= y) <=> z = j
    BY <2>1
  <2> QED
    BY <1>5, <2>2 DEF Split!Max
<1>7. x \in Nat
  BY <1>4, <1>5, <1>6
<1> HIDE DEF x
<1>8. split_tok'[a] = split_tok[a] + x
  BY <1>1, <1>2, <1>7, SplitOut
<1>9. split_tok[a] \in Nat /\ split_remaining[k] \in Nat
  BY <1>2 DEF SplitHolding, Split!Accounts
<1>10. /\ split_remaining'[k] = split_remaining[k] - x
       /\ \A id \in Split!Ids : id # k => split_remaining'[id] = split_remaining[id]
  BY <1>1, <1>2
<1> QED
  BY <1>7, <1>8, <1>9, <1>10

\* Until its window has ended, what leaves a split order is paid to one of its
\* anchors: neither the sender nor another order can touch it.
THEOREM AnchorsKeepTheirWindow ==
  ASSUME DistinctLists
  PROVE  MCSpec => Split!AnchorsHaveTheirWindow
<1> DEFINE Safe ==
      \A id \in Split!Ids :
        /\ Split!HasOrder(id) /\ split_now < split_order[id].deadline
        /\ split_remaining'[id] < split_remaining[id]
        => \E a \in SplitAnchors :
             split_tok'[a] - split_tok[a] = split_remaining[id] - split_remaining'[id]
<1>1. SplitInv /\ [Split!Next]_Split!vars => [Safe]_Split!vars
  <2> SUFFICES ASSUME SplitInv, Split!Next,
                      NEW id \in Split!Ids, Split!HasOrder(id),
                      split_now < split_order[id].deadline,
                      split_remaining'[id] < split_remaining[id]
               PROVE  \E a \in SplitAnchors :
                        split_tok'[a] - split_tok[a] = split_remaining[id] - split_remaining'[id]
    BY Zenon DEF Split!vars
  <2>0. split_remaining \in [Split!Ids -> Nat] /\ split_remaining[id] \in Nat
    BY DEF SplitInv
  <2>1. ASSUME split_remaining'[id] = split_remaining[id] PROVE FALSE
    BY <2>0, <2>1
  <2>2. CASE Split!Tick \/ Split!initialize
    BY <2>1, <2>2 DEF Split!Tick, Split!initialize
  <2>3. ASSUME NEW s \in SplitSenders, NEW t \in Totals, NEW d \in SplitLists,
               Split!create_split_order(s, t, d)
        PROVE  FALSE
    <3>1. /\ split_next_id \in Split!Ids
          /\ split_remaining' = [split_remaining EXCEPT ![split_next_id] = t]
      BY <2>3 DEF Split!create_split_order
    <3>2. split_order[split_next_id] = None
      BY <3>1, SplitFacts DEF SplitInv
    <3>3. id # split_next_id
      BY <3>2 DEF Split!HasOrder
    <3> QED
      BY <2>0, <2>1, <3>1, <3>3
  <2>4. ASSUME NEW a \in SplitAnchors, NEW k \in Split!Ids, Split!settle_leg(a, k)
        PROVE  split_tok'[a] - split_tok[a] = split_remaining[id] - split_remaining'[id]
    BY <2>1, <2>4, SettlementPaysAnchor
  <2>5. ASSUME NEW s \in SplitSenders, NEW k \in Split!Ids, Split!refund_unsettled(s, k)
        PROVE  FALSE
    <3>1. /\ Split!HasOrder(k) /\ split_now >= split_order[k].deadline
          /\ split_remaining' = [split_remaining EXCEPT ![k] = 0]
      BY <2>5 DEF Split!refund_unsettled
    <3>2. split_now \in Int /\ split_order[k].deadline \in Int
      <4>1. split_order[k] \in Split!Order
        BY <3>1 DEF SplitInv, Split!HasOrder
      <4> QED
        BY <4>1, OrderFields, SplitFacts DEF SplitInv
    <3>3. id # k
      BY <3>1, <3>2
    <3> QED
      BY <2>0, <2>1, <3>1, <3>3
  <2> QED
    BY <2>2, <2>3, <2>4, <2>5 DEF Split!Next
<1> QED
  BY <1>1, SplitIsPart, SplitAlways, PTL DEF Split!Spec, Split!AnchorsHaveTheirWindow
=============================================================================
