-------------------------- MODULE PoolFactoryProofs --------------------------
(***************************************************************************)
(* The registry, the counter and the stage of PoolFactory, for any number  *)
(* of pools, of timelocks and of transfers.                                *)
(***************************************************************************)
EXTENDS PoolFactory, FiniteSetTheorems, TLAPS

-----------------------------------------------------------------------------
(* Types *)

\* What the removal leaves of the list: the last entry in the place of the removed one.
LEMMA SwapRemoved ==
  ASSUME NEW S, NEW s \in Seq(S), NEW i \in 1..Len(s)
  PROVE  LET t == SubSeq([s EXCEPT ![i] = s[Len(s)]], 1, Len(s) - 1)
         IN  /\ t \in Seq(S)
             /\ Len(t) = Len(s) - 1
             /\ \A j \in 1..(Len(s) - 1) : t[j] = IF j = i THEN s[Len(s)] ELSE s[j]
<1> DEFINE u == [s EXCEPT ![i] = s[Len(s)]]
<1>1. Len(s) \in Nat /\ Len(s) >= 1 /\ Len(s) \in 1..Len(s)
  OBVIOUS
<1>2. u \in Seq(S) /\ Len(u) = Len(s)
  BY <1>1
<1>3. \A j \in 1..Len(s) : u[j] = IF j = i THEN s[Len(s)] ELSE s[j]
  BY <1>1
<1> HIDE DEF u
<1>4. SubSeq(u, 1, Len(s) - 1) \in Seq(S)
  BY <1>1, <1>2
<1>5. Len(SubSeq(u, 1, Len(s) - 1)) = Len(s) - 1
  BY <1>1, <1>2
<1>6. \A j \in 1..(Len(s) - 1) : SubSeq(u, 1, Len(s) - 1)[j] = u[j]
  BY <1>1, <1>2
<1> QED BY <1>1, <1>3, <1>4, <1>5, <1>6 DEF u

\* The list of a wider registry
LEMMA SeqWiden ==
  ASSUME NEW S, NEW T, S \subseteq T, NEW s \in Seq(S)
  PROVE  s \in Seq(T)
  OBVIOUS

\* Every pool of the registry is an id of the model.
LEMMA PoolsAreIds ==
  ASSUME TypeOK
  PROVE  Pools \subseteq PoolIds
  BY FactoryAssumption DEF TypeOK, Pools, PoolIds

RegistryInv == TypeOK /\ RegistryExact

\* Creation keeps the registry exact: the new pool is on no list yet.
LEMMA CreateKeeps ==
  ASSUME RegistryInv, CreatePool
  PROVE  RegistryInv'
<1> DEFINE n == Len(activePools)
<1>1. n \in Nat /\ activePools \in Seq(Pools) /\ poolCount \in Nat /\ poolCount + 1 \in PoolIds
  BY FactoryAssumption DEF RegistryInv, TypeOK, CreatePool, PoolIds
<1>2. Pools' = Pools \cup {poolCount + 1}
  BY <1>1 DEF Pools, CreatePool
<1>3. activePools' \in Seq(Pools')
  BY <1>1, <1>2, SeqWiden DEF CreatePool
<1>4. /\ Len(activePools') = n + 1
      /\ activePools'[n + 1] = poolCount + 1
      /\ \A i \in 1..n : activePools'[i] = activePools[i]
  BY <1>1 DEF CreatePool
<1>5. \A i \in 1..n : activePools[i] \in Pools /\ activePools[i] # poolCount + 1
  BY <1>1 DEF Pools
<1>6. TypeOK'
  <2>1. poolCount' \in 0..MaxPools
    BY <1>1, FactoryAssumption DEF CreatePool, PoolIds
  <2>2. activePoolIndexPlusOne' \in [PoolIds -> Nat]
    BY <1>1 DEF CreatePool, RegistryInv, TypeOK
  <2>3. gov' \in [PoolIds -> PoolGovernance]
    BY <1>1 DEF CreatePool, RegistryInv, TypeOK, PoolGovernance, Addresses
  <2> QED BY <1>3, <2>1, <2>2, <2>3 DEF CreatePool, RegistryInv, TypeOK, factoryVars
<1>7. \A i \in 1..Len(activePools') : activePoolIndexPlusOne'[activePools'[i]] = i
  <2> TAKE i \in 1..Len(activePools')
  <2>1. CASE i = n + 1
    BY <2>1, <1>1, <1>4 DEF CreatePool, RegistryInv, TypeOK
  <2>2. CASE i \in 1..n
    <3>1. activePools[i] \in PoolIds
      BY <2>2, <1>5, PoolsAreIds DEF RegistryInv
    <3> QED BY <2>2, <3>1, <1>4, <1>5 DEF CreatePool, RegistryInv, TypeOK, RegistryExact
  <2> QED BY <2>1, <2>2, <1>1, <1>4
<1>8. ASSUME NEW p \in PoolIds, IsPoolActive(p)'
      PROVE  /\ activePoolIndexPlusOne'[p] \in 1..Len(activePools')
             /\ activePools'[activePoolIndexPlusOne'[p]] = p
  <2>1. CASE p = poolCount + 1
    BY <2>1, <1>1, <1>4 DEF CreatePool, RegistryInv, TypeOK
  <2>2. CASE p # poolCount + 1
    BY <2>2, <1>1, <1>4, <1>8 DEF CreatePool, RegistryInv, TypeOK, RegistryExact, IsPoolActive
  <2> QED BY <2>1, <2>2
<1>9. Len(activePools') <= maxActivePools'
  BY <1>1, <1>4 DEF CreatePool, RegistryInv, TypeOK
<1> QED BY <1>6, <1>7, <1>8, <1>9 DEF RegistryInv, RegistryExact

\* Retirement keeps the registry exact: only the last pool moves, and its index with it.
LEMMA RetireKeeps ==
  ASSUME RegistryInv, NEW q \in PoolIds, RetirePool(q)
  PROVE  RegistryInv'
<1> DEFINE n == Len(activePools)
           k == activePoolIndexPlusOne[q]
           last == activePools[n]
<1>1. /\ activePools \in Seq(Pools) /\ n \in Nat
      /\ k \in 1..n /\ activePools[k] = q
      /\ n >= 1 /\ n \in 1..n
  BY DEF RetirePool, RegistryInv, TypeOK, RegistryExact, IsPoolActive
<1>2. last \in PoolIds /\ activePoolIndexPlusOne[last] = n
  BY <1>1, PoolsAreIds DEF RegistryInv, RegistryExact
<1>3. /\ activePools' \in Seq(Pools)
      /\ Len(activePools') = n - 1
      /\ \A j \in 1..(n - 1) : activePools'[j] = IF j = k THEN last ELSE activePools[j]
  BY <1>1, SwapRemoved DEF RetirePool, RemoveActivePool
<1>4. activePoolIndexPlusOne' = [activePoolIndexPlusOne EXCEPT ![last] = k, ![q] = 0]
  BY DEF RetirePool, RemoveActivePool
<1>5. activePoolIndexPlusOne' \in [PoolIds -> Nat]
  <2>1. activePoolIndexPlusOne \in [PoolIds -> Nat] /\ k \in Nat
    BY <1>1 DEF RegistryInv, TypeOK
  <2> QED BY <2>1, <1>4
<1>6. \A p \in PoolIds :
        activePoolIndexPlusOne'[p] = IF p = q THEN 0
                                     ELSE IF p = last THEN k ELSE activePoolIndexPlusOne[p]
  <2>1. activePoolIndexPlusOne \in [PoolIds -> Nat]
    BY DEF RegistryInv, TypeOK
  <2> HIDE DEF last, k
  <2> QED BY <2>1, <1>4
<1>7. UNCHANGED <<poolCount, maxActivePools, gov, staging, governanceTimelock,
                  pendingGovernanceTimelock, transfer>>
  BY DEF RetirePool, factoryVars
<1>8. TypeOK'
  BY <1>3, <1>5, <1>7 DEF RegistryInv, TypeOK, Pools
<1> HIDE DEF last, k, n
<1>9. ASSUME NEW i \in 1..(n - 1)
      PROVE  activePoolIndexPlusOne'[activePools'[i]] = i
  <2>1. CASE i = k
    <3>1. last # q
      BY <2>1, <1>1, <1>2 DEF k
    <3> QED BY <2>1, <3>1, <1>2, <1>3, <1>6
  <2>2. CASE i # k
    <3>1. i \in 1..n /\ activePools[i] \in PoolIds /\ activePoolIndexPlusOne[activePools[i]] = i
      BY <1>1, PoolsAreIds DEF RegistryInv, RegistryExact, n
    <3>2. activePools[i] # q /\ activePools[i] # last
      BY <2>2, <3>1, <1>1, <1>2 DEF k
    <3> QED BY <2>2, <3>1, <3>2, <1>3, <1>6
  <2> QED BY <2>1, <2>2
<1>10. ASSUME NEW p \in PoolIds, IsPoolActive(p)'
       PROVE  /\ activePoolIndexPlusOne'[p] \in 1..(n - 1)
              /\ activePools'[activePoolIndexPlusOne'[p]] = p
  <2>1. p # q
    BY <1>10, <1>6 DEF IsPoolActive
  <2>2. CASE p = last
    <3>1. k # n
      BY <2>1, <2>2, <1>1 DEF last
    <3> QED BY <2>1, <2>2, <3>1, <1>1, <1>3, <1>6
  <2>3. CASE p # last
    <3>1. activePoolIndexPlusOne'[p] = activePoolIndexPlusOne[p]
      BY <2>1, <2>3, <1>6
    <3>2. /\ activePoolIndexPlusOne[p] \in 1..n
          /\ activePools[activePoolIndexPlusOne[p]] = p
      BY <3>1, <1>10 DEF RegistryInv, RegistryExact, IsPoolActive, n
    <3>3. activePoolIndexPlusOne[p] # n /\ activePoolIndexPlusOne[p] # k
      BY <2>1, <2>3, <3>2, <1>1 DEF last
    <3> QED BY <3>1, <3>2, <3>3, <1>1, <1>3
  <2> QED BY <2>2, <2>3
<1>11. Len(activePools') <= maxActivePools'
  BY <1>1, <1>3, <1>7 DEF RegistryInv, RegistryExact, TypeOK, n
<1> QED BY <1>3, <1>8, <1>9, <1>10, <1>11 DEF RegistryInv, RegistryExact

-----------------------------------------------------------------------------
(* The counter *)

\* No pool is marked for an epoch to come.
StagingOld == \A p \in PoolIds : staging[p].epoch <= transfer.epoch

FactoryInv == RegistryInv /\ StagingOld /\ RemainingExact

\* The pools that the transfer to target has still to stage
Unmarked(target) == {p \in Pools : ~MarkedFor(p, target)}

LEMMA PoolsFinite ==
  ASSUME TypeOK
  PROVE  IsFiniteSet(Pools) /\ Cardinality(Pools) = poolCount
<1>1. poolCount \in Nat
  BY FactoryAssumption DEF TypeOK
<1>2. CASE poolCount = 0
  <2>1. Pools = {}
    BY <1>2 DEF Pools
  <2> QED BY <1>2, <2>1, FS_EmptySet
<1>3. CASE poolCount # 0
  BY <1>1, <1>3, FS_Interval DEF Pools
<1> QED BY <1>2, <1>3

\* Staging a set of pools takes away those the counter had not counted.
LEMMA UnmarkedLess ==
  ASSUME NEW S, IsFiniteSet(S), NEW T, T \subseteq S
  PROVE  /\ Cardinality(S) \in Nat /\ Cardinality(T) \in Nat
         /\ Cardinality(T) <= Cardinality(S)
         /\ Cardinality(S \ T) = Cardinality(S) - Cardinality(T)
<1>1. S \cap T = T
  OBVIOUS
<1>2. IsFiniteSet(T) /\ Cardinality(T) <= Cardinality(S)
  BY FS_Subset
<1> QED BY <1>1, <1>2, FS_Difference, FS_CardinalityType

\* Cancelling a set of marked pools gives them back.
LEMMA UnmarkedMore ==
  ASSUME NEW S, IsFiniteSet(S), NEW T, IsFiniteSet(T), S \cap T = {}
  PROVE  /\ Cardinality(S) \in Nat /\ Cardinality(T) \in Nat
         /\ Cardinality(S \cup T) = Cardinality(S) + Cardinality(T)
<1>1. Cardinality(S) \in Nat /\ Cardinality(T) \in Nat
  BY FS_CardinalityType
<1>2. Cardinality(S \cap T) = 0
  BY FS_EmptySet
<1>3. Cardinality(S \cup T) = Cardinality(S) + Cardinality(T) - Cardinality(S \cap T)
  BY FS_Union
<1> QED BY <1>1, <1>2, <1>3

\* A transfer whose count changes, and nothing else
LEMMA CountChanged ==
  ASSUME NEW A, NEW r \in [epoch : Nat, target : A, remaining : Nat], NEW n \in Nat
  PROVE  /\ [r EXCEPT !.remaining = n] \in [epoch : Nat, target : A, remaining : Nat]
         /\ [r EXCEPT !.remaining = n].epoch = r.epoch
         /\ [r EXCEPT !.remaining = n].target = r.target
         /\ [r EXCEPT !.remaining = n].remaining = n
  OBVIOUS

\* A step that touches neither the registry, nor the transfer, nor the stages
LEMMA RegistryUntouched ==
  ASSUME RegistryInv, TypeOK', UNCHANGED registryVars
  PROVE  RegistryInv'
  BY DEF RegistryInv, RegistryExact, IsPoolActive, registryVars

LEMMA CounterUntouched ==
  ASSUME FactoryInv, UNCHANGED <<staging, transfer, pendingGovernanceTimelock, poolCount>>
  PROVE  StagingOld' /\ RemainingExact'
  BY DEF FactoryInv, StagingOld, RemainingExact, MarkedFor, Pools

\* A new transfer starts, or one is cancelled: every pool is to be staged again.
LEMMA TrackingKeeps ==
  ASSUME FactoryInv, NEW new \in Addresses,
         \/ new # NoTimelock /\ SetGovernanceTimelock(new)
         \/ new = NoTimelock /\ CancelGovernanceTimelockTransfer
  PROVE  FactoryInv'
<1>1. TypeOK /\ StagingOld /\ transfer.epoch \in Nat /\ poolCount \in Nat
  BY FactoryAssumption DEF FactoryInv, RegistryInv, TypeOK
<1>2. /\ pendingGovernanceTimelock' = new
      /\ transfer' = [epoch |-> transfer.epoch + 1, target |-> new,
                      remaining |-> IF new = NoTimelock THEN 0 ELSE poolCount]
      /\ UNCHANGED <<governanceTimelock, registryVars, gov, staging>>
  BY DEF SetGovernanceTimelock, CancelGovernanceTimelockTransfer, StartTracking,
         ClearTracking, NewEpoch
<1>3. TypeOK'
  BY <1>1, <1>2 DEF TypeOK, registryVars, Pools
<1>4. RegistryInv'
  BY <1>2, <1>3, RegistryUntouched DEF FactoryInv
<1>5. \A p \in PoolIds : staging[p].epoch \in Nat /\ staging[p].epoch <= transfer.epoch
  BY <1>1 DEF TypeOK, StagingOld
<1>6. StagingOld'
  BY <1>1, <1>2, <1>5 DEF StagingOld
<1>7. RemainingExact'
  <2>1. \A p \in PoolIds : staging'[p].epoch # transfer'.epoch
    BY <1>1, <1>2, <1>5
  <2>2. {p \in Pools' : ~MarkedFor(p, pendingGovernanceTimelock)'} = Pools
    BY <2>1, <1>1, <1>2, PoolsAreIds DEF MarkedFor, Pools, registryVars
  <2>3. Cardinality(Pools) = poolCount
    BY <1>1, PoolsFinite
  <2> QED BY <2>2, <2>3, <1>2 DEF RemainingExact
<1> QED BY <1>4, <1>6, <1>7 DEF FactoryInv

\* A page of pools is staged: the counter falls by those it had not counted.
LEMMA StartKeeps ==
  ASSUME FactoryInv, NEW offset \in Nat, NEW limit \in Nat,
         StartPoolTransfers(offset, limit)
  PROVE  FactoryInv'
<1> DEFINE target == pendingGovernanceTimelock
           page == Page(offset, limit)
           count == Cardinality(NewlyStaged(page))
<1>1. /\ TypeOK /\ StagingOld /\ transfer.epoch \in Nat
      /\ target \in Timelocks /\ target # NoTimelock
  BY DEF FactoryInv, RegistryInv, TypeOK, Addresses, StartPoolTransfers
<1>2. page \subseteq Pools /\ page \subseteq PoolIds
  BY <1>1, PoolsAreIds DEF Page
<1>3. /\ transfer.target = target
      /\ transfer.remaining = Cardinality(Unmarked(target))
  BY <1>1 DEF FactoryInv, RemainingExact, Unmarked
<1>4. IsFiniteSet(Unmarked(target)) /\ NewlyStaged(page) \subseteq Unmarked(target)
  BY <1>1, <1>2, PoolsFinite, FS_Subset DEF Unmarked, NewlyStaged
<1>5. /\ count \in Nat /\ transfer.remaining \in Nat /\ count <= transfer.remaining
      /\ Cardinality(Unmarked(target) \ NewlyStaged(page)) = transfer.remaining - count
  BY <1>3, <1>4, UnmarkedLess
<1>6. /\ transfer' = [transfer EXCEPT !.remaining = IF count < @ THEN @ - count ELSE 0]
      /\ staging' = [p \in PoolIds |->
           IF p \in page THEN [epoch |-> transfer.epoch, target |-> target] ELSE staging[p]]
      /\ gov' = [p \in PoolIds |->
           IF p \in page /\ gov[p].current # target
           THEN [gov[p] EXCEPT !.pending = target, !.staged = target] ELSE gov[p]]
      /\ UNCHANGED <<governanceTimelock, pendingGovernanceTimelock, registryVars>>
  BY DEF StartPoolTransfers
<1> HIDE DEF page, count
<1>7. transfer' = [transfer EXCEPT !.remaining = transfer.remaining - count]
  <2>1. (IF count < transfer.remaining THEN transfer.remaining - count ELSE 0)
          = transfer.remaining - count
    BY <1>5
  <2> QED BY <2>1, <1>6
<1>8. /\ transfer'.epoch = transfer.epoch /\ transfer'.target = transfer.target
      /\ transfer'.remaining = transfer.remaining - count
      /\ transfer' \in [epoch : Nat, target : Addresses, remaining : Nat]
  <2>1. transfer.remaining - count \in Nat
    BY <1>5
  <2>2. transfer \in [epoch : Nat, target : Addresses, remaining : Nat]
    BY <1>1 DEF TypeOK
  <2> QED BY <2>1, <2>2, <1>7, CountChanged
<1>9. staging' \in [PoolIds -> [epoch : Nat, target : Addresses]]
  BY <1>1, <1>6 DEF TypeOK, Addresses
<1>10. gov' \in [PoolIds -> PoolGovernance]
  <2>1. ASSUME NEW p \in PoolIds
        PROVE  /\ gov[p] \in PoolGovernance
               /\ [gov[p] EXCEPT !.pending = target, !.staged = target] \in PoolGovernance
    BY <1>1 DEF TypeOK, PoolGovernance, Addresses
  <2> HIDE DEF target
  <2> QED BY <2>1, <1>6
<1>11. TypeOK'
  BY <1>1, <1>6, <1>8, <1>9, <1>10 DEF TypeOK, registryVars, Pools
<1>12. RegistryInv'
  BY <1>6, <1>11, RegistryUntouched DEF FactoryInv
<1>13. StagingOld'
  <2> SUFFICES ASSUME NEW p \in PoolIds
               PROVE  staging'[p].epoch <= transfer'.epoch
    BY DEF StagingOld
  <2>1. staging[p].epoch <= transfer.epoch
    BY <1>1 DEF StagingOld
  <2>2. staging'[p] = IF p \in page THEN [epoch |-> transfer.epoch, target |-> target]
                      ELSE staging[p]
    BY <1>6
  <2>3. CASE p \in page
    BY <2>2, <2>3, <1>1, <1>8
  <2>4. CASE p \notin page
    BY <2>1, <2>2, <2>4, <1>8
  <2> QED BY <2>3, <2>4
<1>14. RemainingExact'
  <2>1. {p \in Pools : ~(staging'[p] = [epoch |-> transfer'.epoch, target |-> target])}
          = Unmarked(target) \ NewlyStaged(page)
    BY <1>1, <1>2, <1>6, <1>8, PoolsAreIds DEF Unmarked, NewlyStaged, MarkedFor
  <2>2. transfer'.remaining = Cardinality(
          {p \in Pools : ~(staging'[p] = [epoch |-> transfer'.epoch, target |-> target])})
    BY <2>1, <1>5, <1>8
  <2>3. Pools' = Pools /\ pendingGovernanceTimelock' = target
    BY <1>6 DEF Pools, registryVars
  <2> QED BY <2>2, <2>3, <1>3, <1>8 DEF RemainingExact, MarkedFor
<1> QED BY <1>12, <1>13, <1>14 DEF FactoryInv

\* A page is cancelled: the counter takes back those it had counted.
LEMMA CancelKeeps ==
  ASSUME FactoryInv, NEW offset \in Nat, NEW limit \in Nat, NEW expected \in Timelocks,
         CancelPoolTransfers(offset, limit, expected)
  PROVE  FactoryInv'
<1> DEFINE target == pendingGovernanceTimelock
           page == Page(offset, limit)
           again == CountedAgain(page, expected)
<1>1. TypeOK /\ StagingOld /\ transfer.epoch \in Nat /\ transfer.remaining \in Nat
  BY DEF FactoryInv, RegistryInv, TypeOK
<1>2. again \subseteq Pools /\ again \subseteq PoolIds
  BY <1>1, PoolsAreIds DEF Page, CountedAgain
<1>3. IsFiniteSet(again) /\ Cardinality(again) \in Nat
  BY <1>1, <1>2, PoolsFinite, FS_Subset, FS_CardinalityType
<1>4. /\ transfer' = [transfer EXCEPT !.remaining = @ + Cardinality(again)]
      /\ staging' = [p \in PoolIds |->
           IF p \in again THEN [epoch |-> 0, target |-> NoTimelock] ELSE staging[p]]
      /\ gov' = [p \in PoolIds |->
           IF p \in {q \in page : gov[q].pending = expected}
           THEN [gov[p] EXCEPT !.pending = NoTimelock, !.staged = NoTimelock] ELSE gov[p]]
      /\ UNCHANGED <<governanceTimelock, pendingGovernanceTimelock, registryVars>>
  BY DEF CancelPoolTransfers
<1>5. \A p \in again : MarkedFor(p, expected) /\ transfer.target = expected
  BY DEF CountedAgain
<1> HIDE DEF page, again
<1>6. /\ transfer'.epoch = transfer.epoch /\ transfer'.target = transfer.target
      /\ transfer'.remaining = transfer.remaining + Cardinality(again)
      /\ transfer' \in [epoch : Nat, target : Addresses, remaining : Nat]
  <2>1. transfer.remaining + Cardinality(again) \in Nat
    BY <1>1, <1>3
  <2>2. transfer \in [epoch : Nat, target : Addresses, remaining : Nat]
    BY <1>1 DEF TypeOK
  <2> QED BY <2>1, <2>2, <1>4, CountChanged
<1>7. staging' \in [PoolIds -> [epoch : Nat, target : Addresses]]
  BY <1>1, <1>4 DEF TypeOK, Addresses
<1>8. gov' \in [PoolIds -> PoolGovernance]
  <2>1. ASSUME NEW p \in PoolIds
        PROVE  /\ gov[p] \in PoolGovernance
               /\ [gov[p] EXCEPT !.pending = NoTimelock, !.staged = NoTimelock] \in PoolGovernance
    BY <1>1 DEF TypeOK, PoolGovernance, Addresses
  <2> QED BY <2>1, <1>4
<1>9. TypeOK'
  BY <1>1, <1>4, <1>6, <1>7, <1>8 DEF TypeOK, registryVars, Pools
<1>10. RegistryInv'
  BY <1>4, <1>9, RegistryUntouched DEF FactoryInv
<1>11. StagingOld'
  <2> SUFFICES ASSUME NEW p \in PoolIds
               PROVE  staging'[p].epoch <= transfer'.epoch
    BY DEF StagingOld
  <2>1. staging[p].epoch <= transfer.epoch
    BY <1>1 DEF StagingOld
  <2>2. staging'[p] = IF p \in again THEN [epoch |-> 0, target |-> NoTimelock] ELSE staging[p]
    BY <1>4
  <2>3. CASE p \in again
    BY <2>2, <2>3, <1>1, <1>6
  <2>4. CASE p \notin again
    BY <2>1, <2>2, <2>4, <1>6
  <2> QED BY <2>3, <2>4
<1>12. ASSUME target # NoTimelock
       PROVE  transfer'.remaining = Cardinality(
                {p \in Pools : ~(staging'[p] = [epoch |-> transfer'.epoch, target |-> target])})
  <2>1. /\ transfer.target = target
        /\ transfer.remaining = Cardinality(Unmarked(target))
    BY <1>12 DEF FactoryInv, RemainingExact, Unmarked
  <2>2. Unmarked(target) \cap again = {}
    BY <1>5, <2>1 DEF Unmarked
  <2>3. {p \in Pools : ~(staging'[p] = [epoch |-> transfer'.epoch, target |-> target])}
          = Unmarked(target) \cup again
    BY <1>1, <1>2, <1>4, <1>6, <1>12, PoolsAreIds DEF Unmarked, MarkedFor
  <2>4. IsFiniteSet(Unmarked(target))
    BY <1>1, PoolsFinite, FS_Subset DEF Unmarked
  <2> QED BY <2>1, <2>2, <2>3, <2>4, <1>3, <1>6, UnmarkedMore
<1>13. RemainingExact'
  <2>1. target # NoTimelock => transfer.target = target
    BY DEF FactoryInv, RemainingExact
  <2> QED BY <2>1, <1>4, <1>6, <1>12 DEF RemainingExact, MarkedFor, Pools, registryVars
<1> QED BY <1>10, <1>11, <1>13 DEF FactoryInv

\* A pool changes hands by its own functions, or by the factory's accepting page.
LEMMA GovKeeps ==
  ASSUME FactoryInv, gov' \in [PoolIds -> PoolGovernance],
         UNCHANGED <<factoryVars, registryVars, staging>>
  PROVE  FactoryInv'
<1>1. TypeOK'
  BY DEF FactoryInv, RegistryInv, TypeOK, factoryVars, registryVars, Pools
<1>2. RegistryInv'
  BY <1>1, RegistryUntouched DEF FactoryInv
<1> QED BY <1>2, CounterUntouched DEF FactoryInv, factoryVars, registryVars

LEMMA AcceptPageKeeps ==
  ASSUME FactoryInv, NEW offset \in Nat, NEW limit \in Nat,
         AcceptPoolTransfers(offset, limit)
  PROVE  FactoryInv'
<1>1. TypeOK
  BY DEF FactoryInv, RegistryInv
<1>2. [current |-> governanceTimelock, pending |-> NoTimelock, staged |-> NoTimelock]
        \in PoolGovernance
  BY <1>1 DEF TypeOK, PoolGovernance, Addresses
<1>3. \A p \in PoolIds : gov[p] \in PoolGovernance
  BY <1>1 DEF TypeOK
<1>4. gov' \in [PoolIds -> PoolGovernance]
  BY <1>2, <1>3 DEF AcceptPoolTransfers
<1> QED BY <1>4, GovKeeps DEF AcceptPoolTransfers

LEMMA PoolStepKeeps ==
  ASSUME FactoryInv, PoolNext
  PROVE  FactoryInv'
<1>1. TypeOK
  BY DEF FactoryInv, RegistryInv
<1>2. PICK p \in Pools :
        \/ \E new \in Timelocks : SetPoolGovernanceTimelock(p, new)
        \/ AcceptPoolGovernanceTimelock(p)
        \/ CancelPoolTransfer(p)
  BY DEF PoolNext
<1>3. p \in PoolIds /\ gov[p] \in PoolGovernance
  BY <1>1, <1>2, PoolsAreIds DEF TypeOK
<1>4. UNCHANGED <<factoryVars, registryVars, staging>>
  BY <1>2 DEF SetPoolGovernanceTimelock, AcceptPoolGovernanceTimelock, CancelPoolTransfer,
              OnlyPoolChanges
<1>5. \E g \in PoolGovernance : gov' = [gov EXCEPT ![p] = g]
  <2>1. ASSUME NEW new \in Timelocks, SetPoolGovernanceTimelock(p, new)
        PROVE  \E g \in PoolGovernance : gov' = [gov EXCEPT ![p] = g]
    <3> DEFINE g == [gov[p] EXCEPT !.pending = new,
                                   !.staged = IF @ = new THEN @ ELSE NoTimelock]
    <3>1. g \in PoolGovernance
      BY <1>3 DEF PoolGovernance, Addresses
    <3>2. gov' = [gov EXCEPT ![p] = g]
      BY <2>1, <1>1, <1>3 DEF SetPoolGovernanceTimelock, TypeOK, PoolGovernance
    <3> QED BY <3>1, <3>2
  <2>2. CASE AcceptPoolGovernanceTimelock(p)
    <3> DEFINE g == [gov[p] EXCEPT !.current = gov[p].pending, !.pending = NoTimelock]
    <3>1. g \in PoolGovernance
      BY <2>2, <1>3 DEF PoolGovernance, Addresses, AcceptPoolGovernanceTimelock
    <3>2. gov' = [gov EXCEPT ![p] = g]
      BY <2>2, <1>1, <1>3 DEF AcceptPoolGovernanceTimelock, TypeOK, PoolGovernance
    <3> QED BY <3>1, <3>2
  <2>3. CASE CancelPoolTransfer(p)
    <3> DEFINE g == [gov[p] EXCEPT !.pending = NoTimelock, !.staged = NoTimelock]
    <3>1. g \in PoolGovernance
      BY <1>3 DEF PoolGovernance, Addresses
    <3>2. gov' = [gov EXCEPT ![p] = g]
      BY <2>3, <1>1, <1>3 DEF CancelPoolTransfer, TypeOK, PoolGovernance
    <3> QED BY <3>1, <3>2
  <2> QED BY <1>2, <2>1, <2>2, <2>3
<1>6. gov' \in [PoolIds -> PoolGovernance]
  BY <1>1, <1>5 DEF TypeOK
<1> QED BY <1>4, <1>6, GovKeeps

LEMMA FactoryAccepts ==
  ASSUME FactoryInv, AcceptGovernanceTimelock
  PROVE  FactoryInv'
<1>1. /\ TypeOK /\ StagingOld
      /\ transfer \in [epoch : Nat, target : Addresses, remaining : Nat]
  BY DEF FactoryInv, RegistryInv, TypeOK
<1>2. /\ governanceTimelock' = pendingGovernanceTimelock
      /\ pendingGovernanceTimelock' = NoTimelock
      /\ transfer' = [transfer EXCEPT !.target = NoTimelock, !.remaining = 0]
      /\ UNCHANGED <<registryVars, gov, staging>>
  BY DEF AcceptGovernanceTimelock
<1>3. pendingGovernanceTimelock \in Timelocks
  BY <1>1 DEF AcceptGovernanceTimelock, TypeOK, Addresses
<1>4. /\ transfer' \in [epoch : Nat, target : Addresses, remaining : Nat]
      /\ transfer'.epoch = transfer.epoch
  BY <1>1, <1>2 DEF Addresses
<1>5. TypeOK'
  BY <1>1, <1>2, <1>3, <1>4 DEF TypeOK, registryVars, Pools, Addresses
<1>6. RegistryInv'
  BY <1>2, <1>5, RegistryUntouched DEF FactoryInv
<1>7. StagingOld'
  BY <1>1, <1>2, <1>4 DEF StagingOld
<1>8. RemainingExact'
  BY <1>2 DEF RemainingExact
<1> QED BY <1>6, <1>7, <1>8 DEF FactoryInv

LEMMA RegistryStepKeeps ==
  ASSUME FactoryInv, RegistryNext
  PROVE  FactoryInv'
<1>1. RegistryInv /\ TypeOK
  BY DEF FactoryInv, RegistryInv
<1>2. CASE CreatePool
  <2>1. RegistryInv'
    BY <1>1, <1>2, CreateKeeps
  <2>2. StagingOld' /\ RemainingExact'
    BY <1>2 DEF FactoryInv, CreatePool, StagingOld, RemainingExact, factoryVars
  <2> QED BY <2>1, <2>2 DEF FactoryInv
<1>3. ASSUME NEW p \in PoolIds, RetirePool(p)
      PROVE  FactoryInv'
  <2>1. RegistryInv'
    BY <1>1, <1>3, RetireKeeps
  <2>2. StagingOld' /\ RemainingExact'
    BY <1>3, CounterUntouched DEF RetirePool, factoryVars
  <2> QED BY <2>1, <2>2 DEF FactoryInv
<1>4. ASSUME NEW n \in 1..MAX_POOLS, SetMaxActivePools(n)
      PROVE  FactoryInv'
  <2>1. TypeOK'
    BY <1>1, <1>4 DEF SetMaxActivePools, TypeOK, factoryVars, Pools
  <2>2. RegistryExact'
    BY <1>1, <1>4 DEF SetMaxActivePools, RegistryInv, RegistryExact, IsPoolActive
  <2>3. StagingOld' /\ RemainingExact'
    BY <1>4, CounterUntouched DEF SetMaxActivePools, factoryVars
  <2> QED BY <2>1, <2>2, <2>3 DEF FactoryInv, RegistryInv
<1> QED BY <1>2, <1>3, <1>4 DEF RegistryNext

LEMMA FactoryStepKeeps ==
  ASSUME FactoryInv, FactoryNext
  PROVE  FactoryInv'
<1>1. ASSUME NEW new \in Timelocks, SetGovernanceTimelock(new)
      PROVE  FactoryInv'
  <2>1. new \in Addresses /\ new # NoTimelock
    BY FactoryAssumption DEF Addresses
  <2> QED BY <1>1, <2>1, TrackingKeeps
<1>2. CASE CancelGovernanceTimelockTransfer
  <2>1. NoTimelock \in Addresses
    BY DEF Addresses
  <2> QED BY <1>2, <2>1, TrackingKeeps
<1>3. CASE AcceptGovernanceTimelock
  BY <1>3, FactoryAccepts
<1>4. 0..MaxPools \subseteq Nat /\ 1..MaxPools \subseteq Nat
  BY FactoryAssumption
<1> QED BY <1>1, <1>2, <1>3, <1>4, StartKeeps, AcceptPageKeeps, CancelKeeps DEF FactoryNext

LEMMA StepKeeps ==
  ASSUME FactoryInv, [Next]_vars
  PROVE  FactoryInv'
<1>1. CASE UNCHANGED vars
  BY <1>1, GovKeeps DEF vars, FactoryInv, RegistryInv, TypeOK
<1> QED BY <1>1, RegistryStepKeeps, FactoryStepKeeps, PoolStepKeeps DEF Next

LEMMA InitHolds ==
  ASSUME Init
  PROVE  FactoryInv
<1>1. TypeOK
  BY FactoryAssumption DEF Init, TypeOK, PoolGovernance, Addresses, PoolIds, Pools
<1>2. RegistryExact
  BY FactoryAssumption DEF Init, RegistryExact, IsPoolActive
<1> QED BY <1>1, <1>2 DEF Init, FactoryInv, RegistryInv, StagingOld, RemainingExact

-----------------------------------------------------------------------------
(* The theorems *)

\* The inductive invariant: the registry, the stages no epoch can outrun, the counter.
THEOREM Invariance == Spec => []FactoryInv
<1>1. Init => FactoryInv
  BY InitHolds
<1>2. FactoryInv /\ [Next]_vars => FactoryInv'
  BY StepKeeps
<1> QED BY <1>1, <1>2, PTL DEF Spec

\* The factory's list of active pools and its index agree (SplitRiskPoolFactory.sol:1820-1836).
THEOREM RegistryIsExact == Spec => []RegistryExact
<1>1. FactoryInv => RegistryExact
  BY DEF FactoryInv, RegistryInv
<1> QED BY <1>1, Invariance, PTL

\* The cached counter of a transfer counts the pools still to be staged.
THEOREM RemainingIsExact == Spec => []RemainingExact
<1>1. FactoryInv => RemainingExact
  BY DEF FactoryInv
<1> QED BY <1>1, Invariance, PTL

\* Every variable keeps its type.
THEOREM TypeCorrect == Spec => []TypeOK
<1>1. FactoryInv => TypeOK
  BY DEF FactoryInv, RegistryInv
<1> QED BY <1>1, Invariance, PTL

\* One step cannot undo a stage behind the factory's back.
LEMMA StageStep ==
  ASSUME FactoryInv, [Next]_vars, NEW p \in Pools,
         pendingGovernanceTimelock # NoTimelock,
         LockedFor(p, pendingGovernanceTimelock),
         pendingGovernanceTimelock' = pendingGovernanceTimelock
  PROVE  \/ LockedFor(p, pendingGovernanceTimelock)'
         \/ ~MarkedFor(p, pendingGovernanceTimelock)'
         \/ gov'[p].current = pendingGovernanceTimelock
<1> DEFINE target == pendingGovernanceTimelock
           Kept == \/ LockedFor(p, target)'
                   \/ ~MarkedFor(p, target)'
                   \/ gov'[p].current = target
<1>1. /\ TypeOK /\ target \in Timelocks /\ p \in PoolIds
      /\ gov[p] \in PoolGovernance
      /\ transfer.target = target
      /\ pendingGovernanceTimelock' = target
  BY PoolsAreIds DEF FactoryInv, RegistryInv, TypeOK, Addresses, RemainingExact
<1>2. gov[p].pending = target /\ gov[p].staged = target /\ MarkedFor(p, target)
  BY DEF LockedFor
<1>3. ASSUME gov'[p] = gov[p], staging'[p] = staging[p], transfer'.epoch = transfer.epoch
      PROVE  Kept
  BY <1>1, <1>2, <1>3 DEF LockedFor, MarkedFor
<1>4. CASE UNCHANGED vars
  BY <1>3, <1>4 DEF vars, factoryVars
<1>5. CASE RegistryNext
  <2>1. CASE CreatePool
    BY <2>1, <1>1 DEF CreatePool
  <2>2. UNCHANGED <<gov, staging, factoryVars>> => Kept
    BY <1>3 DEF factoryVars
  <2> QED BY <1>5, <2>1, <2>2 DEF RegistryNext, RetirePool, SetMaxActivePools
<1>6. CASE FactoryNext
  <2>1. ASSUME NEW new \in Timelocks, SetGovernanceTimelock(new)
        PROVE  Kept
    <3>1. transfer'.epoch = transfer.epoch + 1 /\ staging' = staging /\ transfer.epoch \in Nat
      BY <2>1, <1>1 DEF SetGovernanceTimelock, StartTracking, NewEpoch, TypeOK
    <3> QED BY <3>1, <1>1, <1>2 DEF MarkedFor
  <2>2. CASE CancelGovernanceTimelockTransfer \/ AcceptGovernanceTimelock
    BY <2>2, <1>1 DEF CancelGovernanceTimelockTransfer, AcceptGovernanceTimelock
  <2>3. ASSUME NEW offset, NEW limit, StartPoolTransfers(offset, limit)
        PROVE  Kept
    <3>1. transfer'.epoch = transfer.epoch
      BY <2>3, <1>1 DEF StartPoolTransfers, TypeOK
    <3>2. staging'[p] = staging[p]
      BY <2>3, <1>1, <1>2 DEF StartPoolTransfers, MarkedFor
    <3>3. gov'[p] = gov[p]
      BY <2>3, <1>1, <1>2 DEF StartPoolTransfers, PoolGovernance
    <3> QED BY <3>1, <3>2, <3>3, <1>3
  <2>4. ASSUME NEW offset, NEW limit, AcceptPoolTransfers(offset, limit)
        PROVE  Kept
    <3>1. CASE gov'[p] = gov[p]
      BY <2>4, <3>1, <1>3 DEF AcceptPoolTransfers, factoryVars
    <3>2. CASE gov'[p] # gov[p]
      BY <2>4, <3>2, <1>1, <1>2 DEF AcceptPoolTransfers
    <3> QED BY <3>1, <3>2
  <2>5. ASSUME NEW offset, NEW limit, NEW expected \in Timelocks,
               CancelPoolTransfers(offset, limit, expected)
        PROVE  Kept
    <3>1. transfer'.epoch = transfer.epoch
      BY <2>5, <1>1 DEF CancelPoolTransfers, TypeOK
    <3>2. CASE p \in CountedAgain(Page(offset, limit), expected)
      <4>1. staging'[p] = [epoch |-> 0, target |-> NoTimelock]
        BY <2>5, <3>2, <1>1 DEF CancelPoolTransfers
      <4> QED BY <4>1, <1>1 DEF MarkedFor
    <3>3. CASE p \notin CountedAgain(Page(offset, limit), expected)
      <4>1. staging'[p] = staging[p]
        BY <2>5, <3>3, <1>1 DEF CancelPoolTransfers
      <4>2. p \notin {q \in Page(offset, limit) : gov[q].pending = expected}
        BY <3>3, <1>1, <1>2 DEF CountedAgain
      <4>3. gov'[p] = gov[p]
        BY <2>5, <4>2, <1>1 DEF CancelPoolTransfers
      <4> QED BY <4>1, <4>3, <3>1, <1>3
    <3> QED BY <3>2, <3>3
  <2> QED BY <1>6, <2>1, <2>2, <2>3, <2>4, <2>5 DEF FactoryNext
<1>7. CASE PoolNext
  <2>1. PICK q \in Pools :
          \/ \E new \in Timelocks : SetPoolGovernanceTimelock(q, new)
          \/ AcceptPoolGovernanceTimelock(q)
          \/ CancelPoolTransfer(q)
    BY <1>7 DEF PoolNext
  <2>2. UNCHANGED <<factoryVars, staging>> /\ transfer'.epoch = transfer.epoch
    BY <2>1 DEF SetPoolGovernanceTimelock, AcceptPoolGovernanceTimelock, CancelPoolTransfer,
                OnlyPoolChanges, factoryVars
  <2>3. CASE q # p
    <3>1. gov'[p] = gov[p]
      BY <2>1, <2>3, <1>1 DEF TypeOK, SetPoolGovernanceTimelock, AcceptPoolGovernanceTimelock,
                              CancelPoolTransfer
    <3> QED BY <3>1, <2>2, <1>3
  <2>4. CASE q = p
    <3>1. FactoryStaged(q)
      BY <2>4, <1>1, <1>2, FactoryAssumption DEF FactoryStaged
    <3>2. PICK new \in Timelocks : SetPoolGovernanceTimelock(q, new)
      BY <2>1, <3>1 DEF AcceptPoolGovernanceTimelock, CancelPoolTransfer
    <3>3. new = target
      BY <3>2, <1>1, FactoryAssumption DEF SetPoolGovernanceTimelock
    <3>4. gov'[p].pending = target /\ gov'[p].staged = target
      BY <3>2, <3>3, <2>4, <1>1, <1>2 DEF SetPoolGovernanceTimelock, TypeOK, PoolGovernance
    <3> QED BY <3>4, <2>2, <1>1, <1>2 DEF LockedFor, MarkedFor
  <2> QED BY <2>3, <2>4
<1> QED BY <1>4, <1>5, <1>6, <1>7 DEF Next

\* What the factory staged, only the factory takes back while its transfer goes on.
THEOREM StageIsHeld == Spec => StageHolds
<1>1. FactoryInv /\ [Next]_vars =>
        [\A p \in Pools :
           /\ pendingGovernanceTimelock # NoTimelock
           /\ LockedFor(p, pendingGovernanceTimelock)
           /\ pendingGovernanceTimelock' = pendingGovernanceTimelock
           => \/ LockedFor(p, pendingGovernanceTimelock)'
              \/ ~MarkedFor(p, pendingGovernanceTimelock)'
              \/ gov'[p].current = pendingGovernanceTimelock]_vars
  BY StageStep
<1> QED BY <1>1, Invariance, PTL DEF Spec, StageHolds
=============================================================================
