----------------------------- MODULE PoolFactory -----------------------------
(***************************************************************************)
(* SplitRiskPoolFactory.sol and the governance part of SplitRiskPool.sol:  *)
(* the registry of active pools, and the hand-over of governance to a new  *)
(* timelock, which the factory stages and completes pool by pool, a page   *)
(* at a time, while each pool also has a hand-over of its own.             *)
(*                                                                         *)
(* A pool is the position at which pools holds it, from 1.  A timelock     *)
(* here is one that _validateGovernanceTimelock accepts as a successor of  *)
(* any other (same implementation, same role holders).                     *)
(***************************************************************************)
EXTENDS Naturals, Sequences, FiniteSets

CONSTANTS
  Timelocks,     \* the timelocks that may govern
  FirstTimelock, \* the one the factory is initialised with
  NoTimelock,    \* address(0)
  MAX_POOLS,     \* MAX_POOLS, the bound of maxActivePools
  MaxPools,      \* bound of the model: pools ever created
  MaxEpoch       \* bound of the model: transfers ever started or cancelled

ASSUME FactoryAssumption ==
  /\ FirstTimelock \in Timelocks
  /\ NoTimelock \notin Timelocks
  /\ MAX_POOLS \in Nat \ {0}
  /\ MaxPools \in Nat
  /\ MaxEpoch \in Nat

VARIABLES
  governanceTimelock, pendingGovernanceTimelock,     \* the factory's
  transfer,       \* _governancePoolTransferEpoch, _pendingGovernancePool...
  poolCount,      \* pools.length
  activePools, activePoolIndexPlusOne, maxActivePools,
  gov,            \* per pool: its timelock, the pending one, the factory-staged one
  staging         \* per pool: _poolGovernanceTransferEpoch and ...Target

factoryVars == <<governanceTimelock, pendingGovernanceTimelock, transfer>>
registryVars == <<poolCount, activePools, activePoolIndexPlusOne, maxActivePools>>
vars == <<factoryVars, registryVars, gov, staging>>

Addresses == Timelocks \cup {NoTimelock}
PoolIds == 1..MaxPools
Pools == 1..poolCount

PoolGovernance == [current : Timelocks, pending : Addresses, staged : Addresses]

TypeOK ==
  /\ governanceTimelock \in Timelocks
  /\ pendingGovernanceTimelock \in Addresses
  /\ transfer \in [epoch : Nat, target : Addresses, remaining : Nat]
  /\ poolCount \in 0..MaxPools
  /\ activePools \in Seq(Pools)
  /\ activePoolIndexPlusOne \in [PoolIds -> Nat]
  /\ maxActivePools \in 1..MAX_POOLS
  /\ gov \in [PoolIds -> PoolGovernance]
  /\ staging \in [PoolIds -> [epoch : Nat, target : Addresses]]

Init ==
  /\ governanceTimelock = FirstTimelock
  /\ pendingGovernanceTimelock = NoTimelock
  /\ transfer = [epoch |-> 0, target |-> NoTimelock, remaining |-> 0]
  /\ poolCount = 0
  /\ activePools = << >>
  /\ activePoolIndexPlusOne = [p \in PoolIds |-> 0]
  /\ maxActivePools = MAX_POOLS
  /\ gov = [p \in PoolIds |-> [current |-> FirstTimelock, pending |-> NoTimelock,
                               staged |-> NoTimelock]]
  /\ staging = [p \in PoolIds |-> [epoch |-> 0, target |-> NoTimelock]]

-----------------------------------------------------------------------------
(* The registry of active pools *)

\* isPoolActive, which the code keeps in step with the index
IsPoolActive(p) == activePoolIndexPlusOne[p] # 0

\* _createPool, whose parameters and bond are not modelled
CreatePool ==
  /\ pendingGovernanceTimelock = NoTimelock
  /\ Len(activePools) < maxActivePools
  /\ poolCount < MaxPools
  /\ poolCount' = poolCount + 1
  /\ activePools' = Append(activePools, poolCount + 1)
  /\ activePoolIndexPlusOne' =
       [activePoolIndexPlusOne EXCEPT ![poolCount + 1] = Len(activePools) + 1]
  /\ gov' = [gov EXCEPT ![poolCount + 1] =
               [current |-> governanceTimelock, pending |-> NoTimelock, staged |-> NoTimelock]]
  /\ UNCHANGED <<factoryVars, maxActivePools, staging>>

\* Variant that moves the last pool and leaves its index as it was.
RemoveActivePoolKeepingIndex(p) ==
  LET index == activePoolIndexPlusOne[p]
      last  == activePools[Len(activePools)]
  IN  /\ activePools' = SubSeq([activePools EXCEPT ![index] = last], 1, Len(activePools) - 1)
      /\ activePoolIndexPlusOne' = [activePoolIndexPlusOne EXCEPT ![p] = 0]

\* _removeActivePool: the last pool takes the place of the one that leaves.
RemoveActivePool(p) ==
  LET index == activePoolIndexPlusOne[p]
      last  == activePools[Len(activePools)]
  IN  /\ activePools' = SubSeq([activePools EXCEPT ![index] = last], 1, Len(activePools) - 1)
      /\ activePoolIndexPlusOne' =
           [activePoolIndexPlusOne EXCEPT ![last] = index, ![p] = 0]

\* deactivatePool, deactivateDustPool, deactivateProtectorOnlyPool, closePool, closePoolTo:
\* the pool's own conditions are those of the pool's model.
RetirePool(p) ==
  /\ p \in Pools /\ IsPoolActive(p)
  /\ RemoveActivePool(p)
  /\ UNCHANGED <<factoryVars, poolCount, maxActivePools, gov, staging>>

SetMaxActivePools(n) ==
  /\ n \in 1..MAX_POOLS /\ n >= Len(activePools)
  /\ maxActivePools' = n
  /\ UNCHANGED <<factoryVars, poolCount, activePools, activePoolIndexPlusOne, gov, staging>>

-----------------------------------------------------------------------------
(* The factory's hand-over *)

NewEpoch(target, remaining) ==
  [epoch |-> transfer.epoch + 1, target |-> target, remaining |-> remaining]

\* Variant that keeps the epoch of the transfer before it.
StartTrackingInSameEpoch(target) ==
  [transfer EXCEPT !.target = target, !.remaining = poolCount]

\* _startPoolGovernanceTransferTracking, _clearPoolGovernanceTransferTracking
StartTracking(target) == NewEpoch(target, poolCount)
ClearTracking == NewEpoch(NoTimelock, 0)

SetGovernanceTimelock(new) ==
  /\ transfer.epoch < MaxEpoch
  /\ pendingGovernanceTimelock' = new
  /\ transfer' = StartTracking(new)
  /\ UNCHANGED <<governanceTimelock, registryVars, gov, staging>>

CancelGovernanceTimelockTransfer ==
  /\ transfer.epoch < MaxEpoch
  /\ pendingGovernanceTimelock # NoTimelock
  /\ pendingGovernanceTimelock' = NoTimelock
  /\ transfer' = ClearTracking
  /\ UNCHANGED <<governanceTimelock, registryVars, gov, staging>>

\* _trackedPoolGovernanceTransfersRemaining
TrackedRemaining ==
  IF pendingGovernanceTimelock = NoTimelock THEN 0
  ELSE IF transfer.target # pendingGovernanceTimelock THEN poolCount
  ELSE transfer.remaining

\* acceptGovernanceTimelock, which only the pending timelock calls
AcceptGovernanceTimelock ==
  /\ TrackedRemaining = 0
  /\ pendingGovernanceTimelock # NoTimelock
  /\ governanceTimelock' = pendingGovernanceTimelock
  /\ pendingGovernanceTimelock' = NoTimelock
  /\ transfer' = [transfer EXCEPT !.target = NoTimelock, !.remaining = 0]
  /\ UNCHANGED <<registryVars, gov, staging>>

\* The pools from offset on, at most limit of them (_poolPageEnd)
Page(offset, limit) == {p \in Pools : offset < p /\ p <= offset + limit}

\* Staged in the present transfer (the first test of _markPoolGovernanceTransferStaged)
MarkedFor(p, target) == staging[p] = [epoch |-> transfer.epoch, target |-> target]

\* The pools of a page that the counter has not counted yet
NewlyStaged(page) == {p \in page : ~MarkedFor(p, pendingGovernanceTimelock)}

\* startPoolGovernanceTimelockTransfers, with the pools' setGovernanceTimelockFromFactory.
\* The transfer is tracked already: target = pending is SetGovernanceTimelock's doing.
StartPoolTransfers(offset, limit) ==
  LET page  == Page(offset, limit)
      count == Cardinality(NewlyStaged(page))
  IN  /\ pendingGovernanceTimelock # NoTimelock
      /\ transfer.target = pendingGovernanceTimelock
      /\ gov' = [p \in PoolIds |->
           IF p \in page /\ gov[p].current # pendingGovernanceTimelock
           THEN [gov[p] EXCEPT !.pending = pendingGovernanceTimelock,
                               !.staged = pendingGovernanceTimelock]
           ELSE gov[p]]
      /\ staging' = [p \in PoolIds |->
           IF p \in page THEN [epoch |-> transfer.epoch, target |-> pendingGovernanceTimelock]
           ELSE staging[p]]
      /\ transfer' = [transfer EXCEPT !.remaining = IF count < @ THEN @ - count ELSE 0]
      /\ UNCHANGED <<governanceTimelock, pendingGovernanceTimelock, registryVars>>

\* acceptPoolGovernanceTimelockTransfers, with the pools' acceptGovernanceTimelockFromFactory:
\* one pool out of step reverts the page.
AcceptPoolTransfers(offset, limit) ==
  LET page == Page(offset, limit)
  IN  /\ \A p \in page : governanceTimelock \in {gov[p].current, gov[p].pending}
      /\ gov' = [p \in PoolIds |->
           IF p \in page /\ gov[p].current # governanceTimelock
           THEN [current |-> governanceTimelock, pending |-> NoTimelock, staged |-> NoTimelock]
           ELSE gov[p]]
      /\ UNCHANGED <<factoryVars, registryVars, staging>>

\* The pools of a page whose cancellation the counter takes back
CountedAgain(page, expected) ==
  {p \in page : gov[p].pending = expected /\ transfer.target = expected /\ MarkedFor(p, expected)}

\* cancelPoolGovernanceTimelockTransfers, with the pools' cancelGovernanceTimelockFromFactory,
\* which reverts for a pool the factory did not stage.
CancelPoolTransfers(offset, limit, expected) ==
  LET page    == Page(offset, limit)
      pending == {p \in page : gov[p].pending = expected}
      again   == CountedAgain(page, expected)
  IN  /\ \A p \in pending : gov[p].staged = expected
      /\ gov' = [p \in PoolIds |->
           IF p \in pending THEN [gov[p] EXCEPT !.pending = NoTimelock, !.staged = NoTimelock]
           ELSE gov[p]]
      /\ staging' = [p \in PoolIds |->
           IF p \in again THEN [epoch |-> 0, target |-> NoTimelock] ELSE staging[p]]
      /\ transfer' = [transfer EXCEPT !.remaining = @ + Cardinality(again)]
      /\ UNCHANGED <<governanceTimelock, pendingGovernanceTimelock, registryVars>>

-----------------------------------------------------------------------------
(* A pool's own hand-over, called by its timelock or its pending one *)

FactoryStaged(p) == gov[p].pending # NoTimelock /\ gov[p].staged = gov[p].pending

OnlyPoolChanges == UNCHANGED <<factoryVars, registryVars, staging>>

\* setGovernanceTimelock: while the factory is in transfer only to the same timelock
SetPoolGovernanceTimelock(p, new) ==
  /\ pendingGovernanceTimelock \in {NoTimelock, new}
  /\ gov' = [gov EXCEPT ![p].pending = new,
                        ![p].staged = IF @ = new THEN @ ELSE NoTimelock]
  /\ OnlyPoolChanges

AcceptPoolGovernanceTimelock(p) ==
  /\ ~FactoryStaged(p)
  /\ gov[p].pending # NoTimelock
  /\ gov' = [gov EXCEPT ![p].current = gov[p].pending, ![p].pending = NoTimelock]
  /\ OnlyPoolChanges

\* Variant that does not ask who staged the transfer.
CancelPoolTransferAnyway(p) ==
  /\ gov[p].pending # NoTimelock
  /\ gov' = [gov EXCEPT ![p].pending = NoTimelock, ![p].staged = NoTimelock]
  /\ OnlyPoolChanges

CancelPoolTransfer(p) ==
  /\ ~FactoryStaged(p)
  /\ gov[p].pending # NoTimelock
  /\ gov' = [gov EXCEPT ![p].pending = NoTimelock, ![p].staged = NoTimelock]
  /\ OnlyPoolChanges

-----------------------------------------------------------------------------
RegistryNext ==
  \/ CreatePool
  \/ \E p \in PoolIds : RetirePool(p)
  \/ \E n \in 1..MAX_POOLS : SetMaxActivePools(n)

FactoryNext ==
  \/ \E new \in Timelocks : SetGovernanceTimelock(new)
  \/ CancelGovernanceTimelockTransfer
  \/ AcceptGovernanceTimelock
  \/ \E offset \in 0..MaxPools, limit \in 1..MaxPools :
       \/ StartPoolTransfers(offset, limit)
       \/ AcceptPoolTransfers(offset, limit)
       \/ \E expected \in Timelocks : CancelPoolTransfers(offset, limit, expected)

PoolNext ==
  \E p \in Pools :
    \/ \E new \in Timelocks : SetPoolGovernanceTimelock(p, new)
    \/ AcceptPoolGovernanceTimelock(p)
    \/ CancelPoolTransfer(p)

Next == RegistryNext \/ FactoryNext \/ PoolNext

Spec == Init /\ [][Next]_vars

-----------------------------------------------------------------------------
(* Properties *)

(***************************************************************************)
(* However pools are created, retired and moved about in activePools, the  *)
(* index finds each active pool, no pool is listed twice, and the list     *)
(* stays within the cap that governance may move under it.                 *)
(***************************************************************************)
RegistryExact ==
  /\ \A i \in 1..Len(activePools) : activePoolIndexPlusOne[activePools[i]] = i
  /\ \A p \in PoolIds : IsPoolActive(p) =>
       /\ activePoolIndexPlusOne[p] \in 1..Len(activePools)
       /\ activePools[activePoolIndexPlusOne[p]] = p
  /\ Len(activePools) <= maxActivePools

(***************************************************************************)
(* While the factory is in transfer, the cached counter is the number of   *)
(* pools not staged for it, in whatever pages and however often governance *)
(* stages and cancels them, and whichever transfers came before.           *)
(***************************************************************************)
RemainingExact ==
  pendingGovernanceTimelock # NoTimelock =>
    /\ transfer.target = pendingGovernanceTimelock
    /\ transfer.remaining =
         Cardinality({p \in Pools : ~MarkedFor(p, pendingGovernanceTimelock)})

\* Staged by the factory for the transfer it is in, and counted
LockedFor(p, target) ==
  gov[p].pending = target /\ gov[p].staged = target /\ MarkedFor(p, target)

(***************************************************************************)
(* A pool the factory staged stays staged for as long as the transfer goes *)
(* on, unless the factory takes it out of the count again or the pool has  *)
(* the new timelock: the pool's own functions cannot undo what             *)
(* acceptGovernanceTimelock will rely on.                                  *)
(***************************************************************************)
StageHolds ==
  [][\A p \in Pools :
       /\ pendingGovernanceTimelock # NoTimelock
       /\ LockedFor(p, pendingGovernanceTimelock)
       /\ pendingGovernanceTimelock' = pendingGovernanceTimelock
       => \/ LockedFor(p, pendingGovernanceTimelock)'
          \/ ~MarkedFor(p, pendingGovernanceTimelock)'
          \/ gov'[p].current = pendingGovernanceTimelock]_vars

(***************************************************************************)
(* SplitRiskPoolFactory.t.sol:1487: a pool's governance "CannotDriftDuring *)
(* FactoryGovernanceTransfer".  When the factory may accept, each pool has *)
(* the new timelock or waits for it.                                       *)
(***************************************************************************)
ReadyMeansPoolsFollow ==
  pendingGovernanceTimelock # NoTimelock /\ TrackedRemaining = 0 =>
    \A p \in Pools : pendingGovernanceTimelock \in {gov[p].current, gov[p].pending}
=============================================================================
