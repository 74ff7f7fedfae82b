--------------------------- MODULE DeploymentProofs ---------------------------
(***************************************************************************)
(* Proofs about Deployment, for any recipe, limits, confirmations and any  *)
(* number of processes, reorganisations and foreign transactions.          *)
(***************************************************************************)
EXTENDS Deployment, TLAPS

USE DeploymentAssumption

LEMMA IdleType == Idle \in Session /\ EmptyJournal \in Journal
<1>1. EmptyJournal \in Journal
  BY DEF EmptyJournal, Journal, Entry, Statuses, NoEntry, Tx
<1> QED
  BY <1>1 DEF Idle, Session, Stages, Steps

\* The pieces of a session that the actions replace.
LEMMA StageType ==
  ASSUME session \in [Procs -> Session], NEW p \in Procs, NEW stage \in Stages
  PROVE  [session EXCEPT ![p].stage = stage] \in [Procs -> Session]
BY DEF Session

LEMMA NonceType ==
  ASSUME session \in [Procs -> Session], NEW p \in Procs, NEW stage \in Stages, NEW n \in Nat,
         session' = [session EXCEPT ![p].nonce = n, ![p].stage = stage]
  PROVE  session' \in [Procs -> Session]
BY DEF Session

LEMMA BlockType ==
  ASSUME session \in [Procs -> Session], NEW p \in Procs, NEW stage \in Stages, NEW n \in Nat,
         session' = [session EXCEPT ![p].block = n, ![p].stage = stage]
  PROVE  session' \in [Procs -> Session]
BY DEF Session

LEMMA MemType ==
  ASSUME session \in [Procs -> Session], NEW p \in Procs, NEW stage \in Stages, NEW j \in Journal,
         session' = [session EXCEPT ![p].mem = j, ![p].stage = stage]
  PROVE  session' \in [Procs -> Session]
BY DEF Session

LEMMA StepType ==
  ASSUME session \in [Procs -> Session], NEW p \in Procs, NEW stage \in Stages, NEW j \in Journal,
         NEW k \in 1..StepCount + 1,
         session' = [session EXCEPT ![p].mem = j, ![p].step = k, ![p].stage = stage]
  PROVE  session' \in [Procs -> Session]
BY DEF Session

LEMMA EntryType ==
  ASSUME NEW j \in Journal, NEW s \in Steps, NEW e \in Entry
  PROVE  /\ [j EXCEPT !.entries[s] = e] \in Journal
         /\ j.entries[s] \in Entry
BY DEF Journal

LEMMA StatusType ==
  ASSUME NEW j \in Journal, NEW s \in Steps, NEW st \in Statuses, NEW n \in Nat
  PROVE  /\ [j EXCEPT !.entries[s].status = st] \in Journal
         /\ [j EXCEPT !.entries[s].status = st, !.entries[s].fork = n] \in Journal
         /\ [j EXCEPT !.complete = TRUE] \in Journal
BY DEF Journal, Entry

LEMMA RecordType ==
  ASSUME NEW j \in Journal, NEW s \in DeploySteps
  PROVE  [j EXCEPT !.contracts = @ \cup {s}] \in Journal
BY DEF Journal

LEMMA DeeperType ==
  ASSUME chain \in Seq(Block)
  PROVE  /\ Deeper(chain) \in Seq(Block)
         /\ Len(Deeper(chain)) = Len(chain)
         /\ \A i \in 1..Len(chain) :
              /\ Deeper(chain)[i].tx = chain[i].tx
              /\ Deeper(chain)[i].fork = chain[i].fork
              /\ Deeper(chain)[i].ok = chain[i].ok
              /\ Deeper(chain)[i].depth >= chain[i].depth
<1>1. \A i \in 1..Len(chain) : chain[i] \in Block
  OBVIOUS
<1>2. Deeper(chain) = [i \in 1..Len(chain) |-> [chain[i] EXCEPT !.depth =
                          IF @ < Confirmations THEN @ + 1 ELSE @]]
  BY DEF Deeper
<1>3. ASSUME NEW b \in Block
      PROVE  LET c == [b EXCEPT !.depth = IF @ < Confirmations THEN @ + 1 ELSE @] IN
               c \in Block /\ c.tx = b.tx /\ c.fork = b.fork /\ c.ok = b.ok /\ c.depth >= b.depth
  BY <1>3 DEF Block
<1>4. \A i \in 1..Len(chain) :
        /\ Deeper(chain)[i] \in Block
        /\ Deeper(chain)[i].tx = chain[i].tx
        /\ Deeper(chain)[i].fork = chain[i].fork
        /\ Deeper(chain)[i].ok = chain[i].ok
        /\ Deeper(chain)[i].depth >= chain[i].depth
  <2> TAKE i \in 1..Len(chain)
  <2>1. chain[i] \in Block
    BY <1>1
  <2>2. Deeper(chain)[i] = [chain[i] EXCEPT !.depth = IF @ < Confirmations THEN @ + 1 ELSE @]
    BY <1>2
  <2> QED
    BY <1>3, <2>1, <2>2
<1>5. Len(chain) \in Nat /\ DOMAIN Deeper(chain) = 1..Len(chain)
  BY <1>2
<1>6. Deeper(chain) \in [1..Len(chain) -> Block]
  BY <1>2, <1>4
<1>7. Deeper(chain) \in Seq(Block) /\ Len(Deeper(chain)) = Len(chain)
  BY <1>5, <1>6
<1> QED
  BY <1>4, <1>7

\* What the invariant says of a process that is working on a step.
LEMMA Working ==
  ASSUME DeploymentInv, NEW p \in Procs, ~At(p, "off"), ~At(p, "loading")
  PROVE  /\ lock = p
         /\ \A q \in Procs \ {p} : At(q, "off")
         /\ session[p].mem = disk
         /\ StageKnows(p) /\ StageSees(p)
         /\ ~At(p, "verifying") =>
              /\ session[p].step \in Steps
              /\ Current(p) = disk.entries[session[p].step]
              /\ Current(p) \in Entry
              /\ Current(p).tx \in Tx /\ Current(p).fork \in Nat
<1>1. session[p].step \in 1..StepCount + 1
  BY DEF DeploymentInv, TypeOK, Session
<1>2. lock = p /\ \A q \in Procs \ {p} : At(q, "off")
  BY DEF DeploymentInv, LockHeld
<1>3. session[p].mem = disk /\ StageKnows(p) /\ StageSees(p)
  BY DEF DeploymentInv, MemoryIsDisk, StagesSound, At
<1>4. ASSUME ~At(p, "verifying") PROVE session[p].step \in Steps
  BY <1>1, <1>3, <1>4 DEF StageKnows, At, Steps
<1>5. ASSUME NEW s \in Steps
      PROVE  disk.entries[s] \in Entry /\ disk.entries[s].tx \in Tx /\ disk.entries[s].fork \in Nat
  BY DEF DeploymentInv, TypeOK, Journal, Entry
<1> QED
  BY <1>2, <1>3, <1>4, <1>5 DEF Current

LEMMA TypeStep ==
  ASSUME DeploymentInv, [Next]_vars
  PROVE  TypeOK'
<1>a. TypeOK
  BY DEF DeploymentInv
<1> USE <1>a DEF TypeOK, network, At, Goto, Save
<1>b. \A p \in Procs : session[p] \in Session /\ session[p].step \in 1..StepCount + 1
  BY DEF Session
<1>c. \A i \in 1..Len(chain) : chain[i].tx \in Tx /\ chain[i].fork \in Nat
  <2>1. \A i \in 1..Len(chain) : chain[i] \in Block
    OBVIOUS
  <2> QED
    BY <2>1 DEF Block
<1>1. ASSUME NEW p \in Procs, NEW limits \in Limits, AcquireLock(p, limits) PROVE TypeOK'
  <2>1. [Idle EXCEPT !.stage = "loading", !.limits = limits] \in Session
    BY IdleType DEF Session, Stages
  <2> QED
    BY <1>1, <2>1 DEF AcquireLock
<1>2. ASSUME NEW p \in Procs, Load(p) PROVE TypeOK'
  <2>1. session' = [session EXCEPT ![p].mem = disk, ![p].stage = "next"]
    BY <1>2 DEF Load
  <2>2. session' \in [Procs -> Session]
    BY <2>1, MemType DEF Stages
  <2> QED
    BY <1>2, <2>2 DEF Load
<1>3. ASSUME NEW p \in Procs, Resume(p) PROVE TypeOK'
  BY <1>3, StageType DEF Resume, Stages
<1>4. ASSUME NEW p \in Procs, ReadLatestCount(p) PROVE TypeOK'
  <2>1. session' = [session EXCEPT ![p].nonce = Len(chain), ![p].stage = "counted"]
    BY <1>4 DEF ReadLatestCount
  <2>2. session' \in [Procs -> Session]
    <3>1. Len(chain) \in Nat
      OBVIOUS
    <3> QED
      BY <2>1, <3>1, NonceType DEF Stages
  <2> QED
    BY <1>4, <2>2 DEF ReadLatestCount
<1>5. ASSUME NEW p \in Procs, ReadPendingCount(p) PROVE TypeOK'
  BY <1>5, StageType DEF ReadPendingCount, Stages
<1>6. ASSUME NEW p \in Procs, NEW cost \in Costs, SignAndSave(p, cost) PROVE TypeOK'
  <2> DEFINE e == [status |-> "prepared", tx |-> Signed(p, cost), fork |-> 0]
             j == [session[p].mem EXCEPT !.entries[session[p].step] = e]
  <2>1. session[p].step \in Steps /\ session[p].mem \in Journal
    BY <1>6, Working DEF SignAndSave
  <2>2. session[p].nonce \in Nat
    BY <1>b DEF Session
  <2>3. e \in Entry
    BY <2>1, <2>2 DEF Entry, Statuses, Tx, Signed, Steps
  <2>4. j \in Journal
    BY <2>1, <2>3, EntryType
  <2>5. disk' = j /\ session' = [session EXCEPT ![p].mem = j, ![p].stage = "lookup"]
    BY <1>6 DEF SignAndSave
  <2>6. session' \in [Procs -> Session]
    BY <2>4, <2>5, MemType DEF Stages
  <2> QED
    BY <1>6, <2>4, <2>5, <2>6 DEF SignAndSave
<1>7. ASSUME NEW p \in Procs, LookupReceipt(p) PROVE TypeOK'
  BY <1>7, StageType DEF LookupReceipt, Stages
<1>8. ASSUME NEW p \in Procs, CheckBeforeSend(p) PROVE TypeOK'
  BY <1>8, StageType DEF CheckBeforeSend, Stages
<1>9. ASSUME NEW p \in Procs, Send(p) PROVE TypeOK'
  <2> DEFINE j == [session[p].mem EXCEPT !.entries[session[p].step].status = "submitted"]
  <2>1. session[p].step \in Steps /\ session[p].mem \in Journal /\ Current(p).tx \in Tx
    BY <1>9, Working DEF Send
  <2>2. j \in Journal
    BY <2>1, StatusType DEF Statuses
  <2>3. disk' = j /\ session' = [session EXCEPT ![p].mem = j, ![p].stage = "await"]
    BY <1>9 DEF Send
  <2>4. session' \in [Procs -> Session]
    BY <2>2, <2>3, MemType DEF Stages
  <2> QED
    BY <1>9, <2>1, <2>2, <2>3, <2>4 DEF Send, Give
<1>10. ASSUME NEW p \in Procs, WaiterReturns(p) PROVE TypeOK'
  BY <1>10, StageType DEF WaiterReturns, Stages
<1>11. ASSUME NEW p \in Procs, ReadReceipt(p) PROVE TypeOK'
  <2>1. Current(p).tx \in Tx
    BY <1>11, Working DEF ReadReceipt
  <2>2. BlockOf(Current(p).tx).fork \in Nat
    BY <1>11, <2>1, <1>c DEF ReadReceipt, Succeeded, OnChain, BlockOf, Tx
  <2>3. session' = [session EXCEPT ![p].block = BlockOf(Current(p).tx).fork, ![p].stage = "head"]
    BY <1>11 DEF ReadReceipt
  <2>4. session' \in [Procs -> Session]
    BY <2>2, <2>3, BlockType DEF Stages
  <2> QED
    BY <1>11, <2>4 DEF ReadReceipt
<1>12. ASSUME NEW p \in Procs, ReadHead(p) PROVE TypeOK'
  BY <1>12, StageType DEF ReadHead, Stages
<1>13. ASSUME NEW p \in Procs, ReadFreshReceipt(p) PROVE TypeOK'
  <2> DEFINE j == [session[p].mem EXCEPT !.entries[session[p].step].status = "confirmed",
                                         !.entries[session[p].step].fork = session[p].block]
  <2>1. session[p].step \in Steps /\ session[p].mem \in Journal /\ session[p].block \in Nat
    BY <1>13, <1>b, Working DEF ReadFreshReceipt, Session
  <2>2. j \in Journal
    BY <2>1, StatusType DEF Statuses
  <2>3. CASE Current(p).status = "confirmed"
    <3>1. session' = [session EXCEPT ![p].stage = "recording"] /\ UNCHANGED disk
      BY <1>13, <2>3 DEF ReadFreshReceipt
    <3> QED
      BY <1>13, <3>1, StageType DEF ReadFreshReceipt, Stages
  <2>4. CASE Current(p).status # "confirmed"
    <3>1. disk' = j /\ session' = [session EXCEPT ![p].mem = j, ![p].stage = "recording"]
      BY <1>13, <2>4 DEF ReadFreshReceipt
    <3>2. session' \in [Procs -> Session]
      BY <2>2, <3>1, MemType DEF Stages
    <3> QED
      BY <1>13, <2>2, <3>1, <3>2 DEF ReadFreshReceipt
  <2> QED
    BY <2>3, <2>4
<1>14. ASSUME NEW p \in Procs, RecordContract(p) PROVE TypeOK'
  <2> DEFINE s == session[p].step
             j == IF s \in DeploySteps THEN [session[p].mem EXCEPT !.contracts = @ \cup {s}]
                  ELSE session[p].mem
             stage == IF s = StepCount THEN "verifying" ELSE "next"
  <2>1. s \in Steps /\ session[p].mem \in Journal
    BY <1>14, Working DEF RecordContract
  <2>2. j \in Journal
    BY <2>1, RecordType
  <2>3. /\ disk' = (IF s \in DeploySteps THEN j ELSE disk)
        /\ session' = [session EXCEPT ![p].mem = j, ![p].step = s + 1, ![p].stage = stage]
    BY <1>14 DEF RecordContract
  <2>4. session' \in [Procs -> Session]
    <3>1. s + 1 \in 1..StepCount + 1 /\ stage \in Stages
      BY <2>1 DEF Steps, Stages
    <3> HIDE DEF s, j, stage
    <3> QED
      BY <2>2, <2>3, <3>1, StepType
  <2> QED
    BY <1>14, <2>2, <2>3, <2>4 DEF RecordContract
<1>15. ASSUME NEW p \in Procs, VerifyAndComplete(p) PROVE TypeOK'
  <2>1. session[p].mem \in Journal
    BY <1>15, Working DEF VerifyAndComplete
  <2>2. [session[p].mem EXCEPT !.complete = TRUE] \in Journal
    BY <2>1 DEF Journal
  <2> QED
    BY <1>15, <2>2, IdleType DEF VerifyAndComplete
<1>16. ASSUME NEW p \in Procs, Stop(p) \/ Interrupt(p) \/ Crash(p) PROVE TypeOK'
  BY <1>16, IdleType DEF Stop, Interrupt, Crash
<1>17. ASSUME NEW p \in Procs, SendUnanswered(p) PROVE TypeOK'
  <2>1. Current(p).tx \in Tx
    BY <1>17, Working DEF SendUnanswered
  <2> QED
    BY <1>17, <2>1, IdleType DEF SendUnanswered, Give
<1>18. ASSUME NEW t \in mempool, Forget(t) PROVE TypeOK'
  BY <1>18 DEF Forget
<1>19. CASE RemoveStaleLock
  BY <1>19 DEF RemoveStaleLock
<1>20. CASE Tick
  BY <1>20, DeeperType DEF Tick
<1>21. ASSUME NEW t \in broadcast, Mine(t) PROVE TypeOK'
  <2>1. PICK ok \in BOOLEAN :
          chain' = Append(Deeper(chain), [tx |-> t, fork |-> reorgs, depth |-> 1, ok |-> ok])
    BY <1>21 DEF Mine, Outcomes
  <2>2. [tx |-> t, fork |-> reorgs, depth |-> 1, ok |-> ok] \in Block
    BY DEF Block
  <2>3. chain' \in Seq(Block)
    BY <2>1, <2>2, DeeperType
  <2> QED
    BY <1>21, <2>3 DEF Mine
<1>22. ASSUME NEW k \in 1..Len(chain), Reorganise(k) PROVE TypeOK'
  <2>1. chain' \in Seq(Block)
    BY <1>22 DEF Reorganise
  <2>2. mempool' \subseteq broadcast
    BY <1>22 DEF Reorganise, DeploymentInv, ChainIsBroadcast
  <2> QED
    BY <1>22, <2>1, <2>2 DEF Reorganise
<1>23. ASSUME NEW nonce \in Len(chain)..Len(chain) + MaxForeign + 1, ForeignSend(nonce)
       PROVE  TypeOK'
  <2>1. [step |-> 0, nonce |-> nonce, cost |-> 0] \in Tx
    BY DEF Tx
  <2> QED
    BY <1>23, <2>1 DEF ForeignSend
<1>24. CASE UNCHANGED vars
  BY <1>24 DEF vars
<1> QED
  BY <1>1, <1>2, <1>3, <1>4, <1>5, <1>6, <1>7, <1>8, <1>9, <1>10, <1>11, <1>12, <1>13, <1>14,
     <1>15, <1>16, <1>17, <1>18, <1>19, <1>20, <1>21, <1>22, <1>23, <1>24
     DEF Next, Progress, Fault

\* A process leaves the chain alone; it only gives the network transactions.
LEMMA ProgressKeepsChain ==
  ASSUME NEW p \in Procs, Progress(p)
  PROVE  UNCHANGED <<chain, reorgs>> /\ broadcast \subseteq broadcast'
<1> USE DEF network, Goto, Save
<1>1. CASE Send(p)
  BY <1>1 DEF Send, Give
<1>2. ASSUME ~Send(p) PROVE UNCHANGED network
  BY <1>2 DEF Progress, Load, Resume, ReadLatestCount, ReadPendingCount, SignAndSave,
       LookupReceipt, CheckBeforeSend, WaiterReturns, ReadReceipt, ReadHead,
       ReadFreshReceipt, RecordContract, VerifyAndComplete, Stop
<1> QED
  BY <1>1, <1>2

\* What a step may do to the chain.
LEMMA ChainCases ==
  ASSUME [Next]_vars
  PROVE  \/ UNCHANGED <<chain, reorgs>> /\ broadcast \subseteq broadcast'
         \/ UNCHANGED <<disk, lock, session, broadcast>> /\
              (Tick \/ (\E t \in broadcast : Mine(t)) \/ \E k \in 1..Len(chain) : Reorganise(k))
<1> USE DEF network, vars, Goto, Save
<1>1. ASSUME NEW p \in Procs, Progress(p)
      PROVE  UNCHANGED <<chain, reorgs>> /\ broadcast \subseteq broadcast'
  BY <1>1, ProgressKeepsChain
<1>2. CASE Fault
  BY <1>2 DEF Fault, Interrupt, SendUnanswered, Give, Crash, Forget
<1>3. ASSUME NEW p \in Procs, NEW limits \in Limits, AcquireLock(p, limits)
      PROVE  UNCHANGED <<chain, reorgs>> /\ broadcast \subseteq broadcast'
  BY <1>3 DEF AcquireLock
<1>4. CASE RemoveStaleLock
  BY <1>4 DEF RemoveStaleLock
<1>5. ASSUME NEW nonce, ForeignSend(nonce)
      PROVE  UNCHANGED <<chain, reorgs>> /\ broadcast \subseteq broadcast'
  BY <1>5 DEF ForeignSend
<1>6. CASE UNCHANGED vars
  BY <1>6
<1>7. Tick => UNCHANGED <<disk, lock, session, broadcast>>
  BY DEF Tick
<1>8. \A t : Mine(t) => UNCHANGED <<disk, lock, session, broadcast>>
  BY DEF Mine
<1>9. \A k : Reorganise(k) => UNCHANGED <<disk, lock, session, broadcast>>
  BY DEF Reorganise
<1> QED
  BY <1>1, <1>2, <1>3, <1>4, <1>5, <1>6, <1>7, <1>8, <1>9 DEF Next

\* The parts of a grown chain, and what a reorganisation leaves.
LEMMA ChainFacts ==
  ASSUME TypeOK
  PROVE  /\ Len(chain) \in Nat
         /\ \A i \in 1..Len(chain) : chain[i] \in Block
         /\ Tick \/ (\E t \in broadcast : Mine(t)) =>
              /\ Len(chain') >= Len(chain)
              /\ \A i \in 1..Len(chain) :
                   /\ chain'[i].tx = chain[i].tx /\ chain'[i].fork = chain[i].fork
                   /\ chain'[i].ok = chain[i].ok /\ chain'[i].depth >= chain[i].depth
              /\ reorgs' = reorgs
         /\ Tick => Len(chain') = Len(chain)
         /\ \A t : Mine(t) =>
              /\ Len(chain') = Len(chain) + 1 /\ t.nonce = Len(chain) /\ t \in broadcast
              /\ chain'[Len(chain) + 1].tx = t /\ chain'[Len(chain) + 1].fork = reorgs
         /\ \A k \in 1..Len(chain) : Reorganise(k) =>
              /\ Len(chain') = k - 1
              /\ \A i \in 1..k - 1 : chain'[i] = chain[i]
              /\ \A i \in k..Len(chain) : chain[i].depth < Confirmations
              /\ reorgs' = reorgs + 1
<1> USE DEF TypeOK
<1>1. Len(chain) \in Nat /\ \A i \in 1..Len(chain) : chain[i] \in Block
  OBVIOUS
<1>2. /\ Deeper(chain) \in Seq(Block) /\ Len(Deeper(chain)) = Len(chain)
      /\ \A i \in 1..Len(chain) :
           /\ Deeper(chain)[i].tx = chain[i].tx /\ Deeper(chain)[i].fork = chain[i].fork
           /\ Deeper(chain)[i].ok = chain[i].ok /\ Deeper(chain)[i].depth >= chain[i].depth
  BY DeeperType
<1>3. Tick => chain' = Deeper(chain) /\ reorgs' = reorgs
  BY DEF Tick
<1>4. ASSUME NEW t, Mine(t)
      PROVE  /\ Len(chain') = Len(chain) + 1 /\ t.nonce = Len(chain) /\ t \in broadcast
             /\ chain'[Len(chain) + 1].tx = t /\ chain'[Len(chain) + 1].fork = reorgs
             /\ \A i \in 1..Len(chain) : chain'[i] = Deeper(chain)[i]
             /\ reorgs' = reorgs
  <2>1. PICK b : chain' = Append(Deeper(chain), b) /\ b.tx = t /\ b.fork = reorgs /\ b \in Block
    <3>1. PICK ok \in BOOLEAN :
            chain' = Append(Deeper(chain), [tx |-> t, fork |-> reorgs, depth |-> 1, ok |-> ok])
      BY <1>4 DEF Mine, Outcomes
    <3>2. t \in Tx
      BY <1>4 DEF Mine
    <3> QED
      BY <3>1, <3>2 DEF Block
  <2> QED
    BY <1>1, <1>2, <1>4, <2>1 DEF Mine
<1>5. ASSUME NEW k \in 1..Len(chain), Reorganise(k)
      PROVE  /\ Len(chain') = k - 1
             /\ \A i \in 1..k - 1 : chain'[i] = chain[i]
             /\ \A i \in k..Len(chain) : chain[i].depth < Confirmations
             /\ reorgs' = reorgs + 1
  BY <1>1, <1>5 DEF Reorganise
<1> HIDE DEF TypeOK
<1> QED
  BY <1>1, <1>2, <1>3, <1>4, <1>5

(***************************************************************************)
(* Depth Confirmations is for good: whatever happens next, the transaction *)
(* stays in the block it is in.                                            *)
(***************************************************************************)
LEMMA FinalStays ==
  ASSUME TypeOK, [Next]_vars, NEW t \in Tx, Final(t), TypeOK'
  PROVE  /\ Final(t)'
         /\ BlockOf(t)'.fork = BlockOf(t).fork /\ BlockOf(t)'.ok = BlockOf(t).ok
<1> DEFINE n == t.nonce + 1
<1>1. n \in 1..Len(chain) /\ chain[n].tx = t /\ chain[n].depth = Confirmations /\ t.nonce \in Nat
  BY ChainFacts DEF Final, OnChain, BlockOf, Tx
<1>2. SUFFICES /\ n \in 1..Len(chain') /\ chain'[n].tx = t /\ chain'[n].depth = Confirmations
               /\ chain'[n].fork = chain[n].fork /\ chain'[n].ok = chain[n].ok
  BY <1>1, ChainFacts DEF Final, OnChain, BlockOf
<1>3. CASE UNCHANGED <<chain, reorgs>>
  BY <1>1, <1>3
<1>4. CASE Tick \/ \E u \in broadcast : Mine(u)
  <2>1. n \in 1..Len(chain') /\ chain'[n].tx = t /\ chain'[n].depth >= Confirmations
        /\ chain'[n].fork = chain[n].fork /\ chain'[n].ok = chain[n].ok /\ Len(chain') \in Nat
    BY <1>1, <1>4, ChainFacts DEF TypeOK
  <2>2. chain'[n] \in Block
    BY <2>1 DEF TypeOK
  <2> QED
    BY <2>1, <2>2 DEF Block
<1>5. ASSUME NEW k \in 1..Len(chain), Reorganise(k)
      PROVE  /\ n \in 1..Len(chain') /\ chain'[n] = chain[n]
  <2>1. n < k
    BY <1>1, <1>5, ChainFacts
  <2> QED
    BY <1>1, <1>5, <2>1, ChainFacts
<1> QED
  BY <1>1, <1>3, <1>4, <1>5, ChainCases

LEMMA ChainStep ==
  ASSUME DeploymentInv, [Next]_vars
  PROVE  ChainIsBroadcast'
<1> USE DEF ChainIsBroadcast
<1>1. TypeOK /\ ChainIsBroadcast /\ reorgs \in Nat
  BY DEF DeploymentInv, TypeOK
<1>2. \A i \in 1..Len(chain) : chain[i].fork \in Nat
  BY <1>1, ChainFacts DEF Block
<1>3. CASE UNCHANGED <<chain, reorgs>> /\ broadcast \subseteq broadcast'
  BY <1>1, <1>3
<1>4. CASE Tick /\ UNCHANGED broadcast
  BY <1>1, <1>4, ChainFacts
<1>5. ASSUME NEW t \in broadcast, Mine(t), UNCHANGED broadcast PROVE ChainIsBroadcast'
  <2> SUFFICES ASSUME NEW i \in 1..Len(chain')
               PROVE  chain'[i].tx \in broadcast /\ chain'[i].tx.nonce = i - 1 /\ chain'[i].fork <= reorgs
    BY <1>5, ChainFacts, <1>1
  <2>1. i \in 1..Len(chain) \/ i = Len(chain) + 1
    BY <1>1, <1>5, ChainFacts
  <2> QED
    BY <1>1, <1>5, <2>1, ChainFacts
<1>6. ASSUME NEW k \in 1..Len(chain), Reorganise(k), UNCHANGED broadcast PROVE ChainIsBroadcast'
  BY <1>1, <1>2, <1>6, ChainFacts
<1> QED
  BY <1>3, <1>4, <1>5, <1>6, ChainCases

(***************************************************************************)
(* The manifest changes in three ways: the entry of the step in work takes *)
(* its next status, a confirmed contract is recorded, or all is complete.  *)
(***************************************************************************)
Advanced(s, e) ==
  /\ disk' = [disk EXCEPT !.entries[s] = e]
  /\ UNCHANGED <<chain, reorgs>>
  /\ e.tx.step = s
  /\ \A i \in 1..s - 1 : Confirmed(disk, i)
  /\ \/ ~Saved(disk, s) /\ e.status = "prepared"
     \/ /\ Saved(disk, s) /\ ~Confirmed(disk, s) /\ e.tx = disk.entries[s].tx
        /\ \/ e.status = "submitted"
           \/ /\ e.status = "confirmed" /\ Final(e.tx) /\ Succeeded(e.tx)
              /\ BlockOf(e.tx).fork = e.fork

LEMMA DiskCases ==
  ASSUME DeploymentInv, [Next]_vars
  PROVE  \/ UNCHANGED disk
         \/ \E s \in Steps, e \in Entry : Advanced(s, e)
         \/ \E s \in DeploySteps : disk' = [disk EXCEPT !.contracts = @ \cup {s}] /\ Confirmed(disk, s)
         \/ /\ disk' = [disk EXCEPT !.complete = TRUE]
            /\ DeploySteps \subseteq disk.contracts /\ \A s \in Steps : Confirmed(disk, s)
<1> DEFINE Goal == \/ UNCHANGED disk
                   \/ \E s \in Steps, e \in Entry : Advanced(s, e)
                   \/ \E s \in DeploySteps : disk' = [disk EXCEPT !.contracts = @ \cup {s}]
                                             /\ Confirmed(disk, s)
                   \/ /\ disk' = [disk EXCEPT !.complete = TRUE]
                      /\ DeploySteps \subseteq disk.contracts /\ \A s \in Steps : Confirmed(disk, s)
<1>a. disk \in Journal /\ \A s \in Steps : disk.entries[s] \in Entry
  BY DEF DeploymentInv, TypeOK, Journal
<1>b. \A s \in Steps : Saved(disk, s) => disk.entries[s].tx.step = s
  BY DEF DeploymentInv, SavedInOrder
<1>1. ASSUME NEW p \in Procs, NEW cost \in Costs, SignAndSave(p, cost) PROVE Goal
  <2> DEFINE s == session[p].step
             e == [status |-> "prepared", tx |-> Signed(p, cost), fork |-> 0]
  <2>1. /\ s \in Steps /\ session[p].mem = disk /\ ~Saved(disk, s)
        /\ \A i \in 1..s - 1 : Confirmed(disk, i)
    BY <1>1, Working DEF SignAndSave, At, StageKnows
  <2>2. disk' = [disk EXCEPT !.entries[s] = e] /\ UNCHANGED <<chain, reorgs>>
    BY <1>1, <2>1 DEF SignAndSave, Save, network
  <2>3. e \in Entry
    <3>1. session[p].nonce \in Nat
      BY DEF DeploymentInv, TypeOK, Session
    <3> QED
      BY <2>1, <3>1 DEF Entry, Statuses, Tx, Signed, Steps
  <2>4. e.tx.step = s /\ e.status = "prepared"
    BY DEF Signed
  <2> HIDE DEF s, e
  <2> QED
    BY <2>1, <2>2, <2>3, <2>4 DEF Advanced
<1>2. ASSUME NEW p \in Procs, Send(p) PROVE Goal
  <2> DEFINE s == session[p].step
             e == [disk.entries[s] EXCEPT !.status = "submitted"]
  <2>1. /\ s \in Steps /\ session[p].mem = disk
        /\ \A i \in 1..s - 1 : Confirmed(disk, i)
        /\ disk.entries[s].status \in {"prepared", "submitted"}
    BY <1>2, Working DEF Send, At, StageKnows
  <2>2. disk' = [disk EXCEPT !.entries[s].status = "submitted"] /\ UNCHANGED <<chain, reorgs>>
    BY <1>2, <2>1 DEF Send, Save, Give
  <2>3. disk' = [disk EXCEPT !.entries[s] = e]
    BY <2>2
  <2>4. e \in Entry /\ e.tx = disk.entries[s].tx /\ e.status = "submitted"
    BY <1>a, <2>1 DEF Entry, Statuses
  <2>5. Saved(disk, s) /\ ~Confirmed(disk, s)
    BY <2>1 DEF Saved, Confirmed
  <2> HIDE DEF s, e
  <2> QED
    BY <1>b, <2>1, <2>2, <2>3, <2>4, <2>5 DEF Advanced
<1>3. ASSUME NEW p \in Procs, ReadFreshReceipt(p) PROVE Goal
  <2> DEFINE s == session[p].step
             e == [disk.entries[s] EXCEPT !.status = "confirmed", !.fork = session[p].block]
  <2>1. /\ s \in Steps /\ session[p].mem = disk /\ Current(p) = disk.entries[s]
        /\ \A i \in 1..s - 1 : Confirmed(disk, i)
        /\ Saved(disk, s) /\ DeepEnough(p)
        /\ Current(p) \in Entry
    BY <1>3, Working DEF ReadFreshReceipt, At, StageKnows, StageSees
  <2>2. CASE Current(p).status = "confirmed"
    BY <1>3, <2>2 DEF ReadFreshReceipt
  <2>3. CASE Current(p).status # "confirmed"
    <3>1. /\ disk' = [disk EXCEPT !.entries[s].status = "confirmed",
                                  !.entries[s].fork = session[p].block]
          /\ UNCHANGED <<chain, reorgs>> /\ Succeeded(Current(p).tx) /\ InSight(p)
      BY <1>3, <2>1, <2>3 DEF ReadFreshReceipt, Save, network, SameBlock
    <3>2. disk' = [disk EXCEPT !.entries[s] = e]
      BY <3>1, <1>a, <2>1 DEF Journal, Entry
    <3>3. session[p].block \in Nat
      BY DEF DeploymentInv, TypeOK, Session
    <3>4. e \in Entry /\ e.tx = disk.entries[s].tx /\ e.status = "confirmed" /\ e.fork = session[p].block
      BY <1>a, <2>1, <3>3 DEF Entry, Statuses
    <3>5. Final(e.tx) /\ BlockOf(e.tx).fork = e.fork /\ Succeeded(e.tx)
      <4>1. OnChain(e.tx) /\ BlockOf(e.tx).depth >= Confirmations
            /\ BlockOf(e.tx).fork = e.fork /\ Succeeded(e.tx)
        BY <2>1, <3>1, <3>4 DEF InSight, DeepEnough
      <4>2. BlockOf(e.tx) \in Block
        <5>1. TypeOK
          BY DEF DeploymentInv
        <5>2. e.tx.nonce \in Nat
          BY <3>4 DEF Entry, Tx
        <5> QED
          BY <4>1, <5>1, <5>2, ChainFacts DEF OnChain, BlockOf
      <4> QED
        BY <4>1, <4>2 DEF Final, Block
    <3>6. ~Confirmed(disk, s)
      BY <2>1, <2>3 DEF Confirmed
    <3>7. e.tx.step = s
      BY <1>b, <2>1, <3>4
    <3> HIDE DEF s, e
    <3>8. Advanced(s, e)
      BY ONLY <2>1, <3>1, <3>2, <3>4, <3>5, <3>6, <3>7 DEF Advanced
    <3> QED
      BY <2>1, <3>4, <3>8
  <2> QED
    BY <2>2, <2>3
<1>4. ASSUME NEW p \in Procs, RecordContract(p) PROVE Goal
  <2>1. session[p].mem = disk /\ Confirmed(disk, session[p].step)
    BY <1>4, Working DEF RecordContract, At, StageKnows
  <2> QED
    BY <1>4, <2>1 DEF RecordContract
<1>5. ASSUME NEW p \in Procs, VerifyAndComplete(p) PROVE Goal
  <2>1. /\ session[p].mem = disk /\ session[p].step = StepCount + 1
        /\ \A i \in 1..StepCount : Confirmed(disk, i) /\ (i \in DeploySteps => i \in disk.contracts)
    BY <1>5, Working DEF VerifyAndComplete, At, StageKnows
  <2> QED
    BY <1>5, <2>1 DEF VerifyAndComplete, Steps
<1>6. ASSUME ~\E p \in Procs : \/ \E cost \in Costs : SignAndSave(p, cost)
                               \/ Send(p) \/ ReadFreshReceipt(p) \/ RecordContract(p) \/ VerifyAndComplete(p)
      PROVE  UNCHANGED disk
  BY <1>6 DEF Next, Progress, Fault, vars, AcquireLock, Load, Resume, ReadLatestCount,
       ReadPendingCount, LookupReceipt, CheckBeforeSend, WaiterReturns, ReadReceipt, ReadHead, Stop,
       Interrupt, SendUnanswered, Crash, Forget, RemoveStaleLock, Tick, Mine, Reorganise, ForeignSend
<1> QED
  BY <1>1, <1>2, <1>3, <1>4, <1>5, <1>6

\* Only a process at the point of sending, or another program, gives the
\* network something new.
LEMMA BroadcastCases ==
  ASSUME [Next]_vars
  PROVE  \A t \in broadcast' \ broadcast :
           t.step = 0 \/ \E p \in Procs : At(p, "sending") /\ t = Current(p).tx
<1> USE DEF network, vars, Goto, Save
<1>1. ASSUME NEW p \in Procs, Send(p) \/ SendUnanswered(p)
      PROVE  At(p, "sending") /\ broadcast' = broadcast \cup {Current(p).tx}
  BY <1>1 DEF Send, SendUnanswered, Give
<1>2. ASSUME NEW nonce, ForeignSend(nonce)
      PROVE  \A t \in broadcast' \ broadcast : t.step = 0
  BY <1>2 DEF ForeignSend
<1>3. ASSUME ~\E p \in Procs : Send(p) \/ SendUnanswered(p),
             ~\E nonce \in Len(chain)..Len(chain) + MaxForeign + 1 : ForeignSend(nonce)
      PROVE  UNCHANGED broadcast
  BY <1>3 DEF Next, Progress, Fault, AcquireLock, Load, Resume, ReadLatestCount,
       ReadPendingCount, SignAndSave, LookupReceipt, CheckBeforeSend, WaiterReturns, ReadReceipt,
       ReadHead, ReadFreshReceipt, RecordContract, VerifyAndComplete, Stop, Interrupt, Crash, Forget,
       RemoveStaleLock, Tick, Mine, Reorganise
<1> QED
  BY <1>1, <1>2, <1>3

LEMMA JournalStep ==
  ASSUME DeploymentInv, [Next]_vars, TypeOK'
  PROVE  /\ SavedInOrder' /\ CompleteMeansExecuted'
         /\ \A s \in Steps : Saved(disk, s) =>
              /\ Saved(disk, s)' /\ disk'.entries[s].tx = disk.entries[s].tx
              /\ Rank[disk'.entries[s].status] >= Rank[disk.entries[s].status]
         /\ \A s \in Steps : Confirmed(disk, s) =>
              Confirmed(disk, s)' /\ disk'.entries[s] = disk.entries[s]
         /\ disk.contracts \subseteq disk'.contracts
<1> DEFINE Goal == /\ SavedInOrder' /\ CompleteMeansExecuted'
                   /\ \A s \in Steps : Saved(disk, s) =>
                        /\ Saved(disk, s)' /\ disk'.entries[s].tx = disk.entries[s].tx
                        /\ Rank[disk'.entries[s].status] >= Rank[disk.entries[s].status]
                   /\ \A s \in Steps : Confirmed(disk, s) =>
                        Confirmed(disk, s)' /\ disk'.entries[s] = disk.entries[s]
                   /\ disk.contracts \subseteq disk'.contracts
<1>a. disk \in Journal /\ \A s \in Steps : disk.entries[s] \in Entry
  BY DEF DeploymentInv, TypeOK, Journal
<1>b. SavedInOrder /\ CompleteMeansExecuted /\ disk.contracts \subseteq DeploySteps
  BY <1>a DEF DeploymentInv, Journal
<1>c. \A s \in Steps : Rank[disk.entries[s].status] \in 0..3
  BY <1>a DEF Rank, Entry, Statuses
<1> USE DEF Saved, Confirmed
<1>1. CASE UNCHANGED disk
  BY <1>1, <1>b, <1>c DEF SavedInOrder, CompleteMeansExecuted
<1>2. ASSUME NEW s \in Steps, NEW e \in Entry, Advanced(s, e) PROVE Goal
  <2>1. /\ disk'.entries = [disk.entries EXCEPT ![s] = e]
        /\ disk'.contracts = disk.contracts /\ disk'.complete = disk.complete
    BY <1>2, <1>a DEF Advanced, Journal
  <2>2. disk'.entries[s] = e /\ \A i \in Steps \ {s} : disk'.entries[i] = disk.entries[i]
    BY <2>1, <1>a DEF Journal
  <2>3. ~Confirmed(disk, s) /\ e.status \in {"prepared", "submitted", "confirmed"}
    BY <1>2 DEF Advanced
  <2>4. Saved(disk, s) => /\ e.tx = disk.entries[s].tx
                          /\ Rank[e.status] >= Rank[disk.entries[s].status]
    BY <1>2, <1>a, <2>3 DEF Advanced, Rank, Entry, Statuses
  <2>5. \A i \in Steps : Confirmed(disk, i) => i # s
    BY <2>3
  <2>6. SavedInOrder'
    <3> SUFFICES ASSUME NEW k \in Steps, Saved(disk, k)'
                 PROVE  /\ disk'.entries[k].tx.step = k
                        /\ \A i \in 1..k - 1 : Confirmed(disk, i)'
      BY DEF SavedInOrder
    <3>1. \A i \in 1..k - 1 : Confirmed(disk, i)
      BY <1>2, <1>b, <2>2 DEF SavedInOrder, Advanced
    <3>2. \A i \in 1..k - 1 : i \in Steps
      BY DEF Steps
    <3>3. disk'.entries[k].tx.step = k
      BY <1>2, <1>b, <2>2 DEF SavedInOrder, Advanced
    <3> QED
      BY <2>2, <2>5, <3>1, <3>2, <3>3
  <2>7. CompleteMeansExecuted'
    BY <1>b, <2>1, <2>2, <2>3 DEF CompleteMeansExecuted
  <2> QED
    BY <1>c, <2>1, <2>2, <2>3, <2>4, <2>5, <2>6, <2>7
<1>3. ASSUME NEW s \in DeploySteps, disk' = [disk EXCEPT !.contracts = @ \cup {s}] PROVE Goal
  <2>1. /\ disk'.entries = disk.entries /\ disk'.complete = disk.complete
        /\ disk'.contracts = disk.contracts \cup {s}
    BY <1>3, <1>a DEF Journal
  <2> QED
    BY <2>1, <1>b, <1>c DEF SavedInOrder, CompleteMeansExecuted
<1>4. ASSUME disk' = [disk EXCEPT !.complete = TRUE],
             DeploySteps \subseteq disk.contracts, \A s \in Steps : Confirmed(disk, s)
      PROVE  Goal
  <2>1. disk'.entries = disk.entries /\ disk'.contracts = disk.contracts
    BY <1>4, <1>a DEF Journal
  <2>2. CompleteMeansExecuted'
    BY <2>1, <1>4, <1>b DEF CompleteMeansExecuted
  <2>3. SavedInOrder'
    BY <2>1, <1>b DEF SavedInOrder
  <2> QED
    BY <2>1, <2>2, <2>3, <1>c
<1> QED
  BY <1>1, <1>2, <1>3, <1>4, DiskCases

LEMMA ConfirmedStep ==
  ASSUME DeploymentInv, [Next]_vars, TypeOK'
  PROVE  ConfirmedIsFinal'
<1>a. TypeOK /\ ConfirmedIsFinal /\ disk \in Journal /\ \A s \in Steps : disk.entries[s] \in Entry
  BY DEF DeploymentInv, TypeOK, Journal
<1>b. ASSUME NEW s \in Steps, Confirmed(disk, s), disk'.entries[s] = disk.entries[s]
      PROVE  /\ Final(disk.entries[s].tx)' /\ Succeeded(disk.entries[s].tx)'
             /\ (BlockOf(disk.entries[s].tx).fork = disk.entries[s].fork)'
  <2>1. disk.entries[s].tx \in Tx
    BY <1>a DEF Entry
  <2> DEFINE t == disk.entries[s].tx
  <2>2. Final(t) /\ Succeeded(t) /\ BlockOf(t).fork = disk.entries[s].fork
    BY <1>a, <1>b DEF ConfirmedIsFinal
  <2>3. ASSUME NEW u \in Tx, Final(u), Succeeded(u)
        PROVE  Final(u)' /\ Succeeded(u)' /\ BlockOf(u)'.fork = BlockOf(u).fork
    BY <1>a, <2>3, FinalStays DEF Succeeded, Final
  <2>4. PICK u \in Tx : u = t
    BY <2>1
  <2>5. Final(u)' /\ Succeeded(u)' /\ BlockOf(u)'.fork = disk.entries[s].fork
    BY <2>2, <2>3, <2>4
  <2>6. disk'.entries[s].tx = u /\ disk'.entries[s].fork = disk.entries[s].fork
    BY <1>b, <2>4
  <2> QED
    BY <2>5, <2>6 DEF Final, Succeeded, OnChain, BlockOf
<1> SUFFICES ASSUME NEW s \in Steps, Confirmed(disk, s)'
             PROVE  /\ Final(disk.entries[s].tx)' /\ Succeeded(disk.entries[s].tx)'
                    /\ (BlockOf(disk.entries[s].tx).fork = disk.entries[s].fork)'
  BY DEF ConfirmedIsFinal
<1>1. CASE Confirmed(disk, s)
  BY <1>1, <1>b, JournalStep
<1>2. CASE ~Confirmed(disk, s)
  <2>1. PICK k \in Steps, e \in Entry : Advanced(k, e)
    <3>1. disk' # disk
      BY <1>2 DEF Confirmed
    <3>2. disk'.entries # disk.entries
      BY <1>2 DEF Confirmed
    <3> QED
      BY <1>a, <3>1, <3>2, DiskCases DEF Journal
  <2>2. disk'.entries = [disk.entries EXCEPT ![k] = e] /\ disk.entries \in [Steps -> Entry]
    BY <1>a, <2>1 DEF Advanced, Journal
  <2>3. s = k /\ disk'.entries[s] = e /\ e.status = "confirmed"
    BY <1>2, <2>2 DEF Confirmed
  <2>4. Final(e.tx) /\ Succeeded(e.tx) /\ BlockOf(e.tx).fork = e.fork /\ UNCHANGED chain
    BY <2>1, <2>3 DEF Advanced
  <2> QED
    BY <2>3, <2>4 DEF Final, Succeeded, OnChain, BlockOf
<1> QED
  BY <1>1, <1>2

LEMMA BroadcastStep ==
  ASSUME DeploymentInv, [Next]_vars, TypeOK'
  PROVE  BroadcastIsSaved'
<1>1. BroadcastIsSaved /\ TypeOK
  BY DEF DeploymentInv
<1> SUFFICES ASSUME NEW t \in OwnBroadcast'
             PROVE  Saved(disk, t.step)' /\ disk'.entries[t.step].tx = t
  BY DEF BroadcastIsSaved
<1>2. t \in broadcast' /\ t.step # 0
  BY DEF OwnBroadcast
<1>3. t.step \in Steps
  BY <1>2 DEF TypeOK, Tx, Steps
<1>4. Saved(disk, t.step) /\ disk.entries[t.step].tx = t
  <2>1. CASE t \in broadcast
    BY <1>1, <1>2, <2>1 DEF BroadcastIsSaved, OwnBroadcast
  <2>2. CASE t \notin broadcast
    <3>1. PICK p \in Procs : At(p, "sending") /\ t = Current(p).tx
      BY <1>2, <2>2, BroadcastCases
    <3>2. /\ session[p].step \in Steps /\ t = disk.entries[session[p].step].tx
          /\ Saved(disk, session[p].step)
      BY <3>1, Working DEF At, StageKnows, Saved
    <3>3. t.step = session[p].step
      BY <3>2 DEF DeploymentInv, SavedInOrder
    <3> QED
      BY <3>2, <3>3
  <2> QED
    BY <2>1, <2>2
<1> QED
  BY <1>3, <1>4, JournalStep

LEMMA HolderStep ==
  ASSUME DeploymentInv, [Next]_vars
  PROVE  LockHeld' /\ MemoryIsDisk'
<1> USE DEF At, Goto, Save
<1>1. /\ LockHeld /\ MemoryIsDisk /\ session \in [Procs -> Session] /\ disk \in Journal
      /\ lock \in Procs \cup {NoProc}
  BY DEF DeploymentInv, TypeOK
<1>2. \A p \in Procs : lock # p => At(p, "off")
  BY <1>1 DEF LockHeld
<1>3. \A p \in Procs : session[p] \in Session
  BY <1>1
<1> USE DEF LockHeld, MemoryIsDisk
<1>4. ASSUME NEW p \in Procs, NEW limits \in Limits, AcquireLock(p, limits)
      PROVE  LockHeld' /\ MemoryIsDisk'
  <2>1. session' = [session EXCEPT ![p] = [Idle EXCEPT !.stage = "loading", !.limits = limits]]
        /\ lock' = p /\ lock = NoProc
    BY <1>4 DEF AcquireLock
  <2>2. session'[p].stage = "loading" /\ \A q \in Procs \ {p} : session'[q] = session[q]
    BY <2>1, <1>1 DEF Idle
  <2>3. \A q \in Procs : session[q].stage = "off"
    BY <1>2, <2>1
  <2> QED
    BY <2>1, <2>2, <2>3
<1>5. ASSUME NEW p \in Procs, lock = p, lock' = p, \A q \in Procs \ {p} : session'[q] = session[q],
             session'[p].mem = disk' \/ session'[p].stage \in {"off", "loading"}
      PROVE  LockHeld' /\ MemoryIsDisk'
  BY <1>1, <1>2, <1>5
<1>6. ASSUME NEW p \in Procs, lock = p, session' = [session EXCEPT ![p] = Idle]
      PROVE  LockHeld' /\ MemoryIsDisk'
  BY <1>1, <1>2, <1>6 DEF Idle
<1>7. ASSUME NEW p \in Procs, Load(p) PROVE LockHeld' /\ MemoryIsDisk'
  <2>1. lock = p /\ lock' = p
    BY <1>7, <1>2 DEF Load
  <2>2. session' = [session EXCEPT ![p].mem = disk, ![p].stage = "next"] /\ disk' = disk
    BY <1>7 DEF Load
  <2>3. session'[p].mem = disk' /\ \A q \in Procs \ {p} : session'[q] = session[q]
    BY <1>1, <1>3, <2>2 DEF Session
  <2> QED
    BY <1>5, <2>1, <2>3
<1>8. ASSUME NEW p \in Procs, ~At(p, "off"), ~At(p, "loading"), UNCHANGED <<disk, lock>>,
             NEW stage \in Stages, NEW n \in Nat,
             \/ session' = [session EXCEPT ![p].stage = stage]
             \/ session' = [session EXCEPT ![p].nonce = n, ![p].stage = stage]
             \/ session' = [session EXCEPT ![p].block = n, ![p].stage = stage]
      PROVE  LockHeld' /\ MemoryIsDisk'
  <2>1. lock = p /\ session[p].mem = disk
    BY <1>1, <1>2, <1>8
  <2>2. session'[p].mem = session[p].mem /\ \A q \in Procs \ {p} : session'[q] = session[q]
    BY <1>1, <1>3, <1>8 DEF Session
  <2> QED
    BY <1>5, <1>8, <2>1, <2>2
<1>9. ASSUME NEW p \in Procs, lock = p, lock' = lock, NEW stage, NEW j, disk' = j, NEW k,
             \/ session' = [session EXCEPT ![p].mem = j, ![p].stage = stage]
             \/ session' = [session EXCEPT ![p].mem = j, ![p].step = k, ![p].stage = stage]
      PROVE  LockHeld' /\ MemoryIsDisk'
  <2>1. session'[p].mem = disk' /\ \A q \in Procs \ {p} : session'[q] = session[q]
    BY <1>1, <1>3, <1>9 DEF Session
  <2> QED
    BY <1>5, <1>9, <2>1
<1>10. ASSUME NEW p \in Procs,
              Resume(p) \/ ReadPendingCount(p) \/ LookupReceipt(p) \/ CheckBeforeSend(p)
                \/ WaiterReturns(p) \/ ReadHead(p)
       PROVE  LockHeld' /\ MemoryIsDisk'
  <2>1. ~At(p, "off") /\ ~At(p, "loading") /\ UNCHANGED <<disk, lock>>
    BY <1>10 DEF Resume, ReadPendingCount, LookupReceipt, CheckBeforeSend, WaiterReturns, ReadHead
  <2>2. \E stage \in Stages : session' = [session EXCEPT ![p].stage = stage]
    BY <1>10 DEF Resume, ReadPendingCount, LookupReceipt, CheckBeforeSend, WaiterReturns,
         ReadHead, Stages
  <2> QED
    BY <1>8, <2>1, <2>2
<1>11. ASSUME NEW p \in Procs, ReadLatestCount(p) PROVE LockHeld' /\ MemoryIsDisk'
  <2>1. Len(chain) \in Nat /\ "counted" \in Stages
    BY DEF DeploymentInv, TypeOK, Stages
  <2> QED
    BY <1>8, <1>11, <2>1 DEF ReadLatestCount
<1>12. ASSUME NEW p \in Procs, ReadReceipt(p) PROVE LockHeld' /\ MemoryIsDisk'
  <2>1. ~At(p, "off") /\ ~At(p, "loading") /\ UNCHANGED <<disk, lock>>
    BY <1>12 DEF ReadReceipt
  <2>2. session' = [session EXCEPT ![p].block = BlockOf(Current(p).tx).fork, ![p].stage = "head"]
    BY <1>12 DEF ReadReceipt
  <2>3. session'[p].mem = session[p].mem /\ \A q \in Procs \ {p} : session'[q] = session[q]
    BY <1>1, <1>3, <2>2 DEF Session
  <2>4. lock = p /\ session[p].mem = disk
    BY <1>1, <1>2, <2>1
  <2> QED
    BY <1>5, <2>1, <2>3, <2>4
<1>13. ASSUME NEW p \in Procs, NEW cost \in Costs, SignAndSave(p, cost) PROVE LockHeld' /\ MemoryIsDisk'
  <2>1. lock = p /\ lock' = lock
    BY <1>2, <1>13 DEF SignAndSave
  <2> QED
    BY <1>9, <1>13, <2>1 DEF SignAndSave
<1>14. ASSUME NEW p \in Procs, Send(p) PROVE LockHeld' /\ MemoryIsDisk'
  <2>1. lock = p /\ lock' = lock
    BY <1>2, <1>14 DEF Send
  <2> QED
    BY <1>9, <1>14, <2>1 DEF Send
<1>15. ASSUME NEW p \in Procs, ReadFreshReceipt(p) PROVE LockHeld' /\ MemoryIsDisk'
  <2>1. lock = p /\ lock' = lock /\ ~At(p, "off") /\ ~At(p, "loading")
    BY <1>2, <1>15 DEF ReadFreshReceipt
  <2>2. CASE Current(p).status = "confirmed"
    <3>1. session' = [session EXCEPT ![p].stage = "recording"] /\ disk' = disk
      BY <1>15, <2>2 DEF ReadFreshReceipt
    <3>2. session'[p].mem = session[p].mem /\ \A q \in Procs \ {p} : session'[q] = session[q]
      BY <1>1, <1>3, <3>1 DEF Session
    <3> QED
      BY <1>1, <1>5, <2>1, <3>1, <3>2
  <2>3. CASE Current(p).status # "confirmed"
    BY <1>9, <1>15, <2>1, <2>3 DEF ReadFreshReceipt
  <2> QED
    BY <2>2, <2>3
<1>16. ASSUME NEW p \in Procs, RecordContract(p) PROVE LockHeld' /\ MemoryIsDisk'
  <2> DEFINE s == session[p].step
             j == IF s \in DeploySteps THEN [session[p].mem EXCEPT !.contracts = @ \cup {s}]
                  ELSE session[p].mem
             stage == IF s = StepCount THEN "verifying" ELSE "next"
  <2>1. lock = p /\ lock' = lock /\ session[p].mem = disk
    BY <1>1, <1>2, <1>16 DEF RecordContract
  <2>2. disk' = j /\ session' = [session EXCEPT ![p].mem = j, ![p].step = s + 1, ![p].stage = stage]
    BY <1>16, <2>1 DEF RecordContract
  <2> HIDE DEF s, j, stage
  <2> QED
    BY <1>9, <2>1, <2>2
<1>17. ASSUME NEW p \in Procs,
              VerifyAndComplete(p) \/ Stop(p) \/ Interrupt(p) \/ SendUnanswered(p) \/ Crash(p)
       PROVE  LockHeld' /\ MemoryIsDisk'
  <2>1. ~At(p, "off") /\ session' = [session EXCEPT ![p] = Idle]
    BY <1>17 DEF VerifyAndComplete, Stop, Refused, Interrupt, SendUnanswered, Crash
  <2>2. lock = p
    BY <1>2, <2>1
  <2> QED
    BY <1>6, <2>1, <2>2
<1>18. ASSUME UNCHANGED <<disk, lock, session>> PROVE LockHeld' /\ MemoryIsDisk'
  BY <1>1, <1>18
<1>19. CASE RemoveStaleLock
  BY <1>1, <1>2, <1>19 DEF RemoveStaleLock
<1>20. ASSUME ~RemoveStaleLock, ~\E p \in Procs, limits \in Limits : AcquireLock(p, limits),
              ~\E p \in Procs : \/ Progress(p) \/ Interrupt(p) \/ SendUnanswered(p) \/ Crash(p)
       PROVE  UNCHANGED <<disk, lock, session>>
  BY <1>20 DEF Next, Fault, vars, Tick, Mine, Reorganise, ForeignSend, Forget
<1> QED
  BY <1>4, <1>7, <1>10, <1>11, <1>12, <1>13, <1>14, <1>15, <1>16, <1>17, <1>18, <1>19, <1>20
     DEF Progress

\* What was seen of a receipt stays so whatever happens to the chain.
LEMMA SightStays ==
  ASSUME DeploymentInv, [Next]_vars, NEW p \in Procs, ~At(p, "off"), ~At(p, "loading"),
         UNCHANGED <<session, disk>>
  PROVE  StageSees(p)'
<1> DEFINE t == Current(p).tx
           n == t.nonce + 1
<1>1. StageSees(p) /\ TypeOK /\ reorgs \in Nat
  BY Working DEF DeploymentInv, TypeOK
<1>2. /\ At(p, "head")' = At(p, "head") /\ At(p, "fresh")' = At(p, "fresh")
      /\ Current(p)' = Current(p) /\ session'[p].block = session[p].block
  BY DEF At, Current
<1> SUFFICES ASSUME At(p, "head") \/ At(p, "fresh") PROVE StageSees(p)'
  BY <1>2 DEF StageSees
<1>3. t.nonce \in Nat /\ session[p].block \in Nat
  <2>1. t \in Tx
    BY Working DEF At
  <2> QED
    BY <1>1, <2>1 DEF Tx, TypeOK, Session
<1>4. /\ InSight(p) <=> n \in 1..Len(chain) /\ chain[n].tx = t /\ chain[n].fork = session[p].block
      /\ InSight(p)' <=> n \in 1..Len(chain') /\ chain'[n].tx = t /\ chain'[n].fork = session[p].block
      /\ DeepEnough(p) <=> (InSight(p) => chain[n].depth >= Confirmations)
      /\ DeepEnough(p)' <=> (InSight(p)' => chain'[n].depth >= Confirmations)
  <2>1. Len(chain) \in Nat
    BY <1>1, ChainFacts
  <2>2. Len(chain') \in Nat
    BY <1>1, <2>1, ChainFacts, ChainCases
  <2>3. InSight(p) <=> OnChain(t) /\ chain[n].fork = session[p].block
    BY DEF InSight, BlockOf
  <2>4. InSight(p)' <=> (t.nonce < Len(chain') /\ chain'[n].tx = t) /\ chain'[n].fork = session[p].block
    BY <1>2 DEF InSight, BlockOf, OnChain
  <2>5. DeepEnough(p) <=> (InSight(p) => chain[n].depth >= Confirmations)
    BY DEF DeepEnough, BlockOf
  <2>6. DeepEnough(p)' <=> (InSight(p)' => chain'[n].depth >= Confirmations)
    BY <1>2 DEF DeepEnough, BlockOf
  <2> HIDE DEF t
  <2> QED
    BY <1>3, <2>1, <2>2, <2>3, <2>4, <2>5, <2>6 DEF OnChain
<1> HIDE DEF t, n
<1>5. /\ session[p].block <= reorgs /\ (InSight(p) \/ session[p].block < reorgs)
      /\ At(p, "fresh") => DeepEnough(p)
  BY <1>1 DEF StageSees
<1> SUFFICES /\ session[p].block <= reorgs' /\ (InSight(p)' \/ session[p].block < reorgs')
             /\ DeepEnough(p) => DeepEnough(p)'
  BY <1>2, <1>5 DEF StageSees
<1>6. CASE UNCHANGED <<chain, reorgs>>
  BY <1>4, <1>5, <1>6
<1>7. CASE Tick
  BY <1>1, <1>3, <1>4, <1>5, <1>7, ChainFacts DEF Block
<1>8. ASSUME NEW u \in broadcast, Mine(u)
      PROVE  /\ session[p].block <= reorgs' /\ (InSight(p)' \/ session[p].block < reorgs')
             /\ DeepEnough(p) => DeepEnough(p)'
  <2>1. /\ Len(chain') = Len(chain) + 1 /\ chain'[Len(chain) + 1].fork = reorgs /\ reorgs' = reorgs
        /\ Len(chain) \in Nat
        /\ \A i \in 1..Len(chain) :
             /\ chain'[i].tx = chain[i].tx /\ chain'[i].fork = chain[i].fork
             /\ chain'[i].depth >= chain[i].depth /\ chain[i].depth \in Nat
    BY <1>1, <1>8, ChainFacts DEF Block
  <2>2. CASE n \in 1..Len(chain)
    <3>1. InSight(p)' <=> InSight(p)
      BY <1>4, <2>1, <2>2
    <3>2. DeepEnough(p) => DeepEnough(p)'
      <4>1. TypeOK'
        BY TypeStep
      <4>2. chain'[n] \in Block
        BY <2>1, <2>2, <4>1 DEF TypeOK
      <4> QED
        BY <1>4, <2>1, <2>2, <3>1, <4>2 DEF Block
    <3> QED
      BY <1>5, <2>1, <3>1, <3>2
  <2>3. CASE n \notin 1..Len(chain)
    <3>1. ~InSight(p) /\ session[p].block < reorgs
      BY <1>4, <1>5, <2>3
    <3>2. ~InSight(p)'
      BY <1>3, <1>4, <2>1, <2>3, <3>1 DEF n
    <3>3. DeepEnough(p)'
      BY <1>4, <3>2
    <3>4. session[p].block <= reorgs' /\ session[p].block < reorgs'
      BY <1>1, <1>3, <2>1, <3>1
    <3> QED
      BY <3>3, <3>4
  <2> QED
    BY <2>2, <2>3
<1>9. ASSUME NEW k \in 1..Len(chain), Reorganise(k)
      PROVE  /\ session[p].block <= reorgs' /\ (InSight(p)' \/ session[p].block < reorgs')
             /\ DeepEnough(p) => DeepEnough(p)'
  <2>1. /\ Len(chain') = k - 1 /\ \A i \in 1..k - 1 : chain'[i] = chain[i]
        /\ reorgs' = reorgs + 1 /\ Len(chain) \in Nat
    BY <1>1, <1>9, ChainFacts
  <2>2. InSight(p)' => InSight(p) /\ chain'[n] = chain[n]
    BY <1>4, <2>1
  <2> QED
    BY <1>1, <1>3, <1>4, <1>5, <2>1, <2>2
<1> QED
  BY <1>6, <1>7, <1>8, <1>9, ChainCases


\* A process that makes progress reaches a stage that knows what it requires.
LEMMA ProgressStage ==
  ASSUME DeploymentInv, [Next]_vars, TypeOK', NEW p \in Procs, Progress(p)
  PROVE  /\ At(p, "loading")' => session'[p].step = 1
         /\ session'[p].stage \notin {"off", "loading"} => StageKnows(p)' /\ StageSees(p)'
<1> DEFINE s == session[p].step
           Good == /\ At(p, "loading")' => session'[p].step = 1
                   /\ session'[p].stage \notin {"off", "loading"} => StageKnows(p)' /\ StageSees(p)'
<1>1. /\ TypeOK /\ session \in [Procs -> Session] /\ session[p] \in Session
      /\ disk \in Journal /\ disk' \in Journal
      /\ \A i \in Steps : disk.entries[i] \in Entry
  BY DEF DeploymentInv, TypeOK, Journal
<1>2. /\ \A i \in Steps : Confirmed(disk, i) => Confirmed(disk, i)'
      /\ disk.contracts \subseteq disk'.contracts
  BY JournalStep
<1>3. UNCHANGED <<chain, reorgs>>
  BY ProgressKeepsChain
<1> DEFINE x == session'[p].stage
<1>4. ASSUME ~At(p, "off"), ~At(p, "loading"), s \in Steps, session'[p].step = s,
             x \notin {"off", "loading", "verifying"},
             x \in {"counted", "signing"} => ~Saved(disk, s)',
             x \in {"lookup", "limits", "sending", "await"} =>
               disk'.entries[s].status \in {"prepared", "submitted"},
             x = "sending" => WithinLimits(p, disk.entries[s].tx.cost, 0)',
             x \in {"receipt", "head", "fresh"} => Saved(disk, s)',
             x = "recording" => Confirmed(disk, s)',
             x \in {"head", "fresh"} => StageSees(p)'
      PROVE  Good
  <2>1. \A i \in 1..s - 1 : Confirmed(disk, i)' /\ (i \in DeploySteps => i \in disk'.contracts)
    <3>1. \A i \in 1..s - 1 : i \in Steps
      BY <1>4 DEF Steps
    <3> QED
      BY <1>2, <1>4, <3>1, Working DEF StageKnows
  <2>2. s # StepCount + 1
    BY <1>4 DEF Steps
  <2>3. StageKnows(p)'
    BY <1>4, <2>1, <2>2 DEF StageKnows, WithinLimits
  <2>4. StageSees(p)'
    BY <1>4 DEF StageSees, At
  <2> QED
    BY <1>4, <2>3, <2>4 DEF At
<1>5. ASSUME NEW stage \in Stages, session' = [session EXCEPT ![p].stage = stage], UNCHANGED disk
      PROVE  /\ x = stage /\ session'[p].step = s /\ session'[p].block = session[p].block
             /\ session'[p].mem = session[p].mem /\ session'[p].limits = session[p].limits
             /\ Current(p)' = Current(p)
  BY <1>1, <1>5 DEF Session, Current
<1>6. CASE Load(p)
  <2>1. session[p].step = 1
    BY <1>6 DEF DeploymentInv, StagesSound, Load
  <2>2. session'[p].step = 1 /\ x = "next"
    BY <1>1, <1>6, <2>1 DEF Load, Session
  <2>3. StageKnows(p)' /\ StageSees(p)'
    BY <2>2 DEF StageKnows, StageSees, At
  <2> QED
    BY <2>2, <2>3 DEF At
<1>7. CASE Resume(p)
  <2>1. /\ ~At(p, "off") /\ ~At(p, "loading") /\ s \in Steps /\ Current(p) = disk.entries[s]
    BY <1>7, Working DEF Resume, At
  <2>2. Current(p).status \in {"prepared", "submitted", "confirmed"}
    BY <1>1, <1>7, <2>1 DEF Resume, Entry, Statuses
  <2>3. x = (IF Current(p).status = "confirmed" THEN "receipt" ELSE "lookup") /\ session'[p].step = s
        /\ disk' = disk
    BY <1>5, <1>7 DEF Resume, Goto, Stages
  <2> QED
    BY <1>4, <2>1, <2>2, <2>3 DEF Saved
<1>8. CASE ReadLatestCount(p)
  <2>1. /\ ~At(p, "off") /\ ~At(p, "loading") /\ s \in Steps /\ Current(p) = disk.entries[s]
        /\ disk' = disk /\ ~Saved(disk, s)
    BY <1>8, Working DEF ReadLatestCount, At, Saved
  <2>2. x = "counted" /\ session'[p].step = s
    BY <1>1, <1>8 DEF ReadLatestCount, Session
  <2> QED
    BY <1>4, <2>1, <2>2 DEF Saved
<1>9. CASE ReadPendingCount(p)
  <2>1. /\ ~At(p, "off") /\ ~At(p, "loading") /\ s \in Steps /\ ~Saved(disk, s)
    BY <1>9, Working DEF ReadPendingCount, At, StageKnows
  <2>2. x = "signing" /\ session'[p].step = s /\ disk' = disk
    BY <1>5, <1>9 DEF ReadPendingCount, Goto, Stages
  <2> QED
    BY <1>4, <2>1, <2>2 DEF Saved
<1>10. ASSUME NEW cost \in Costs, SignAndSave(p, cost) PROVE Good
  <2>1. /\ ~At(p, "off") /\ ~At(p, "loading") /\ s \in Steps /\ session[p].mem = disk
    BY <1>10, Working DEF SignAndSave, At
  <2>2. x = "lookup" /\ session'[p].step = s
    BY <1>1, <1>10 DEF SignAndSave, Save, Session
  <2>3. disk'.entries[s].status = "prepared"
    BY <1>1, <1>10, <2>1 DEF SignAndSave, Save, Journal
  <2> QED
    BY <1>4, <2>1, <2>2, <2>3
<1>11. CASE LookupReceipt(p)
  <2>1. /\ ~At(p, "off") /\ ~At(p, "loading") /\ s \in Steps
        /\ disk.entries[s].status \in {"prepared", "submitted"}
    BY <1>11, Working DEF LookupReceipt, At, StageKnows
  <2>2. x \in {"await", "limits"} /\ session'[p].step = s /\ disk' = disk
    BY <1>5, <1>11 DEF LookupReceipt, Goto, Stages
  <2> QED
    BY <1>4, <2>1, <2>2
<1>12. CASE CheckBeforeSend(p)
  <2>1. /\ ~At(p, "off") /\ ~At(p, "loading") /\ s \in Steps /\ Current(p) = disk.entries[s]
        /\ disk.entries[s].status \in {"prepared", "submitted"}
    BY <1>12, Working DEF CheckBeforeSend, At, StageKnows
  <2>2. /\ x = "sending" /\ session'[p].step = s /\ disk' = disk
        /\ session'[p].mem = session[p].mem /\ session'[p].limits = session[p].limits
    BY <1>5, <1>12 DEF CheckBeforeSend, Goto, Stages
  <2>3. WithinLimits(p, disk.entries[s].tx.cost, 0)
    BY <1>12, <2>1 DEF CheckBeforeSend, MaySend
  <2>4. WithinLimits(p, disk.entries[s].tx.cost, 0)'
    BY <2>2, <2>3 DEF WithinLimits
  <2> QED
    BY <1>4, <2>1, <2>2, <2>4
<1>13. CASE Send(p)
  <2>1. /\ ~At(p, "off") /\ ~At(p, "loading") /\ s \in Steps /\ session[p].mem = disk
    BY <1>13, Working DEF Send, At
  <2>2. x = "await" /\ session'[p].step = s
    BY <1>1, <1>13 DEF Send, Save, Session
  <2>3. disk'.entries[s].status = "submitted"
    BY <1>1, <1>13, <2>1 DEF Send, Save, Journal, Entry
  <2> QED
    BY <1>4, <2>1, <2>2, <2>3
<1>14. CASE WaiterReturns(p)
  <2>1. /\ ~At(p, "off") /\ ~At(p, "loading") /\ s \in Steps
        /\ disk.entries[s].status \in {"prepared", "submitted"}
    BY <1>14, Working DEF WaiterReturns, At, StageKnows
  <2>2. x = "receipt" /\ session'[p].step = s /\ disk' = disk
    BY <1>5, <1>14 DEF WaiterReturns, Goto, Stages
  <2> QED
    BY <1>4, <2>1, <2>2 DEF Saved
<1>15. CASE ReadReceipt(p)
  <2>1. /\ ~At(p, "off") /\ ~At(p, "loading") /\ s \in Steps /\ Saved(disk, s)
        /\ Current(p).tx \in Tx
    BY <1>15, Working DEF ReadReceipt, At, StageKnows
  <2>2. /\ x = "head" /\ session'[p].step = s /\ disk' = disk
        /\ session'[p].block = BlockOf(Current(p).tx).fork
        /\ Current(p)' = Current(p)
    BY <1>1, <1>15 DEF ReadReceipt, Session, Current
  <2>3. OnChain(Current(p).tx) /\ BlockOf(Current(p).tx).fork <= reorgs
    <3>1. /\ OnChain(Current(p).tx) /\ Current(p).tx.nonce \in Nat /\ Len(chain) \in Nat
      BY <1>1, <1>15, <2>1, ChainFacts DEF ReadReceipt, Succeeded, Tx
    <3>2. Current(p).tx.nonce + 1 \in 1..Len(chain)
      BY <3>1 DEF OnChain
    <3> QED
      BY <3>1, <3>2 DEF DeploymentInv, ChainIsBroadcast, BlockOf
  <2>4. StageSees(p)'
    BY <1>3, <2>2, <2>3 DEF StageSees, At, InSight, OnChain, BlockOf
  <2> QED
    BY <1>4, <2>1, <2>2, <2>4 DEF Saved
<1>16. CASE ReadHead(p)
  <2>1. /\ ~At(p, "off") /\ ~At(p, "loading") /\ s \in Steps /\ Saved(disk, s) /\ StageSees(p)
    BY <1>16, Working DEF ReadHead, At, StageKnows
  <2>2. /\ x = "fresh" /\ session'[p].step = s /\ disk' = disk
        /\ session'[p].block = session[p].block /\ Current(p)' = Current(p)
    BY <1>5, <1>16 DEF ReadHead, Goto, Stages
  <2>3. StageSees(p)'
    <3>1. (InSight(p)' <=> InSight(p)) /\ (DeepEnough(p)' <=> DeepEnough(p))
      BY <1>3, <2>2 DEF InSight, DeepEnough, OnChain, BlockOf
    <3> QED
      BY <1>3, <1>16, <2>1, <2>2, <3>1 DEF StageSees, ReadHead, At
  <2> QED
    BY <1>4, <2>1, <2>2, <2>3 DEF Saved
<1>17. CASE ReadFreshReceipt(p)
  <2>1. /\ ~At(p, "off") /\ ~At(p, "loading") /\ s \in Steps /\ session[p].mem = disk
        /\ Current(p) = disk.entries[s]
    BY <1>17, Working DEF ReadFreshReceipt, At
  <2>2. CASE Current(p).status = "confirmed"
    <3>1. x = "recording" /\ session'[p].step = s /\ disk' = disk
      BY <1>5, <1>17, <2>2 DEF ReadFreshReceipt, Goto, Stages
    <3> QED
      BY <1>4, <2>1, <2>2, <3>1 DEF Confirmed
  <2>3. CASE Current(p).status # "confirmed"
    <3>1. x = "recording" /\ session'[p].step = s
      BY <1>1, <1>17, <2>3 DEF ReadFreshReceipt, Save, Session
    <3>2. disk'.entries[s].status = "confirmed"
      <4>1. disk' = [disk EXCEPT !.entries[s].status = "confirmed",
                                 !.entries[s].fork = session[p].block]
        BY <1>17, <2>1, <2>3 DEF ReadFreshReceipt, Save
      <4>2. disk.entries \in [Steps -> Entry] /\ s \in DOMAIN disk.entries
        BY <1>1, <2>1 DEF Journal
      <4>3. disk'.entries[s] = [disk.entries[s] EXCEPT !.status = "confirmed",
                                                      !.fork = session[p].block]
        BY <1>1, <4>1, <4>2 DEF Journal
      <4> QED
        BY <1>1, <2>1, <4>3 DEF Entry
    <3> QED
      BY <1>4, <2>1, <3>1, <3>2 DEF Confirmed
  <2> QED
    BY <2>2, <2>3
<1>18. CASE RecordContract(p)
  <2>1. /\ s \in Steps /\ session[p].mem = disk /\ Confirmed(disk, s)
        /\ \A i \in 1..s - 1 : Confirmed(disk, i) /\ (i \in DeploySteps => i \in disk.contracts)
    BY <1>18, Working DEF RecordContract, At, StageKnows
  <2>2. s \in DeploySteps => s \in disk'.contracts
    BY <1>1, <1>18, <2>1 DEF RecordContract, Journal
  <2>3. /\ session'[p].step = s + 1
        /\ x = (IF s = StepCount THEN "verifying" ELSE "next")
    BY <1>1, <1>18 DEF RecordContract, Session
  <2>4. \A i \in 1..s : Confirmed(disk, i)' /\ (i \in DeploySteps => i \in disk'.contracts)
    <3> TAKE i \in 1..s
    <3>1. i \in Steps /\ (i = s \/ i \in 1..s - 1)
      BY <2>1 DEF Steps
    <3> QED
      BY <1>2, <2>1, <2>2, <3>1
  <2>5. (s + 1) - 1 = s /\ (s = StepCount <=> s + 1 = StepCount + 1)
    BY <2>1 DEF Steps
  <2>6. StageKnows(p)'
    <3> HIDE DEF s
    <3> QED
      BY <2>3, <2>4, <2>5 DEF StageKnows
  <2>7. StageSees(p)'
    BY <2>3 DEF StageSees, At
  <2> QED
    BY <2>3, <2>6, <2>7 DEF At
<1>19. CASE VerifyAndComplete(p) \/ Stop(p)
  <2>1. x = "off"
    BY <1>1, <1>19 DEF VerifyAndComplete, Stop, Idle
  <2> QED
    BY <2>1 DEF At
<1> QED
  BY <1>6, <1>7, <1>8, <1>9, <1>10, <1>11, <1>12, <1>13, <1>14, <1>15, <1>16, <1>17, <1>18, <1>19
     DEF Progress

\* A process at work reaches its next stage knowing what the stage requires.
LEMMA StageStep ==
  ASSUME DeploymentInv, [Next]_vars, TypeOK'
  PROVE  StagesSound'
<1>1. /\ TypeOK /\ LockHeld /\ MemoryIsDisk /\ StagesSound
      /\ session \in [Procs -> Session] /\ disk \in Journal
      /\ \A q \in Procs : session[q] \in Session
      /\ \A s \in Steps : disk.entries[s] \in Entry
  BY DEF DeploymentInv, TypeOK, Journal
<1>2. /\ \A i \in Steps : Confirmed(disk, i) => Confirmed(disk, i)'
      /\ disk.contracts \subseteq disk'.contracts
  BY JournalStep
<1> DEFINE Good(q) == /\ At(q, "loading")' => session'[q].step = 1
                      /\ session'[q].stage \notin {"off", "loading"} => StageKnows(q)' /\ StageSees(q)'
<1> SUFFICES ASSUME NEW q \in Procs PROVE Good(q)
  BY DEF StagesSound, At
<1>3. ASSUME session'[q] = session[q] PROVE Good(q)
  <2>1. At(q, "loading")' => session'[q].step = 1
    BY <1>1, <1>3 DEF StagesSound, At
  <2>2. ASSUME session[q].stage \notin {"off", "loading"} PROVE StageKnows(q)' /\ StageSees(q)'
    <3>1. disk' = disk
      <4>1. session[q].mem = disk /\ session'[q].mem = disk'
        BY <1>1, <1>3, <2>2, HolderStep DEF MemoryIsDisk
      <4> QED
        BY <1>3, <4>1
    <3>2. StageKnows(q)
      BY <1>1, <2>2 DEF StagesSound
    <3>3. StageKnows(q)'
      BY <1>3, <3>1, <3>2 DEF StageKnows, WithinLimits, Saved, Confirmed
    <3>4. StageSees(q)'
      <4>1. CASE UNCHANGED session
        BY <2>2, <3>1, <4>1, SightStays DEF At
      <4>2. CASE session' # session
        <5>1. UNCHANGED <<chain, reorgs>>
          BY <4>2, ChainCases
        <5>2. StageSees(q)
          BY <1>1, <2>2 DEF StagesSound
        <5> QED
          BY <1>3, <5>1, <5>2 DEF StageSees, InSight, DeepEnough, OnChain, BlockOf, Current, At
      <4> QED
        BY <4>1, <4>2
    <3> QED
      BY <3>3, <3>4
  <2> QED
    BY <1>3, <2>1, <2>2
<1>4. ASSUME session'[q].stage = "off" PROVE Good(q)
  BY <1>4 DEF At
<1>5. ASSUME NEW p \in Procs, NEW limits \in Limits, AcquireLock(p, limits) PROVE Good(q)
  <2>1. CASE p = q
    BY <1>1, <1>5, <2>1 DEF AcquireLock, Idle, At
  <2>2. CASE p # q
    BY <1>1, <1>3, <1>5, <2>2 DEF AcquireLock
  <2> QED
    BY <2>1, <2>2
<1>6. ASSUME NEW p \in Procs, Progress(p) PROVE Good(q)
  <2>1. CASE p # q
    <3>1. session'[q] = session[q]
      BY <1>1, <1>6, <2>1 DEF Progress, Load, Resume, ReadLatestCount, ReadPendingCount, SignAndSave,
           LookupReceipt, CheckBeforeSend, Send, WaiterReturns, ReadReceipt, ReadHead,
           ReadFreshReceipt, RecordContract, VerifyAndComplete, Stop, Goto, Save
    <3> QED
      BY <1>3, <3>1
  <2>2. CASE p = q
    BY <1>6, <2>2, ProgressStage
  <2> QED
    BY <2>1, <2>2
<1>7. ASSUME NEW p \in Procs, Interrupt(p) \/ SendUnanswered(p) \/ Crash(p) PROVE Good(q)
  <2>1. session' = [session EXCEPT ![p] = Idle]
    BY <1>7 DEF Interrupt, SendUnanswered, Crash
  <2> QED
    BY <1>1, <1>3, <1>4, <2>1 DEF Idle
<1>8. ASSUME UNCHANGED session PROVE Good(q)
  BY <1>3, <1>8
<1>9. ASSUME ~\E p \in Procs, limits \in Limits : AcquireLock(p, limits),
             ~\E p \in Procs : Progress(p) \/ Interrupt(p) \/ SendUnanswered(p) \/ Crash(p)
      PROVE  UNCHANGED session
  BY <1>9 DEF Next, Fault, vars, Tick, Mine, Reorganise, ForeignSend, Forget, RemoveStaleLock
<1> QED
  BY <1>5, <1>6, <1>7, <1>8, <1>9

LEMMA InitInv == Init => DeploymentInv
<1> SUFFICES ASSUME Init PROVE DeploymentInv
  OBVIOUS
<1> USE DEF Init
<1>1. TypeOK
  BY IdleType DEF TypeOK
<1>2. /\ \A p \in Procs : session[p].stage = "off"
      /\ \A s \in Steps : ~Saved(disk, s) /\ ~Confirmed(disk, s)
      /\ ~disk.complete /\ OwnBroadcast = {}
  BY DEF Idle, EmptyJournal, NoEntry, Saved, Confirmed, OwnBroadcast
<1>3. LockHeld /\ MemoryIsDisk /\ StagesSound
  BY <1>2 DEF LockHeld, MemoryIsDisk, StagesSound, At
<1>4. ChainIsBroadcast /\ BroadcastIsSaved /\ SavedInOrder /\ ConfirmedIsFinal /\ CompleteMeansExecuted
  BY <1>2 DEF ChainIsBroadcast, BroadcastIsSaved, SavedInOrder, ConfirmedIsFinal, CompleteMeansExecuted
<1> QED
  BY <1>1, <1>3, <1>4 DEF DeploymentInv

LEMMA InvStep == DeploymentInv /\ [Next]_vars => DeploymentInv'
<1> SUFFICES ASSUME DeploymentInv, [Next]_vars PROVE DeploymentInv'
  OBVIOUS
<1>1. TypeOK'
  BY TypeStep
<1>2. LockHeld' /\ MemoryIsDisk' /\ ChainIsBroadcast'
  BY HolderStep, ChainStep
<1>3. SavedInOrder' /\ CompleteMeansExecuted' /\ BroadcastIsSaved' /\ ConfirmedIsFinal' /\ StagesSound'
  BY <1>1, JournalStep, BroadcastStep, ConfirmedStep, StageStep
<1> QED
  BY <1>1, <1>2, <1>3 DEF DeploymentInv

(***************************************************************************)
(* The invariant: one process at a time holds the lock and has the file in *)
(* memory; the file names everything that was sent, in order; and what it  *)
(* calls confirmed is deep in the chain (bsc-deployment.mjs:28-39,95-280). *)
(***************************************************************************)
THEOREM Invariance == Spec => []DeploymentInv
BY InitInv, InvStep, PTL DEF Spec

(***************************************************************************)
(* Every variable keeps its type: in particular the node never holds what  *)
(* nobody sent, and only steps that deploy are recorded as contracts       *)
(* (bsc-deployment.mjs:282-313).                                           *)
(***************************************************************************)
THEOREM TypeCorrect == Spec => []TypeOK
<1>1. DeploymentInv => TypeOK
  BY DEF DeploymentInv
<1> QED
  BY <1>1, Invariance, PTL

(***************************************************************************)
(* For any number of stops, kills, runs and reorganisations, no step is    *)
(* ever given to the network as two transactions (bsc-deployment.mjs:250). *)
(***************************************************************************)
THEOREM SingleTransaction == Spec => []OneTransactionPerStep
<1>1. DeploymentInv => OneTransactionPerStep
  BY DEF DeploymentInv, BroadcastIsSaved, OneTransactionPerStep
<1> QED
  BY <1>1, Invariance, PTL

(***************************************************************************)
(* A step is sent only when all earlier ones have succeeded for good       *)
(* (bsc-deployment.mjs:95-133, the awaits of deploy-bsc-testnet.mjs).      *)
(***************************************************************************)
THEOREM InOrder == Spec => []StepsInOrder
<1>1. DeploymentInv => StepsInOrder
  <2> SUFFICES ASSUME DeploymentInv, NEW t \in OwnBroadcast, NEW i \in 1..t.step - 1
               PROVE  Final(disk.entries[i].tx) /\ Succeeded(disk.entries[i].tx)
    BY DEF StepsInOrder
  <2>1. t.step \in Steps
    BY DEF DeploymentInv, TypeOK, OwnBroadcast, Tx, Steps
  <2>2. Saved(disk, t.step)
    BY DEF DeploymentInv, BroadcastIsSaved
  <2>3. Confirmed(disk, i) /\ i \in Steps
    BY <2>1, <2>2 DEF DeploymentInv, SavedInOrder, Steps
  <2> QED
    BY <2>3 DEF DeploymentInv, ConfirmedIsFinal
<1> QED
  BY <1>1, Invariance, PTL

(***************************************************************************)
(* Two receipts in the same block with a head ten blocks up in between are *)
(* enough: what is saved as confirmed is not reorganised away and is in    *)
(* the block that was saved (bsc-deployment.mjs:95-133, 201-211, 270-278). *)
(***************************************************************************)
THEOREM ConfirmedForGood == Spec => []ConfirmedIsFinal
<1>1. DeploymentInv => ConfirmedIsFinal
  BY DEF DeploymentInv
<1> QED
  BY <1>1, Invariance, PTL

(***************************************************************************)
(* The manifest is written ahead: it names whatever the network may have   *)
(* (bsc-deployment.mjs:226-228).                                           *)
(***************************************************************************)
THEOREM WrittenAhead == Spec => []BroadcastIsSaved
<1>1. DeploymentInv => BroadcastIsSaved
  BY DEF DeploymentInv
<1> QED
  BY <1>1, Invariance, PTL

(***************************************************************************)
(* A complete manifest has every step confirmed and every contract on      *)
(* record, in however many runs (deploy-bsc-testnet.mjs:274-286).          *)
(***************************************************************************)
THEOREM CompleteExecuted == Spec => []CompleteMeansExecuted
<1>1. DeploymentInv => CompleteMeansExecuted
  BY DEF DeploymentInv
<1> QED
  BY <1>1, Invariance, PTL

(***************************************************************************)
(* No run changes a saved request or takes back a status                   *)
(* (bsc-deployment.mjs:172-186, 228-278).                                  *)
(***************************************************************************)
THEOREM HashKept == Spec => JournalKeepsHash
<1>1. DeploymentInv /\ DeploymentInv' /\ [Next]_vars =>
        [\A s \in Steps : Saved(disk, s) =>
           /\ disk'.entries[s].tx = disk.entries[s].tx
           /\ Rank[disk'.entries[s].status] >= Rank[disk.entries[s].status]]_vars
  BY JournalStep DEF DeploymentInv
<1> QED
  BY <1>1, Invariance, PTL DEF Spec, JournalKeepsHash

(***************************************************************************)
(* The limits of the run that sends hold for what it sends, whichever run  *)
(* signed it (bsc-deployment.mjs:152-169, 236-238).                        *)
(***************************************************************************)
THEOREM SentWithinLimits == Spec => BroadcastWithinLimits
<1>1. DeploymentInv /\ [Next]_vars =>
        [\A t \in broadcast' \ broadcast : t.step # 0 =>
           \E p \in Procs : lock = p /\ WithinLimits(p, t.cost, 0)]_vars
  <2> SUFFICES ASSUME DeploymentInv, [Next]_vars, NEW t \in broadcast' \ broadcast, t.step # 0
               PROVE  \E p \in Procs : lock = p /\ WithinLimits(p, t.cost, 0)
    OBVIOUS
  <2>1. PICK p \in Procs : At(p, "sending") /\ t = Current(p).tx
    BY BroadcastCases
  <2>2. lock = p /\ WithinLimits(p, t.cost, 0)
    BY <2>1, Working DEF At, StageKnows
  <2> QED
    BY <2>2
<1> QED
  BY <1>1, Invariance, PTL DEF Spec, BroadcastWithinLimits

-------------------------------------------------------------------------------
(* Refinement.                                                              *)

SentSteps == {t.step : t \in OwnBroadcast}
SettledSteps == {t.step : t \in {u \in OwnBroadcast : Final(u) /\ BlockOf(u).ok}}

\* What is confirmed is settled; so of the steps sent only the last may not be.
LEMMA SettledFacts ==
  ASSUME DeploymentInv
  PROVE  /\ SettledSteps \subseteq SentSteps /\ SentSteps \subseteq Steps
         /\ \A s \in Steps : Confirmed(disk, s) => s \in SettledSteps
         /\ \A s \in SentSteps : \A i \in 1..s - 1 : Confirmed(disk, i)
<1>1. \A t \in OwnBroadcast : t \in Tx /\ t.step \in Steps
  BY DEF DeploymentInv, TypeOK, OwnBroadcast, Tx, Steps
<1>2. SettledSteps \subseteq SentSteps /\ SentSteps \subseteq Steps
  BY <1>1 DEF SettledSteps, SentSteps
<1>3. ASSUME NEW s \in Steps, Confirmed(disk, s) PROVE s \in SettledSteps
  <2> DEFINE t == disk.entries[s].tx
  <2>1. Final(t) /\ Succeeded(t)
    BY <1>3 DEF DeploymentInv, ConfirmedIsFinal
  <2>2. t.step = s /\ s # 0
    BY <1>3 DEF DeploymentInv, SavedInOrder, Saved, Confirmed, Steps
  <2>3. t \in broadcast
    <3>1. t.nonce \in Nat /\ Len(chain) \in Nat
      BY ChainFacts DEF DeploymentInv, TypeOK, Journal, Entry, Tx
    <3>2. t.nonce + 1 \in 1..Len(chain) /\ chain[t.nonce + 1].tx = t
      BY <2>1, <3>1 DEF Succeeded, OnChain
    <3> QED
      BY <3>2 DEF DeploymentInv, ChainIsBroadcast
  <2> HIDE DEF t
  <2> QED
    BY <2>1, <2>2, <2>3 DEF SettledSteps, OwnBroadcast, Succeeded
<1>4. ASSUME NEW s \in SentSteps PROVE \A i \in 1..s - 1 : Confirmed(disk, i)
  <2>1. PICK t \in OwnBroadcast : t.step = s
    BY <1>4 DEF SentSteps
  <2>2. s \in Steps /\ Saved(disk, s)
    BY <1>1, <2>1 DEF DeploymentInv, BroadcastIsSaved
  <2> QED
    BY <2>2 DEF DeploymentInv, SavedInOrder
<1> QED
  BY <1>2, <1>3, <1>4

\* Nothing that is sent or settled is ever not so.
LEMMA SettledGrows ==
  ASSUME DeploymentInv, [Next]_vars
  PROVE  SentSteps \subseteq SentSteps' /\ SettledSteps \subseteq SettledSteps'
<1>1. TypeOK /\ TypeOK'
  BY TypeStep DEF DeploymentInv
<1>2. broadcast \subseteq broadcast'
  BY ChainCases
<1>3. OwnBroadcast \subseteq OwnBroadcast'
  BY <1>2 DEF OwnBroadcast
<1>4. SentSteps \subseteq SentSteps'
  BY <1>3 DEF SentSteps
<1>5. ASSUME NEW s \in SettledSteps PROVE s \in SettledSteps'
  <2>1. PICK t \in OwnBroadcast : t.step = s /\ Final(t) /\ BlockOf(t).ok
    BY <1>5 DEF SettledSteps
  <2>2. t \in Tx
    BY <1>1 DEF OwnBroadcast, TypeOK
  <2>3. Final(t)' /\ BlockOf(t)'.ok
    BY <1>1, <2>1, <2>2, FinalStays
  <2> QED
    BY <1>3, <2>1, <2>3 DEF SettledSteps
<1> QED
  BY <1>4, <1>5

LEMMA StepwiseStep ==
  ASSUME DeploymentInv, [Next]_vars, DeploymentInv'
  PROVE  \/ \E s \in Steps : /\ s \notin SentSteps /\ \A i \in 1..s - 1 : i \in SettledSteps
                             /\ SentSteps' = SentSteps \cup {s}
                             /\ SettledSteps' = SettledSteps /\ disk'.complete = disk.complete
         \/ \E s \in Steps : /\ s \in SentSteps \ SettledSteps
                             /\ SettledSteps' = SettledSteps \cup {s}
                             /\ SentSteps' = SentSteps /\ disk'.complete = disk.complete
         \/ /\ SettledSteps = Steps /\ disk'.complete = TRUE
            /\ SentSteps' = SentSteps /\ SettledSteps' = SettledSteps
         \/ /\ SentSteps' = SentSteps /\ SettledSteps' = SettledSteps
            /\ disk'.complete = disk.complete
<1>1. /\ SentSteps \subseteq SentSteps' /\ SettledSteps \subseteq SettledSteps'
      /\ SettledSteps' \subseteq SentSteps' /\ SentSteps' \subseteq Steps
  <2>1. \A t \in OwnBroadcast' : t.step \in Steps
    BY DEF DeploymentInv, TypeOK, OwnBroadcast, Tx, Steps
  <2>2. SettledSteps' \subseteq SentSteps' /\ SentSteps' \subseteq Steps
    BY <2>1 DEF SettledSteps, SentSteps
  <2> QED
    BY <2>2, SettledGrows
<1>2. disk'.complete = disk.complete \/ (disk'.complete = TRUE /\ SettledSteps = Steps)
  <2>1. disk \in Journal
    BY DEF DeploymentInv, TypeOK
  <2>2. disk'.complete = disk.complete
        \/ (disk'.complete = TRUE /\ \A s \in Steps : Confirmed(disk, s))
    BY <2>1, DiskCases DEF Advanced, Journal
  <2> QED
    BY <2>2, SettledFacts
<1>3. CASE \E t \in broadcast' \ broadcast : t.step # 0
  <2>1. PICK t \in broadcast' \ broadcast : t.step # 0
    BY <1>3
  <2>2. PICK p \in Procs : At(p, "sending") /\ t = Current(p).tx
    BY <2>1, BroadcastCases
  <2>3. lock = p /\ ~At(p, "off") /\ ~At(p, "loading") /\ ~At(p, "verifying")
    BY <2>2, Working DEF At
  <2>4. \A u \in broadcast' \ broadcast : u.step # 0 => u = t
    <3> TAKE u \in broadcast' \ broadcast
    <3> HAVE u.step # 0
    <3>1. PICK q \in Procs : At(q, "sending") /\ u = Current(q).tx
      BY BroadcastCases
    <3>2. q = p
      BY <2>3, <3>1, Working DEF At
    <3> QED
      BY <2>2, <3>1, <3>2
  <2>5. t.step \in Steps /\ disk.entries[t.step].tx = t /\ \A i \in 1..t.step - 1 : Confirmed(disk, i)
    <3>1. /\ session[p].step \in Steps /\ t = disk.entries[session[p].step].tx
          /\ Saved(disk, session[p].step)
      BY <2>2, <2>3, Working DEF At, StageKnows, Saved
    <3>2. t.step = session[p].step
      BY <3>1 DEF DeploymentInv, SavedInOrder
    <3> QED
      BY <3>1, <3>2 DEF DeploymentInv, SavedInOrder
  <2>6. t.step \notin SentSteps
    <3> SUFFICES ASSUME NEW u \in OwnBroadcast, u.step = t.step PROVE FALSE
      BY DEF SentSteps
    <3>1. u = t
      BY <2>5 DEF DeploymentInv, BroadcastIsSaved
    <3> QED
      BY <2>1, <3>1 DEF OwnBroadcast
  <2>7. broadcast \subseteq broadcast'
    BY ChainCases
  <2>8. OwnBroadcast' = OwnBroadcast \cup {t}
    BY <2>1, <2>4, <2>7 DEF OwnBroadcast
  <2>9. SentSteps' = SentSteps \cup {t.step}
    BY <2>8 DEF SentSteps
  <2>10. UNCHANGED chain
    BY <2>1, ChainCases
  <2>11. ~Final(t)
    <3> SUFFICES ASSUME Final(t) PROVE FALSE
      OBVIOUS
    <3>1. t \in Tx
      BY <2>1 DEF DeploymentInv, TypeOK
    <3>2. t.nonce + 1 \in 1..Len(chain) /\ chain[t.nonce + 1].tx = t
      BY <3>1, ChainFacts DEF Final, OnChain, Tx, DeploymentInv
    <3> QED
      BY <2>1, <3>2 DEF DeploymentInv, ChainIsBroadcast
  <2>12. SettledSteps' = SettledSteps
    <3>1. \A u : Final(u)' = Final(u) /\ BlockOf(u)' = BlockOf(u)
      BY <2>10 DEF Final, OnChain, BlockOf
    <3> QED
      BY <2>8, <2>11, <3>1 DEF SettledSteps
  <2>13. \A i \in 1..t.step - 1 : i \in SettledSteps
    BY <2>5, SettledFacts DEF Steps
  <2>14. disk'.complete = disk.complete
    BY <1>2, <2>5, <2>6, SettledFacts
  <2> QED
    BY <2>5, <2>6, <2>9, <2>12, <2>13, <2>14
<1>4. CASE ~\E t \in broadcast' \ broadcast : t.step # 0
  <2>1. OwnBroadcast' = OwnBroadcast
    <3>1. broadcast \subseteq broadcast'
      BY ChainCases
    <3> QED
      BY <1>4, <3>1 DEF OwnBroadcast
  <2>2. SentSteps' = SentSteps
    BY <2>1 DEF SentSteps
  <2>3. CASE SettledSteps' = SettledSteps
    BY <1>2, <2>2, <2>3
  <2>4. CASE SettledSteps' # SettledSteps
    <3>1. PICK s \in SettledSteps' : s \notin SettledSteps
      BY <1>1, <2>4
    <3>2. s \in SentSteps /\ s \in Steps
      BY <1>1, <2>2, <3>1
    <3>3. \A u \in SettledSteps' : u \notin SettledSteps => u = s
      <4> SUFFICES ASSUME NEW u \in SettledSteps', u \notin SettledSteps, u # s PROVE FALSE
        OBVIOUS
      <4>1. u \in SentSteps /\ u \in Steps
        BY <1>1, <2>2
      <4>2. u \in 1..s - 1 \/ s \in 1..u - 1
        BY <3>2, <4>1 DEF Steps
      <4> QED
        BY <3>1, <3>2, <4>1, <4>2, SettledFacts
    <3>4. SettledSteps' = SettledSteps \cup {s}
      BY <1>1, <3>1, <3>3
    <3>5. disk'.complete = disk.complete
      BY <1>2, <3>1, <3>2
    <3> QED
      BY <2>2, <3>1, <3>2, <3>4, <3>5
  <2> QED
    BY <2>3, <2>4
<1> QED
  BY <1>3, <1>4

(***************************************************************************)
(* With its journal, lock, node and chain the script does what             *)
(* StepwiseDeployment says: the initial state maps to its initial state,   *)
(* every step to one of its steps or to none (bsc-deployment.mjs:141-313). *)
(***************************************************************************)
THEOREM ImplementsStepwise == Spec => StepwiseSpec
<1>1. Init => Stepwise!Init
  BY DEF Init, Stepwise!Init, OwnBroadcast, EmptyJournal
<1>2. DeploymentInv /\ DeploymentInv' /\ [Next]_vars => [Stepwise!Next]_Stepwise!vars
  <2> SUFFICES ASSUME DeploymentInv, DeploymentInv', [Next]_vars
               PROVE  [Stepwise!Next]_Stepwise!vars
    OBVIOUS
  <2> USE DEF SentSteps, SettledSteps, Stepwise!Next, Stepwise!vars, Stepwise!Steps, Steps
  <2>1. ASSUME NEW s \in Steps, s \notin SentSteps, \A i \in 1..s - 1 : i \in SettledSteps,
               SentSteps' = SentSteps \cup {s}, SettledSteps' = SettledSteps,
               disk'.complete = disk.complete
        PROVE  Stepwise!Send(s)
    BY <2>1 DEF Stepwise!Send
  <2>2. ASSUME NEW s \in Steps, s \in SentSteps \ SettledSteps,
               SettledSteps' = SettledSteps \cup {s}, SentSteps' = SentSteps,
               disk'.complete = disk.complete
        PROVE  Stepwise!Settle(s)
    BY <2>2 DEF Stepwise!Settle
  <2>3. ASSUME SettledSteps = Steps, disk'.complete = TRUE, SentSteps' = SentSteps,
               SettledSteps' = SettledSteps
        PROVE  Stepwise!Finish
    BY <2>3 DEF Stepwise!Finish
  <2>4. ASSUME SentSteps' = SentSteps, SettledSteps' = SettledSteps, disk'.complete = disk.complete
        PROVE  UNCHANGED Stepwise!vars
    BY <2>4
  <2> HIDE DEF SentSteps, SettledSteps
  <2> QED
    BY <2>1, <2>2, <2>3, <2>4, StepwiseStep
<1> QED
  BY <1>1, <1>2, Invariance, PTL DEF Spec, StepwiseSpec, Stepwise!Spec
===============================================================================
