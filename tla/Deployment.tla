------------------------------ MODULE Deployment ------------------------------
(***************************************************************************)
(* The sequential, resumable deployment of scripts/bsc-deployment.mjs, run *)
(* by deploy-bsc-testnet.mjs: a recipe of StepCount transactions of one    *)
(* signer, a journal on disk that names each transaction before it is      *)
(* sent, a lock file, and a chain that reorganises.  The program may stop  *)
(* with an exception (the lock is released) or be killed (it is not), at   *)
(* any await, and is then run again.                                       *)
(*                                                                         *)
(* A transaction is identified by its step, nonce and cost, as the code    *)
(* identifies it by the hash of its signed request; step 0 is a            *)
(* transaction of the same signer that another program sent.  A block is   *)
(* identified by its place and the number of reorganisations before it.    *)
(* Depths are counted up to Confirmations, 10 in the code (line 128);      *)
(* blocks that deep are assumed not to be reorganised away.                *)
(***************************************************************************)
EXTENDS Integers, Sequences, FiniteSets, FiniteSetsExt

CONSTANTS
  Procs,          \* processes that may run the script
  NoProc,         \* the lock file does not exist
  StepCount,      \* transactions of the recipe, 43 in deploy-bsc-testnet.mjs
  DeploySteps,    \* those that create a contract; the others call one
  Costs,          \* gas * gasPrice of a request, as the node may estimate it
  Limits,         \* [fee, total]: maxFeePerGas and spendLimit of a run
  Confirmations,  \* sealed blocks a receipt must have
  MaxReorgs,      \* bound: reorganisations
  MaxForeign,     \* bound: transactions of another program with the same key
  MayRevert       \* whether execution may fail after a successful estimate

Steps == 1..StepCount

ASSUME DeploymentAssumption ==
  /\ StepCount \in Nat \ {0}
  /\ DeploySteps \subseteq Steps
  /\ Costs \subseteq Nat
  /\ Limits \subseteq [fee : Nat, total : Nat]
  /\ Confirmations \in Nat \ {0}
  /\ MaxReorgs \in Nat
  /\ MaxForeign \in Nat
  /\ MayRevert \in BOOLEAN
  /\ NoProc \notin Procs

VARIABLES
  chain,       \* the signer's transactions on the canonical chain, in nonce order
  reorgs,      \* reorganisations so far
  foreign,     \* transactions sent by another program so far
  broadcast,   \* transactions the network has ever been given
  mempool,     \* those the RPC node holds as pending
  disk,        \* the manifest file
  lock,        \* holder of the lock file, dead or alive
  session      \* what each process holds in memory

network == <<chain, reorgs, foreign, broadcast, mempool>>
vars == <<network, disk, lock, session>>

Stages == {"off", "loading", "next", "counted", "signing", "lookup", "limits",
           "sending", "await", "receipt", "head", "fresh", "recording", "verifying"}
Statuses == {"none", "prepared", "submitted", "confirmed"}
Rank == [none |-> 0, prepared |-> 1, submitted |-> 2, confirmed |-> 3]

Tx == [step : 0..StepCount, nonce : Nat, cost : Nat]
Block == [tx : Tx, fork : Nat, depth : 1..Confirmations, ok : BOOLEAN]
Entry == [status : Statuses, tx : Tx, fork : Nat]
Journal == [entries : [Steps -> Entry], contracts : SUBSET DeploySteps, complete : BOOLEAN]
Session == [stage : Stages, step : 1..StepCount + 1, mem : Journal,
            limits : [fee : Nat, total : Nat], nonce : Nat, block : Nat]

NoEntry == [status |-> "none", tx |-> [step |-> 0, nonce |-> 0, cost |-> 0], fork |-> 0]
EmptyJournal == [entries |-> [s \in Steps |-> NoEntry], contracts |-> {}, complete |-> FALSE]
Idle == [stage |-> "off", step |-> 1, mem |-> EmptyJournal,
         limits |-> [fee |-> 0, total |-> 0], nonce |-> 0, block |-> 0]

Saved(j, s) == j.entries[s].status # "none"
Confirmed(j, s) == j.entries[s].status = "confirmed"

OnChain(t) == t.nonce < Len(chain) /\ chain[t.nonce + 1].tx = t
BlockOf(t) == chain[t.nonce + 1]
Final(t) == OnChain(t) /\ BlockOf(t).depth = Confirmations
Succeeded(t) == OnChain(t) /\ BlockOf(t).ok

\* getTransactionCount "pending" answers n: behind what the node holds in a row.
PendingCountIs(n) ==
  LET held == {t.nonce : t \in mempool}
  IN  n >= Len(chain) /\ n \notin held /\ \A m \in Len(chain)..n - 1 : m \in held

TypeOK ==
  /\ chain \in Seq(Block)
  /\ reorgs \in Nat
  /\ foreign \in Nat
  /\ broadcast \subseteq Tx
  /\ mempool \subseteq broadcast
  /\ disk \in Journal
  /\ lock \in Procs \cup {NoProc}
  /\ session \in [Procs -> Session]

Init ==
  /\ chain = <<>>
  /\ reorgs = 0
  /\ foreign = 0
  /\ broadcast = {}
  /\ mempool = {}
  /\ disk = EmptyJournal
  /\ lock = NoProc
  /\ session = [p \in Procs |-> Idle]

-------------------------------------------------------------------------------
(* The process.  Each action ends where the code awaits an answer.          *)

At(p, stage) == session[p].stage = stage
Current(p) == session[p].mem.entries[session[p].step]
Goto(p, stage) == session' = [session EXCEPT ![p].stage = stage]

\* save(): the manifest in memory replaces the file in one rename.
Save(p, journal, stage) ==
  /\ disk' = journal
  /\ session' = [session EXCEPT ![p].mem = journal, ![p].stage = stage]

\* Variant that opens the lock file whether or not it exists.
AcquireLockRegardless(p, limits) ==
  /\ At(p, "off")
  /\ lock' = p
  /\ session' = [session EXCEPT ![p] = [Idle EXCEPT !.stage = "loading", !.limits = limits]]
  /\ UNCHANGED <<network, disk>>

\* acquireDeploymentLock: the file is created exclusively or the run ends.
AcquireLock(p, limits) ==
  /\ At(p, "off")
  /\ lock = NoProc
  /\ lock' = p
  /\ session' = [session EXCEPT ![p] = [Idle EXCEPT !.stage = "loading", !.limits = limits]]
  /\ UNCHANGED <<network, disk>>

Load(p) ==
  /\ At(p, "loading")
  /\ session' = [session EXCEPT ![p].mem = disk, ![p].stage = "next"]
  /\ UNCHANGED <<network, disk, lock>>

\* transaction(id): a step that is in the manifest is only ever taken up again.
Resume(p) ==
  /\ At(p, "next")
  /\ Current(p).status # "none"
  /\ Goto(p, IF Current(p).status = "confirmed" THEN "receipt" ELSE "lookup")
  /\ UNCHANGED <<network, disk, lock>>

\* Variant that signs again what was prepared and perhaps not sent.
ReadLatestCountAgain(p) ==
  /\ At(p, "next")
  /\ Current(p).status \in {"none", "prepared"}
  /\ session' = [session EXCEPT ![p].nonce = Len(chain), ![p].stage = "counted"]
  /\ UNCHANGED <<network, disk, lock>>

ReadLatestCount(p) ==
  /\ At(p, "next")
  /\ Current(p).status = "none"
  /\ session' = [session EXCEPT ![p].nonce = Len(chain), ![p].stage = "counted"]
  /\ UNCHANGED <<network, disk, lock>>

ReadPendingCount(p) ==
  /\ At(p, "counted")
  /\ PendingCountIs(session[p].nonce)
  /\ Goto(p, "signing")
  /\ UNCHANGED <<network, disk, lock>>

Reserved(j) == MapThenSumSet(LAMBDA s : j.entries[s].tx.cost, Steps)

\* assertSubmissionLimits: the fee cap, and all saved requests together.
WithinLimits(p, cost, additional) ==
  /\ cost <= session[p].limits.fee
  /\ Reserved(session[p].mem) + additional <= session[p].limits.total

Signed(p, cost) == [step |-> session[p].step, nonce |-> session[p].nonce, cost |-> cost]

\* Variant that saves nothing before the transaction is sent.
SignUnsaved(p, cost) ==
  /\ At(p, "signing")
  /\ WithinLimits(p, cost, cost)
  /\ session' = [session EXCEPT ![p].stage = "lookup",
       ![p].mem.entries[session[p].step] =
         [status |-> "prepared", tx |-> Signed(p, cost), fork |-> 0]]
  /\ UNCHANGED <<network, disk, lock>>

SignAndSave(p, cost) ==
  /\ At(p, "signing")
  /\ WithinLimits(p, cost, cost)
  /\ Save(p, [session[p].mem EXCEPT !.entries[session[p].step] =
                [status |-> "prepared", tx |-> Signed(p, cost), fork |-> 0]], "lookup")
  /\ UNCHANGED <<network, lock>>

\* Variant that takes the saved status for the node's knowledge.
LookupStatus(p) ==
  /\ At(p, "lookup")
  /\ Goto(p, IF Current(p).status = "submitted" THEN "await" ELSE "limits")
  /\ UNCHANGED <<network, disk, lock>>

LookupReceipt(p) ==
  /\ At(p, "lookup")
  /\ Goto(p, IF OnChain(Current(p).tx) THEN "await" ELSE "limits")
  /\ UNCHANGED <<network, disk, lock>>

\* Variant that trusts the limits under which the request was saved.
MaySendUnderSavedLimits(p) == Len(chain) <= Current(p).tx.nonce

\* Before anything is sent: the limits of this run, and the nonce not used up.
MaySend(p) == WithinLimits(p, Current(p).tx.cost, 0) /\ Len(chain) <= Current(p).tx.nonce

CheckBeforeSend(p) ==
  /\ At(p, "limits")
  /\ MaySend(p)
  /\ Goto(p, "sending")
  /\ UNCHANGED <<network, disk, lock>>

\* The node takes the transaction, or already knows it.
Accepted(t) == t.nonce >= Len(chain) \/ OnChain(t)

Give(t) ==
  /\ broadcast' = broadcast \cup {t}
  /\ mempool' = IF OnChain(t) THEN mempool ELSE mempool \cup {t}
  /\ UNCHANGED <<chain, reorgs, foreign>>

Send(p) ==
  /\ At(p, "sending")
  /\ Accepted(Current(p).tx)
  /\ Give(Current(p).tx)
  /\ Save(p, [session[p].mem EXCEPT !.entries[session[p].step].status = "submitted"], "await")
  /\ UNCHANGED lock

\* Variant that takes the waiter's receipt for confirmed.
WaiterConfirms(p) ==
  /\ At(p, "await")
  /\ Succeeded(Current(p).tx)
  /\ Save(p, [session[p].mem EXCEPT
                !.entries[session[p].step].status = "confirmed",
                !.entries[session[p].step].fork = BlockOf(Current(p).tx).fork], "recording")
  /\ UNCHANGED <<network, lock>>

\* waitForTransactionReceipt may return on preconfirmation data: it proves nothing.
WaiterReturns(p) ==
  /\ At(p, "await")
  /\ Goto(p, "receipt")
  /\ UNCHANGED <<network, disk, lock>>

\* readCanonicalReceipt: a receipt, then the head, then the receipt again.
ReadReceipt(p) ==
  /\ At(p, "receipt")
  /\ Succeeded(Current(p).tx)
  /\ session' = [session EXCEPT ![p].block = BlockOf(Current(p).tx).fork, ![p].stage = "head"]
  /\ UNCHANGED <<network, disk, lock>>

InSight(p) == OnChain(Current(p).tx) /\ BlockOf(Current(p).tx).fork = session[p].block

\* The head is nine blocks above the receipt's height; if the receipt's block
\* has been reorganised away meanwhile, any head may be.
DeepEnough(p) == InSight(p) => BlockOf(Current(p).tx).depth >= Confirmations

ReadHead(p) ==
  /\ At(p, "head")
  /\ DeepEnough(p)
  /\ Goto(p, "fresh")
  /\ UNCHANGED <<network, disk, lock>>

\* Variant that reads the receipt again and compares nothing.
AnyBlock(p) == Succeeded(Current(p).tx)

SameBlock(p) ==
  /\ Succeeded(Current(p).tx)
  /\ InSight(p)
  /\ Current(p).status = "confirmed" => Current(p).fork = session[p].block

ReadFreshReceipt(p) ==
  /\ At(p, "fresh")
  /\ SameBlock(p)
  /\ IF Current(p).status = "confirmed"
       THEN Goto(p, "recording") /\ UNCHANGED disk
       ELSE Save(p, [session[p].mem EXCEPT
                       !.entries[session[p].step].status = "confirmed",
                       !.entries[session[p].step].fork = session[p].block], "recording")
  /\ UNCHANGED <<network, lock>>

\* deploy(): the code at the address is compared and the contract recorded.
\* write() goes straight on.
RecordContract(p) ==
  /\ At(p, "recording")
  /\ LET s == session[p].step
         journal == IF s \in DeploySteps
                      THEN [session[p].mem EXCEPT !.contracts = @ \cup {s}]
                      ELSE session[p].mem
     IN  /\ disk' = (IF s \in DeploySteps THEN journal ELSE disk)
         /\ session' = [session EXCEPT ![p].mem = journal,
                                       ![p].step = s + 1,
                                       ![p].stage = IF s = StepCount THEN "verifying" ELSE "next"]
  /\ UNCHANGED <<network, lock>>

\* verifyDeployment reads back what the steps did; then "complete" is saved.
VerifyAndComplete(p) ==
  /\ At(p, "verifying")
  /\ \A s \in Steps : Succeeded(session[p].mem.entries[s].tx)
  /\ disk' = [session[p].mem EXCEPT !.complete = TRUE]
  /\ lock' = NoProc
  /\ session' = [session EXCEPT ![p] = Idle]
  /\ UNCHANGED network

-------------------------------------------------------------------------------
(* Failures.                                                                *)

\* What makes an assertion of the code fail, or the waiter time out.
Refused(p) ==
  \/ At(p, "counted") /\ ~PendingCountIs(session[p].nonce)
  \/ At(p, "signing") /\ \E cost \in Costs : ~WithinLimits(p, cost, cost)
  \/ At(p, "limits") /\ ~MaySend(p)
  \/ At(p, "sending") /\ ~Accepted(Current(p).tx)
  \/ At(p, "await") /\ ~Final(Current(p).tx)
  \/ At(p, "receipt") /\ ~Succeeded(Current(p).tx)
  \/ At(p, "head") /\ (~InSight(p) \/ ~DeepEnough(p))
  \/ At(p, "fresh") /\ ~SameBlock(p)
  \/ At(p, "verifying") /\ \E s \in Steps : ~Succeeded(session[p].mem.entries[s].tx)

\* The exception reaches the finally block of main, which releases the lock.
Stop(p) ==
  /\ Refused(p)
  /\ lock' = NoProc
  /\ session' = [session EXCEPT ![p] = Idle]
  /\ UNCHANGED <<network, disk>>

\* Any other failure: an RPC error, an empty account, an estimate that reverts.
Interrupt(p) ==
  /\ ~At(p, "off")
  /\ ~Refused(p)
  /\ lock' = NoProc
  /\ session' = [session EXCEPT ![p] = Idle]
  /\ UNCHANGED <<network, disk>>

\* The node has the transaction, but neither the answer nor a lookup gets through.
SendUnanswered(p) ==
  /\ At(p, "sending")
  /\ Accepted(Current(p).tx)
  /\ Give(Current(p).tx)
  /\ lock' = NoProc
  /\ session' = [session EXCEPT ![p] = Idle]
  /\ UNCHANGED disk

Crash(p) ==
  /\ ~At(p, "off")
  /\ session' = [session EXCEPT ![p] = Idle]
  /\ UNCHANGED <<network, disk, lock>>

\* The operator, once the recorded process is known to be dead.
RemoveStaleLock ==
  /\ lock # NoProc
  /\ At(lock, "off")
  /\ lock' = NoProc
  /\ UNCHANGED <<network, disk, session>>

-------------------------------------------------------------------------------
(* The chain.                                                               *)

Deeper(blocks) ==
  [i \in DOMAIN blocks |-> [blocks[i] EXCEPT !.depth = IF @ < Confirmations THEN @ + 1 ELSE @]]

\* A block without a transaction of the signer.
Tick ==
  /\ \E i \in DOMAIN chain : chain[i].depth < Confirmations
  /\ chain' = Deeper(chain)
  /\ UNCHANGED <<reorgs, foreign, broadcast, mempool, disk, lock, session>>

Outcomes == IF MayRevert THEN BOOLEAN ELSE {TRUE}

\* Any node may still have what the RPC node has dropped.
Mine(t) ==
  /\ t \in broadcast
  /\ t.nonce = Len(chain)
  /\ \E ok \in Outcomes :
       chain' = Append(Deeper(chain), [tx |-> t, fork |-> reorgs, depth |-> 1, ok |-> ok])
  /\ mempool' = {u \in mempool : u.nonce # t.nonce}
  /\ UNCHANGED <<reorgs, foreign, broadcast, disk, lock, session>>

Reorganise(k) ==
  /\ reorgs < MaxReorgs
  /\ \A i \in k..Len(chain) : chain[i].depth < Confirmations
  /\ reorgs' = reorgs + 1
  /\ chain' = SubSeq(chain, 1, k - 1)
  /\ mempool' = mempool \cup {chain[i].tx : i \in k..Len(chain)}
  /\ UNCHANGED <<foreign, broadcast, disk, lock, session>>

ForeignSend(nonce) ==
  /\ foreign < MaxForeign
  /\ nonce = Len(chain) \/ PendingCountIs(nonce)
  /\ foreign' = foreign + 1
  /\ LET t == [step |-> 0, nonce |-> nonce, cost |-> 0] IN
       broadcast' = broadcast \cup {t} /\ mempool' = mempool \cup {t}
  /\ UNCHANGED <<chain, reorgs, disk, lock, session>>

Forget(t) ==
  /\ mempool' = mempool \ {t}
  /\ UNCHANGED <<chain, reorgs, foreign, broadcast, disk, lock, session>>

-------------------------------------------------------------------------------
Progress(p) ==
  \/ Load(p) \/ Resume(p) \/ ReadLatestCount(p) \/ ReadPendingCount(p)
  \/ \E cost \in Costs : SignAndSave(p, cost)
  \/ LookupReceipt(p) \/ CheckBeforeSend(p) \/ Send(p) \/ WaiterReturns(p)
  \/ ReadReceipt(p) \/ ReadHead(p) \/ ReadFreshReceipt(p)
  \/ RecordContract(p) \/ VerifyAndComplete(p) \/ Stop(p)

Fault ==
  \/ \E p \in Procs : Interrupt(p) \/ SendUnanswered(p) \/ Crash(p)
  \/ \E t \in mempool : Forget(t)

MinePending == \E t \in mempool : Mine(t)

Next ==
  \/ \E p \in Procs, limits \in Limits : AcquireLock(p, limits)
  \/ \E p \in Procs : Progress(p)
  \/ Fault
  \/ RemoveStaleLock
  \/ Tick
  \/ \E t \in broadcast : Mine(t)
  \/ \E k \in 1..Len(chain) : Reorganise(k)
  \/ \E nonce \in Len(chain)..Len(chain) + MaxForeign + 1 : ForeignSend(nonce)

Spec == Init /\ [][Next]_vars

\* The event loop runs what is ready; the operator runs the script again and
\* removes a stale lock; blocks come, and the network mines what its pool holds.
Fairness ==
  /\ \A p \in Procs : WF_vars(Progress(p))
  /\ WF_vars(\E p \in Procs, limits \in Limits : AcquireLock(p, limits))
  /\ WF_vars(RemoveStaleLock)
  /\ WF_vars(Tick)
  /\ WF_vars(MinePending)

FairSpec == Spec /\ Fairness

-------------------------------------------------------------------------------
(* Properties.                                                              *)

OwnBroadcast == {t \in broadcast : t.step # 0}

\* "Never create a replacement nonce after uncertainty" (line 250): however
\* often the script is stopped, killed and run again, the network is never
\* given two different transactions for one step, so no step runs twice.
OneTransactionPerStep == \A t, u \in OwnBroadcast : t.step = u.step => t = u

\* A step is sent only on top of what cannot be undone: all earlier steps were
\* executed, successfully, in blocks that no reorganisation removes.
StepsInOrder ==
  \A t \in OwnBroadcast : \A i \in 1..t.step - 1 :
    Final(disk.entries[i].tx) /\ Succeeded(disk.entries[i].tx)

\* What the manifest calls confirmed is on the canonical chain for good, in the
\* very block whose hash was saved, although every read of the node may come
\* from before a reorganisation (readCanonicalReceipt, lines 95-133).
ConfirmedIsFinal ==
  \A s \in Steps : Confirmed(disk, s) =>
    /\ Final(disk.entries[s].tx) /\ Succeeded(disk.entries[s].tx)
    /\ BlockOf(disk.entries[s].tx).fork = disk.entries[s].fork

\* "Intent/hash durably recorded BEFORE network submission" (line 228): what
\* the network may have is in the manifest, so a killed run can be taken up.
BroadcastIsSaved == \A t \in OwnBroadcast : Saved(disk, t.step) /\ disk.entries[t.step].tx = t

\* A manifest that says "complete" has every step confirmed and every contract
\* recorded, whichever runs did the work.
CompleteMeansExecuted ==
  disk.complete => (\A s \in Steps : Confirmed(disk, s)) /\ disk.contracts = DeploySteps

\* The saved request never changes and its status never goes back: no run, not
\* even one that raced for the lock, writes an older manifest over a newer one.
JournalKeepsHash ==
  [][\A s \in Steps : Saved(disk, s) =>
       /\ disk'.entries[s].tx = disk.entries[s].tx
       /\ Rank[disk'.entries[s].status] >= Rank[disk.entries[s].status]]_vars

\* Operator limits hold at the moment of sending, also for a request that an
\* earlier run saved under higher ones (lines 236-238).
BroadcastWithinLimits ==
  [][\A t \in broadcast' \ broadcast : t.step # 0 =>
       \E p \in Procs : lock = p /\ WithinLimits(p, t.cost, 0)]_vars

\* The sequence of steps is that of StepwiseDeployment.
Stepwise == INSTANCE StepwiseDeployment WITH
  sent <- {t.step : t \in OwnBroadcast},
  settled <- {t.step : t \in {u \in OwnBroadcast : Final(u) /\ BlockOf(u).ok}},
  finished <- disk.complete
StepwiseSpec == Stepwise!Spec

\* Where nobody but a person can help: a saved transaction reverted, its nonce
\* went to another transaction, or a nonce before its own is used by nothing.
NeedsReconciliation ==
  \E s \in Steps : Saved(disk, s) /\
    LET t == disk.entries[s].tx IN
      \/ t.nonce < Len(chain) /\ BlockOf(t).depth = Confirmations /\ ~Succeeded(t)
      \/ \E n \in Len(chain)..t.nonce - 1 : \A u \in mempool : u.nonce # n

Generous(limits) == \A l \in Limits : limits.fee >= l.fee /\ limits.total >= l.total

\* Once faults cease and the operator leaves the limits high enough, running
\* the script again completes the deployment, wherever it was interrupted,
\* unless it is one of those that need a person.
EventuallyComplete ==
  (<>[][~Fault]_vars /\ <>[](\A p \in Procs : ~At(p, "off") => Generous(session[p].limits)))
    => <>(disk.complete \/ NeedsReconciliation)

-------------------------------------------------------------------------------
(* The inductive invariant.                                                 *)

\* Who is not off holds the lock, so there is one at a time.
LockHeld == \A p \in Procs : ~At(p, "off") => lock = p

\* What the holder has in memory is what the file says.
MemoryIsDisk == \A p \in Procs : session[p].stage \notin {"off", "loading"} => session[p].mem = disk

ChainIsBroadcast ==
  \A i \in 1..Len(chain) :
    chain[i].tx \in broadcast /\ chain[i].tx.nonce = i - 1 /\ chain[i].fork <= reorgs

\* Steps enter the manifest in order, each after the one before is confirmed.
SavedInOrder ==
  \A s \in Steps : Saved(disk, s) =>
    /\ disk.entries[s].tx.step = s
    /\ \A i \in 1..s - 1 : Confirmed(disk, i)

\* What a process at a stage knows of the step it is at, and of those before.
StageKnows(p) ==
  LET r == session[p] IN
  /\ \A i \in 1..r.step - 1 : Confirmed(disk, i) /\ (i \in DeploySteps => i \in disk.contracts)
  /\ r.stage = "verifying" <=> r.step = StepCount + 1
  /\ r.stage \in {"counted", "signing"} => ~Saved(disk, r.step)
  /\ r.stage \in {"lookup", "limits", "sending", "await"} =>
       disk.entries[r.step].status \in {"prepared", "submitted"}
  /\ r.stage = "sending" => WithinLimits(p, disk.entries[r.step].tx.cost, 0)
  /\ r.stage \in {"receipt", "head", "fresh"} => Saved(disk, r.step)
  /\ r.stage = "recording" => Confirmed(disk, r.step)

\* A block that is out of sight does not come back.
StageSees(p) ==
  /\ At(p, "head") \/ At(p, "fresh") =>
       session[p].block <= reorgs /\ (InSight(p) \/ session[p].block < reorgs)
  /\ At(p, "fresh") => DeepEnough(p)

StagesSound ==
  \A p \in Procs :
    /\ At(p, "loading") => session[p].step = 1
    /\ session[p].stage \notin {"off", "loading"} => StageKnows(p) /\ StageSees(p)

DeploymentInv ==
  /\ TypeOK /\ LockHeld /\ MemoryIsDisk /\ ChainIsBroadcast /\ BroadcastIsSaved
  /\ SavedInOrder /\ ConfirmedIsFinal /\ StagesSound /\ CompleteMeansExecuted
===============================================================================
