----------------------------- MODULE IntentSender -----------------------------
(***************************************************************************)
(* How the web application turns a reviewed deposit into transactions:     *)
(* useSubmitTx, sendEvmIntent, planIntent and the sealed confirmation of   *)
(* packages/adapter-evm/src/react.tsx.  Several mounted forms (or tabs)    *)
(* share one wallet account and its nonces; the user may reject, reprice   *)
(* or cancel in the wallet, switch account or network at any await, and    *)
(* the chain may replace its latest block.                                 *)
(*                                                                         *)
(* Blocks hold one transaction or none.  A block is identified by its      *)
(* height and the number of reorganisations before it; a transaction by    *)
(* its hash.  A block with a sealed successor is assumed to stay: this is  *)
(* what the two confirmations of react.tsx:240 stand for.                  *)
(***************************************************************************)
EXTENDS Integers, Sequences, FiniteSets

CONSTANTS
  Forms,       \* mounted forms, each with an inFlight flag of its own
  Amount,      \* the amount reviewed in each form
  Attempts,    \* reads of the sealed confirmation, 8 in the code
  Submissions, \* bound: the numbers that submissions are counted with
  Starts       \* what the pool may spend already, and two bounds: the
               \* submissions of each form, and the reorganisations,
               \* foreign transactions, replacements in the wallet and
               \* switches of the wallet, counted together

ASSUME SenderAssumption ==
  /\ Amount \in [Forms -> Nat \ {0}]
  /\ Attempts \in Nat \ {0}
  /\ Submissions \subseteq Nat \ {0}
  /\ Starts \subseteq [allowance : Nat, submits : [Forms -> Nat], events : Nat]

VARIABLES
  chain,         \* canonical blocks, the latest one last
  reorgs,        \* replacements of the latest block so far
  signed,        \* transactions the wallet has signed
  reviewed,      \* the wallet is on the reviewed account, connector and network
  budget,        \* what the bounds leave of submissions and of interference
  flow,          \* what each form's submission holds in memory
  outcome        \* how each submission ended, by its number

external == <<chain, reorgs, reviewed, budget>>
vars == <<chain, reorgs, signed, reviewed, budget, flow, outcome>>

Calls == [fn : {"approve", "deposit", "cancel", "toggle", "mint", "none"}, amount : Nat]
Tx == [hash : Nat, nonce : Nat, submission : Nat, step : Nat, call : Calls]
Block == [tx : Tx, fork : Nat, ok : BOOLEAN, allowance : Nat, open : BOOLEAN, minted : Nat]
Point == [height : Nat, fork : Nat]

Stages == {"idle", "plan", "preflight", "finish", "session", "simulate", "recheck", "prompt",
           "wait", "receipt", "block", "details", "fresh", "sealed"}
\* unsent: ended before this step was signed; unconfirmed: signed, fate unknown.
Outcomes == {"none", "running", "confirmed", "unsent", "cancelled", "unconfirmed"}

Flow == [stage : Stages, id : Nat, steps : Seq(Calls), step : Nat, pinned : Point,
         away : BOOLEAN, hash : Nat, attempt : Nat, seen : Point, position : Nat,
         read : SUBSET {"transaction", "latest"}]
Report == [result : Outcomes, position : Nat]

Nowhere == [height |-> 0, fork |-> 0]
Idle == [stage |-> "idle", id |-> 0, steps |-> <<>>, step |-> 1, pinned |-> Nowhere,
         away |-> FALSE, hash |-> 0, attempt |-> 1, seen |-> Nowhere, position |-> 0,
         read |-> {}]

TypeOK ==
  /\ chain \in Seq(Block) /\ chain # <<>>
  /\ reorgs \in Nat /\ budget \in [allowance : Nat, submits : [Forms -> Nat], events : Nat]
  /\ signed \subseteq Tx
  /\ reviewed \in BOOLEAN
  /\ flow \in [Forms -> Flow]
  /\ \A f \in Forms : flow[f].steps # <<>> => flow[f].step \in 1..Len(flow[f].steps)
  /\ outcome \in [Submissions -> Report]

-------------------------------------------------------------------------------
(* The chain *)

Call(fn, amount) == [fn |-> fn, amount |-> amount]
\* A transaction of another account, or of none at all.
Others(fn) == [hash |-> 0, nonce |-> 0, submission |-> 0, step |-> 0, call |-> Call(fn, 0)]

\* A deposit reverts while the pool is closed or without the allowance.
Runs(parent, call) ==
  call.fn = "deposit" => parent.open /\ call.amount <= parent.allowance

\* The block that follows parent and holds tx.
Executed(parent, tx, reorganisations) ==
  LET runs == Runs(parent, tx.call)
      deposits == runs /\ tx.call.fn = "deposit"
  IN  [tx |-> tx, fork |-> reorganisations, ok |-> runs,
       allowance |-> CASE tx.call.fn = "approve" -> tx.call.amount
                       [] deposits -> parent.allowance - tx.call.amount
                       [] OTHER -> parent.allowance,
       open |-> IF tx.call.fn = "toggle" THEN ~parent.open ELSE parent.open,
       minted |-> IF deposits \/ tx.call.fn = "mint" THEN parent.minted + 1 ELSE parent.minted]

Height == Len(chain)
Latest == chain[Height]
Final == 1..Height - 1
Own(blocks) == {n \in 1..Len(blocks) : blocks[n].tx.hash # 0}
\* Nonces are used in order, one transaction for each.
NextNonce(blocks) == Cardinality(Own(blocks)) + 1
Mineable(blocks) == {tx \in signed : tx.nonce = NextNonce(blocks)}

Init ==
  /\ budget \in Starts
  /\ chain = <<[tx |-> Others("none"), fork |-> 0, ok |-> TRUE,
                allowance |-> budget.allowance, open |-> TRUE, minted |-> 0]>>
  /\ reorgs = 0
  /\ signed = {}
  /\ reviewed = TRUE
  /\ flow = [f \in Forms |-> Idle]
  /\ outcome = [s \in Submissions |-> [result |-> "none", position |-> 0]]

Extend(tx) ==
  /\ chain' = Append(chain, Executed(Latest, tx, reorgs))
  /\ UNCHANGED <<reorgs, signed, reviewed, flow, outcome>>

Mine == \E tx \in Mineable(chain) : Extend(tx) /\ UNCHANGED budget

\* An empty block; one on top of another would change nothing.
Seal == Latest.tx # Others("none") /\ Extend(Others("none")) /\ UNCHANGED budget

Interference == budget.events > 0 /\ budget' = [budget EXCEPT !.events = @ - 1]

\* Governance closes or opens the pool, or another account takes a receipt.
ForeignTransaction ==
  /\ Interference
  /\ \E fn \in {"toggle", "mint"} : Extend(Others(fn))

\* Another block takes the place of the latest one.
Reorganise ==
  /\ Interference
  /\ Height > 1
  /\ reorgs' = reorgs + 1
  /\ LET kept == SubSeq(chain, 1, Height - 1)
     IN  \E tx \in Mineable(kept) \cup {Others("none")} :
           chain' = Append(kept, Executed(kept[Height - 1], tx, reorgs + 1))
  /\ UNCHANGED <<signed, reviewed, flow, outcome>>

-------------------------------------------------------------------------------
(* The wallet: the user acts while a submission runs. *)

Switch ==
  /\ Interference
  /\ reviewed' = ~reviewed
  /\ flow' = [f \in Forms |-> [flow[f] EXCEPT !.away = FALSE]]
  /\ UNCHANGED <<chain, reorgs, signed, outcome>>

NewHash == Cardinality(signed) + 1

\* Speeding up or cancelling signs the nonce of a transaction once more.
Replace ==
  /\ Interference
  /\ \E tx \in signed : \E call \in {tx.call, Call("cancel", 0)} :
       /\ tx.nonce >= NextNonce(chain)
       /\ signed' = signed \cup {[tx EXCEPT !.hash = NewHash, !.call = call]}
  /\ UNCHANGED <<chain, reorgs, reviewed, flow, outcome>>

-------------------------------------------------------------------------------
(* A submission.  Each action ends where the code awaits an answer.         *)

At(f, stage) == flow[f].stage = stage
Step(f) == flow[f].steps[flow[f].step]
Goto(f, stage) == flow' = [flow EXCEPT ![f].stage = stage]

\* The finally of useSubmitTx clears the form's inFlight flag.
End(f, result, position) ==
  /\ flow' = [flow EXCEPT ![f] = Idle]
  /\ outcome' = [outcome EXCEPT ![flow[f].id] = [result |-> result, position |-> position]]

Fail(f, result) == End(f, result, 0)

Quiet(f) == UNCHANGED <<external, signed>>
Continues(f) == Quiet(f) /\ UNCHANGED outcome

Submit(f) ==
  /\ At(f, "idle")
  /\ reviewed
  /\ budget.submits[f] > 0
  /\ budget' = [budget EXCEPT !.submits[f] = @ - 1]
  /\ \E s \in Submissions :
       /\ outcome[s].result = "none"
       /\ \A r \in Submissions : r < s => outcome[r].result # "none"
       /\ flow' = [flow EXCEPT ![f] = [Idle EXCEPT !.stage = "plan", !.id = s]]
       /\ outcome' = [outcome EXCEPT ![s].result = "running"]
  /\ UNCHANGED <<chain, reorgs, signed, reviewed>>

\* Variant that adds to the allowance that is left over.
ApprovalsOnTop(allowance, amount) ==
  IF allowance >= amount THEN <<>> ELSE <<Call("approve", allowance + amount)>>

\* approvalStep: exact approvals, after a reset when one is left over.
Approvals(allowance, amount) ==
  CASE allowance >= amount -> <<>>
    [] allowance = 0 -> <<Call("approve", amount)>>
    [] OTHER -> <<Call("approve", 0), Call("approve", amount)>>

Plan(f) ==
  /\ At(f, "plan")
  /\ IF Latest.open
     THEN /\ flow' = [flow EXCEPT ![f].stage = "preflight",
                        ![f].steps = Append(Approvals(Latest.allowance, Amount[f]),
                                            Call("deposit", Amount[f]))]
          /\ UNCHANGED outcome
     ELSE Fail(f, "unsent")
  /\ Quiet(f)

\* assertDepositPreflight reads the pool at one block ...
Preflight(f) ==
  /\ At(f, "preflight")
  /\ IF Latest.open
     THEN /\ flow' = [flow EXCEPT ![f].stage = "finish",
                        ![f].pinned = [height |-> Height, fork |-> Latest.fork]]
          /\ UNCHANGED outcome
     ELSE Fail(f, "unsent")
  /\ Quiet(f)

\* The block at a point is still the one that was read there.
Canonical(point) == point.height <= Height /\ chain[point.height].fork = point.fork

\* ... and its snapshot finishes only if that block is still canonical.
FinishPreflight(f) ==
  /\ At(f, "finish")
  /\ IF Canonical(flow[f].pinned)
     THEN Goto(f, "session") /\ UNCHANGED outcome
     ELSE Fail(f, "unsent")
  /\ Quiet(f)

AssertSession(f, stage, next) ==
  /\ At(f, stage)
  /\ IF reviewed
     THEN Goto(f, next) /\ UNCHANGED outcome
     ELSE Fail(f, "unsent")
  /\ Quiet(f)

\* away: the wallet had left the reviewed session before this answer, and has
\* not moved since.
Simulate(f) ==
  /\ At(f, "simulate")
  /\ IF Runs(Latest, Step(f))
     THEN /\ flow' = [flow EXCEPT ![f].stage = "recheck", ![f].away = ~reviewed]
          /\ UNCHANGED outcome
     ELSE Fail(f, "unsent")
  /\ Quiet(f)

\* A refused answer, an expired snapshot or a failed read before the signature.
GiveUp(f) ==
  /\ flow[f].stage \in {"plan", "preflight", "finish", "session", "simulate", "recheck"}
  /\ Fail(f, "unsent")
  /\ Quiet(f)

Reject(f) ==
  /\ At(f, "prompt")
  /\ Fail(f, "unsent")
  /\ Quiet(f)

Sign(f) ==
  /\ At(f, "prompt")
  /\ signed' = signed \cup
       {[hash |-> NewHash, nonce |-> Cardinality({tx.nonce : tx \in signed}) + 1,
         submission |-> flow[f].id, step |-> flow[f].step, call |-> Step(f)]}
  /\ flow' = [flow EXCEPT ![f].stage = "wait", ![f].hash = NewHash, ![f].pinned = Nowhere,
                     ![f].away = FALSE]
  /\ UNCHANGED <<external, outcome>>

\* Where the transaction of this hash is on the chain: one place or none.
Places(hash) == {n \in 1..Height : chain[n].tx.hash = hash}
SignedAs(hash) == CHOOSE tx \in signed : tx.hash = hash

\* waitForTransactionReceipt answers once the nonce is used two blocks deep;
\* onReplaced follows a repriced transaction and refuses any other.
WaiterReturns(f) ==
  /\ At(f, "wait")
  /\ \E n \in Final :
       /\ chain[n].tx.nonce = SignedAs(flow[f].hash).nonce
       /\ IF chain[n].tx.call = Step(f)
          THEN /\ flow' = [flow EXCEPT ![f].stage = "receipt", ![f].hash = chain[n].tx.hash]
               /\ UNCHANGED outcome
          ELSE Fail(f, "cancelled")
  /\ Quiet(f)

\* The waiter's own failure is swallowed.
WaiterFails(f) ==
  /\ At(f, "wait")
  /\ Goto(f, "receipt")
  /\ Continues(f)

-------------------------------------------------------------------------------
(* The sealed confirmation: readCanonicalStepReceipt, repeated while a read *)
(* is unavailable.                                                          *)

\* Variant that signs the step again when its confirmation cannot be read.
UnavailableSignAgain(f) ==
  /\ flow' = [flow EXCEPT ![f] = [flow[f] EXCEPT !.stage = "preflight", !.attempt = @ + 1,
                !.seen = Nowhere, !.position = 0, !.read = {}, !.hash = 0]]
  /\ flow[f].attempt < Attempts
  /\ UNCHANGED outcome

\* Variant that forgets how often it has read.
UnavailableUncounted(f) ==
  /\ flow' = [flow EXCEPT ![f] = [flow[f] EXCEPT !.stage = "receipt",
                !.seen = Nowhere, !.position = 0, !.read = {}]]
  /\ UNCHANGED outcome

\* ConfirmationReadUnavailable: every check is repeated, up to Attempts times.
Unavailable(f) ==
  IF flow[f].attempt < Attempts
  THEN /\ flow' = [flow EXCEPT ![f] = [flow[f] EXCEPT !.stage = "receipt", !.attempt = @ + 1,
                     !.seen = Nowhere, !.position = 0, !.read = {}]]
       /\ UNCHANGED outcome
  ELSE Fail(f, "unconfirmed")

ReadReceipt(f) ==
  /\ At(f, "receipt")
  /\ IF Places(flow[f].hash) = {} THEN Unavailable(f)
     ELSE \E n \in Places(flow[f].hash) :
            IF chain[n].ok
            THEN /\ flow' = [flow EXCEPT ![f].stage = "block",
                               ![f].seen = [height |-> n, fork |-> chain[n].fork]]
                 /\ UNCHANGED outcome
            ELSE Fail(f, "unconfirmed")
  /\ Quiet(f)

VerifyBlock(f, stage, next) ==
  /\ At(f, stage)
  /\ CASE flow[f].seen.height > Height -> Unavailable(f)
       [] Canonical(flow[f].seen) -> next
       [] OTHER -> Fail(f, "unconfirmed")
  /\ Quiet(f)

\* The transaction and the latest block are read together, answered in any order.
Details(f, read) ==
  /\ flow' = IF flow[f].read \cup {read} = {"transaction", "latest"}
             THEN [flow EXCEPT ![f].stage = "fresh", ![f].read = {}]
             ELSE [flow EXCEPT ![f].read = @ \cup {read}]
  /\ UNCHANGED outcome

ReadTransaction(f) ==
  /\ At(f, "details")
  /\ "transaction" \notin flow[f].read
  /\ \/ /\ flow[f].seen.height \in Places(flow[f].hash) /\ Canonical(flow[f].seen)
        /\ Details(f, "transaction")
     \/ /\ ~(flow[f].seen.height \in Places(flow[f].hash) /\ Canonical(flow[f].seen))
        /\ Fail(f, "unconfirmed")
  /\ Quiet(f)

ReadLatest(f) ==
  /\ At(f, "details")
  /\ "latest" \notin flow[f].read
  /\ IF Height > flow[f].seen.height THEN Details(f, "latest") ELSE Unavailable(f)
  /\ Quiet(f)

\* Variant that takes whatever block the second receipt names.
ReadAnyReceipt(f) ==
  /\ At(f, "fresh")
  /\ IF Places(flow[f].hash) = {} THEN Unavailable(f)
     ELSE \E n \in Places(flow[f].hash) :
            IF chain[n].ok
            THEN /\ flow' = [flow EXCEPT ![f].stage = "sealed", ![f].position = chain[n].minted,
                               ![f].seen = [height |-> n, fork |-> chain[n].fork]]
                 /\ UNCHANGED outcome
            ELSE Fail(f, "unconfirmed")
  /\ Quiet(f)

\* The receipt once more: it must still name the block that was verified.
ReadFreshReceipt(f) ==
  /\ At(f, "fresh")
  /\ IF Places(flow[f].hash) = {} THEN Unavailable(f)
     ELSE \E n \in Places(flow[f].hash) :
            IF chain[n].ok /\ flow[f].seen = [height |-> n, fork |-> chain[n].fork]
            THEN /\ flow' = [flow EXCEPT ![f].stage = "sealed", ![f].position = chain[n].minted]
                 /\ UNCHANGED outcome
            ELSE Fail(f, "unconfirmed")
  /\ Quiet(f)

\* Variant that checks the pool before the first step only.
NextStepUnchecked(f) ==
  IF flow[f].step < Len(flow[f].steps)
  THEN /\ flow' = [flow EXCEPT ![f] = [Idle EXCEPT !.stage = "session", !.id = flow[f].id,
                     !.steps = flow[f].steps, !.step = flow[f].step + 1]]
       /\ UNCHANGED outcome
  ELSE End(f, "confirmed", flow[f].position)

\* Variant that runs the loop once more.
NextStepPastEnd(f) ==
  IF flow[f].step <= Len(flow[f].steps)
  THEN /\ flow' = [flow EXCEPT ![f] = [Idle EXCEPT !.stage = "preflight", !.id = flow[f].id,
                     !.steps = flow[f].steps, !.step = flow[f].step + 1]]
       /\ UNCHANGED outcome
  ELSE End(f, "confirmed", flow[f].position)

\* The next step, or the end with the position that the last receipt minted.
NextStep(f) ==
  IF flow[f].step < Len(flow[f].steps)
  THEN /\ flow' = [flow EXCEPT ![f] = [Idle EXCEPT !.stage = "preflight", !.id = flow[f].id,
                     !.steps = flow[f].steps, !.step = flow[f].step + 1]]
       /\ UNCHANGED outcome
  ELSE End(f, "confirmed", flow[f].position)

ReadFails(f) ==
  /\ flow[f].stage \in {"receipt", "block", "details", "fresh", "sealed"}
  /\ Unavailable(f)
  /\ Quiet(f)

Progress(f) ==
  \/ Plan(f) \/ Preflight(f) \/ FinishPreflight(f)
  \/ AssertSession(f, "session", "simulate") \/ Simulate(f)
  \/ AssertSession(f, "recheck", "prompt") \/ GiveUp(f)
  \/ Reject(f) \/ Sign(f) \/ WaiterReturns(f) \/ WaiterFails(f)
  \/ ReadReceipt(f) \/ VerifyBlock(f, "block", Goto(f, "details") /\ UNCHANGED outcome)
  \/ ReadTransaction(f) \/ ReadLatest(f) \/ ReadFreshReceipt(f)
  \/ VerifyBlock(f, "sealed", NextStep(f)) \/ ReadFails(f)

ChainMoves == Mine \/ Seal

Next ==
  \/ \E f \in Forms : Submit(f) \/ Progress(f)
  \/ ChainMoves \/ ForeignTransaction \/ Reorganise
  \/ Replace \/ Switch

Spec == Init /\ [][Next]_vars
FairSpec == Spec /\ (\A f \in Forms : WF_vars(Progress(f))) /\ WF_vars(ChainMoves)

-------------------------------------------------------------------------------
(* What must hold *)

Runner(s) == {f \in Forms : flow[f].id = s}
\* Step i of submission s took effect in a block that stays.
Settled(s, i) ==
  \E n \in Final :
    /\ chain[n].ok /\ chain[n].tx.submission = s /\ chain[n].tx.step = i
    /\ chain[n].tx.call.fn # "cancel"
Deposits(s) ==
  {n \in 1..Height : chain[n].tx.submission = s /\ chain[n].tx.call.fn = "deposit" /\ chain[n].ok}

(***************************************************************************)
(* A later step is asked for only when every earlier one has taken effect  *)
(* for good, and a submission that reports success has deposited for good  *)
(* and names the very position that the chain minted for it, whatever      *)
(* blocks were replaced between the reads (react.tsx:179-250, 353-360).    *)
(***************************************************************************)
StepsSettled ==
  /\ \A f \in Forms : \A i \in 1..flow[f].step - 1 : Settled(flow[f].id, i)
  /\ \A s \in Submissions : outcome[s].result = "confirmed" =>
       \E n \in Final \cap Deposits(s) : chain[n].minted = outcome[s].position

(***************************************************************************)
(* One click deposits once, however often the wallet reprices it or a      *)
(* confirmation is read again; and a submission that ends as rejected,     *)
(* cancelled or blocked before its signature never deposits, so that it    *)
(* may be started again (react.tsx:253, 350-357).                          *)
(***************************************************************************)
DepositsOnce ==
  \A s \in Submissions :
    /\ Cardinality(Deposits(s)) <= 1
    /\ outcome[s].result \in {"unsent", "cancelled"} => Deposits(s) = {}

(***************************************************************************)
(* No signature is asked for on old evidence: the pool was checked after   *)
(* the previous step had settled, in a block where it took deposits, and   *)
(* the wallet was on the reviewed account and network when the simulation  *)
(* answered or came back to it afterwards (react.tsx:309-323,              *)
(* intents.ts:497-504).                                                    *)
(***************************************************************************)
PromptsChecked ==
  \A f \in Forms : At(f, "prompt") =>
    /\ ~flow[f].away
    /\ \A n \in 1..Height :
         chain[n].tx.submission = flow[f].id => n <= flow[f].pinned.height
    /\ Canonical(flow[f].pinned) => chain[flow[f].pinned.height].open

(***************************************************************************)
(* Exact approvals: the pool can never spend more than an amount somebody  *)
(* reviewed, and forms that all report success leave nothing approved that *)
(* was not there before, in whatever order they interleave                 *)
(* (intents.ts:73-87).                                                     *)
(***************************************************************************)
ApprovalsExact ==
  /\ \/ Latest.allowance <= chain[1].allowance
     \/ \E f \in Forms : Latest.allowance <= Amount[f]
  /\ (\A s \in Submissions : outcome[s].result \in {"none", "confirmed"})
     => Latest.allowance <= chain[1].allowance

(***************************************************************************)
(* Every submission ends and frees its form, if the user answers every     *)
(* prompt and the network mines what it holds.                             *)
(***************************************************************************)
SubmissionEnds == \A f \in Forms : ~At(f, "idle") ~> At(f, "idle")

-------------------------------------------------------------------------------
(* The inductive invariant *)

\* The signer's blocks up to height n use the nonces 1, 2, ... in turn.
OwnUpTo(n) == {m \in 1..n : chain[m].tx.hash # 0}

ChainSound ==
  \A n \in 1..Height :
    /\ chain[n].fork <= reorgs
    /\ chain[n].tx.hash # 0 =>
         chain[n].tx \in signed /\ chain[n].tx.nonce = Cardinality(OwnUpTo(n))
    /\ chain[n].tx.hash = 0 =>
         chain[n].tx.submission = 0 /\ chain[n].tx.nonce = 0 /\ chain[n].tx.call.fn # "deposit"

Nonces == {tx.nonce : tx \in signed}

\* A nonce stands for one step of one submission; its transactions differ in that
\* some of them cancel it.
SignedSound ==
  /\ IsFiniteSet(signed)
  /\ Nonces = 1..Cardinality(Nonces)
  /\ \A t \in signed :
       /\ t.hash \in 1..Cardinality(signed)
       /\ t.submission \in Submissions /\ outcome[t.submission].result # "none"
  /\ \A t, u \in signed :
       /\ t.hash = u.hash => t = u
       /\ t.nonce = u.nonce <=> t.submission = u.submission /\ t.step = u.step
       /\ t.submission = u.submission /\ t.call.fn = "deposit" /\ u.call.fn = "deposit"
          => t.step = u.step

Unsigned == {"plan", "preflight", "finish", "session", "simulate", "recheck", "prompt"}
Pinned == {"finish", "session", "simulate", "recheck", "prompt"}
Sighted == {"block", "details", "fresh", "sealed"}

SignedFor(s) == {t \in signed : t.submission = s}
NonceFinal(nonce) == \E n \in Final : chain[n].tx.nonce = nonce

\* A submission r under way has a plan that ends in its only deposit.
Planned(r) ==
  /\ r.id \in Submissions /\ outcome[r.id].result = "running"
  /\ r.stage = "plan" => r.step = 1
  /\ r.stage # "plan" =>
       /\ r.steps # <<>>
       /\ \A i \in 1..Len(r.steps) : r.steps[i].fn = "deposit" <=> i = Len(r.steps)
       /\ \A i \in 1..Len(r.steps) : r.steps[i].fn # "cancel"

\* What was signed for it is in its plan, and settled before the next step.
Followed(r) ==
  /\ \A t \in SignedFor(r.id) :
       /\ t.step \in 1..r.step
       /\ r.stage \in Unsigned => t.step # r.step
       /\ t.call \in {r.steps[t.step], Call("cancel", 0)}
       /\ t.step < r.step => NonceFinal(t.nonce)
  /\ \A i \in 1..r.step - 1 : Settled(r.id, i)

\* The pinned block was open, and nothing of the submission came after it.
PinHolds(r) ==
  r.stage \in Pinned =>
    /\ r.pinned.height \in 1..Height /\ r.pinned.fork <= reorgs
    /\ Canonical(r.pinned) => chain[r.pinned.height].open
    /\ \A n \in 1..Height : chain[n].tx.submission = r.id => n <= r.pinned.height

\* The transaction that is waited for does the step.
SignedStep(r) ==
  r.stage \in {"wait", "receipt"} \cup Sighted =>
    \E t \in SignedFor(r.id) : t.hash = r.hash /\ t.step = r.step /\ t.call = r.steps[r.step]

\* What the reads of a confirmation have shown, of a block that is still there.
SightHolds(r) ==
  r.stage \in Sighted =>
    /\ r.seen.height \in 1..Height /\ r.seen.fork <= reorgs
    /\ Canonical(r.seen) =>
         chain[r.seen.height].tx.hash = r.hash /\ chain[r.seen.height].ok
    /\ "latest" \in r.read \/ r.stage \in {"fresh", "sealed"} => r.seen.height < Height
    /\ r.stage = "sealed" /\ Canonical(r.seen) => chain[r.seen.height].minted = r.position

UnderWay(r) ==
  /\ r.away => r.stage = "recheck" /\ ~reviewed
  /\ r.read # {} => r.stage = "details"
  /\ Planned(r) /\ Followed(r) /\ PinHolds(r) /\ SignedStep(r) /\ SightHolds(r)

FlowSound ==
  /\ \A f \in Forms : IF At(f, "idle") THEN flow[f] = Idle ELSE UnderWay(flow[f])
  /\ \A f, g \in Forms :
       f # g /\ ~At(f, "idle") /\ ~At(g, "idle") => flow[f].id # flow[g].id

\* A submission that ended without a deposit cannot have one any more.
EndSound(s) ==
  /\ outcome[s].result = "unsent" => \A t \in SignedFor(s) : t.call.fn # "deposit"
  /\ outcome[s].result = "cancelled" =>
       \A t \in SignedFor(s) : t.call.fn = "deposit" =>
         \E n \in Final : chain[n].tx.nonce = t.nonce /\ chain[n].tx.call.fn # "deposit"
  /\ outcome[s].result = "confirmed" =>
       \E n \in Final \cap Deposits(s) : chain[n].minted = outcome[s].position

EndsSound == \A s \in Submissions : EndSound(s)

SenderInv == TypeOK /\ ChainSound /\ SignedSound /\ FlowSound /\ EndsSound

-------------------------------------------------------------------------------
(* The inductive invariant of the approvals *)

\* A plan approves nothing, or what its form deposits at the end.
PlansExact ==
  \A f \in Forms : \A i \in 1..Len(flow[f].steps) :
    flow[f].steps[i].amount \in IF i = Len(flow[f].steps) THEN {Amount[f]} ELSE {0, Amount[f]}

\* The steps of a submission are signed in their order, its deposit after its approvals.
SignedExact ==
  \A t \in signed :
    /\ t.call.fn = "approve" => t.call.amount \in {0} \cup {Amount[f] : f \in Forms}
    /\ \A u \in signed : t.submission = u.submission =>
         /\ t.step < u.step => t.nonce < u.nonce
         /\ t.call.fn = "approve" /\ u.call.fn = "deposit" =>
              t.step < u.step /\ t.call.amount <= u.call.amount

Approves(n) == chain[n].tx.call.fn = "approve"
NoneApproves(n, m) == \A k \in n + 1..m : ~Approves(k)

\* An allowance comes from the last approval, less what was deposited since.
AllowancesSpent ==
  /\ \A n \in 1..Height : Approves(n) =>
       chain[n].tx.hash # 0 /\ chain[n].allowance = chain[n].tx.call.amount
  /\ \A m \in 1..Height : \E n \in 1..m : (n = 1 \/ Approves(n)) /\ NoneApproves(n, m)
  /\ \A m \in 1..Height : \A n \in 1..m : NoneApproves(n, m) =>
       /\ chain[m].allowance <= chain[n].allowance
       /\ \A k \in n + 1..m : chain[k].tx.call.fn = "deposit" /\ chain[k].ok =>
            chain[m].allowance + chain[k].tx.call.amount <= chain[n].allowance

ApprovalInv == PlansExact /\ SignedExact /\ AllowancesSpent
=============================================================================
