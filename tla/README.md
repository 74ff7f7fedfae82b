# A specification of YieldShield

YieldShield sells price protection for yield-bearing tokens. A *shield* deposits
the yield-bearing token and keeps its dollar value at deposit; a *protector*
deposits a backing token, earns a commission out of the shields' yield and
stands in when a shield *activates*, that is takes backing tokens for the
deposit value and leaves the shielded tokens to the pool's protocol bucket. This
directory specifies, in TLA+, the pool, the oracle that decides which prices it may
use, the factory's registry and its hand-over of governance, the script that
deploys the contracts, the wallet side that turns a reviewed deposit into
transactions, and the cache behind the market page. All are checked with TLC and
proved about with TLAPS: every safety property that a run checks is also a theorem. Line numbers are of
`contracts/contracts/SplitRiskPool.sol` unless another file is named;
`PROJECT.json` maps every definition to its lines.

## 1. The system

| component | state | operations | met by |
|---|---|---|---|
| **Pool** (`SplitRiskPool.sol`) | token balances, totals, fee and commission buckets, reward accumulator, ended epochs, config, flags | deposit of either token, full and partial shield exits, activation, unlock notices, protector withdrawal, commission claim/forfeit/settlement/escrow, claims on ended epochs, fee payments, pause, config, sweeps | receipts, oracle, factory, tokens |
| **Receipts** (`ShieldReceiptNFT.sol`, `ProtectorReceiptNFT.sol`) | one position record per NFT, transfer locks, approval times | mint, update, burn (pool only), transfer, approve | pool |
| **Commission escrow** (`ProtectorCommissionEscrow.sol`) | the owner it pays | claim | pool |
| **Factory** (`SplitRiskPoolFactory.sol`) | registry of active pools, bonds, whitelists, paged hand-over counters | create, deactivate (three ways), sweep, register, bonds, hand governance over in pages | pool, oracle, governance |
| **Composite oracle** (`oracles/CompositeOracle.sol`) | per token: primary and backup feed, challenge times, backup flag, scheduled overrides | price queries, challenge, finalise, cancel, revert to primary, schedule/execute/cancel an override | feeds, pool, factory |
| **Feeds** (`oracles/*Feed.sol`, guards) | configuration | a price, or a refusal (stale, out of bounds, session closed) | oracle |
| **Access control and governance** (`base/`, `governance/`, `YSGovernor.sol`, `YSToken.sol`) | roles, pending roles, proposals | two-step hand-over, propose/vote/queue/execute | all contracts |
| **Base modules** (`base-modules/`) | the pool's and the factory's storage | the same entry points split over delegate-called modules | generated from the pool and factory |
| **Deployment script** (`scripts/bsc-deployment.mjs`, `deploy-bsc-testnet.mjs`) | lock file, journal on disk, memory of a run | lock, load, prepare, send, confirm, record, complete | BSC, operator |
| **Wallet sender** (`packages/adapter-evm/src/react.tsx`, `intents.ts`, `preflight.ts`, `snapshot.ts`; `apps/web/src/chain/useSubmitTx.ts`) | a submission in memory, one per form | plan, preflight, simulate, sign, follow, confirm | wallet, chain, pool |
| **Market service** (`services/bnb-market-handler.mjs`, `bnb-market-data.mjs`) | one cached snapshot, one shared read | serve a request, read the feeds | BSC, clients |
| **Adapters, SDK, web** (the rest of `packages/`, `apps/`) | none of their own | read chain state, format | contracts |

The contracts interact by synchronous calls inside a transaction: the pool asks the
oracle for quotes, mints and burns receipts, and moves ERC-20 tokens; the factory
asks a pool for its totals and tells it to sweep. Entry points are
`nonReentrant`, and a revert undoes the whole call, so a transaction is atomic
and the concurrency is the *order* of transactions: anybody's call may come between any two of yours, at any later time and under any other price. The
programs off the chain are the opposite: between two awaits of theirs anything may happen,
they may be killed, and what they read may be undone by a reorganisation.

What is hard, and for which component what makes it correct:

* **Pool.** Amounts are rounded in three directions (fees, reward per share,
  shares) and kept in several places at once (position, total, bucket, reserve).
  The protectors' share counters restart when an *epoch* ends, inside somebody
  else's withdrawal or activation, while receipts of the ended epoch still have
  commissions and residual backing to claim, in any order. Prices move, vanish,
  are disputed or closed between deposit, exit and activation. Correct means:
  totals agree with positions; every token has exactly one claimant and is in
  custody; what was promised (collateral, earned commissions, residual backing)
  stays payable; yield is taxed once; a withdrawal of backing needs a matured
  notice; the exits stay open.
* **Factory.** It retires pools on the evidence of totals. Correct means: a
  retired pool owes nothing; the registry is a set without holes; a bond is
  returned once (not modelled); a paged hand-over ends with every pool on the new timelock.
* **Oracle.** Challenge, finalisation, cancellation and timelocked overrides race
  on the same clock, while feeds fail, lose their circuit breaker, are replaced
  and removed. Correct means: no price is served that the other feed disputes,
  and none withheld when both agree; the backup becomes active only after the
  duration its challenge was made with; an override acts on the very
  challenge it was scheduled for; a removal gives notice.
* **Deployment script.** A crash, a lost answer, a reused nonce, a reorganisation or two runs
  at once must neither repeat nor skip a step, nor spend beyond the limits.
* **Wallet sender.** What is signed rests on evidence of now; a click deposits once;
  success means a settled deposit and names its own position; approvals are exact;
  every submission ends.
* **Market service.** No answer claims to be current when it is not, though it comes from
  a cache filled by somebody else's read; a failed read does not stop the next.
* **Receipts.** A lock or a late approval must not let a buyer receive less
  than was shown (not modelled, section 5).

The hazards behind these, each at its line, are listed in `PROJECT.json`.

## 2. What is modelled

| module | content |
|---|---|
| `PoolMath` | floor and ceiling `mulDiv`, clamped difference, a sum over receipts, and the scaling of three fees to what is available |
| `ProtectorRewards` | the *book*: commission and fee buckets, reserves of the current and of ended epochs, reward per share, pending dust; each operation an operator from book to book, and its revert conditions as predicates |
| `SplitRiskPool` | the state machine: all of the pool's entry points, the position records of both receipts, the retirement actions of the factory and the environment; the invariants and action properties; the inductive invariant `AccountingInv` |
| `MCSplitRiskPool` | quotes and configurations for TLC |
| `ProtectorRewardsProofs` | lemmas about the arithmetic and about each operation on the book |
| `SplitRiskPoolProofs` | the theorems about totals, custody and collateral, from `AccountingInv` |
| `PoolClaimsProofs` | the inductive invariant `BooksInv` and the theorems about claims, epochs, notices, retirement and open exits |
| `CompositeOracle` | the composite oracle for one token: configuration, challenge, timelocked overrides, timelocked removal, and the two protected price queries as operators of the state |
| `MCCompositeOracle` | what the feeds may answer, for TLC |
| `CompositeOracleProofs` | the invariant `OracleInv` and the theorems that follow from it |
| `PoolFactory` | the active-pool registry and the paged hand-over of the governance timelock, over the factory and its pools |
| `PoolFactoryProofs` | the invariant `FactoryInv` and its theorems |
| `StepwiseDeployment` | what a deployment promises: steps in order, once, complete only when all are settled |
| `Deployment` | the script that keeps the promise, with processes, lock, journal, node and chain |
| `MCDeployment`, `DeploymentProofs` | limits for TLC; the invariant `DeploymentInv`, the theorems and the refinement |
| `IntentSender`, `MCIntentSender`, `IntentSenderProofs` | submissions of deposits through a wallet; the starts TLC tries; the invariant `SenderInv` and its theorems |
| `MarketHandler`, `MarketHandlerProofs` | requests, the cache and the shared read; its invariant and theorem |

### State

`shieldPos`, `feeBaseline` and `lastClaim` are the shield receipts and the pool's
mappings for them (`feeValueBaselineUsd`, `lastClaimRewardsTime`);
`protectorPos` is a protector receipt with the mappings the pool keys by it
(`protectorShares`, `protectorShareEpochs`, reward debt, `commissionsClaimed`, the
settled flags) and its NFT's `unlockRequestTime`. `shieldLive` and
`protectorLive` are the receipts that exist. The `total*` variables,
`shieldedTokenBalance` and `totalBackingTokenBalance` have the code's names.
`book` and `epochBook` gather the accumulators and the mappings keyed by epoch.
`shieldedQuote` and `backingQuote` are the oracle's current answers: its price
for deposits, for fees, for same-asset exits in a closed session, whether a
dispute is pending and whether new protection may be opened (0 for a query that
reverts). `heldShielded` and `heldBacking` are the pool's balances in the two
token contracts, which may exceed what it tracks. `now` is the block time.

### Actions

One action per entry point, with everything it calls: a fee settlement, a
reward distribution and an epoch expiry are operators inside the action and
never steps of their own. Conditions of early returns and reverts are guards; a
reverting call is a step that is not taken. Slippage bounds, refusals of an
access-control contract and refusals of a token contract are likewise steps not
taken. Checked subtractions are **not** guards: `TypeOK` (with the theorem
`TypeCorrect`) shows that they never trip, so no call fails because the books
went wrong. The caller is the owner of the receipt, the governance or the
factory, as the entry point demands.

The environment has three actions: `OracleUpdate` changes one quote to any of
the configured ones, `Tick` advances the time, `Donate` sends unrequested tokens
to the pool (the only way, besides a token that taxes transfers, for holdings and
books to differ).

### The composite oracle

`CompositeOracle` has the fields of `TokenOracleConfig` (35-42 of
`oracles/CompositeOracle.sol`, as all lines of this section), the token's strict
flag, removal schedule and the two override schedules, and the owner's threshold and duration.
Tokens share only the last two, so one token is enough. A feed is what it answers: a price (0
when the call fails or gives none) and whether it has a circuit breaker, both of
which `FeedUpdate` may change at any time. `_tryGetNormalizedFeedPrice` together with
`_supportsCircuitBreaker` is `ProtectedPrice`. `finalizeChallenge` and
`cancelChallenge` look at the backup's price without asking for its circuit breaker, and so do the
guards here. `configuredAt` is history: when the feeds were set.

The price reads change nothing, so `Price` (`_getPrice`) and `ValueWithFallback`
are operators, and the properties about them hold in every reachable state and for any
answer of the feeds. A removal or override that has expired is deleted and the call
then reverts (488-489, 994-995), which restores it: no step. `PriceUndisputed` is about what either
of the two serves. The degraded fallback of `getValueWithFallback` (1495-1507) is documented
but cannot be reached: an active primary that fails is already disputed by any
backup that could answer (finding 5).

Pool and oracle are not composed into one state machine. The pool queries the oracle
afresh in every call, and what it can see is a price, none, a pending dispute
or a closed session; `SplitRiskPool` lets each quote change to any of the
configured ones at any moment, which includes every order the oracle can produce.

### The factory and the hand-over

`PoolFactory` has the storage of the registry (`pools` as a count, `activePools`,
`_activePoolIndexPlusOne`, `maxActivePools`), the factory's timelock and pending timelock, the
epoch, target and counter of the transfer, and for each pool its own timelock, pending and
factory-staged timelock (2908-3029) and the mark of the epoch it was staged in. A page
is a set of consecutive pools that governance chooses, so pages overlap, repeat and leave gaps.
The calls into the pools are part of the page's action, and one pool that refuses
reverts it. Any timelock is taken to pass `_validateGovernanceTimelock`; creation
parameters, bonds, whitelists, and owner and fee recipient are left out.

### The deployment

`Deployment` follows `SequentialDeployment.transaction` (`scripts/bsc-deployment.mjs` 170-281)
from await to await: each stage of `session` is a point where the script waits, so a crash,
another process and the chain come in between. The journal on `disk` changes in one rename
(40-44); `lock` names its holder, dead or alive, because a killed run leaves
the file. A transaction is its step, nonce and cost (the code identifies it by the hash of the signed
request, which those determine). `chain` holds the signer's transactions only, each
with the depth and the fork of its block. The node may forget a transaction
that others still mine, answer `SendUnanswered`, revert after a
successful estimate, and another program may use the key. `Refused` lists what makes an
assertion of the script fail; any other exception is `Interrupt`.

Assumptions: blocks `Confirmations` deep (10 in the code) are not reorganised; a block
holds one transaction of the signer; creation and rename of files are atomic; an operator removes a lock only
when its process is dead. Gas price and gas are one cost, the balance check is an `Interrupt`, and
the prepare-only mode is left out.

`StepwiseDeployment` has three variables and none of this. The refinement maps `sent` to
the steps whose transaction the network was ever given, `settled` to those that
succeeded in a block that stays, `finished` to the manifest's `complete`.

### The wallet sender

`IntentSender` has one submission per mounted form (`inFlight` of `useSubmitTx`), each a stage,
its planned steps, the pinned block and what was read of the confirmation. Several forms share the account, its
nonces and its allowance. The chain is a sequence of blocks, each with one transaction or none, and
keeps what matters of the pool: open or not, the allowance, how many positions were minted. Governance may close
the pool, others may mint, the latest block may be replaced, the wallet may be switched, a
transaction repriced or cancelled; these share one budget, `events`. A block with a successor is assumed to
stay, which is what the two confirmations of `react.tsx` 244 stand for.
Not modelled is an answer of `writeContract` that is lost after the wallet has signed.
The 20 seconds a snapshot is valid for and every other refusal before the signature are `GiveUp`. The preflight at
planning is read at one instant; the one before each step is pinned and finished as in `snapshot.ts`.

### The market service

`MarketHandler` keeps ages instead of times, up to one past the limit each is compared with, so time does not
run out. A read is pinned to a block, reads the feeds and reads the block
again; a reorganisation in between gives it another hash, and its readings may be
of either block (`mixed`). A feed call that fails for the network's sake becomes an unavailable reading
(`allowFailure`, `bnb-market-data.mjs` 79), as one that reverts does, and not a failed read: both are
the feed value -1. Not modelled is a block that is replaced and comes back within one read.

### Conversions and constants

Dollar values are integers in units of the quote; `ShieldedScale` and
`BackingScale` are the `10^decimals` the code divides by. A backing token of *d*
decimals has `ShareMultiplier = 10^(18-d)` and `ShareDivisor = 1` for *d* <= 18, and
`ShareMultiplier = 1`, `ShareDivisor = 10^(d-18)` above. `BasisPointScale`,
`RewardPrecision` and `MaxSafeAccumulation` stand for the code's 10^4, 10^18 (and its
guard) and the cap of the buckets. Assumptions (`PoolAssumption` and its like in
the modules, `RewardAssumption`) only say that scales are positive, that the
amounts, quotes and configurations are of their types, and that the collateral
ratio is at least 1 (`MIN_COLLATERAL_RATIO`). Receipt ids count from 1 (in the
code from 0).

Bounds for TLC, in guards: `MaxShieldId`, `MaxProtectorId` (receipts ever
minted), `MaxTime`, `MaxSurplus`, and the sets of amounts, quotes and
configurations; of the programs, the budgets in `Starts` and `Submissions`, and the counts in the other configurations. The scopes of the two large runs
of the pool are in §3. The number of epochs is bounded by the receipts, because each
epoch needs a deposit to begin. The theorems hold for every value of these
bounds. `CHECK_DEADLOCK FALSE` is set because with the last id and the last tick used a
run of the bounded model really stops.

## 3. Runs

Base values of the pool's runs: two shield and two protector receipts, two ticks, one quote of 1,
deposits of 3 (shield) and 3 or 4 (backing), commission 2/4, pool fee 1/4,
protocol fee 1/4, collateral 4/4, notice, window and cool-down of one tick,
`RewardPrecision` 5 so that rewards round. Each run changes what its question
needs.

| run | changes | distinct states | shows |
|---|---|---|---|
| `epochs` | two base units to a share; deposits of 4 and 5 (two shares and a unit over); either three protector and two shield receipts, one configuration and two ticks, or two and one with three ticks, governance moving between two configurations, a token that taxes transfers and one token sent unasked | 551,314 | `EpochBooksExact`, `ReservesPartition`, `RewardsFunded`, `ClaimsKept`: receipts in successive epochs, where rewards, dust, claims, forfeits, escrow and settlements of an ended epoch interleave with those of the next; `CustodyCovered`, `RetiredPoolOwesNothing`, `OneNoticePerExit` where nothing about the pool stays as it was |
| `exits` | collateral 6/4; shield deposits of 3, partial exits of 1; two protectors while each token is priced 1 or 2, one when the session may close, the shielded price be disputed or the backing price be missing | 719,040 | `TypeOK`, `ShieldTotalsExact`, `NothingOwnerless`, `CollateralCovered`, `ExitsOpen`, `YieldTaxedOnce`, `RemainderKeepsTerms`: yield appears, is taxed, falls and appears again across partial exits, disputes and closed sessions come and go, and the backing falls or loses its price |
| `zero_min` | governance may set the shield minimum to 0 | stops | `ShieldPositionsCarryAmounts` is violated (finding 1) |
| `coarse_dust` | three base units to a share | stops | `ActiveDustBounded` is violated (finding 2) |
| `oracle_feeds` | two feeds that fail, agree, differ, with and without circuit breaker, one of them with strict protection; durations 1 and 2; a cool-down and override delay of one tick, an override window of four, a removal delay and window of two; a clock that starts past the first cool-down and stops at 5 | 2,398,528 | `OneDispute`, `PriceUndisputed`, `AgreementServes`, `StrictRouteKept`, `NoticeGiven`, `ChallengeTermsKept` over several challenges, reconfigurations and removals |
| `oracle_reset` | clock to 8, duration 2, feeds that agree or differ | stops | `ResetOfThisActivation` is violated (finding 3) |
| `oracle_fallback` | feeds that answer or do not, clock to 3 | stops | `DegradedFallbackServed` is violated (finding 5) |
| `deploy` | two processes; two steps, the first a deployment; costs 1 and 2; runs with ample limits, a low fee cap or a low total; two confirmations; one reorganisation, one foreign transaction; reverts | 246,401 | `OneTransactionPerStep`, `ConfirmedIsFinal`, `BroadcastIsSaved`, `JournalKeepsHash`, `BroadcastWithinLimits`, the refinement `StepwiseSpec`, and `EventuallyComplete` |
| `intent_sender` | two forms of amounts 2 and 1; two reads of a confirmation; starts with an allowance or none, one or two submissions, up to three interferences | 332,935 | `TypeOK`, `StepsSettled`, `DepositsOnce`, `PromptsChecked`, `ApprovalsExact`, `SubmissionEnds` |
| `market` | two requests; limits of three ticks for a block, one for the cache, a feed and a read | 463,788 | `AnswersCurrent`, `RequestsServed` |
| `factory` | three timelocks, two pools, three transfers | 657,814 | `RegistryExact`, `RemainingExact`, `StageHolds` |
| `factory_drift` | two transfers | stops | `ReadyMeansPoolsFollow` is violated (finding 4) |

`EpochsScope` and `ExitsScope` in `MCSplitRiskPool` are the CONSTRAINTs of the two large runs of the pool: TLC follows
only the states that meet them. Both trade receipts for unrest. Successive epochs need three receipts, notices and custody need time,
settings and unasked tokens; a price that rises and falls needs two receipts on both sides, and while it is missing,
disputed or out of session what matters is whether a shield can leave. All at once is beyond TLC; the theorems cover it.

Some properties are conjunctions of named parts: `EpochBooksExact` of `SharesExact` and
`NoStrandedReserve`; `NothingOwnerless` of `NothingStranded` and `SharesCoverTokens`; `ExitsOpen` of
`ShieldExitOpen`, `ActivationOpen` and `ProtectorExitOpen`; `ClaimsKept` of `BackingClaimsKept` and
`EarnedCommissionKept`; `NoticeGiven` of `ChallengeCancelNoticed` and `RemovalNoticed`;
`ChallengeTermsKept` of `DeadlineKept` and `LockoutNotExtended`.

Why the bounds are enough for their questions: an invariant about the order of
claims needs two claimants in an ended epoch and one in the current one (three
receipts); one about fees needs a price to rise, fall and rise (two prices) and a
partial exit before it (a partial exit burns a receipt and mints the next, so two ids);
one about a notice needs a request to mature, be used, and be asked again under a longer
notice (a clock that runs from 1 to 3). Numbers are small, but chosen not to divide
each other, so every floor and ceiling is met with a remainder. Two oracle feeds are all a token can have. An
override window longer than a cool-down and a challenge is what lets a
schedule meet a second dispute; it is so in the code, where a schedule lives for
26 hours and a second activation takes an hour and the owner's challenge duration.
Two steps and two processes let a run meet an earlier run's journal at every stage of the step before
and the step after; one foreign transaction takes a nonce and one reorganisation undoes a block, and each can hit
any transaction. Two forms are what it takes to overwrite an approval, two reads to
have one fail. Two pools are what swap-and-pop and two overlapping pages need.

`SharesCoverTokens` holds for tokens of at most 18 decimals (`ShareDivisor = 1`)
and is checked there; `coarse_dust` is the other side. `NothingStranded` is
exact (every tracked shielded token has a claimant) and fails by design once a
full protocol bucket drops orphaned commissions (1231-1245): those tokens stay
tracked without a claimant, which also keeps the pool from being retired. The limit is out of reach in
the runs; that no bucket passes it, and that custody holds there, is proved (`Buckets`, `Custody`).

Every property has a mutant in `PROJECT.json`: a plausible slip in the code it
is about (a rounding in the other direction, a bucket not reduced, a reset left
out) under which the same run finds a violation.

### Fairness

The pool, the oracle and the factory have none: every step is a user's or governance's choice and
the code makes nobody act, so a liveness property under fairness would show
nothing about them. What would be liveness is stated as *openness*: `ExitsOpen` says that
whenever the user's own preconditions hold, the guard of the exit holds too; `AgreementServes`
says that two feeds that agree need at most one public call.

The programs off the chain have a scheduler, an event loop that resumes a promise which is ready:

* `Deployment`: weak fairness of each process's `Progress` (the event loop), of
  `AcquireLock` (the operator runs the script again, as `resume-bsc-yield-deployment.mjs` 7-25
  does in a loop), of `RemoveStaleLock`, and of `Tick` and `MinePending` (blocks come, and the
  network mines what the node holds). `EventuallyComplete`: if faults cease and
  the limits stay generous, the deployment completes, wherever it was interrupted, unless a saved
  transaction reverted, lost its nonce to another, or waits behind a nonce nobody uses
  (`NeedsReconciliation`), where the script asks for a person. No process is fair towards faults.
* `IntentSender`: weak fairness of each form's `Progress`, which includes that the user answers a
  prompt, one way or the other, and of `ChainMoves`. `SubmissionEnds`: every form becomes free
  again. Deadlock is not checked there because all submissions may be used up.
* `MarketHandler`: weak fairness of `ReadSteps` and `Tick` (calls return or run into their
  timeouts: 6 seconds, two endpoints) and of each client. `RequestsServed`: no request
  waits for ever, and once the node is healthy and blocks are no more replaced, each is served.

### Findings

1. `zero_min`. `updatePoolConfig` (2811-2816) accepts a minimum shield deposit of 0,
   and `partialWithdrawShielded` (2336) compares the remainder only with that
   minimum, so a partial exit can take everything and leave a receipt of
   amount 0, which the test suite's invariant (`SplitRiskPoolInvariant.t.sol:1369`)
   says does not exist. Such a receipt can neither exit nor activate; it is
   harmless to the books (`ShieldTotalsExact` still holds) but stays forever.
2. `coarse_dust`. For a backing token of 19 to 32 decimals a partial protector
   withdrawal of less than a share burns a whole share (2566-2571), so backing
   can be left without share holders, beyond the "rounding dust bounded by position
   count" of `SplitRiskPoolInvariant.t.sol:1265`. It can be swept once no shield
   relies on it (3063-3138).
3. `oracle_reset`. A scheduled forced reset is bound to a nonce of the backup flag and the
   challenge times (`CompositeOracle.sol:953`). With the backup active that
   nonce is the same in every activation, and neither `revertToPrimary` nor a
   reconfiguration drops a schedule, so a reset scheduled in one activation can be carried out in
   a later one, against the comment's "must not survive into a future activation" (949-952).
   The notice of an override still runs (`ChallengeCancelNoticed` is about
   challenges, whose start time is in the nonce, and holds).
4. `factory_drift`. `startPoolGovernanceTimelockTransfers` (`SplitRiskPoolFactory.sol` 278-283)
   counts a pool that the target already governs as done, without staging it. If that pool has a transfer of
   its own pending, begun before the factory's, its pending timelock may still accept it
   (2960-2972): nothing remains, the factory accepts, and the pool has another timelock.
   The page of acceptances then reverts (308-312), until that timelock hands the pool over. The test suite's
   "testPoolGovernanceCannotDriftDuringFactoryGovernanceTransfer" (`SplitRiskPoolFactory.t.sol:1487`)
   and the comment at 279-280 say a counted pool stays. TLC's trace takes the shortest way, a
   factory transfer to the timelock it already has; a pool that was handed to the target directly, with another transfer
   pending, does the same.
5. `oracle_fallback`. The comment of `getValueWithFallback` (`CompositeOracle.sol:1445-1446`) says the
   inactive feed "may serve a degraded fallback value if the later active-feed read fails", and the
   interface (`ICompositeOracle.sol:215-216`, 222-223) that `isReliable` is false when it did. But the function asks
   the dispute check first (1466-1472), and to that check a primary that does not answer, beside a backup that
   does, is the largest deviation (717-723). So whenever the read of an active primary fails, the call
   has already returned (0, false), and 1495-1507 never run. A caller that relies on the degraded
   value gets none; no wrong price is served. `FallbackServesThePrice`
   (section 4) shows it for any answers of the feeds: what this function serves is what `getPrice` serves.
   The repository's own review saw it in an earlier version (`DESIGN_REVIEW_2026_07_04.md:120`).

## 4. Proofs

`SplitRiskPoolProofs` proves, for all values of the constants under the stated
assumptions:

| theorem | statement |
|---|---|
| `Accounting` | `Spec => []AccountingInv` |
| `TypeCorrect` | `Spec => []TypeOK`: no checked subtraction underflows |
| `TotalsExact` | `Spec => []ShieldTotalsExact` |
| `Custody` | `Spec => []CustodyCovered` |
| `Collateral` | `Spec => []CollateralCovered` |
| `Reserves` | `Spec => []ReservesPartition` |
| `Buckets` | `Spec => []BucketsBounded` |

None of these is inductive. `AccountingInv` strengthens them, in parts that follow
what entry points touch:

* `ShieldInv`: the totals are the sums over the receipts that exist, every such
  receipt was minted before the next id (a mint must not overwrite), and a receipt
  without value locks no collateral (`CapsHaveValue`; otherwise ending an epoch on
  unprotected dust, 1597-1598, which looks at values only, could leave
  collateral uncovered);
* `ReceiptInv`: no receipt's epoch is in the future, the share total counts the
  receipts of the current epoch, and an epoch with shares was opened by a deposit,
  so that ending it always takes a fresh entry of `epochBook`;
* `LedgerInv`: the buckets are within bounds and the reserves partition the
  commissions;
* `BackingInv`: tracked backing is that of the current epoch plus that of
  ended ones, is held, and covers the collateral;
* `CustodyInv`: the shielded balance covers positions and reserved fees and is held;
* `StatusInv`: types of flags, clock, quotes and configuration.

The proof of `Accounting` has one lemma per group of actions; `ProtectorRewardsProofs`
supplies what floors, ceilings and fee scaling guarantee (`ScaleFeesCapped`: the
scaled fees fit and none exceeds what was due) and how a sum changes when one
receipt does (`SumChange`, by counting units, since sums by recursion are out of
the prover's reach), and what each book operation
preserves. The temporal step of every theorem is `PTL` on the same invariant.

`PoolClaimsProofs` goes on from there:

| theorem | statement |
|---|---|
| `Books` | `Spec => [](AccountingInv /\ BooksInv)` |
| `EpochBooks`, `Rewards` | `Spec => []EpochBooksExact`, `Spec => []RewardsFunded` |
| `NoCapBinds` | `Spec => []ClaimsUncapped` |
| `CommissionKept`, `BackingKept`, `ClaimsAreKept` | `Spec => EarnedCommissionKept`, `Spec => BackingClaimsKept`, and both: `Spec => ClaimsKept` |
| `TaxedOnce`, `TermsHandedOn`, `NoticePerExit` | `Spec => YieldTaxedOnce`, `Spec => RemainderKeepsTerms`, `Spec => OneNoticePerExit` |
| `RetirementOwesNothing` | `Spec => []RetiredPoolOwesNothing` |
| `BackingHasHolders` | `Spec => []SharesCoverTokens`, if `ShareMultiplier >= ShareDivisor` |
| `NothingLost` | `Spec /\ []BalanceFits => []NothingOwnerless`, if `ShareMultiplier >= ShareDivisor` |
| `ExitsStayOpen` | `Spec => [](BalanceFits => ExitsOpen)` |
| `DepositsFit` | `Spec => []BalanceFits`, if `MaxShieldId` deposits of the largest amount fit `MaxSafeAccumulation` |
| `NothingLostOrLocked` | `Spec => [](NothingOwnerless /\ ExitsOpen)`, under the assumptions of `NothingLost` and `DepositsFit` |

*The books of the epochs.* `RewardsFunded` is not inductive, because it counts whole tokens: two receipts that
each earn half a token earn nothing today and together more than one base unit after the next reward. `BooksInv`
counts the accruals before the division (`AccrualOf`: `rps * shares` less `RewardPrecision` times what was debited
and claimed) and says that those of an epoch's receipts, with the pending dust, fit `RewardPrecision` times its
reserve (`CurrentSound`, `EndedSound`); a reward then adds the same to both sides, up to its own rounding down, and a
joiner, whose debt is rounded up, adds nothing. A settled receipt of an ended epoch may still hold a fraction that the last
settlement gave away, so only unsettled ones are summed, and a settled one has no whole token left. The shares of an epoch and
those of its residual backing are counted separately, as receipts settle commissions and backing at different times;
an epoch that has not ended holds nothing (`OpenReceipts` and the second part of `BooksInv`).

*Claims.* From `BooksInv` the caps in the code never bind (`Uncapped`): what a receipt can claim is what it earned, and the part
of its epoch's backing that its shares stand for. `ClaimsKept` then follows from two facts about steps. The accumulator that a receipt reads
never falls, and ending an epoch copies it (`AccumulatorsGrow`); and outside an activation the ratio of tokens to shares of
an epoch never falls, as deposits and exits round against whoever makes them (`RatioKept`, compared by cross-multiplication).

*Nothing lost, nothing locked.* `NothingStranded` fails once a full protocol bucket drops orphaned commissions (1231-1245), and
an exit that accrues a fee waits at a full commission bucket (1179), so both theorems suppose `BalanceFits`: the tracked shielded balance
fits one bucket (2^128 - 1 base units in the code). This is not a restriction on what the pool does: the balance grows with shield
deposits only (`TokensFollowed`), and `DepositsFit` shows that it holds for ever when all deposits ever made fit.
`ShareMultiplier >= ShareDivisor` says that the backing token has at most 18 decimals (`SplitRiskPool.sol` 440-449);
finding 2 is what happens above. Both conditions hold in the `exits` run. For `NothingOwnerless`
the strengthening is that a pool without backing has no shares (`NoBareShares`): with it no exit, full or partial, and no
deposit leaves more tokens than shares (`FullBurnCovers`, `PartBurnCovers`, `MintedCover`), however they round.

*What a step may never do.* `TaxedOnce` rests on the fee scaling (what is charged moves the high-water mark to a price
at which nothing is due), `TermsHandedOn` on the rounding of the split (2304-2401), and `NoticePerExit`
on the reset of the unlock request after a partial exit. `RetirementOwesNothing` strengthens to what a retirement checks
and no later step changes (`RetiredEmpty`: no tracked shielded token, no shield liability, no backing but the current epoch's).

Proving `EarnedCommissionKept` corrected it. It spoke of receipts whose debt and claimed amount a step leaves as they were,
meaning steps of others; but an owner's partial exit, which pays the commission first and re-bases the debt, may leave
both numbers as they were by rounding (10 shares with debt 9 become 9 shares with debt 9). The property now asks for unchanged shares too,
as `BackingClaimsKept` always did.

`CompositeOracleProofs` proves every property of the oracle's passing run,
for any feeds, answers, settings and delays (`OracleAssumption`: delays and
durations are positive and a threshold is at least one basis point):

| theorem | statement |
|---|---|
| `OracleInvariant` | `Spec => []OracleInv` |
| `DisputeStates`, `StrictRoutes` | `Spec => []OneDispute`, `Spec => []StrictRouteKept` |
| `PricesUndisputed`, `AgreementsServe` | `Spec => []PriceUndisputed`, `Spec => []AgreementServes` |
| `ChallengeCancelsNoticed`, `RemovalsGiveNotice` | `Spec => ChallengeCancelNoticed`, `Spec => RemovalNoticed` |
| `DeadlinesKept`, `LockoutsNotExtended` | `Spec => DeadlineKept`, `Spec => LockoutNotExtended` |
| `NoticesGiven`, `TermsKept` | `Spec => NoticeGiven`, `Spec => ChallengeTermsKept`, from the four above |

`OracleInv` adds to `OneDispute` and `StrictRouteKept` what the schedules
remember: an override recorded its challenge's start at least a delay before it
may be carried out (`OverridesNoticed`), and a pending removal was scheduled
after the feeds were configured (`RemovalsNoticed`). The price theorems follow from `OneDispute`
alone, case by case of the dispute check, with the lemma that the deviation
of two prices does not depend on their order, which check and served price use differently, and
`FallbackServesThePrice`, which carries what holds of `getPrice` over to `getValueWithFallback`.

`DeploymentProofs` is about any number of processes and steps, any costs and limits, and any number of
crashes, reorganisations and foreign transactions:

| theorem | statement |
|---|---|
| `Invariance`, `TypeCorrect` | `Spec => []DeploymentInv`, `Spec => []TypeOK` |
| `SingleTransaction`, `WrittenAhead`, `ConfirmedForGood` | `Spec => []OneTransactionPerStep`, `Spec => []BroadcastIsSaved`, `Spec => []ConfirmedIsFinal` |
| `InOrder`, `CompleteExecuted` | `Spec => []StepsInOrder`, `Spec => []CompleteMeansExecuted` |
| `HashKept`, `SentWithinLimits` | `Spec => JournalKeepsHash`, `Spec => BroadcastWithinLimits` |
| `ImplementsStepwise` | `Spec => StepwiseSpec`, the refinement |

`DeploymentInv` says that who runs holds the lock (`LockHeld`), so there is one at a time and
its memory is the file (`MemoryIsDisk`); that the chain holds only what was broadcast
(`ChainIsBroadcast`), and what was broadcast is saved; that steps enter the journal in order, each after the one
before is confirmed (`SavedInOrder`); and what a process at each stage knows (`StageKnows`) and has seen
(`StageSees`: a block that went out of sight belongs to an earlier fork and does not come back). Crashes make the
first of these delicate: a dead process leaves the lock, and the next starts
from the file alone. The refinement needs that what is settled stays settled (`SettledGrows`) and that a
first broadcast finds all earlier steps settled (`StepwiseStep`).

`IntentSenderProofs` is about any number of forms, submissions, reads, replacements and reorganisations:

| theorem | statement |
|---|---|
| `Invariance`, `TypeCorrect` | `Spec => []SenderInv`, `Spec => []TypeOK` |
| `StepsAreSettled`, `OneDeposit` | `Spec => []StepsSettled`, `Spec => []DepositsOnce` |
| `PromptsAreChecked` | `Spec => []PromptsChecked` |
| `ApprovalsAreExact` | `Spec => []ApprovalsExact` |

`SenderInv` says that the account's blocks use its nonces in turn (`ChainSound`), so no nonce is on the chain twice;
that a nonce stands for one step of one submission and everything signed under it does that step or cancels it
(`SignedSound`); that what was signed for a submission under way is in its plan, and what precedes its current step
is settled (`Followed`); what the pinned block (`PinHolds`) and the reads of a confirmation (`SightHolds`) have shown;
and what each way to end leaves true (`EndsSound`). The two delicate points: a block that was replaced never comes back,
since its successor counts one more reorganisation (`GrownFacts`), so evidence can be lost but not change; and a
submission whose steps are all settled has nothing left to mine, so no block of its own can follow the pinned one
(`GrownUnderWay`). Every step of the chain adds one block to a prefix (`Grows`), every signature one transaction
(`Signs`), and every other step moves one form (`GoesOn`) or ends it (`Ends`).

`ApprovalsExact` has an invariant of its own, `ApprovalInv`. A plan approves zero or what it deposits at its end (`PlansExact`); the
transactions of a submission are signed in the order of its steps, the deposit after its approvals and for no less
(`SignedExact`); and, since one block is added at a time, the allowance of a block is that of the last approval
before it, less what was deposited since (`AllowancesSpent`). If all submissions succeeded, the one that made the last approval
in the chain has deposited behind it (`DepositAfterApproval`), whoever else came in between, and so has used it up.

`PoolFactoryProofs` proves, for any timelocks, pools and pages, `RegistryIsExact`
(`Spec => []RegistryExact`), `RemainingIsExact` (`Spec => []RemainingExact`), `StageIsHeld` (`Spec => StageHolds`) and
`TypeCorrect` from `Invariance` (`Spec => []FactoryInv`). `FactoryInv` adds that no mark is of an epoch to come, so that a
transfer starts with nothing marked. The counter's
lemmas (`UnmarkedLess`, `UnmarkedMore`) say how a count changes when a page is marked or unmarked.

`MarketHandlerProofs` proves `AnswersAreCurrent` (`Spec => AnswersCurrent`) and `TypeCorrect` from
`Invariance`, for any limits and requests: a read that mixed two blocks has moved, so it cannot complete.

Only model-checked is what is out of the prover's reach altogether: liveness under fairness (`EventuallyComplete`,
`SubmissionEnds`, `RequestsServed`). The properties of the five runs that expect a violation are false. What would need induction over data
is avoided: a sum is a number of units (`SumOf`), and is proved about by what one step changes in it (`SumChange`).

## 5. Not modelled

* The access-control gating of the pool's exits (3284-3325): a refusal is a step not taken. Receipt
  transfers, locks and approvals: whoever calls for a receipt is its owner. What the commission
  escrow does after it was funded.
* Of the factory: creation parameters, bonds, whitelists, owner and fee recipient. Of access control: the pauser
  role. Governor, token and timelock are thin configurations of OpenZeppelin contracts, and governance calls
  are choices of the environment.
* Of the composite oracle: the list of authorised callers, the pinned stock feed and
  the capability checks that can only refuse a configuration (a step not taken),
  the oracle type, the eligibility mask of new protection, staleness, and the unsafe, fee-accrual
  and closed-session prices. `calculateDeviation`'s saturation for differences above
  2^256 / 10^4 is not reached by prices of 8 decimals.
* Feeds and libraries of validation: stateless. For the pool, each is a choice of the environment.
* Pool, oracle and factory are not composed into one state machine. What the pool sees of
  the oracle is any sequence of quotes, and what the factory asks of a pool is in the pool's retirement
  actions; a product would repeat both at a size TLC does not finish.
* `base-modules/`: generated copies of pool and factory. `bsc/`: fixed-rate exchanges and scenario oracles, one
  assignment behind an owner check each.
* Of the programs: the other intents of the wallet sender (one step, no approval), the market service of Base (the same cache
  for another chain), the faucet, the generated clients and ABIs, readers, formatters and pages, and one-shot
  scripts. They keep no state between calls, or are generated. The Solana program is not in the repository.
* Configuration changes run in `epochs` (with at most two protector receipts) and `zero_min`; the other runs keep one configuration. The proofs cover any.
* Gas, events, and the 256-bit width: values stay below `MAX_SAFE_ACCUMULATION`-like
  caps in the code, and Solidity 0.8 reverts on overflow.

## 6. Plan

Done, in this order: the arithmetic, the reward book and the pool with their runs and the ledger
proofs; the composite oracle with its run and proofs; the deployment and its refinement; the wallet sender; the market
service; the factory's registry and hand-over; the proofs about each; the proofs about the pool's epochs, claims and
exits, and about approvals.

What would come next: an abstract pool (claims, no epochs) that `SplitRiskPool` refines, the map being `ClaimableCommission` and
`PositionAmount`; receipt locks and transfers; the closed-session and
fee-accrual prices of the oracle, with the quotes of `SplitRiskPool` as a refinement.
