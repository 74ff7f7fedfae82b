-------------------------- MODULE CompositeOracle ---------------------------
(***************************************************************************)
(* CompositeOracle.sol for one token: a primary feed, an optional backup   *)
(* feed, the public challenge that hands the token over to the backup, and *)
(* the timelocked overrides of the owner.  Tokens share nothing but the    *)
(* deviation threshold and the challenge duration, so one token is enough. *)
(*                                                                         *)
(* One action per entry point that changes state; a reverting call is no   *)
(* step.  The prices are operators of the state, 0 where the code reverts. *)
(* Owner and authorised callers are whoever makes the call.  What a feed   *)
(* must match besides (fee basis, pause guard, closed-session support,     *)
(* stock routes) can only refuse a configuration: a step not taken.        *)
(***************************************************************************)
EXTENDS Integers

CONSTANTS
  Feeds, NoFeed,             \* oracle feeds, and address(0)
  StrictFeeds,               \* the feeds with supportsStrictProtectedPrice
  Answers,                   \* what a feed may answer
  Thresholds, Durations,     \* what the owner may set
  BasisPointScale,
  Cooldown,                  \* COOLDOWN_PERIOD
  OverrideDelay, OverrideExpiry,  \* EMERGENCY_OVERRIDE_DELAY, _EXPIRY
  RemovalDelay, RemovalExpiry,    \* FEED_REMOVAL_DELAY, _EXPIRY
  MaxTime                    \* bound on the clock

\* price is the normalised getPrice of the feed, 0 if the call fails or gives no price;
\* protected is _supportsCircuitBreaker, which an old feed may lose and regain.
Answer == [price : Nat, protected : BOOLEAN]
NoAnswer == [price |-> 0, protected |-> FALSE]

ASSUME OracleAssumption ==
  /\ NoFeed \notin Feeds
  /\ StrictFeeds \subseteq Feeds
  /\ Answers \subseteq Answer
  /\ Durations \subseteq Nat \ {0}
  /\ Thresholds \subseteq 1..BasisPointScale
  /\ BasisPointScale \in Nat
  /\ Cooldown \in Nat \ {0}
  /\ OverrideDelay \in Nat \ {0} /\ OverrideExpiry \in Nat \ {0}
  /\ RemovalDelay \in Nat \ {0} /\ RemovalExpiry \in Nat \ {0}
  /\ MaxTime \in Nat

VARIABLES
  \* TokenOracleConfig
  primaryFeed, backupFeed, isBackupActive,
  challengeStartTime, challengeEndTime, lastChallengeTime,
  strictCircuitBreakerRequired,
  scheduledRemovalTime,
  overrides,                 \* emergencyOverrides of each action
  deviationThreshold, challengeDuration,
  \* environment
  answer, now,
  \* history: when the feeds were configured
  configuredAt

routeVars == <<primaryFeed, backupFeed, configuredAt>>
challengeVars == <<challengeStartTime, challengeEndTime>>
settingVars == <<deviationThreshold, challengeDuration>>
envVars == <<answer, now>>
vars == <<routeVars, isBackupActive, challengeVars, lastChallengeTime,
          strictCircuitBreakerRequired, scheduledRemovalTime, overrides, settingVars, envVars>>

-----------------------------------------------------------------------------
(* The owner's overrides, each bound to the state it was scheduled in *)

OverrideActions == {"reset", "cancel"}
Nonce == [active : BOOLEAN, start : Nat, end : Nat]
Schedule == [executableAt : Nat, expiresAt : Nat, nonce : Nonce]
NoSchedule == [executableAt |-> 0, expiresAt |-> 0,
               nonce |-> [active |-> FALSE, start |-> 0, end |-> 0]]

\* Variant that binds no challenge.
StateNonceOfFlag(action) ==
  [active |-> action = "reset" /\ isBackupActive, start |-> 0, end |-> 0]

\* _stateNonce; a cancellation does not look at the active feed
StateNonce(action) ==
  [active |-> action = "reset" /\ isBackupActive,
   start |-> challengeStartTime, end |-> challengeEndTime]

\* _requireOverridePrecondition
OverrideMeaningful(action) ==
  challengeStartTime # 0 \/ (action = "reset" /\ isBackupActive)

\* _consumeOverride, without its effect
Consumable(action) ==
  LET s == overrides[action]
  IN  /\ s.executableAt # 0
      /\ s.executableAt <= now /\ now < s.expiresAt
      /\ s.nonce = StateNonce(action)
      /\ OverrideMeaningful(action)

-----------------------------------------------------------------------------
(* Prices *)

AnswerOf(feed) == IF feed = NoFeed THEN NoAnswer ELSE answer[feed]

\* The price of a feed that has a circuit breaker
ProtectedPrice(feed) == IF AnswerOf(feed).protected THEN AnswerOf(feed).price ELSE 0

\* calculateDeviation above the threshold; a missing price deviates beyond any
Deviates(p, q) ==
  LET diff == IF p > q THEN p - q ELSE q - p
      least == IF p < q THEN p ELSE q
  IN  IF p = 0 \/ q = 0 THEN TRUE
      ELSE (diff * BasisPointScale) \div least > deviationThreshold

ActiveFeed == IF backupFeed # NoFeed /\ isBackupActive THEN backupFeed ELSE primaryFeed
InactiveFeed == IF isBackupActive THEN primaryFeed ELSE backupFeed

ChallengePending == challengeStartTime # 0 /\ ~isBackupActive

\* Variant that trusts the backup once it is active.
DisputedUntilSwitched ==
  /\ backupFeed # NoFeed /\ ~isBackupActive
  /\ IF ProtectedPrice(backupFeed) = 0 THEN ~AnswerOf(primaryFeed).protected
     ELSE Deviates(ProtectedPrice(primaryFeed), ProtectedPrice(backupFeed))

\* _hasUnresolvedDualFeedDeviation: an active backup is disputed by any live primary that
\* it cannot match; an active primary by a live backup, or, without a circuit breaker of
\* its own, by a missing backup
Disputed ==
  /\ backupFeed # NoFeed
  /\ IF isBackupActive
     THEN /\ ProtectedPrice(primaryFeed) # 0
          /\ Deviates(ProtectedPrice(primaryFeed), ProtectedPrice(backupFeed))
     ELSE IF ProtectedPrice(backupFeed) = 0 THEN ~AnswerOf(primaryFeed).protected
     ELSE Deviates(ProtectedPrice(primaryFeed), ProtectedPrice(backupFeed))

\* getPrice
Price ==
  IF primaryFeed = NoFeed \/ ChallengePending \/ Disputed THEN 0
  ELSE ProtectedPrice(ActiveFeed)

\* getValueWithFallback of one unit
ValueWithFallback ==
  LET active == IF isBackupActive THEN backupFeed ELSE primaryFeed
  IN  IF ChallengePending \/ Disputed \/ ~AnswerOf(active).protected
      THEN [value |-> 0, reliable |-> FALSE]
      ELSE IF AnswerOf(active).price # 0
      THEN [value |-> AnswerOf(active).price, reliable |-> TRUE]
      ELSE [value |-> IF isBackupActive THEN 0 ELSE ProtectedPrice(InactiveFeed),
            reliable |-> FALSE]

-----------------------------------------------------------------------------
StartTime == Cooldown + 1  \* a chain whose clock is past the first cool-down

Init ==
  /\ primaryFeed = NoFeed /\ backupFeed = NoFeed
  /\ isBackupActive = FALSE
  /\ challengeStartTime = 0 /\ challengeEndTime = 0 /\ lastChallengeTime = 0
  /\ strictCircuitBreakerRequired = FALSE
  /\ scheduledRemovalTime = 0
  /\ overrides = [a \in OverrideActions |-> NoSchedule]
  /\ deviationThreshold \in Thresholds
  /\ challengeDuration \in Durations
  /\ answer \in [Feeds -> Answers]
  /\ now = StartTime
  /\ configuredAt = 0

-----------------------------------------------------------------------------
(* Configuration *)

\* Variant that looks at the primary feed only.
RouteAcceptsPrimary(primary, backup, strict) ==
  /\ answer[primary].protected
  /\ strict => primary \in StrictFeeds

\* _validateStrictCircuitBreakerConfig
RouteAccepted(primary, backup, strict) ==
  \A feed \in {primary, backup} \ {NoFeed} :
    /\ answer[feed].protected
    /\ strict => feed \in StrictFeeds

\* _clearScheduledRemoval
ClearScheduledRemoval == scheduledRemovalTime' = 0

\* Variant that stays on the backup.
FreshChallengeStateOnBackup ==
  /\ challengeStartTime' = 0 /\ challengeEndTime' = 0 /\ lastChallengeTime' = 0
  /\ UNCHANGED isBackupActive

\* The challenge state of a configuration just set or removed
FreshChallengeState ==
  /\ isBackupActive' = FALSE
  /\ challengeStartTime' = 0 /\ challengeEndTime' = 0 /\ lastChallengeTime' = 0

Configure(primary, backup) ==
  /\ RouteAccepted(primary, backup, strictCircuitBreakerRequired)
  /\ primaryFeed' = primary
  /\ backupFeed' = backup
  /\ configuredAt' = now
  /\ FreshChallengeState
  /\ ClearScheduledRemoval
  /\ UNCHANGED <<strictCircuitBreakerRequired, overrides, settingVars, envVars>>

\* setTokenOracleFeed and setTokenOracleFeedWithType
SetTokenOracleFeed == \E feed \in Feeds : Configure(feed, NoFeed)

SetTokenOracleFeedDual ==
  \E primary, backup \in Feeds : primary # backup /\ Configure(primary, backup)

SetStrictCircuitBreakerRequired ==
  \E required \in BOOLEAN :
    /\ required => primaryFeed # NoFeed /\ RouteAccepted(primaryFeed, backupFeed, TRUE)
    /\ strictCircuitBreakerRequired' = required
    /\ UNCHANGED <<routeVars, isBackupActive, challengeVars, lastChallengeTime,
                   scheduledRemovalTime, overrides, settingVars, envVars>>

ScheduleRemoveTokenOracleFeed ==
  /\ primaryFeed # NoFeed
  /\ scheduledRemovalTime' = now + RemovalDelay
  /\ UNCHANGED <<routeVars, isBackupActive, challengeVars, lastChallengeTime,
                 strictCircuitBreakerRequired, overrides, settingVars, envVars>>

CancelScheduledRemoveTokenOracleFeed ==
  /\ scheduledRemovalTime # 0
  /\ scheduledRemovalTime' = 0
  /\ UNCHANGED <<routeVars, isBackupActive, challengeVars, lastChallengeTime,
                 strictCircuitBreakerRequired, overrides, settingVars, envVars>>

RemoveTokenOracleFeed ==
  /\ primaryFeed # NoFeed
  /\ scheduledRemovalTime # 0
  /\ scheduledRemovalTime <= now /\ now < scheduledRemovalTime + RemovalExpiry
  /\ scheduledRemovalTime' = 0
  /\ primaryFeed' = NoFeed /\ backupFeed' = NoFeed /\ configuredAt' = 0
  /\ FreshChallengeState
  /\ strictCircuitBreakerRequired' = FALSE
  /\ UNCHANGED <<overrides, settingVars, envVars>>

SetDeviationThreshold ==
  /\ deviationThreshold' \in Thresholds
  /\ UNCHANGED <<routeVars, isBackupActive, challengeVars, lastChallengeTime,
                 strictCircuitBreakerRequired, scheduledRemovalTime, overrides,
                 challengeDuration, envVars>>

SetChallengeDuration ==
  /\ challengeDuration' \in Durations
  /\ UNCHANGED <<routeVars, isBackupActive, challengeVars, lastChallengeTime,
                 strictCircuitBreakerRequired, scheduledRemovalTime, overrides,
                 deviationThreshold, envVars>>

-----------------------------------------------------------------------------
(* The public challenge *)

unconfigured == <<routeVars, strictCircuitBreakerRequired, scheduledRemovalTime,
                  settingVars, envVars>>

ChallengeForToken ==
  /\ backupFeed # NoFeed /\ ~isBackupActive
  /\ challengeStartTime = 0
  /\ now >= lastChallengeTime + Cooldown
  /\ ProtectedPrice(backupFeed) # 0
  /\ Deviates(ProtectedPrice(primaryFeed), ProtectedPrice(backupFeed))
  /\ challengeStartTime' = now
  /\ challengeEndTime' = now + challengeDuration
  /\ lastChallengeTime' = now
  /\ UNCHANGED <<isBackupActive, overrides, unconfigured>>

\* A challenge that ends without a switch leaves the cool-down as it started.
EndChallenge ==
  /\ challengeStartTime' = 0 /\ challengeEndTime' = 0
  /\ UNCHANGED lastChallengeTime

\* Variant that lets the owner shorten a challenge under way.
DeadlineOfToday == challengeStartTime + challengeDuration

Deadline ==
  IF challengeEndTime = 0 THEN challengeStartTime + challengeDuration ELSE challengeEndTime

\* The check that finalizeChallenge and cancelChallenge share: the backup's price needs no
\* circuit breaker here, the primary's does.
StillDeviates == Deviates(ProtectedPrice(primaryFeed), AnswerOf(backupFeed).price)

FinalizeChallenge ==
  /\ ChallengePending
  /\ now >= Deadline
  /\ AnswerOf(backupFeed).price # 0
  /\ \/ /\ ~StillDeviates
        /\ EndChallenge
        /\ UNCHANGED isBackupActive
     \/ /\ StillDeviates
        /\ AnswerOf(backupFeed).protected
        /\ isBackupActive' = TRUE
        /\ challengeStartTime' = 0 /\ challengeEndTime' = 0
        /\ lastChallengeTime' = now
  /\ UNCHANGED <<overrides, unconfigured>>

CancelAllowed ==
  /\ ChallengePending
  /\ AnswerOf(primaryFeed).price # 0 /\ AnswerOf(backupFeed).price # 0
  /\ ~StillDeviates

CancelChallenge ==
  /\ CancelAllowed
  /\ EndChallenge
  /\ UNCHANGED <<isBackupActive, overrides, unconfigured>>

\* Variant that waits for the cool-down.
RevertAllowedLate ==
  /\ isBackupActive
  /\ now >= lastChallengeTime + Cooldown
  /\ ~Deviates(ProtectedPrice(primaryFeed), ProtectedPrice(backupFeed))

RevertAllowed ==
  /\ isBackupActive
  /\ ~Deviates(ProtectedPrice(primaryFeed), ProtectedPrice(backupFeed))

RevertToPrimary ==
  /\ RevertAllowed
  /\ isBackupActive' = FALSE
  /\ lastChallengeTime' = now
  /\ UNCHANGED <<challengeVars, overrides, unconfigured>>

-----------------------------------------------------------------------------
(* The owner's overrides *)

\* scheduleForceResetToPrimary and scheduleEmergencyCancelChallenge
ScheduleOverride ==
  \E action \in OverrideActions :
    /\ OverrideMeaningful(action)
    /\ overrides' = [overrides EXCEPT ![action] =
         [executableAt |-> now + OverrideDelay,
          expiresAt |-> now + OverrideDelay + OverrideExpiry,
          nonce |-> StateNonce(action)]]
    /\ UNCHANGED <<isBackupActive, challengeVars, lastChallengeTime, unconfigured>>

CancelScheduledOverride ==
  \E action \in OverrideActions :
    /\ overrides[action].executableAt # 0
    /\ overrides' = [overrides EXCEPT ![action] = NoSchedule]
    /\ UNCHANGED <<isBackupActive, challengeVars, lastChallengeTime, unconfigured>>

ForceResetToPrimary ==
  /\ Consumable("reset")
  /\ overrides' = [overrides EXCEPT !["reset"] = NoSchedule]
  /\ isBackupActive' = FALSE
  /\ EndChallenge
  /\ UNCHANGED unconfigured

EmergencyCancelChallenge ==
  /\ Consumable("cancel")
  /\ overrides' = [overrides EXCEPT !["cancel"] = NoSchedule]
  /\ EndChallenge
  /\ UNCHANGED <<isBackupActive, unconfigured>>

-----------------------------------------------------------------------------
(* The feeds and the clock *)

contractVars == <<routeVars, isBackupActive, challengeVars, lastChallengeTime,
                  strictCircuitBreakerRequired, scheduledRemovalTime, overrides, settingVars>>

FeedUpdate ==
  /\ \E feed \in Feeds, a \in Answers : answer' = [answer EXCEPT ![feed] = a]
  /\ UNCHANGED <<contractVars, now>>

Tick ==
  /\ now < MaxTime
  /\ now' = now + 1
  /\ UNCHANGED <<contractVars, answer>>

ConfigurationNext ==
  \/ SetTokenOracleFeed \/ SetTokenOracleFeedDual \/ SetStrictCircuitBreakerRequired
  \/ ScheduleRemoveTokenOracleFeed \/ CancelScheduledRemoveTokenOracleFeed
  \/ RemoveTokenOracleFeed
  \/ SetDeviationThreshold \/ SetChallengeDuration

ChallengeNext ==
  ChallengeForToken \/ FinalizeChallenge \/ CancelChallenge \/ RevertToPrimary

OverrideNext ==
  \/ ScheduleOverride \/ CancelScheduledOverride
  \/ ForceResetToPrimary \/ EmergencyCancelChallenge

EnvironmentNext == FeedUpdate \/ Tick

Next == ConfigurationNext \/ ChallengeNext \/ OverrideNext \/ EnvironmentNext

Spec == Init /\ [][Next]_vars

-----------------------------------------------------------------------------
(* Properties *)

(***************************************************************************)
(* Types, and one state of dispute at a time: a challenge under way or an  *)
(* active backup belongs to the configured pair of feeds, never both at    *)
(* once, and the cool-down runs from the start of it.  Reconfigurations,   *)
(* removals and overrides may come at any point of a challenge.            *)
(***************************************************************************)
DisputeTypeOK ==
  /\ primaryFeed \in Feeds \cup {NoFeed} /\ backupFeed \in Feeds \cup {NoFeed}
  /\ isBackupActive \in BOOLEAN /\ strictCircuitBreakerRequired \in BOOLEAN
  /\ challengeStartTime \in Nat /\ challengeEndTime \in Nat /\ lastChallengeTime \in Nat
  /\ scheduledRemovalTime \in Nat /\ configuredAt \in Nat /\ now \in Nat
  /\ overrides \in [OverrideActions -> Schedule]
  /\ deviationThreshold \in Thresholds /\ challengeDuration \in Durations
  /\ answer \in [Feeds -> Answers]

OneDispute ==
  /\ DisputeTypeOK
  /\ now >= StartTime
  /\ challengeStartTime # 0 \/ isBackupActive =>
       /\ backupFeed # NoFeed
       /\ lastChallengeTime # 0 /\ lastChallengeTime <= now
  /\ challengeStartTime # 0 =>
       /\ ~isBackupActive
       /\ challengeStartTime = lastChallengeTime
       /\ challengeStartTime < challengeEndTime
  /\ challengeStartTime = 0 => challengeEndTime = 0
  /\ backupFeed # NoFeed => primaryFeed \in Feeds \ {backupFeed}

(***************************************************************************)
(* A price that is served, by getPrice or by getValueWithFallback, is      *)
(* served with no challenge under way and an active feed that has its      *)
(* circuit breaker, and no other protected feed of the token disagrees     *)
(* with it, whichever feed is active (CompositeOracle.sol:668-724,         *)
(* 1110-1130, 1450-1511).                                                  *)
(***************************************************************************)
PriceUndisputed ==
  \A served \in {Price, ValueWithFallback.value} \ {0} :
    /\ ~ChallengePending
    /\ answer[ActiveFeed].protected
    /\ ProtectedPrice(InactiveFeed) # 0 => ~Deviates(served, ProtectedPrice(InactiveFeed))

(***************************************************************************)
(* The degraded answer that getValueWithFallback documents: "the inactive  *)
(* feed is the legitimate backup of an undisputed, still-active primary    *)
(* and may serve a degraded fallback value if the later active-feed read   *)
(* fails" (CompositeOracle.sol:1445-1446; ICompositeOracle.sol:215-216,    *)
(* 222-223).  No challenge is pending and there are no two prices that     *)
(* could disagree; the primary has its circuit breaker but does not        *)
(* answer, the backup does.  The code returns (0, false): the dispute      *)
(* check takes a missing primary for the largest deviation (717-723).      *)
(***************************************************************************)
DegradedFallbackServed ==
  /\ primaryFeed # NoFeed /\ ~isBackupActive /\ ~ChallengePending
  /\ AnswerOf(primaryFeed).protected /\ AnswerOf(primaryFeed).price = 0
  /\ ProtectedPrice(backupFeed) # 0
  => ValueWithFallback = [value |-> ProtectedPrice(backupFeed), reliable |-> FALSE]

(***************************************************************************)
(* Two healthy feeds that agree are never held up: the primary serves, or  *)
(* one call that anybody can make brings it back.                          *)
(***************************************************************************)
AgreementServes ==
  /\ backupFeed # NoFeed
  /\ ~Deviates(ProtectedPrice(primaryFeed), ProtectedPrice(backupFeed))
  => (Price # 0 /\ ActiveFeed = primaryFeed) \/ CancelAllowed \/ RevertAllowed

(***************************************************************************)
(* A token that demands strict protection keeps it on both legs, through   *)
(* reconfiguration, removal and listing again (415-427, 509-515).          *)
(***************************************************************************)
StrictRouteKept ==
  strictCircuitBreakerRequired =>
    primaryFeed # NoFeed /\ {primaryFeed, backupFeed} \ {NoFeed} \subseteq StrictFeeds

-----------------------------------------------------------------------------
(* What a step may never do *)

(***************************************************************************)
(* The owner ends a challenge only after the delay of an override in which *)
(* that challenge was already pending: nothing scheduled earlier reaches   *)
(* it (M-8, 889-899).                                                      *)
(***************************************************************************)
ChallengeCancelNoticed ==
  [][(ForceResetToPrimary \/ EmergencyCancelChallenge) /\ challengeStartTime # 0
     => challengeStartTime + OverrideDelay <= now]_vars

(***************************************************************************)
(* Feeds are removed only when they have been configured as they are for   *)
(* the whole notice of a removal (L-4, 429-438).                           *)
(***************************************************************************)
RemovalNoticed ==
  [][primaryFeed # NoFeed /\ primaryFeed' = NoFeed => configuredAt + RemovalDelay <= now]_vars

(***************************************************************************)
(* The cool-down that keeps challengers out is set by a new challenge or a *)
(* change of the active feed and by nothing else: a challenge that ends    *)
(* without a switch does not prolong it (795-797, 847-849).                          *)
(***************************************************************************)
LockoutNotExtended ==
  [][lastChallengeTime' > lastChallengeTime
     => challengeStartTime' = now \/ isBackupActive' # isBackupActive]_vars

(***************************************************************************)
(* The backup takes over no earlier than the deadline that the challenge   *)
(* was made with, whatever the owner makes of the duration meanwhile.      *)
(***************************************************************************)
DeadlineKept ==
  [][~isBackupActive /\ isBackupActive' => now >= challengeEndTime]_vars

(***************************************************************************)
(* The owner cannot surprise a challenger or a pool: both the end of a     *)
(* challenge and the removal of the feeds come with their notice.          *)
(***************************************************************************)
NoticeGiven == ChallengeCancelNoticed /\ RemovalNoticed

(***************************************************************************)
(* The times of a challenge stay as they were set: its deadline for the    *)
(* switch and its cool-down for the next challenger.                       *)
(***************************************************************************)
ChallengeTermsKept == DeadlineKept /\ LockoutNotExtended

(***************************************************************************)
(* CompositeOracle.sol:949-952 of a forced reset: "a schedule taken before *)
(* backup activation must not survive into a future activation".           *)
(***************************************************************************)
ResetOfThisActivation ==
  [][ForceResetToPrimary /\ isBackupActive
     => overrides["reset"].executableAt - OverrideDelay >= lastChallengeTime]_vars

-----------------------------------------------------------------------------
(***************************************************************************)
(* The inductive invariant of the proofs.  The notice properties need what *)
(* a schedule remembers: an override names a challenge that was there when *)
(* it was scheduled, and a pending removal is younger than the feeds it    *)
(* will remove.                                                            *)
(***************************************************************************)
OverridesNoticed ==
  \A a \in OverrideActions :
    overrides[a].executableAt # 0
    => overrides[a].nonce.start + OverrideDelay <= overrides[a].executableAt

RemovalsNoticed ==
  /\ configuredAt <= now
  /\ scheduledRemovalTime # 0 => configuredAt + RemovalDelay <= scheduledRemovalTime

OracleInv == OneDispute /\ StrictRouteKept /\ OverridesNoticed /\ RemovalsNoticed
=============================================================================
