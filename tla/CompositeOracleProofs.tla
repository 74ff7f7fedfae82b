----------------------- MODULE CompositeOracleProofs ------------------------
(***************************************************************************)
(* Proofs about CompositeOracle, for any feeds, answers, settings and      *)
(* delays: the invariant of disputes and schedules, and from it what is    *)
(* promised of prices, notices and deadlines.                              *)
(***************************************************************************)
EXTENDS CompositeOracle, TLAPS

(***************************************************************************)
(* A new configuration, a removal or a new setting leaves no challenge,    *)
(* active backup or removal notice of the feeds before it                  *)
(* (CompositeOracle.sol:290-518).                                          *)
(***************************************************************************)
LEMMA ConfigurationKeepsInv ==
  ASSUME OracleInv, ConfigurationNext
  PROVE  OracleInv'
<1> USE OracleAssumption
<1> USE DEF OracleInv, OneDispute, DisputeTypeOK, StrictRouteKept, OverridesNoticed,
            RemovalsNoticed, routeVars, challengeVars, settingVars, envVars, StartTime
<1>1. ASSUME NEW primary \in Feeds, NEW backup \in (Feeds \cup {NoFeed}) \ {primary},
             Configure(primary, backup)
      PROVE  OracleInv'
  <2> HIDE DEF OneDispute, DisputeTypeOK, StrictRouteKept, OverridesNoticed, RemovalsNoticed
  <2>1. DisputeTypeOK'
    BY <1>1 DEF Configure, FreshChallengeState, ClearScheduledRemoval, OneDispute, DisputeTypeOK
  <2>2. OneDispute'
    BY <1>1, <2>1 DEF Configure, FreshChallengeState, ClearScheduledRemoval, OneDispute,
         DisputeTypeOK
  <2>3. StrictRouteKept'
    BY <1>1 DEF Configure, FreshChallengeState, ClearScheduledRemoval, RouteAccepted,
         StrictRouteKept, OneDispute, DisputeTypeOK
  <2>4. OverridesNoticed'
    BY <1>1 DEF Configure, FreshChallengeState, ClearScheduledRemoval, OverridesNoticed
  <2>5. RemovalsNoticed'
    BY <1>1 DEF Configure, FreshChallengeState, ClearScheduledRemoval, RemovalsNoticed,
         OneDispute, DisputeTypeOK
  <2>6. QED
    BY <2>2, <2>3, <2>4, <2>5
<1>2. CASE SetTokenOracleFeed
  BY <1>1, <1>2 DEF SetTokenOracleFeed
<1>3. CASE SetTokenOracleFeedDual
  BY <1>1, <1>3 DEF SetTokenOracleFeedDual
<1>4. CASE SetStrictCircuitBreakerRequired
  BY <1>4 DEF SetStrictCircuitBreakerRequired, RouteAccepted
<1>5. CASE ScheduleRemoveTokenOracleFeed
  BY <1>5 DEF ScheduleRemoveTokenOracleFeed
<1>6. CASE CancelScheduledRemoveTokenOracleFeed
  BY <1>6 DEF CancelScheduledRemoveTokenOracleFeed
<1>7. CASE RemoveTokenOracleFeed
  <2> HIDE DEF OneDispute, DisputeTypeOK, StrictRouteKept, OverridesNoticed, RemovalsNoticed
  <2>1. DisputeTypeOK'
    BY <1>7 DEF RemoveTokenOracleFeed, FreshChallengeState, OneDispute, DisputeTypeOK
  <2>2. OneDispute'
    BY <1>7, <2>1 DEF RemoveTokenOracleFeed, FreshChallengeState, OneDispute, DisputeTypeOK
  <2>3. StrictRouteKept'
    BY <1>7 DEF RemoveTokenOracleFeed, StrictRouteKept, OneDispute, DisputeTypeOK
  <2>4. OverridesNoticed'
    BY <1>7 DEF RemoveTokenOracleFeed, FreshChallengeState, OverridesNoticed
  <2>5. RemovalsNoticed'
    BY <1>7 DEF RemoveTokenOracleFeed, FreshChallengeState, RemovalsNoticed, OneDispute,
         DisputeTypeOK
  <2>6. QED
    BY <2>2, <2>3, <2>4, <2>5
<1>8. CASE SetDeviationThreshold
  BY <1>8 DEF SetDeviationThreshold
<1>9. CASE SetChallengeDuration
  BY <1>9 DEF SetChallengeDuration
<1>10. QED
  BY <1>2, <1>3, <1>4, <1>5, <1>6, <1>7, <1>8, <1>9 DEF ConfigurationNext

(***************************************************************************)
(* The public calls move one dispute through its states (728-887).         *)
(***************************************************************************)
LEMMA ChallengeKeepsInv ==
  ASSUME OracleInv, ChallengeNext
  PROVE  OracleInv'
<1> USE OracleAssumption
<1> USE DEF OracleInv, OneDispute, DisputeTypeOK, StrictRouteKept, OverridesNoticed,
            RemovalsNoticed, routeVars, challengeVars, settingVars, envVars, unconfigured,
            StartTime
<1>1. CASE ChallengeForToken
  <2> HIDE DEF OneDispute, DisputeTypeOK, StrictRouteKept, OverridesNoticed, RemovalsNoticed
  <2>1. DisputeTypeOK'
    BY <1>1 DEF ChallengeForToken, OneDispute, DisputeTypeOK
  <2>2. OneDispute'
    <3>1. challengeDuration \in Nat \ {0} /\ now \in Nat /\ now >= Cooldown + 1
      BY DEF OneDispute, DisputeTypeOK
    <3>2. QED
      BY <1>1, <2>1, <3>1 DEF ChallengeForToken, OneDispute
  <2>3. StrictRouteKept'
    BY <1>1 DEF ChallengeForToken, StrictRouteKept, OneDispute, DisputeTypeOK
  <2>4. OverridesNoticed'
    BY <1>1 DEF ChallengeForToken, OverridesNoticed
  <2>5. RemovalsNoticed'
    BY <1>1 DEF ChallengeForToken, RemovalsNoticed, OneDispute, DisputeTypeOK
  <2>6. QED
    BY <2>2, <2>3, <2>4, <2>5
<1>2. CASE FinalizeChallenge
  <2> HIDE DEF OneDispute, DisputeTypeOK, StrictRouteKept, OverridesNoticed, RemovalsNoticed
  <2>1. now \in Nat /\ now >= Cooldown + 1 /\ lastChallengeTime \in Nat
    BY DEF OneDispute, DisputeTypeOK
  <2>2. OneDispute'
    <3>1. \/ lastChallengeTime' = lastChallengeTime /\ isBackupActive' = isBackupActive
          \/ lastChallengeTime' = now /\ isBackupActive' = TRUE
      BY <1>2 DEF FinalizeChallenge, EndChallenge
    <3>2. /\ challengeStartTime' = 0 /\ challengeEndTime' = 0
          /\ ~isBackupActive /\ challengeStartTime # 0
          /\ UNCHANGED <<primaryFeed, backupFeed, configuredAt, strictCircuitBreakerRequired,
                         scheduledRemovalTime, overrides, deviationThreshold,
                         challengeDuration, answer, now>>
      BY <1>2 DEF FinalizeChallenge, EndChallenge, ChallengePending
    <3>3. DisputeTypeOK'
      BY <2>1, <3>1, <3>2 DEF OneDispute, DisputeTypeOK
    <3>4. QED
      BY <2>1, <3>1, <3>2, <3>3 DEF OneDispute
  <2>3. StrictRouteKept'
    BY <1>2 DEF FinalizeChallenge, StrictRouteKept, OneDispute, DisputeTypeOK
  <2>4. OverridesNoticed'
    BY <1>2 DEF FinalizeChallenge, ChallengePending, EndChallenge, OverridesNoticed
  <2>5. RemovalsNoticed'
    BY <1>2 DEF FinalizeChallenge, ChallengePending, EndChallenge, RemovalsNoticed, OneDispute,
         DisputeTypeOK
  <2>6. QED
    BY <2>2, <2>3, <2>4, <2>5
<1>3. CASE CancelChallenge
  BY <1>3 DEF CancelChallenge, EndChallenge
<1>4. CASE RevertToPrimary
  BY <1>4 DEF RevertToPrimary, RevertAllowed
<1>5. QED
  BY <1>1, <1>2, <1>3, <1>4 DEF ChallengeNext

(***************************************************************************)
(* A schedule records the challenge of its own time; carrying it out only  *)
(* clears (942-1064).                                                      *)
(***************************************************************************)
LEMMA OverrideKeepsInv ==
  ASSUME OracleInv, OverrideNext
  PROVE  OracleInv'
<1> USE OracleAssumption
<1> USE DEF OracleInv, OneDispute, DisputeTypeOK, StrictRouteKept,
            RemovalsNoticed, routeVars, challengeVars, settingVars, envVars, unconfigured,
            StartTime
<1>1. NoSchedule \in Schedule
  BY DEF NoSchedule, Schedule, Nonce
<1>2. CASE ScheduleOverride
  <2>1. PICK action \in OverrideActions :
          /\ overrides' = [overrides EXCEPT ![action] =
               [executableAt |-> now + OverrideDelay,
                expiresAt |-> now + OverrideDelay + OverrideExpiry,
                nonce |-> StateNonce(action)]]
          /\ UNCHANGED <<isBackupActive, challengeVars, lastChallengeTime, unconfigured>>
    BY <1>2 DEF ScheduleOverride
  <2>2. /\ StateNonce(action) \in Nonce
        /\ StateNonce(action).start = challengeStartTime
    BY DEF StateNonce, Nonce
  <2>3. [executableAt |-> now + OverrideDelay,
         expiresAt |-> now + OverrideDelay + OverrideExpiry,
         nonce |-> StateNonce(action)] \in Schedule
    BY <2>2 DEF Schedule
  <2>4. overrides' \in [OverrideActions -> Schedule]
    BY <2>1, <2>3
  <2>5. challengeStartTime <= now
    OBVIOUS
  <2>6. OverridesNoticed'
    BY <2>1, <2>2, <2>5 DEF OverridesNoticed
  <2>7. QED
    BY <2>1, <2>4, <2>6
<1>3. CASE CancelScheduledOverride
  BY <1>1, <1>3 DEF CancelScheduledOverride, OverridesNoticed, NoSchedule
<1>4. CASE ForceResetToPrimary
  BY <1>1, <1>4 DEF ForceResetToPrimary, EndChallenge, OverridesNoticed, NoSchedule,
                    OverrideActions
<1>5. CASE EmergencyCancelChallenge
  BY <1>1, <1>5 DEF EmergencyCancelChallenge, EndChallenge, OverridesNoticed, NoSchedule,
                    OverrideActions
<1>6. QED
  BY <1>2, <1>3, <1>4, <1>5 DEF OverrideNext

LEMMA EnvironmentKeepsInv ==
  ASSUME OracleInv, EnvironmentNext
  PROVE  OracleInv'
<1> USE OracleAssumption
<1> USE DEF OracleInv, OneDispute, DisputeTypeOK, StrictRouteKept, OverridesNoticed,
            RemovalsNoticed, routeVars, challengeVars, settingVars, contractVars, StartTime
<1>1. CASE FeedUpdate
  BY <1>1 DEF FeedUpdate
<1>2. CASE Tick
  BY <1>2 DEF Tick
<1>3. QED
  BY <1>1, <1>2 DEF EnvironmentNext

LEMMA InitInv == Init => OracleInv
<1> SUFFICES ASSUME Init PROVE OracleInv
  OBVIOUS
<1>1. NoSchedule \in Schedule
  BY DEF NoSchedule, Schedule, Nonce
<1>2. StartTime \in Nat
  BY OracleAssumption DEF StartTime
<1>3. overrides \in [OverrideActions -> Schedule] /\ answer \in [Feeds -> Answers]
  BY <1>1 DEF Init
<1>4. DisputeTypeOK
  BY <1>2, <1>3 DEF Init, DisputeTypeOK
<1>5. OneDispute
  BY <1>2, <1>4 DEF Init, OneDispute
<1>6. StrictRouteKept /\ OverridesNoticed /\ RemovalsNoticed
  BY <1>2 DEF Init, StrictRouteKept, OverridesNoticed, RemovalsNoticed, NoSchedule
<1>7. QED
  BY <1>5, <1>6 DEF OracleInv

LEMMA StepInv == OracleInv /\ [Next]_vars => OracleInv'
<1> SUFFICES ASSUME OracleInv, [Next]_vars PROVE OracleInv'
  OBVIOUS
<1>1. CASE Next
  BY <1>1, ConfigurationKeepsInv, ChallengeKeepsInv, OverrideKeepsInv, EnvironmentKeepsInv
     DEF Next
<1>2. CASE UNCHANGED vars
  BY <1>2 DEF vars, OracleInv, OneDispute, DisputeTypeOK, StrictRouteKept, OverridesNoticed,
              RemovalsNoticed, routeVars, challengeVars, settingVars, envVars
<1>3. QED
  BY <1>1, <1>2

(***************************************************************************)
(* The inductive invariant holds throughout: types, one dispute at a time, *)
(* strict routes, and what the schedules remember.                         *)
(***************************************************************************)
THEOREM OracleInvariant == Spec => []OracleInv
  BY InitInv, StepInv, PTL DEF Spec

(***************************************************************************)
(* OneDispute for every value of the constants.                            *)
(***************************************************************************)
THEOREM DisputeStates == Spec => []OneDispute
<1>1. OracleInv => OneDispute
  BY DEF OracleInv
<1>2. QED
  BY <1>1, OracleInvariant, PTL

(***************************************************************************)
(* StrictRouteKept for every value of the constants.                       *)
(***************************************************************************)
THEOREM StrictRoutes == Spec => []StrictRouteKept
<1>1. OracleInv => StrictRouteKept
  BY DEF OracleInv
<1>2. QED
  BY <1>1, OracleInvariant, PTL

(***************************************************************************)
(* Two prices within the threshold are both there (OracleValidationLib.    *)
(* sol:64-74).                                                             *)
(***************************************************************************)
LEMMA AgreeingPricesExist ==
  ASSUME NEW p, NEW q, ~Deviates(p, q)
  PROVE  p # 0 /\ q # 0
  BY DEF Deviates

(***************************************************************************)
(* calculateDeviation does not look at the order of its arguments, which   *)
(* the dispute check and the served price use differently.                 *)
(***************************************************************************)
LEMMA DeviatesSymmetric ==
  ASSUME NEW p \in Nat, NEW q \in Nat, ~Deviates(p, q)
  PROVE  ~Deviates(q, p)
<1> DEFINE diff(x, y) == IF x > y THEN x - y ELSE y - x
           least(x, y) == IF x < y THEN x ELSE y
           scaled(x, y) == (diff(x, y) * BasisPointScale) \div least(x, y)
<1>1. p # 0 /\ q # 0 /\ ~(scaled(p, q) > deviationThreshold)
  BY DEF Deviates
<1>2. diff(p, q) = diff(q, p) /\ least(p, q) = least(q, p)
  OBVIOUS
<1>3. scaled(p, q) = scaled(q, p)
  <2> HIDE DEF diff, least
  <2> QED
    BY <1>2
<1>4. ~(scaled(q, p) > deviationThreshold)
  <2> HIDE DEF scaled
  <2> QED
    BY <1>1, <1>3
<1>5. QED
  BY <1>1, <1>4 DEF Deviates

(***************************************************************************)
(* getValueWithFallback serves what getPrice serves or nothing: a primary  *)
(* that fails is disputed by any backup that could stand in, so the branch *)
(* of the degraded fallback (CompositeOracle.sol:1495-1507) is never taken *)
(* and finding 5 holds whatever the feeds answer.                          *)
(***************************************************************************)
LEMMA FallbackServesThePrice ==
  ASSUME OracleInv, ValueWithFallback.value # 0
  PROVE  ValueWithFallback.value = Price
<1> DEFINE active == IF isBackupActive THEN backupFeed ELSE primaryFeed
<1>1. ~ChallengePending /\ ~Disputed /\ AnswerOf(active).protected
  BY DEF ValueWithFallback
<1>2. primaryFeed # NoFeed /\ active = ActiveFeed
  BY <1>1, OracleAssumption
     DEF AnswerOf, NoAnswer, ActiveFeed, OracleInv, OneDispute, DisputeTypeOK
<1>3. Price = ProtectedPrice(active)
  BY <1>1, <1>2 DEF Price
<1>4. CASE AnswerOf(active).price # 0
  BY <1>1, <1>3, <1>4 DEF ValueWithFallback, ProtectedPrice
<1>5. CASE AnswerOf(active).price = 0
  <2>1. ~isBackupActive /\ ProtectedPrice(InactiveFeed) # 0
    BY <1>1, <1>5 DEF ValueWithFallback, OracleInv, OneDispute, DisputeTypeOK
  <2>2. active = primaryFeed /\ InactiveFeed = backupFeed
    BY <2>1 DEF InactiveFeed
  <2>3. backupFeed # NoFeed
    BY <2>1, <2>2 DEF ProtectedPrice, AnswerOf, NoAnswer
  <2>4. ProtectedPrice(primaryFeed) = 0
    BY <1>5, <2>2 DEF ProtectedPrice
  <2>5. Deviates(ProtectedPrice(primaryFeed), ProtectedPrice(backupFeed))
    BY <2>4, AgreeingPricesExist
  <2>6. QED
    BY <1>1, <2>1, <2>2, <2>3, <2>5 DEF Disputed
<1>6. QED
  BY <1>4, <1>5

(***************************************************************************)
(* PriceUndisputed for every value of the constants: the three branches of *)
(* the dispute check leave no protected feed that disagrees, and the       *)
(* fallback serves no other price.                                         *)
(***************************************************************************)
THEOREM PricesUndisputed == Spec => []PriceUndisputed
<1>1. ASSUME OracleInv PROVE PriceUndisputed
  <2> SUFFICES ASSUME Price # 0
               PROVE  /\ ~ChallengePending
                      /\ answer[ActiveFeed].protected
                      /\ ProtectedPrice(InactiveFeed) # 0
                         => ~Deviates(Price, ProtectedPrice(InactiveFeed))
    BY <1>1, FallbackServesThePrice DEF PriceUndisputed
  <2>1. /\ primaryFeed # NoFeed /\ ~ChallengePending /\ ~Disputed
        /\ Price = ProtectedPrice(ActiveFeed)
    BY DEF Price
  <2>2. AnswerOf(ActiveFeed).protected /\ ActiveFeed # NoFeed
    BY <2>1 DEF ProtectedPrice, ActiveFeed
  <2>3. answer[ActiveFeed].protected
    BY <2>2 DEF AnswerOf
  <2>4. ASSUME ProtectedPrice(InactiveFeed) # 0
        PROVE  ~Deviates(Price, ProtectedPrice(InactiveFeed))
    <3>1. InactiveFeed # NoFeed
      BY <2>4 DEF ProtectedPrice, AnswerOf, NoAnswer
    <3>2. CASE isBackupActive
      <4>1. ActiveFeed = backupFeed /\ InactiveFeed = primaryFeed /\ backupFeed # NoFeed
        BY <1>1, <3>2, OracleAssumption DEF ActiveFeed, InactiveFeed, OracleInv, OneDispute
      <4>2. ~Deviates(ProtectedPrice(primaryFeed), ProtectedPrice(backupFeed))
        BY <2>1, <2>4, <3>2, <4>1 DEF Disputed
      <4>3. ProtectedPrice(primaryFeed) \in Nat /\ ProtectedPrice(backupFeed) \in Nat
        BY <1>1, OracleAssumption
           DEF ProtectedPrice, AnswerOf, NoAnswer, OracleInv, OneDispute, DisputeTypeOK, Answer
      <4>4. QED
        BY <2>1, <4>1, <4>2, <4>3, DeviatesSymmetric
    <3>3. CASE ~isBackupActive
      BY <2>1, <2>4, <3>1, <3>3 DEF Disputed, ActiveFeed, InactiveFeed
    <3>4. QED
      BY <3>2, <3>3, <1>1 DEF OracleInv, OneDispute, DisputeTypeOK
  <2>5. QED
    BY <2>1, <2>3, <2>4
<1>2. QED
  BY <1>1, OracleInvariant, PTL

(***************************************************************************)
(* AgreementServes for every value of the constants: agreeing feeds can    *)
(* always be brought back to the primary by one public call.               *)
(***************************************************************************)
THEOREM AgreementsServe == Spec => []AgreementServes
<1>1. ASSUME OracleInv PROVE AgreementServes
  <2> SUFFICES ASSUME backupFeed # NoFeed,
                      ~Deviates(ProtectedPrice(primaryFeed), ProtectedPrice(backupFeed))
               PROVE  (Price # 0 /\ ActiveFeed = primaryFeed) \/ CancelAllowed \/ RevertAllowed
    BY DEF AgreementServes
  <2>1. ProtectedPrice(primaryFeed) # 0 /\ ProtectedPrice(backupFeed) # 0
    BY AgreeingPricesExist
  <2>2. /\ AnswerOf(primaryFeed).price # 0
        /\ AnswerOf(backupFeed).price = ProtectedPrice(backupFeed)
    BY <2>1 DEF ProtectedPrice
  <2>3. CASE isBackupActive
    BY <2>3 DEF RevertAllowed
  <2>4. CASE ChallengePending
    BY <2>1, <2>2, <2>4 DEF CancelAllowed, StillDeviates
  <2>5. CASE ~isBackupActive /\ ~ChallengePending
    <3>1. ~Disputed
      BY <2>1, <2>5 DEF Disputed
    <3>2. primaryFeed # NoFeed
      BY <1>1, OracleAssumption DEF OracleInv, OneDispute
    <3>3. QED
      BY <2>1, <2>5, <3>1, <3>2 DEF Price, ActiveFeed
  <2>6. QED
    BY <2>3, <2>4, <2>5
<1>2. QED
  BY <1>1, OracleInvariant, PTL

(***************************************************************************)
(* ChallengeCancelNoticed for every value of the constants.                *)
(***************************************************************************)
THEOREM ChallengeCancelsNoticed == Spec => ChallengeCancelNoticed
<1> USE OracleAssumption
<1>1. ASSUME OracleInv, ForceResetToPrimary \/ EmergencyCancelChallenge
      PROVE  challengeStartTime + OverrideDelay <= now
  <2>1. PICK action \in OverrideActions : Consumable(action)
    BY <1>1 DEF ForceResetToPrimary, EmergencyCancelChallenge, OverrideActions
  <2>2. /\ overrides[action].executableAt # 0
        /\ overrides[action].executableAt <= now
        /\ overrides[action].nonce.start = challengeStartTime
    BY <2>1 DEF Consumable, StateNonce
  <2>3. overrides[action].executableAt \in Nat
    BY <1>1 DEF OracleInv, OneDispute, DisputeTypeOK, Schedule
  <2>4. challengeStartTime \in Nat /\ now \in Nat
    BY <1>1 DEF OracleInv, OneDispute, DisputeTypeOK
  <2>5. challengeStartTime + OverrideDelay <= overrides[action].executableAt
    BY <1>1, <2>2 DEF OracleInv, OverridesNoticed
  <2>6. QED
    BY <2>2, <2>3, <2>4, <2>5
<1>2. OracleInv => [(ForceResetToPrimary \/ EmergencyCancelChallenge) /\ challengeStartTime # 0
                    => challengeStartTime + OverrideDelay <= now]_vars
  BY <1>1
<1>3. QED
  BY <1>2, OracleInvariant, PTL DEF Spec, ChallengeCancelNoticed

(***************************************************************************)
(* RemovalNoticed for every value of the constants.                        *)
(***************************************************************************)
THEOREM RemovalsGiveNotice == Spec => RemovalNoticed
<1> USE OracleAssumption
<1>1. ASSUME OracleInv, [Next]_vars, primaryFeed # NoFeed, primaryFeed' = NoFeed
      PROVE  RemoveTokenOracleFeed
  <2> USE DEF routeVars, unconfigured, contractVars
  <2>1. CASE ConfigurationNext
    BY <1>1, <2>1 DEF ConfigurationNext, SetTokenOracleFeed, SetTokenOracleFeedDual, Configure,
         SetStrictCircuitBreakerRequired, ScheduleRemoveTokenOracleFeed,
         CancelScheduledRemoveTokenOracleFeed, SetDeviationThreshold, SetChallengeDuration
  <2>2. CASE ChallengeNext
    BY <1>1, <2>2 DEF ChallengeNext, ChallengeForToken, FinalizeChallenge, CancelChallenge,
         RevertToPrimary
  <2>3. CASE OverrideNext
    BY <1>1, <2>3 DEF OverrideNext, ScheduleOverride, CancelScheduledOverride,
         ForceResetToPrimary, EmergencyCancelChallenge
  <2>4. CASE EnvironmentNext
    BY <1>1, <2>4 DEF EnvironmentNext, FeedUpdate, Tick
  <2>5. CASE UNCHANGED vars
    BY <1>1, <2>5 DEF vars
  <2>6. QED
    BY <1>1, <2>1, <2>2, <2>3, <2>4, <2>5 DEF Next
<1>2. ASSUME OracleInv, RemoveTokenOracleFeed
      PROVE  configuredAt + RemovalDelay <= now
  BY <1>2 DEF OracleInv, OneDispute, DisputeTypeOK, RemovalsNoticed, RemoveTokenOracleFeed
<1>3. OracleInv /\ [Next]_vars
      => [primaryFeed # NoFeed /\ primaryFeed' = NoFeed => configuredAt + RemovalDelay <= now]_vars
  BY <1>1, <1>2
<1>4. QED
  BY <1>3, OracleInvariant, PTL DEF Spec, RemovalNoticed

(***************************************************************************)
(* DeadlineKept for every value of the constants.                          *)
(***************************************************************************)
THEOREM DeadlinesKept == Spec => DeadlineKept
<1> USE OracleAssumption
<1>1. ASSUME OracleInv, [Next]_vars, ~isBackupActive, isBackupActive'
      PROVE  FinalizeChallenge
  <2> USE DEF unconfigured, contractVars
  <2>1. CASE ConfigurationNext
    BY <1>1, <2>1 DEF ConfigurationNext, SetTokenOracleFeed, SetTokenOracleFeedDual, Configure,
         FreshChallengeState, SetStrictCircuitBreakerRequired, ScheduleRemoveTokenOracleFeed,
         CancelScheduledRemoveTokenOracleFeed, RemoveTokenOracleFeed, SetDeviationThreshold,
         SetChallengeDuration
  <2>2. CASE ChallengeNext
    BY <1>1, <2>2 DEF ChallengeNext, ChallengeForToken, CancelChallenge, RevertToPrimary
  <2>3. CASE OverrideNext
    BY <1>1, <2>3 DEF OverrideNext, ScheduleOverride, CancelScheduledOverride,
         ForceResetToPrimary, EmergencyCancelChallenge
  <2>4. CASE EnvironmentNext
    BY <1>1, <2>4 DEF EnvironmentNext, FeedUpdate, Tick
  <2>5. CASE UNCHANGED vars
    BY <1>1, <2>5 DEF vars
  <2>6. QED
    BY <1>1, <2>1, <2>2, <2>3, <2>4, <2>5 DEF Next
<1>2. ASSUME OracleInv, FinalizeChallenge
      PROVE  now >= challengeEndTime
  BY <1>2 DEF OracleInv, OneDispute, DisputeTypeOK, FinalizeChallenge, ChallengePending, Deadline
<1>3. OracleInv /\ [Next]_vars
      => [~isBackupActive /\ isBackupActive' => now >= challengeEndTime]_vars
  BY <1>1, <1>2
<1>4. QED
  BY <1>3, OracleInvariant, PTL DEF Spec, DeadlineKept

(***************************************************************************)
(* LockoutNotExtended for every value of the constants.                    *)
(***************************************************************************)
THEOREM LockoutsNotExtended == Spec => LockoutNotExtended
<1>1. ASSUME OracleInv, Next, lastChallengeTime' > lastChallengeTime
      PROVE  challengeStartTime' = now \/ isBackupActive' # isBackupActive
  <2>1. lastChallengeTime \in Nat /\ isBackupActive \in BOOLEAN
    BY <1>1 DEF OracleInv, OneDispute, DisputeTypeOK
  <2>2. lastChallengeTime' # lastChallengeTime /\ lastChallengeTime' # 0
    BY <1>1, <2>1
  <2> USE DEF unconfigured, contractVars
  <2>3. CASE ConfigurationNext
    BY <2>2, <2>3 DEF ConfigurationNext, SetTokenOracleFeed, SetTokenOracleFeedDual, Configure,
         FreshChallengeState, SetStrictCircuitBreakerRequired, ScheduleRemoveTokenOracleFeed,
         CancelScheduledRemoveTokenOracleFeed, RemoveTokenOracleFeed, SetDeviationThreshold,
         SetChallengeDuration
  <2>4. CASE ChallengeNext
    BY <2>1, <2>2, <2>4 DEF ChallengeNext, ChallengeForToken, FinalizeChallenge,
         ChallengePending, CancelChallenge, EndChallenge, RevertToPrimary, RevertAllowed
  <2>5. CASE OverrideNext
    BY <2>2, <2>5 DEF OverrideNext, ScheduleOverride, CancelScheduledOverride,
         ForceResetToPrimary, EmergencyCancelChallenge, EndChallenge
  <2>6. CASE EnvironmentNext
    BY <2>2, <2>6 DEF EnvironmentNext, FeedUpdate, Tick
  <2>7. QED
    BY <1>1, <2>3, <2>4, <2>5, <2>6 DEF Next
<1>2. ASSUME OracleInv, vars' = vars, lastChallengeTime' > lastChallengeTime
      PROVE  FALSE
  BY <1>2 DEF vars, OracleInv, OneDispute, DisputeTypeOK
<1>3. OracleInv /\ [Next]_vars
      => [lastChallengeTime' > lastChallengeTime
          => challengeStartTime' = now \/ isBackupActive' # isBackupActive]_vars
  BY <1>1, <1>2
<1>4. QED
  BY <1>3, OracleInvariant, PTL DEF Spec, LockoutNotExtended

(***************************************************************************)
(* NoticeGiven for every value of the constants.                           *)
(***************************************************************************)
THEOREM NoticesGiven == Spec => NoticeGiven
BY ChallengeCancelsNoticed, RemovalsGiveNotice DEF NoticeGiven

(***************************************************************************)
(* ChallengeTermsKept for every value of the constants.                    *)
(***************************************************************************)
THEOREM TermsKept == Spec => ChallengeTermsKept
BY DeadlinesKept, LockoutsNotExtended DEF ChallengeTermsKept
=============================================================================
