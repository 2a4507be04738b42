---------------------------- MODULE GatewayProofs ----------------------------
(***************************************************************************)
(* What holds when streams and requests that are not streamed share the    *)
(* store and the selector: the promises of both, kept against each other.  *)
(* Each kind's proof relies only on its own goroutine and on a store and   *)
(* a selector in order, whoever uses them, so the steps of the two compose.*)
(***************************************************************************)
EXTENDS Gateway, StreamExecutorProofs

(* The theory of requests that are not streamed, over the shared variables. *)
Plain == INSTANCE ExecutorProofs

-----------------------------------------------------------------------------
(* The same operators under several names *)

LEMMA PlainAssumed == Plain!ExecutionAssumption /\ Plain!ExecutorAssumption
  BY ExecutionAssumption, GatewayAssumption
  DEF
      Plain!ExecutionAssumption, Plain!Repository!RoutingStoreAssumption,
      Plain!Repository!IsFiniteSet, Plain!Selector!ConductorAssumption,
      Plain!Selector!IsFiniteSet, Plain!Selector!Account, Plain!Selector!SelectRequest,
      Plain!IsFiniteSet, Plain!Errors, Plain!ExecutorAssumption,
      Waiting!ExecutorAssumption,
      ExecutionAssumption, Repository!RoutingStoreAssumption, Repository!IsFiniteSet,
      Selector!ConductorAssumption, Selector!IsFiniteSet, Selector!Account,
      Selector!SelectRequest, IsFiniteSet, Errors

(* The steps that Gateway takes are those the two theories speak of. *)
LEMMA PlainStep ==
    ASSUME NEW r \in Responses, Waiting!Step(r)
    PROVE  Plain!Step(r)
<1>1. ASSUME Waiting!Decide(r) PROVE Plain!Decide(r)
  BY <1>1
  DEF
      Waiting!Decide, Waiting!At, Waiting!DecisionFloor, Waiting!Repository!NoPin,
      Waiting!Repository!Maximum, Waiting!TurnOf, Waiting!Repository!ConversationOf,
      Waiting!Return, Waiting!Returned, Waiting!NoRequest, Waiting!storeVars,
      Waiting!selectorVars, Plain!Decide, Plain!At, Plain!DecisionFloor,
      Plain!Repository!NoPin, Plain!Repository!Maximum, Plain!TurnOf,
      Plain!Repository!ConversationOf, Plain!Return, Plain!Returned, Plain!NoRequest,
      Plain!storeVars, Plain!selectorVars
<1>2. ASSUME Waiting!SelectAccount(r) PROVE Plain!SelectAccount(r)
  <2>1. ASSUME NEW result, Waiting!Selects(r, result) PROVE Plain!Selects(r, result)
    BY <2>1
    DEF
      Waiting!Selects, Waiting!Selector!Returns, Waiting!Selector!Refuse,
      Waiting!Selector!Exhausted, Waiting!Selector!Cardinality, Waiting!Selector!Eligible,
      Waiting!Selector!Admits, Waiting!Selector!Addressed, Waiting!Selector!Qualified,
      Waiting!Selector!RetryLimit, Waiting!Selector!Refused, Waiting!Selector!Cooling,
      Waiting!Selector!Unexpired, Waiting!Selector!Alive, Waiting!Selector!NoBinding,
      Waiting!Selector!Stick, Waiting!Selector!Sticky, Waiting!Selector!Inherits,
      Waiting!Selector!Holds, Waiting!Selector!Granted, Waiting!Selector!Bound,
      Waiting!Selector!Rotate, Waiting!Selector!First, Waiting!Selector!RoundRobin,
      Waiting!Selector!Ahead, Waiting!Selector!Count, Waiting!Selector!NoTally,
      Waiting!Selector!Share, Waiting!Selector!Weighted, Waiting!Selector!MapThenSumSet,
      Waiting!Selector!MapThenFoldSet, Waiting!Selector!WeightUpTo, Waiting!Selector!Thaw,
      Waiting!Wanted, Waiting!AccountRequest, Plain!Selects, Plain!Selector!Returns,
      Plain!Selector!Refuse, Plain!Selector!Exhausted, Plain!Selector!Cardinality,
      Plain!Selector!Eligible, Plain!Selector!Admits, Plain!Selector!Addressed,
      Plain!Selector!Qualified, Plain!Selector!RetryLimit, Plain!Selector!Refused,
      Plain!Selector!Cooling, Plain!Selector!Unexpired, Plain!Selector!Alive,
      Plain!Selector!NoBinding, Plain!Selector!Stick, Plain!Selector!Sticky,
      Plain!Selector!Inherits, Plain!Selector!Holds, Plain!Selector!Granted,
      Plain!Selector!Bound, Plain!Selector!Rotate, Plain!Selector!First,
      Plain!Selector!RoundRobin, Plain!Selector!Ahead, Plain!Selector!Count,
      Plain!Selector!NoTally, Plain!Selector!Share, Plain!Selector!Weighted,
      Plain!Selector!MapThenSumSet, Plain!Selector!MapThenFoldSet,
      Plain!Selector!WeightUpTo, Plain!Selector!Thaw, Plain!Wanted, Plain!AccountRequest
  <2>2. /\ \A a : Waiting!Selector!Granted(a) = Plain!Selector!Granted(a)
        /\ \A kind : Waiting!Selector!Refused(kind) = Plain!Selector!Refused(kind)
    BY DEF Waiting!Selector!Granted, Plain!Selector!Granted,
           Waiting!Selector!Refused, Plain!Selector!Refused
  <2>3. Waiting!WaitEnd = Plain!WaitEnd
    BY DEF Waiting!WaitEnd, Plain!WaitEnd
  <2> QED BY <1>2, <2>1, <2>2, <2>3
          DEF Waiting!SelectAccount, Waiting!At, Waiting!Return, Waiting!Returned, Waiting!NoRequest,
              Waiting!NewPass, Waiting!storeVars, Waiting!selectorVars,
              Plain!SelectAccount, Plain!At, Plain!Return, Plain!Returned, Plain!NoRequest,
              Plain!NewPass, Plain!storeVars, Plain!selectorVars
<1>3. ASSUME Waiting!NoMoreRounds(r) PROVE Plain!NoMoreRounds(r)
  BY <1>3
  DEF
      Waiting!NoMoreRounds, Waiting!At, Waiting!Return, Waiting!Returned,
      Waiting!NoRequest, Waiting!storeVars, Waiting!selectorVars, Plain!NoMoreRounds,
      Plain!At, Plain!Return, Plain!Returned, Plain!NoRequest, Plain!storeVars,
      Plain!selectorVars
<1>4. ASSUME Waiting!WaitCooldown(r) PROVE Plain!WaitCooldown(r)
  BY <1>4
  DEF
      Waiting!WaitCooldown, Waiting!At, Waiting!NewPass, Waiting!Return, Waiting!Returned,
      Waiting!NoRequest, Waiting!storeVars, Waiting!selectorVars, Plain!WaitCooldown,
      Plain!At, Plain!NewPass, Plain!Return, Plain!Returned, Plain!NoRequest,
      Plain!storeVars, Plain!selectorVars
<1>5. ASSUME Waiting!Unusable(r) PROVE Plain!Unusable(r)
  BY <1>5
  DEF
      Waiting!Unusable, Waiting!At, Waiting!Bounded, Waiting!Cardinality,
      Waiting!Repository!AttemptsOf, Waiting!selectorVars, Waiting!ReportFailure,
      Waiting!FailureClass, Waiting!Selector!ReportFailure, Waiting!Selector!CooledDown,
      Waiting!Selector!CooldownFor, Waiting!Selector!NoBinding, Waiting!Return,
      Waiting!Returned, Waiting!NoRequest, Waiting!storeVars, Plain!Unusable, Plain!At,
      Plain!Bounded, Plain!Cardinality, Plain!Repository!AttemptsOf, Plain!selectorVars,
      Plain!ReportFailure, Plain!FailureClass, Plain!Selector!ReportFailure,
      Plain!Selector!CooledDown, Plain!Selector!CooldownFor, Plain!Selector!NoBinding,
      Plain!Return, Plain!Returned, Plain!NoRequest, Plain!storeVars
<1>6. ASSUME Waiting!BeginAttempt(r) PROVE Plain!BeginAttempt(r)
  BY <1>6
  DEF
      Waiting!BeginAttempt, Waiting!At, Waiting!Bounded, Waiting!Cardinality,
      Waiting!Repository!AttemptsOf, Waiting!Repository!BeginProviderAttempt,
      Waiting!Repository!ConversationOf, Waiting!Repository!Maximum,
      Waiting!Repository!Owns, Waiting!Repository!Unanswered,
      Waiting!Repository!TierAccepted, Waiting!Repository!NoPin,
      Waiting!Repository!Repinned, Waiting!Repository!SyncSession,
      Waiting!Repository!MergedSession, Waiting!Repository!FreshSession,
      Waiting!Repository!Cardinality, Waiting!NextAttempt, Waiting!StorageErrors,
      Waiting!Outgrown, Waiting!Fail, Waiting!Return, Waiting!Returned, Waiting!NoRequest,
      Waiting!storeVars, Waiting!selectorVars, Plain!BeginAttempt, Plain!At,
      Plain!Bounded, Plain!Cardinality, Plain!Repository!AttemptsOf,
      Plain!Repository!BeginProviderAttempt, Plain!Repository!ConversationOf,
      Plain!Repository!Maximum, Plain!Repository!Owns, Plain!Repository!Unanswered,
      Plain!Repository!TierAccepted, Plain!Repository!NoPin, Plain!Repository!Repinned,
      Plain!Repository!SyncSession, Plain!Repository!MergedSession,
      Plain!Repository!FreshSession, Plain!Repository!Cardinality, Plain!NextAttempt,
      Plain!StorageErrors, Plain!Outgrown, Plain!Fail, Plain!Return, Plain!Returned,
      Plain!NoRequest, Plain!storeVars, Plain!selectorVars
<1>7. ASSUME Waiting!Call(r) PROVE Plain!Call(r)
  BY <1>7
  DEF
      Waiting!Call, Waiting!At, Waiting!storeVars, Waiting!selectorVars, Plain!Call,
      Plain!At, Plain!storeVars, Plain!selectorVars
<1>8. ASSUME Waiting!FailAttempt(r) PROVE Plain!FailAttempt(r)
  BY <1>8
  DEF
      Waiting!FailAttempt, Waiting!At, Waiting!Repository!FailProviderAttempt,
      Waiting!Repository!Owns, Waiting!Repository!ConversationOf,
      Waiting!Repository!AttemptsOf, Waiting!Repository!Finished, Waiting!Current,
      Waiting!Fail, Waiting!Return, Waiting!Returned, Waiting!NoRequest,
      Waiting!StorageErrors, Waiting!Joined, Waiting!storeVars, Waiting!selectorVars,
      Plain!FailAttempt, Plain!At, Plain!Repository!FailProviderAttempt,
      Plain!Repository!Owns, Plain!Repository!ConversationOf, Plain!Repository!AttemptsOf,
      Plain!Repository!Finished, Plain!Current, Plain!Fail, Plain!Return, Plain!Returned,
      Plain!NoRequest, Plain!StorageErrors, Plain!Joined, Plain!storeVars,
      Plain!selectorVars
<1>9. ASSUME Waiting!CommitResult(r) PROVE Plain!CommitResult(r)
  BY <1>9
  DEF
      Waiting!CommitResult, Waiting!At, Waiting!Repository!AttemptsOf,
      Waiting!Repository!CommitConversationResult, Waiting!Repository!ConversationOf,
      Waiting!Repository!Maximum, Waiting!Repository!Owns, Waiting!Repository!Unanswered,
      Waiting!Repository!LatestStarted, Waiting!Repository!NoPin,
      Waiting!Repository!TierAccepted, Waiting!Repository!Repinned,
      Waiting!Repository!SyncSession, Waiting!Repository!MergedSession,
      Waiting!Repository!FreshSession, Waiting!Repository!Finished, Waiting!Goto,
      Waiting!StorageErrors, Waiting!Outgrown, Waiting!Fail, Waiting!Return,
      Waiting!Returned, Waiting!NoRequest, Waiting!storeVars, Waiting!selectorVars,
      Plain!CommitResult, Plain!At, Plain!Repository!AttemptsOf,
      Plain!Repository!CommitConversationResult, Plain!Repository!ConversationOf,
      Plain!Repository!Maximum, Plain!Repository!Owns, Plain!Repository!Unanswered,
      Plain!Repository!LatestStarted, Plain!Repository!NoPin,
      Plain!Repository!TierAccepted, Plain!Repository!Repinned,
      Plain!Repository!SyncSession, Plain!Repository!MergedSession,
      Plain!Repository!FreshSession, Plain!Repository!Finished, Plain!Goto,
      Plain!StorageErrors, Plain!Outgrown, Plain!Fail, Plain!Return, Plain!Returned,
      Plain!NoRequest, Plain!storeVars, Plain!selectorVars
<1>10. ASSUME Waiting!RecordSavings(r) PROVE Plain!RecordSavings(r)
  BY <1>10
  DEF
      Waiting!RecordSavings, Waiting!At, Waiting!Repository!RecordAttemptSavings,
      Waiting!Repository!Owns, Waiting!Repository!ConversationOf,
      Waiting!Repository!AttemptsOf, Waiting!Current, Waiting!StorageErrors,
      Waiting!storeVars, Waiting!Goto, Waiting!selectorVars, Plain!RecordSavings,
      Plain!At, Plain!Repository!RecordAttemptSavings, Plain!Repository!Owns,
      Plain!Repository!ConversationOf, Plain!Repository!AttemptsOf, Plain!Current,
      Plain!StorageErrors, Plain!storeVars, Plain!Goto, Plain!selectorVars
<1>11. ASSUME Waiting!Answer(r) PROVE Plain!Answer(r)
  BY <1>11
  DEF
      Waiting!Answer, Waiting!At, Waiting!ReportSuccess, Waiting!Selector!ReportSuccess,
      Waiting!selectorVars, Waiting!Returned, Waiting!NoRequest, Waiting!storeVars,
      Plain!Answer, Plain!At, Plain!ReportSuccess, Plain!Selector!ReportSuccess,
      Plain!selectorVars, Plain!Returned, Plain!NoRequest, Plain!storeVars
<1>12. ASSUME Waiting!Report(r) PROVE Plain!Report(r)
  BY <1>12
  DEF
      Waiting!Report, Waiting!At, Waiting!ReportFailure, Waiting!FailureClass,
      Waiting!selectorVars, Waiting!Selector!ReportFailure, Waiting!Selector!CooledDown,
      Waiting!Selector!CooldownFor, Waiting!Selector!NoBinding, Waiting!Return,
      Waiting!Returned, Waiting!NoRequest, Waiting!storeVars, Plain!Report, Plain!At,
      Plain!ReportFailure, Plain!FailureClass, Plain!selectorVars,
      Plain!Selector!ReportFailure, Plain!Selector!CooledDown, Plain!Selector!CooldownFor,
      Plain!Selector!NoBinding, Plain!Return, Plain!Returned, Plain!NoRequest,
      Plain!storeVars
<1> QED BY <1>1, <1>2, <1>3, <1>4, <1>5, <1>6, <1>7, <1>8, <1>9, <1>10, <1>11, <1>12
        DEF Waiting!Step, Plain!Step

LEMMA PlainSteps ==
    /\ Waiting!Init => Plain!Init
    /\ Waiting!Arrive => Plain!Arrive
    /\ \A r \in Responses : Waiting!Step(r) => Plain!Step(r)
    /\ \A r \in Responses : Waiting!HangUp(r) => Plain!HangUp(r)
<1>1. ASSUME Waiting!Init PROVE Plain!Init
  BY <1>1
  DEF
      Waiting!Init, Waiting!Repository!Init, Waiting!Repository!NoConversation,
      Waiting!Repository!NoPin, Waiting!Repository!SessionIDs,
      Waiting!Repository!NoSession, Waiting!Repository!NoResponse,
      Waiting!Repository!NoAttempt, Waiting!Selector!Init, Waiting!Selector!Sortings,
      Waiting!Selector!Cardinality, Waiting!Selector!Before, Waiting!Selector!NoBinding,
      Waiting!Selector!Refused, Waiting!Selector!NoTally, Waiting!NoRequest, Plain!Init,
      Plain!Repository!Init, Plain!Repository!NoConversation, Plain!Repository!NoPin,
      Plain!Repository!SessionIDs, Plain!Repository!NoSession,
      Plain!Repository!NoResponse, Plain!Repository!NoAttempt, Plain!Selector!Init,
      Plain!Selector!Sortings, Plain!Selector!Cardinality, Plain!Selector!Before,
      Plain!Selector!NoBinding, Plain!Selector!Refused, Plain!Selector!NoTally,
      Plain!NoRequest
<1>2. ASSUME Waiting!Arrive PROVE Plain!Arrive
  BY <1>2
  DEF
      Waiting!Arrive, Waiting!Start, Waiting!At, Waiting!StartTurn,
      Waiting!Repository!CreateTurn, Waiting!Repository!InsertResponse,
      Waiting!Repository!NoSession, Waiting!Repository!NoPin,
      Waiting!Repository!SeededSession, Waiting!Repository!IdleAt,
      Waiting!Repository!FreshSession, Waiting!Repository!Maximum,
      Waiting!Repository!ContinueTurn, Waiting!Repository!Owns,
      Waiting!Repository!ConversationOf, Waiting!NoRequest, Waiting!selectorVars,
      Plain!Arrive, Plain!Start, Plain!At, Plain!StartTurn, Plain!Repository!CreateTurn,
      Plain!Repository!InsertResponse, Plain!Repository!NoSession, Plain!Repository!NoPin,
      Plain!Repository!SeededSession, Plain!Repository!IdleAt,
      Plain!Repository!FreshSession, Plain!Repository!Maximum,
      Plain!Repository!ContinueTurn, Plain!Repository!Owns,
      Plain!Repository!ConversationOf, Plain!NoRequest, Plain!selectorVars
<1>3. \A r \in Responses : Waiting!Step(r) => Plain!Step(r)
  BY PlainStep
<1>4. ASSUME NEW r \in Responses, Waiting!HangUp(r) PROVE Plain!HangUp(r)
  BY <1>4
  DEF
      Waiting!HangUp, Waiting!Running, Waiting!storeVars, Waiting!selectorVars,
      Plain!HangUp, Plain!Running, Plain!storeVars, Plain!selectorVars
<1> QED BY <1>1, <1>2, <1>3, <1>4

(* And they speak of the same store, selector and rows. *)
LEMMA SharedByPlain ==
    /\ StoreInv => Plain!StoreInv
    /\ SelectorInv => Plain!SelectorInv
    /\ OwnRows => Plain!OwnRows
    /\ [Plain!Repository!Next]_(Plain!Repository!vars) => [Repository!Next]_(Repository!vars)
    /\ Plain!SelectorInv' => SelectorInv'
    /\ Plain!SelectorStep => SelectorStep
    /\ \A r \in Responses : Plain!OthersUntouched(r) => OthersUntouched(r)
    /\ \A r \in Responses : Untouched(r) => Plain!Untouched(r)
    /\ \A r \in Responses, n \in Nat : Numbered(r, n) <=> Plain!Numbered(r, n)
<1>1. ASSUME StoreInv PROVE Plain!StoreInv
  BY <1>1
  DEF
      StoreInv, Store!WellFormed, Store!TypeOK, Store!ConversationRow, Store!Pins,
      Store!Tiers, Store!NoPin, Store!SessionIDs, Store!SessionRow, Store!ResponseRow,
      Store!AttemptRow, Store!References, Store!ConversationOf, Store!RoutingInv,
      Store!Clock, Store!Succeeded, Store!Activity, Store!Bound, Store!ActiveSince,
      Store!AnsweredIn, Store!PinWithinFloor, Store!AnswersWithinPin,
      Store!SessionCoversConversations, Store!SessionCoversAnswers, Store!UsageNeedsPin,
      Plain!StoreInv, Plain!Store!WellFormed, Plain!Store!TypeOK,
      Plain!Store!ConversationRow, Plain!Store!Pins, Plain!Store!Tiers, Plain!Store!NoPin,
      Plain!Store!SessionIDs, Plain!Store!SessionRow, Plain!Store!ResponseRow,
      Plain!Store!AttemptRow, Plain!Store!References, Plain!Store!ConversationOf,
      Plain!Store!RoutingInv, Plain!Store!Clock, Plain!Store!Succeeded,
      Plain!Store!Activity, Plain!Store!Bound, Plain!Store!ActiveSince,
      Plain!Store!AnsweredIn, Plain!Store!PinWithinFloor, Plain!Store!AnswersWithinPin,
      Plain!Store!SessionCoversConversations, Plain!Store!SessionCoversAnswers,
      Plain!Store!UsageNeedsPin
<1>2. ASSUME SelectorInv PROVE Plain!SelectorInv
  BY <1>2
  DEF
      SelectorInv, Accounting!ConductorInv, Accounting!TypeOK, Accounting!Sortings,
      Accounting!Cardinality, Accounting!Before, Accounting!NoBinding, Accounting!Granted,
      Accounting!Refused, Accounting!Account, Accounting!Rested, Accounting!Rests,
      Plain!SelectorInv, Plain!Accounting!ConductorInv, Plain!Accounting!TypeOK,
      Plain!Accounting!Sortings, Plain!Accounting!Cardinality, Plain!Accounting!Before,
      Plain!Accounting!NoBinding, Plain!Accounting!Granted, Plain!Accounting!Refused,
      Plain!Accounting!Account, Plain!Accounting!Rested, Plain!Accounting!Rests
<1>3. ASSUME [Plain!Repository!Next]_(Plain!Repository!vars)
      PROVE  [Repository!Next]_(Repository!vars)
  BY <1>3
  DEF
      Repository!Next, Repository!Turn, Repository!RecentTimes, Repository!CreateTurn,
      Repository!InsertResponse, Repository!NoSession, Repository!NoPin,
      Repository!SeededSession, Repository!IdleAt, Repository!FreshSession,
      Repository!Maximum, Repository!ContinueTurn, Repository!Owns,
      Repository!ConversationOf, Repository!Attempt, Repository!Tiers,
      Repository!BeginProviderAttempt, Repository!Unanswered, Repository!TierAccepted,
      Repository!Repinned, Repository!SyncSession, Repository!MergedSession,
      Repository!Cardinality, Repository!AttemptsOf, Repository!CommitConversationResult,
      Repository!LatestStarted, Repository!Finished, Repository!FailProviderAttempt,
      Repository!RecordAttemptSavings, Repository!RaiseConversationFloor,
      Repository!NextTier, Repository!DeleteExpiredSessions, Repository!SessionIDs,
      Repository!Tick, Repository!vars, Plain!Repository!Next, Plain!Repository!Turn,
      Plain!Repository!RecentTimes, Plain!Repository!CreateTurn,
      Plain!Repository!InsertResponse, Plain!Repository!NoSession, Plain!Repository!NoPin,
      Plain!Repository!SeededSession, Plain!Repository!IdleAt,
      Plain!Repository!FreshSession, Plain!Repository!Maximum,
      Plain!Repository!ContinueTurn, Plain!Repository!Owns,
      Plain!Repository!ConversationOf, Plain!Repository!Attempt, Plain!Repository!Tiers,
      Plain!Repository!BeginProviderAttempt, Plain!Repository!Unanswered,
      Plain!Repository!TierAccepted, Plain!Repository!Repinned,
      Plain!Repository!SyncSession, Plain!Repository!MergedSession,
      Plain!Repository!Cardinality, Plain!Repository!AttemptsOf,
      Plain!Repository!CommitConversationResult, Plain!Repository!LatestStarted,
      Plain!Repository!Finished, Plain!Repository!FailProviderAttempt,
      Plain!Repository!RecordAttemptSavings, Plain!Repository!RaiseConversationFloor,
      Plain!Repository!NextTier, Plain!Repository!DeleteExpiredSessions,
      Plain!Repository!SessionIDs, Plain!Repository!Tick, Plain!Repository!vars
<1>4. ASSUME Plain!SelectorInv' PROVE SelectorInv'
  BY <1>4, ZenonT(60)
  DEF
      SelectorInv, Accounting!ConductorInv, Accounting!TypeOK, Accounting!Sortings,
      Accounting!Cardinality, Accounting!Before, Accounting!NoBinding, Accounting!Granted,
      Accounting!Refused, Accounting!Account, Accounting!Rested, Accounting!Rests,
      Plain!SelectorInv, Plain!Accounting!ConductorInv, Plain!Accounting!TypeOK,
      Plain!Accounting!Sortings, Plain!Accounting!Cardinality, Plain!Accounting!Before,
      Plain!Accounting!NoBinding, Plain!Accounting!Granted, Plain!Accounting!Refused,
      Plain!Accounting!Account, Plain!Accounting!Rested, Plain!Accounting!Rests
<1>5. ASSUME Plain!SelectorStep PROVE SelectorStep
  BY <1>5, ZenonT(60)
  DEF
      SelectorStep, Accounting!Call, Accounting!SelectRequest, Accounting!HasEligible,
      Accounting!Unexpired, Accounting!Alive, Accounting!NoBinding, Accounting!Thaw,
      Accounting!Exhausted, Accounting!Cardinality, Accounting!Addressed,
      Accounting!Returns, Accounting!Refuse, Accounting!Eligible, Accounting!Admits,
      Accounting!Qualified, Accounting!RetryLimit, Accounting!Refused, Accounting!Cooling,
      Accounting!Stick, Accounting!Sticky, Accounting!Inherits, Accounting!Holds,
      Accounting!Granted, Accounting!Bound, Accounting!Rotate, Accounting!First,
      Accounting!RoundRobin, Accounting!Ahead, Accounting!Count, Accounting!NoTally,
      Accounting!Share, Accounting!Weighted, Accounting!MapThenSumSet,
      Accounting!MapThenFoldSet, Accounting!WeightUpTo, Accounting!ReportSuccess,
      Accounting!ReportFailure, Accounting!CooledDown, Accounting!CooldownFor,
      Accounting!ResetCooldown, Accounting!ReplaceAccounts, Accounting!Sortings,
      Accounting!Before, Accounting!Tick, selectorVars, Plain!SelectorStep,
      Plain!Accounting!Call, Plain!Accounting!SelectRequest, Plain!Accounting!HasEligible,
      Plain!Accounting!Unexpired, Plain!Accounting!Alive, Plain!Accounting!NoBinding,
      Plain!Accounting!Thaw, Plain!Accounting!Exhausted, Plain!Accounting!Cardinality,
      Plain!Accounting!Addressed, Plain!Accounting!Returns, Plain!Accounting!Refuse,
      Plain!Accounting!Eligible, Plain!Accounting!Admits, Plain!Accounting!Qualified,
      Plain!Accounting!RetryLimit, Plain!Accounting!Refused, Plain!Accounting!Cooling,
      Plain!Accounting!Stick, Plain!Accounting!Sticky, Plain!Accounting!Inherits,
      Plain!Accounting!Holds, Plain!Accounting!Granted, Plain!Accounting!Bound,
      Plain!Accounting!Rotate, Plain!Accounting!First, Plain!Accounting!RoundRobin,
      Plain!Accounting!Ahead, Plain!Accounting!Count, Plain!Accounting!NoTally,
      Plain!Accounting!Share, Plain!Accounting!Weighted, Plain!Accounting!MapThenSumSet,
      Plain!Accounting!MapThenFoldSet, Plain!Accounting!WeightUpTo,
      Plain!Accounting!ReportSuccess, Plain!Accounting!ReportFailure,
      Plain!Accounting!CooledDown, Plain!Accounting!CooldownFor,
      Plain!Accounting!ResetCooldown, Plain!Accounting!ReplaceAccounts,
      Plain!Accounting!Sortings, Plain!Accounting!Before, Plain!Accounting!Tick,
      Plain!selectorVars
<1>6. /\ OwnRows => Plain!OwnRows
      /\ \A r \in Responses : Plain!OthersUntouched(r) => OthersUntouched(r)
      /\ \A r \in Responses : Untouched(r) => Plain!Untouched(r)
      /\ \A r \in Responses, n \in Nat : Numbered(r, n) <=> Plain!Numbered(r, n)
  BY DEF OwnRows, Plain!OwnRows, OthersUntouched, Plain!OthersUntouched,
         Untouched, Plain!Untouched, Numbered, Plain!Numbered
<1> QED BY <1>1, <1>2, <1>3, <1>4, <1>5, <1>6

-----------------------------------------------------------------------------
(* Every request is served by one of the two kinds, and what that kind's    *)
(* theory says of it holds.                                                 *)
Streamed(r) == Held(r, stream[r]) /\ request[r] = Plain!NoRequest
Called(r) == Plain!Held(r, request[r]) /\ stream[r] = NoStream

GatewayInv ==
    /\ StoreInv /\ SelectorInv
    /\ stream \in [Responses -> Goroutine]
    /\ request \in [Responses -> Plain!Goroutine]
    /\ \A r \in Responses : Streamed(r) \/ Called(r)

LEMMA EveryRow ==
    ASSUME GatewayInv, NEW r \in Responses
    PROVE  \E n \in 0 .. MaxAttempts : Numbered(r, n)
<1>1. CASE Streamed(r)
  <2>1. stream[r].attempt \in 0 .. MaxAttempts
    BY DEF GatewayInv, Goroutine
  <2>2. Numbered(r, stream[r].attempt)
    BY <1>1 DEF Streamed, Held
  <2> QED BY <2>1, <2>2, Assumed
<1>2. CASE Called(r)
  <2>1. request[r].attempt \in 0 .. MaxAttempts
    BY DEF GatewayInv, Plain!Goroutine
  <2>2. Plain!Numbered(r, request[r].attempt)
    BY <1>2 DEF Called, Plain!Held
  <2> QED BY <2>1, <2>2, Assumed, SharedByPlain
<1> QED BY <1>1, <1>2 DEF GatewayInv

LEMMA Own == GatewayInv => OwnRows
<1> SUFFICES ASSUME GatewayInv, NEW r \in Responses, NEW k \in 1 .. MaxAttempts,
                    attempts[<<r, k>>].status # "absent"
             PROVE  attempts[<<r, k>>].response = r
  BY DEF OwnRows
<1>1. PICK n \in 0 .. MaxAttempts : Numbered(r, n)
  BY EveryRow
<1> QED BY <1>1 DEF Numbered

LEMMA HereOf ==
    ASSUME GatewayInv, NEW r \in Responses
    PROVE  /\ Streamed(r) => Here(r)
           /\ Called(r) => Plain!Here(r)
<1>1. OwnRows
  BY Own
<1>2. Plain!StoreInv /\ Plain!SelectorInv /\ Plain!OwnRows
  BY <1>1, SharedByPlain DEF GatewayInv
<1> QED BY <1>1, <1>2 DEF GatewayInv, Streamed, Called, Here, Plain!Here

(* A request that neither kind has begun may be begun by either. *)
LEMMA IdleBoth ==
    ASSUME GatewayInv, NEW r \in Responses, responses[r].status = "absent"
    PROVE  Streamed(r) /\ Called(r)
<1>1. CASE Streamed(r)
  <2>1. stream[r] = NoStream
    BY <1>1 DEF Streamed, Held, Progress
  <2>2. Numbered(r, 0)
    BY <1>1, <2>1 DEF Streamed, Held, NoStream
  <2>3. Plain!Numbered(r, 0)
    BY <2>2, SharedByPlain
  <2>4. Plain!Held(r, Plain!NoRequest)
    BY <2>3, PlainAssumed, Plain!IdleHeld
  <2> QED BY <1>1, <2>1, <2>4 DEF Streamed, Called
<1>2. CASE Called(r)
  <2>1. request[r] = Plain!NoRequest
    BY <1>2 DEF Called, Plain!Held, Plain!Progress
  <2>2. Plain!Numbered(r, 0)
    BY <1>2, <2>1 DEF Called, Plain!Held, Plain!NoRequest
  <2>3. Numbered(r, 0)
    BY <2>2, SharedByPlain
  <2>4. Held(r, NoStream)
    BY <2>3, IdleHeld
  <2> QED BY <1>2, <2>1, <2>4 DEF Streamed, Called
<1> QED BY <1>1, <1>2 DEF GatewayInv

-----------------------------------------------------------------------------
(* A step of r, whichever kind serves it *)

StreamMoves(r) == Streamed(r) /\ Stepped(r) /\ UNCHANGED request
CallMoves(r) ==
    /\ Called(r) /\ Plain!Stepped(r) /\ UNCHANGED stream
    /\ Plain!OneModel(r, request[r]) => Plain!OneModel(r, request[r])'

LEMMA StreamMoved ==
    ASSUME GatewayInv, NEW r \in Responses, Step(r) \/ HangUp(r), UNCHANGED request
    PROVE  StreamMoves(r) /\ SelectorStep
<1>1. stream[r] # NoStream
  <2>1. stream[r].pc # "idle"
    BY DEF Step, HangUp, At, Running, Decide,
           SelectAccount, WaitCooldown, NoCandidate, Unusable,
           BeginAttempt, Drain, CommitResult, RecordSavings,
           Complete, Report, Abandon, Settle, RaiseFloor,
           TerminalError, RetryAccount, RetryModel
  <2> QED BY <2>1 DEF NoStream
<1>2. Streamed(r) /\ Here(r)
  BY <1>1, HereOf DEF GatewayInv, Called
<1>3. Stepped(r)
  BY <1>2, StepLemma
<1>4. SelectorStep
  BY <1>2, CallOf
<1> QED BY <1>2, <1>3, <1>4 DEF StreamMoves

LEMMA CallMoved ==
    ASSUME GatewayInv, NEW r \in Responses, Plain!Step(r) \/ Plain!HangUp(r), UNCHANGED stream
    PROVE  CallMoves(r) /\ SelectorStep
<1>1. request[r] # Plain!NoRequest
  <2>1. request[r].pc # "idle"
    BY DEF Plain!Step, Plain!HangUp, Plain!At, Plain!Running, Plain!Decide,
           Plain!SelectAccount, Plain!NoMoreRounds, Plain!WaitCooldown, Plain!Unusable,
           Plain!BeginAttempt, Plain!Call, Plain!FailAttempt, Plain!CommitResult,
           Plain!RecordSavings, Plain!Answer, Plain!Report
  <2> QED BY <2>1 DEF Plain!NoRequest
<1>2. Called(r) /\ Plain!Here(r)
  BY <1>1, HereOf DEF GatewayInv, Streamed
<1>3. Plain!Stepped(r)
  BY <1>2, PlainAssumed, Plain!StepLemma
<1>4. SelectorStep
  BY <1>2, PlainAssumed, Plain!CallOf, SharedByPlain
<1>5. Plain!OneModel(r, request[r]) => Plain!OneModel(r, request[r])'
  BY <1>2, PlainAssumed, Plain!OneModelStep
<1> QED BY <1>2, <1>3, <1>4, <1>5 DEF CallMoves

LEMMA Arrives ==
    ASSUME GatewayInv
    PROVE  /\ Arrive /\ UNCHANGED request =>
                 (\E r \in Responses : StreamMoves(r)) /\ SelectorStep
           /\ Plain!Arrive /\ UNCHANGED stream =>
                 (\E r \in Responses : CallMoves(r)) /\ SelectorStep
<1>1. ASSUME NEW r \in Responses, NEW client \in Clients, NEW session \in Sessions \cup {None},
             NEW named \in Asks, NEW control \in Controls,
             Start(r, client, session, named, control), UNCHANGED request
      PROVE  StreamMoves(r) /\ SelectorStep
  <2>1. responses[r].status = "absent"
    BY <1>1 DEF Start, StartTurn, Repository!CreateTurn,
                Repository!ContinueTurn, Repository!InsertResponse
  <2>2. Streamed(r) /\ Here(r)
    BY <2>1, IdleBoth, HereOf
  <2>3. Stepped(r)
    BY <1>1, <2>2, StartStep
  <2>4. SelectorStep
    BY <1>1 DEF Start, SelectorStep
  <2> QED BY <1>1, <2>2, <2>3, <2>4 DEF StreamMoves
<1>2. ASSUME NEW r \in Responses, NEW client \in Clients, NEW session \in Sessions \cup {None},
             NEW named \in Asks, Plain!Start(r, client, session, named), UNCHANGED stream
      PROVE  CallMoves(r) /\ SelectorStep
  <2>1. responses[r].status = "absent"
    BY <1>2 DEF Plain!Start, Plain!StartTurn, Plain!Repository!CreateTurn,
                Plain!Repository!ContinueTurn, Plain!Repository!InsertResponse
  <2>2. Called(r) /\ Plain!Here(r)
    BY <2>1, IdleBoth, HereOf
  <2>3. Plain!Stepped(r)
    BY <1>2, <2>2, PlainAssumed, Plain!StartStep
  <2>4. SelectorStep
    BY <1>2 DEF Plain!Start, Plain!selectorVars, SelectorStep, selectorVars
  <2>5. Plain!OneModel(r, request[r])'
    BY <1>2, <2>2, PlainAssumed, Plain!OneModelStart
  <2> QED BY <1>2, <2>2, <2>3, <2>4, <2>5 DEF CallMoves
<1> QED BY <1>1, <1>2 DEF Arrive, Plain!Arrive

(* Every step is a stutter of the goroutines and the store, or the step of  *)
(* one request; and the selector changes by its operations alone.           *)
LEMMA GatewaySteps ==
    ASSUME GatewayInv, [GatewayNext]_gatewayVars
    PROVE  /\ \/ UNCHANGED <<stream, request, storeVars>> /\ SelectorInv'
              \/ \E r \in Responses : StreamMoves(r) \/ CallMoves(r)
           /\ SelectorStep
<1>1. CASE UNCHANGED gatewayVars
  BY <1>1, StandStill DEF gatewayVars, GatewayInv, SelectorStep
<1>2. CASE (Reload \/ Tick) /\ UNCHANGED <<stream, request, storeVars>>
  BY <1>2, ReloadOrTickStep, ReloadOrTickCall DEF GatewayInv
<1>3. CASE Arrive /\ UNCHANGED request
  BY <1>3, Arrives
<1>4. CASE Waiting!Arrive /\ UNCHANGED stream
  BY <1>4, PlainSteps, Arrives
<1>5. ASSUME NEW r \in Responses, Step(r) \/ HangUp(r), UNCHANGED request
      PROVE  StreamMoves(r) /\ SelectorStep
  BY <1>5, StreamMoved
<1>6. ASSUME NEW r \in Responses, Waiting!Step(r) \/ Waiting!HangUp(r), UNCHANGED stream
      PROVE  CallMoves(r) /\ SelectorStep
  BY <1>6, PlainSteps, CallMoved
<1> QED BY <1>1, <1>2, <1>3, <1>4, <1>5, <1>6 DEF GatewayNext

-----------------------------------------------------------------------------
(* The invariant *)

LEMMA MoveKeeps ==
    ASSUME GatewayInv, NEW r \in Responses, StreamMoves(r) \/ CallMoves(r)
    PROVE  /\ [Repository!Next]_(Repository!vars) /\ SelectorInv' /\ OthersUntouched(r)
           /\ StoreInv' /\ Store!ConversationsRise
           /\ stream' \in [Responses -> Goroutine]
           /\ request' \in [Responses -> Plain!Goroutine]
           /\ \A q \in Responses \ {r} : stream'[q] = stream[q] /\ request'[q] = request[q]
<1>1. [Repository!Next]_(Repository!vars) /\ SelectorInv' /\ OthersUntouched(r)
  <2>1. CASE StreamMoves(r)
    BY <2>1 DEF StreamMoves, Stepped
  <2>2. CASE CallMoves(r)
    BY <2>2, SharedByPlain DEF CallMoves, Plain!Stepped
  <2> QED BY <2>1, <2>2
<1>2. StoreInv' /\ Store!ConversationsRise
  BY <1>1, StoreStep DEF GatewayInv
<1>3. \/ request' = request /\ \E row \in Goroutine : stream' = [stream EXCEPT ![r] = row]
      \/ stream' = stream /\ \E row \in Plain!Goroutine : request' = [request EXCEPT ![r] = row]
  BY DEF StreamMoves, Stepped, CallMoves, Plain!Stepped
<1>4. stream \in [Responses -> Goroutine] /\ request \in [Responses -> Plain!Goroutine]
  BY DEF GatewayInv
<1> QED BY <1>1, <1>2, <1>3, <1>4

LEMMA MoverKept ==
    ASSUME GatewayInv, NEW r \in Responses
    PROVE  /\ StreamMoves(r) => Streamed(r)'
           /\ CallMoves(r) => Called(r)'
<1>1. ASSUME StreamMoves(r) PROVE Streamed(r)'
  <2>1. PICK row \in Goroutine : stream' = [stream EXCEPT ![r] = row] /\ Held(r, row)'
    BY <1>1 DEF StreamMoves, Stepped
  <2>2. stream'[r] = row
    BY <2>1 DEF GatewayInv
  <2>3. Held(r, stream[r])'
    BY <2>1, <2>2
  <2>4. (request[r] = Plain!NoRequest)'
    BY <1>1 DEF StreamMoves, Streamed
  <2> QED BY <2>3, <2>4 DEF Streamed
<1>2. ASSUME CallMoves(r) PROVE Called(r)'
  <2>1. PICK row \in Plain!Goroutine : request' = [request EXCEPT ![r] = row] /\ Plain!Held(r, row)'
    BY <1>2 DEF CallMoves, Plain!Stepped
  <2>2. request'[r] = row
    BY <2>1 DEF GatewayInv
  <2>3. Plain!Held(r, request[r])'
    BY <2>1, <2>2
  <2>4. (stream[r] = NoStream)'
    BY <1>2 DEF CallMoves, Called
  <2> QED BY <2>3, <2>4 DEF Called
<1> QED BY <1>1, <1>2

LEMMA OthersKept ==
    ASSUME GatewayInv, NEW r \in Responses, StreamMoves(r) \/ CallMoves(r),
           NEW q \in Responses \ {r}
    PROVE  (Streamed(q) \/ Called(q))'
<1>1. /\ Untouched(q) /\ StoreInv' /\ Store!ConversationsRise
      /\ stream'[q] = stream[q] /\ request'[q] = request[q]
  BY MoveKeeps DEF OthersUntouched
<1>2. CASE Streamed(q)
  <2>1. /\ Untouched(q) /\ StoreInv' /\ Store!ConversationsRise
        /\ Here(q)
    BY <1>1, <1>2, HereOf
  <2>2. Held(q, stream[q])'
    BY <1>1, <2>1, OthersHeld
  <2>3. (request[q] = Plain!NoRequest)'
    BY <1>1, <1>2 DEF Streamed
  <2> QED BY <2>2, <2>3 DEF Streamed
<1>3. CASE Called(q)
  <2>1. Plain!Untouched(q) /\ Plain!Here(q)
    BY <1>1, <1>3, SharedByPlain, HereOf
  <2>2. Plain!Held(q, request[q])'
    BY <1>1, <2>1, PlainAssumed, Plain!OthersHeld
  <2>3. (stream[q] = NoStream)'
    BY <1>1, <1>3 DEF Called
  <2> QED BY <2>2, <2>3 DEF Called
<1> QED BY <1>2, <1>3 DEF GatewayInv

LEMMA IdleKept ==
    ASSUME GatewayInv, UNCHANGED <<stream, request, storeVars>>, SelectorInv'
    PROVE  GatewayInv'
<1>1. StoreInv'
  BY StoreStep DEF storeVars, Repository!vars, GatewayInv
<1>2. ASSUME NEW r \in Responses, Streamed(r) PROVE Streamed(r)'
  BY <1>2, SMTT(30)
  DEF Streamed, storeVars, Held, Numbered, Progress, Settled,
      Told, Decided, FirstModel, Allows, Raised
<1>3. ASSUME NEW r \in Responses, Called(r) PROVE Called(r)'
  BY <1>3
  DEF Called, storeVars, Plain!Held, Plain!Numbered, Plain!Progress, Plain!Equipped,
      Plain!Rationed, Plain!Called
<1>4. \A r \in Responses : (Streamed(r) \/ Called(r))'
  BY <1>2, <1>3 DEF GatewayInv
<1> QED BY <1>1, <1>4 DEF GatewayInv

LEMMA GatewayInvStep == GatewayInv /\ [GatewayNext]_gatewayVars => GatewayInv'
<1> SUFFICES ASSUME GatewayInv, [GatewayNext]_gatewayVars PROVE GatewayInv'
  OBVIOUS
<1>1. CASE UNCHANGED <<stream, request, storeVars>> /\ SelectorInv'
  BY <1>1, IdleKept
<1>2. ASSUME NEW r \in Responses, StreamMoves(r) \/ CallMoves(r) PROVE GatewayInv'
  <2>1. (Streamed(r) \/ Called(r))'
    BY <1>2, MoverKept
  <2>2. \A q \in Responses : (Streamed(q) \/ Called(q))'
    BY <1>2, <2>1, OthersKept
  <2> QED BY <1>2, <2>2, MoveKeeps DEF GatewayInv
<1> QED BY <1>1, <1>2, GatewaySteps

LEMMA GatewayInvInit == GatewayInit => GatewayInv
<1> SUFFICES ASSUME GatewayInit PROVE GatewayInv
  OBVIOUS
<1>1. Repository!Init /\ Selector!Init
  BY DEF GatewayInit, Init
<1>2. StoreInv /\ SelectorInv /\ \A r \in Responses : Numbered(r, 0)
  BY <1>1, StoreInit, SelectorInit, NoneNumbered
<1>3. /\ stream \in [Responses -> Goroutine]
      /\ \A r \in Responses : stream[r] = NoStream
  BY NoStreamType DEF GatewayInit, Init
<1>4. /\ request \in [Responses -> Plain!Goroutine]
      /\ \A r \in Responses : request[r] = Plain!NoRequest
  BY PlainSteps, PlainAssumed, Plain!NoRequestRow DEF GatewayInit, Plain!Init
<1>5. ASSUME NEW r \in Responses PROVE Streamed(r)
  <2>1. Held(r, NoStream)
    BY <1>2, IdleHeld
  <2> QED BY <1>3, <1>4, <2>1 DEF Streamed
<1> QED BY <1>2, <1>3, <1>4, <1>5 DEF GatewayInv

(* The invariant of both kinds holds of every behaviour of the gateway.     *)
THEOREM GatewayInvariant == GatewaySpec => []GatewayInv
<1> QED BY GatewayInvInit, GatewayInvStep, PTL DEF GatewaySpec

-----------------------------------------------------------------------------
(* Streams and requests, promise by promise *)

(* Both keep the types of their goroutines and of what they share.          *)
THEOREM GatewayTypes == GatewaySpec => [](TypeOK /\ Waiting!TypeOK)
<1>1. GatewayInv => TypeOK
  BY Rows, SelectorTypes DEF GatewayInv, TypeOK
<1>2. GatewayInv => Plain!TypeOK
  BY PlainAssumed, SharedByPlain, Plain!Rows, Plain!SelectorTypes DEF GatewayInv, Plain!TypeOK
<1>3. Plain!TypeOK => Waiting!TypeOK
  BY
  DEF
      Plain!TypeOK, Plain!Repository!TypeOK, Plain!Repository!ConversationRow,
      Plain!Repository!Pins, Plain!Repository!Tiers, Plain!Repository!NoPin,
      Plain!Repository!SessionIDs, Plain!Repository!SessionRow,
      Plain!Repository!ResponseRow, Plain!Repository!AttemptRow, Plain!Selector!TypeOK,
      Plain!Selector!Sortings, Plain!Selector!Cardinality, Plain!Selector!Before,
      Plain!Selector!NoBinding, Plain!Selector!Granted, Plain!Selector!Refused,
      Plain!Selector!Account, Plain!Goroutine, Plain!Running, Plain!Errors,
      Waiting!TypeOK, Waiting!Repository!TypeOK, Waiting!Repository!ConversationRow,
      Waiting!Repository!Pins, Waiting!Repository!Tiers, Waiting!Repository!NoPin,
      Waiting!Repository!SessionIDs, Waiting!Repository!SessionRow,
      Waiting!Repository!ResponseRow, Waiting!Repository!AttemptRow,
      Waiting!Selector!TypeOK, Waiting!Selector!Sortings, Waiting!Selector!Cardinality,
      Waiting!Selector!Before, Waiting!Selector!NoBinding, Waiting!Selector!Granted,
      Waiting!Selector!Refused, Waiting!Selector!Account, Waiting!Goroutine,
      Waiting!Running, Waiting!Errors
<1> QED BY <1>1, <1>2, <1>3, GatewayInvariant, PTL

(* What the goroutine of a request tells, for the kind that serves it.      *)
LEMMA StreamServed ==
    ASSUME GatewayInv, NEW r \in Responses, stream[r] # NoStream
    PROVE  Streamed(r) /\ stream[r] \in Goroutine
  BY DEF GatewayInv, Called

LEMMA CallServed ==
    ASSUME GatewayInv, NEW r \in Responses, request[r] # Plain!NoRequest
    PROVE  Called(r) /\ request[r] \in Plain!Goroutine
  BY DEF GatewayInv, Streamed

(* A stream reported complete is stored, whatever else writes to the store. *)
THEOREM GatewayCompletions == GatewaySpec => []CompletionIsStored
<1>1. GatewayInv => CompletionIsStored
  <2> SUFFICES ASSUME GatewayInv, NEW r \in Responses, stream[r].told = "completed"
               PROVE  /\ responses[r].status = "completed"
                      /\ attempts[<<r, stream[r].attempt>>].status = "succeeded"
    BY DEF CompletionIsStored, Stored, Current
  <2>1. stream[r] # NoStream
    BY StreamExecutorAssumption DEF NoStream
  <2> QED BY <2>1, StreamServed DEF Streamed, Held, Told
<1> QED BY <1>1, GatewayInvariant, PTL

(* A caller who has seen output learns how its stream ended. *)
THEOREM GatewayCallers == GatewaySpec => []CallerLearnsTheEnd
<1>1. GatewayInv => CallerLearnsTheEnd
  <2> SUFFICES ASSUME GatewayInv, NEW r \in Responses,
                      stream[r].pc = "ended", stream[r].emitted, ~stream[r].gone
               PROVE  stream[r].told = IF responses[r].status = "completed" THEN "completed" ELSE "error"
    BY DEF CallerLearnsTheEnd, Ended, Stored
  <2>1. Streamed(r) /\ stream[r] \in Goroutine
    BY StreamServed DEF NoStream
  <2>2. stream[r].told \in {"completed", "error"}
    BY <2>1 DEF Streamed, Held, Told, Goroutine
  <2> QED BY <2>1, <2>2 DEF Streamed, Held, Told
<1> QED BY <1>1, GatewayInvariant, PTL

LEMMA AttemptNumbers ==
    ASSUME GatewayInv, NEW r \in Responses, NEW n \in 0 .. MaxAttempts, Numbered(r, n)
    PROVE  Repository!AttemptsOf(r) = {<<r, k>> : k \in 1 .. n}
  BY Own, AttemptRows

(* When a stream is over, its attempts are settled, or a record was lost. *)
THEOREM GatewaySettles == GatewaySpec => []AttemptsSettled
<1>1. GatewayInv => AttemptsSettled
  <2> SUFFICES ASSUME GatewayInv, NEW r \in Responses, stream[r].pc = "ended", ~stream[r].lost,
                      NEW a \in Repository!AttemptsOf(r)
               PROVE  attempts[a].status # "started"
    BY DEF AttemptsSettled, Ended
  <2>1. Streamed(r) /\ stream[r] \in Goroutine
    BY StreamServed DEF NoStream
  <2>2. stream[r].attempt \in 0 .. MaxAttempts /\ Numbered(r, stream[r].attempt)
    BY <2>1, Assumed DEF Streamed, Held, Goroutine
  <2>3. PICK k \in 1 .. stream[r].attempt : a = <<r, k>>
    BY <2>2, AttemptNumbers
  <2> QED BY <2>1, <2>3 DEF Streamed, Held, Settled, InFlight
<1> QED BY <1>1, GatewayInvariant, PTL

(* A request that is not streamed keeps to one model, and one that has not  *)
(* begun, or is a stream, has made no attempt of that kind.                 *)
OneModelEach == \A r \in Responses : Plain!OneModel(r, request[r])

LEMMA NoneYet == ASSUME NEW r, request[r] = Plain!NoRequest PROVE Plain!OneModel(r, request[r])
  BY PlainAssumed DEF Plain!OneModel, Plain!NoRequest, Plain!Running

LEMMA OneModelEachStep == GatewayInv /\ GatewayInv' /\ OneModelEach /\ [GatewayNext]_gatewayVars => OneModelEach'
<1> SUFFICES ASSUME GatewayInv, GatewayInv', OneModelEach, [GatewayNext]_gatewayVars, NEW q \in Responses
             PROVE  Plain!OneModel(q, request[q])'
  BY DEF OneModelEach
<1>1. Plain!OneModel(q, request[q])
  BY DEF OneModelEach
<1>2. CASE UNCHANGED <<stream, request, storeVars>>
  BY <1>1, <1>2 DEF storeVars, Plain!OneModel
<1>3. ASSUME NEW r \in Responses, StreamMoves(r) \/ CallMoves(r)
      PROVE  Plain!OneModel(q, request[q])'
  <2>1. CASE q # r
    <3>1. Untouched(q) /\ request'[q] = request[q]
      BY <1>3, <2>1, MoveKeeps DEF OthersUntouched
    <3>2. CASE Called(q)
      BY <1>1, <3>1, <3>2, HereOf, SharedByPlain, PlainAssumed, Plain!OneModelOthers
    <3>3. CASE Streamed(q)
      BY <3>1, <3>3 DEF Streamed, Plain!OneModel, Plain!NoRequest, Plain!Running
    <3> QED BY <3>2, <3>3 DEF GatewayInv
  <2>2. CASE q = r /\ CallMoves(r)
    BY <1>1, <2>2 DEF CallMoves
  <2>3. CASE q = r /\ StreamMoves(r)
    BY <2>3 DEF StreamMoves, Streamed, Plain!OneModel, Plain!NoRequest, Plain!Running
  <2> QED BY <1>3, <2>1, <2>2, <2>3
<1> QED BY <1>2, <1>3, GatewaySteps

(* Retries stay on the model first chosen, or go where escalation allows,   *)
(* whatever the requests that are not streamed do to the conversations.     *)
THEOREM GatewayFallbacks == GatewaySpec => []FallbacksAreAllowed
<1>1. GatewayInv /\ OneModelEach => FallbacksAreAllowed
  <2> SUFFICES ASSUME GatewayInv, OneModelEach, NEW r \in Responses,
                      NEW a \in Repository!AttemptsOf(r), NEW b \in Repository!AttemptsOf(r),
                      attempts[a].seq = 0, attempts[b].model # attempts[a].model
               PROVE  /\ attempts[b].model \notin ExplicitOnly
                      /\ attempts[b].tier >= attempts[a].tier
                      /\ stream[r].allow /\ stream[r].named \notin ExplicitOnly
    BY DEF FallbacksAreAllowed
  <2>1. CASE Called(r)
    <3> DEFINE n == request[r].attempt
    <3>1. n \in 0 .. MaxAttempts /\ Numbered(r, n)
      BY <2>1, SharedByPlain, Assumed DEF Called, Plain!Held, GatewayInv, Plain!Goroutine
    <3>2. PICK i \in 1 .. n, k \in 1 .. n : a = <<r, i>> /\ b = <<r, k>>
      BY <3>1, AttemptNumbers
    <3> QED BY <3>2 DEF OneModelEach, Plain!OneModel
  <2>2. CASE Streamed(r)
    <3> DEFINE n == stream[r].attempt
    <3>1. n \in 0 .. MaxAttempts /\ Held(r, stream[r])
      BY <2>2 DEF Streamed, GatewayInv, Goroutine
    <3>2. Numbered(r, n)
      BY <3>1 DEF Held
    <3>3. PICK i \in 1 .. n, k \in 1 .. n : a = <<r, i>> /\ b = <<r, k>>
      BY <3>1, <3>2, AttemptNumbers
    <3>4. i = 1 /\ n >= 1
      BY <3>1, <3>2, <3>3, Assumed DEF Numbered
    <3>5. /\ attempts[a].tier = TierOf[attempts[a].model] /\ attempts[b].tier = TierOf[attempts[b].model]
          /\ Allows(stream[r], attempts[a].model, attempts[b].model)
      BY <3>1, <3>3, <3>4 DEF Held, Decided, FirstModel
    <3> QED BY <3>5 DEF Allows, Fallbacks
  <2> QED BY <2>1, <2>2 DEF GatewayInv
<1>2. GatewayInit => OneModelEach
  BY PlainSteps, NoneYet DEF GatewayInit, Plain!Init, OneModelEach
<1>3. GatewayInv /\ GatewayInv' /\ OneModelEach /\ [GatewayNext]_gatewayVars => OneModelEach'
  BY OneModelEachStep
<1> QED BY <1>1, <1>2, <1>3, GatewayInvariant, PTL DEF GatewaySpec

(* An output is returned exactly where its response is stored. *)
THEOREM GatewayOutputs == GatewaySpec => []Waiting!OutputIsStored
<1>1. GatewayInv => Waiting!OutputIsStored
  <2> SUFFICES ASSUME GatewayInv, NEW r \in Responses, request[r].pc = "ended"
               PROVE  /\ request[r].answered <=> responses[r].status = "completed"
                      /\ responses[r].status = "completed" =>
                            attempts[<<r, request[r].attempt>>].status = "succeeded"
    BY DEF Waiting!OutputIsStored, Waiting!Ended, Waiting!Stored, Waiting!Current
  <2>1. request[r] # Plain!NoRequest
    BY DEF Plain!NoRequest
  <2> QED BY <2>1, CallServed DEF Called, Plain!Held, Plain!Progress
<1> QED BY <1>1, GatewayInvariant, PTL

LEMMA OwnAttemptsNext ==
    OwnRows' => \A r \in Responses :
        Repository!AttemptsOf(r)' =
            {<<r, k>> : k \in {i \in 1 .. MaxAttempts : (attempts[<<r, i>>].status # "absent")'}}
<1> DEFINE Made == \A r \in Responses :
        Repository!AttemptsOf(r) =
            {<<r, k>> : k \in {i \in 1 .. MaxAttempts : attempts[<<r, i>>].status # "absent"}}
<1>1. OwnRows => Made
  BY OwnAttempts
<1> HIDE DEF Made
<1>2. OwnRows' => Made'
  BY <1>1, PTL
<1> QED BY <1>2 DEF Made

(* No attempt of a stream begins once one of its attempts has shown output. *)
THEOREM GatewayRetries == GatewaySpec => NoRetryAfterOutput
<1>1. GatewayInv /\ GatewayInv' /\ [GatewayNext]_gatewayVars =>
          [\A r \in Responses : stream[r].emitted =>
              Repository!AttemptsOf(r)' = Repository!AttemptsOf(r)]_vars
  <2> SUFFICES ASSUME GatewayInv, GatewayInv', [GatewayNext]_gatewayVars,
                      NEW r \in Responses, stream[r].emitted
               PROVE  Repository!AttemptsOf(r)' = Repository!AttemptsOf(r)
    OBVIOUS
  <2>1. Streamed(r) /\ stream[r] # NoStream
    BY StreamServed DEF NoStream
  <2>2. CASE UNCHANGED <<stream, request, storeVars>>
    BY <2>2 DEF storeVars, Repository!AttemptsOf
  <2>3. ASSUME \A k \in 1 .. MaxAttempts :
                   (attempts[<<r, k>>].status # "absent")' <=> attempts[<<r, k>>].status # "absent"
        PROVE  Repository!AttemptsOf(r)' = Repository!AttemptsOf(r)
    <3>1. OwnRows /\ OwnRows'
      <4>1. GatewayInv' => OwnRows'
        BY Own, PTL
      <4> QED BY <4>1, Own
    <3>2. Repository!AttemptsOf(r)' =
              {<<r, k>> : k \in {i \in 1 .. MaxAttempts : (attempts[<<r, i>>].status # "absent")'}}
      BY <3>1, OwnAttemptsNext
    <3> QED BY <2>3, <3>1, <3>2, OwnAttempts
  <2>4. ASSUME NEW q \in Responses \ {r}, StreamMoves(q) \/ CallMoves(q)
        PROVE  Repository!AttemptsOf(r)' = Repository!AttemptsOf(r)
    BY <2>3, <2>4, MoveKeeps DEF OthersUntouched, Untouched
  <2>5. CASE StreamMoves(r)
    <3>1. stream[r].attempt \in 0 .. MaxAttempts /\ stream'[r].attempt = stream[r].attempt
      BY <2>1, <2>5, StreamServed DEF StreamMoves, Stepped, Opened, Goroutine
    <3>2. Numbered(r, stream[r].attempt) /\ Numbered(r, stream[r].attempt)'
      BY <2>1, <2>5, <3>1, MoverKept DEF Streamed, Held
    <3> QED BY <2>3, <3>1, <3>2 DEF Numbered
  <2>6. ~CallMoves(r)
    BY <2>1 DEF CallMoves, Called
  <2> QED BY <2>2, <2>4, <2>5, <2>6, GatewaySteps
<1> QED BY <1>1, GatewayInvariant, PTL DEF GatewaySpec, NoRetryAfterOutput

(* After a stream broke off in front of its caller, every later attempt of  *)
(* the conversation is a tier stronger, up to the strongest, whether a      *)
(* stream makes it or a request that is not streamed.                       *)
THEOREM GatewayEscalates == GatewaySpec => BrokenStreamsEscalate
<1>1. GatewayInv /\ GatewayInv' /\ [GatewayNext]_gatewayVars =>
          [\A r, q \in Responses :
              /\ Ended(q) /\ stream[q].emitted /\ ~Stored(q) /\ ~stream[q].lost
              /\ responses[q].conversation = responses[r].conversation
              => \A a \in Repository!AttemptsOf(r)' \ Repository!AttemptsOf(r) :
                     attempts'[a].tier >= Repository!NextTier(attempts[Current(q)].tier)]_vars
  <2> SUFFICES ASSUME GatewayInv, GatewayInv', [GatewayNext]_gatewayVars,
                      NEW r \in Responses, NEW q \in Responses,
                      stream[q].pc = "ended", stream[q].emitted,
                      responses[q].status # "completed", ~stream[q].lost,
                      responses[q].conversation = responses[r].conversation,
                      NEW a \in Repository!AttemptsOf(r)' \ Repository!AttemptsOf(r)
               PROVE  attempts'[a].tier >= Repository!NextTier(attempts[<<q, stream[q].attempt>>].tier)
    BY DEF Ended, Stored, Current
  <2> DEFINE c == responses[q].conversation
             broken == <<q, stream[q].attempt>>
  <2>1. [Repository!Next]_(Repository!vars)
    BY GatewaySteps, MoveKeeps DEF storeVars, Repository!vars
  <2>2. /\ a \in Responses \X (1 .. MaxAttempts) /\ attempts'[a].response = r
        /\ attempts[a].status = "absent" /\ attempts'[a].status # "absent"
    <3>1. PICK k \in 1 .. MaxAttempts : a = <<r, k>> /\ attempts'[a].status # "absent"
      <4>1. GatewayInv' => OwnRows'
        BY Own, PTL
      <4> QED BY <4>1, OwnAttemptsNext
    <3>2. attempts'[a].response = r
      BY DEF Repository!AttemptsOf
    <3>3. attempts[a].status = "absent"
      BY <3>1, Own, OwnAttempts
    <3> QED BY <3>1, <3>2, <3>3
  <2>3. attempts'[a].tier >= conversations[c].floor
    <3>1. attempts'[a].tier >= conversations[responses[attempts'[a].response].conversation].floor
      BY <2>1, <2>2, BeginsAboveFloor DEF GatewayInv
    <3> QED BY <2>2, <3>1
  <2>4. Held(q, stream[q]) /\ stream[q] \in Goroutine
    BY StreamServed DEF NoStream, Streamed
  <2>5. /\ broken \in Responses \X (1 .. MaxAttempts) /\ attempts[broken].status # "absent"
        /\ responses[q].status # "absent"
    <3>1. stream[q].attempt \in 1 .. MaxAttempts
      BY <2>4, Assumed DEF Held, Progress, Goroutine
    <3> QED BY <2>4, <3>1 DEF Held, Progress, Numbered
  <2>6. conversations[c].floor >= Repository!NextTier(attempts[broken].tier)
    BY <2>4 DEF Held, Raised, Repository!NextTier
  <2>7. conversations[c].floor \in Int
    BY <2>5, Rows, Assumed DEF GatewayInv, Repository!TypeOK, Repository!ConversationRow, Repository!Tiers
  <2>8. Repository!NextTier(attempts[broken].tier) \in Int
    BY <2>5, Rows, Assumed DEF GatewayInv, Repository!NextTier
  <2>9. attempts'[a].tier \in Int
    <3>1. Repository!TypeOK'
      BY StoreTypes DEF GatewayInv
    <3> QED BY <2>2, <3>1, Assumed DEF Repository!TypeOK, Repository!AttemptRow, Repository!Tiers
  <2> HIDE DEF c, broken
  <2> QED BY <2>3, <2>6, <2>7, <2>8, <2>9 DEF broken
<1> QED BY <1>1, GatewayInvariant, PTL DEF GatewaySpec, BrokenStreamsEscalate

(* Where no reload changes how often an account may be retried, a request   *)
(* never calls it more often than that and once, whatever streams do to it. *)
SameLimits == \A P, Q \in Pools : \A a \in P, b \in Q :
    a.id = b.id => Selector!RetryLimit(a) = Selector!RetryLimit(b)

THEOREM GatewayRetryLimits ==
    ASSUME SameLimits
    PROVE  GatewaySpec => []Waiting!CallsWithinRetryLimit
<1>1. GatewayInv => Waiting!CallsWithinRetryLimit
  <2> SUFFICES ASSUME GatewayInv, NEW r \in Responses, NEW i \in DOMAIN pool
               PROVE  request[r].calls[pool[i].id] <= Selector!RetryLimit(pool[i]) + 1
    BY DEF Waiting!CallsWithinRetryLimit, Waiting!Selector!RetryLimit, Selector!RetryLimit
  <2>1. PICK P \in Pools : pool[i] \in P
    BY SelectorTypes DEF Selector!TypeOK, Selector!Sortings, GatewayInv
  <2>2. PICK b \in P : b = pool[i]
    BY <2>1
  <2>3. b.id \in Accounts /\ Plain!Selector!RetryLimit(b) \in Nat
    BY PlainAssumed, Plain!PoolAccounts
  <2>4. PICK calls \in 0 .. MaxAttempts : calls = request[r].calls[b.id]
    BY <2>3 DEF GatewayInv, Plain!Goroutine
  <2>5. calls = 0 \/ Plain!Allowed(b.id, calls - 1)
    <3>1. CASE Called(r)
      BY <2>3, <2>4, <3>1 DEF Called, Plain!Held, Plain!Rationed
    <3>2. CASE Streamed(r)
      BY <2>3, <2>4, <3>2 DEF Streamed, Plain!NoRequest
    <3> QED BY <3>1, <3>2 DEF GatewayInv
  <2>6. calls = 0 \/ calls - 1 <= Plain!Selector!RetryLimit(b)
    BY <2>5 DEF Plain!Allowed, SameLimits, Plain!Selector!RetryLimit, Selector!RetryLimit
  <2>7. calls <= Plain!Selector!RetryLimit(b) + 1
    BY <2>3, <2>4, <2>6
  <2> QED BY <2>2, <2>4, <2>7 DEF Plain!Selector!RetryLimit, Selector!RetryLimit
<1> QED BY <1>1, GatewayInvariant, PTL

-----------------------------------------------------------------------------
(* The store and the selector under both *)

(* Together they implement the store: whatever streams and requests do, the *)
(* conversations change by the store's transactions alone.                  *)
THEOREM GatewayUsesTheStore == GatewaySpec => Repository!Spec
<1>1. GatewayInit => Repository!Init
  BY DEF GatewayInit, Init
<1>2. GatewayInv /\ [GatewayNext]_gatewayVars => [Repository!Next]_(Repository!vars)
  <2> SUFFICES ASSUME GatewayInv, [GatewayNext]_gatewayVars PROVE [Repository!Next]_(Repository!vars)
    OBVIOUS
  <2> QED BY GatewaySteps, MoveKeeps DEF storeVars, Repository!vars
<1> QED BY <1>1, <1>2, GatewayInvariant, PTL DEF GatewaySpec, Repository!Spec

(* A session's binding that is alive is never handed to another account nor *)
(* shortened, whichever kind of request selects, reports or retries.        *)
THEOREM GatewayKeepsBindings == GatewaySpec => Selector!BindingsAreKept
<1> DEFINE Kept == \A s \in Sessions : Selector!Alive(s) =>
        \/ bindings'[s] = Selector!NoBinding
        \/ /\ bindings'[s].account = bindings[s].account
           /\ bindings'[s].model = bindings[s].model
           /\ bindings'[s].expires >= bindings[s].expires
<1>1. GatewayInit => Accounting!Timely
  BY SelectorTimely DEF GatewayInit, Init
<1>2. GatewayInv /\ Accounting!Timely /\ [GatewayNext]_gatewayVars => Accounting!Timely'
  BY GatewaySteps, SelectorTimely DEF GatewayInv
<1>3. GatewayInv /\ Accounting!Timely /\ [GatewayNext]_gatewayVars => [Kept]_(Selector!vars)
  <2> SUFFICES ASSUME GatewayInv, Accounting!Timely, [GatewayNext]_gatewayVars PROVE Kept
    OBVIOUS
  <2> QED BY GatewaySteps, SelectorKeeps DEF GatewayInv
<1> QED BY <1>1, <1>2, <1>3, GatewayInvariant, PTL DEF GatewaySpec, Selector!BindingsAreKept

(* An account that failed for one kind of request rests for both.           *)
THEOREM GatewayLetsAccountsRest == GatewaySpec => RestsBeforeSelection
<1> DEFINE Rests == \A req \in Selector!SelectRequest, a \in Accounts :
        Selector!Returns(req, Selector!Granted(a)) /\ failed[a] >= 0 =>
            \E rest \in {AuthCooldown, QuotaCooldown, TransientCooldown} : now >= failed[a] + rest
<1>1. GatewayInv => [Rests]_selectorVars
  <2> SUFFICES ASSUME GatewayInv PROVE Rests
    OBVIOUS
  <2> QED BY SelectorRests DEF GatewayInv
<1> QED BY <1>1, GatewayInvariant, PTL DEF GatewaySpec, RestsBeforeSelection

(* And no account is taken more often than its share before every eligible  *)
(* one had its own, with weights or without, by requests of either kind.    *)
THEOREM GatewayTakesTurns == GatewaySpec => []Selector!FairShare
<1>1. GatewayInit => Accounting!ShareInv
  BY SelectorTurns DEF GatewayInit, Init
<1>2. GatewayInv /\ Accounting!ShareInv /\ [GatewayNext]_gatewayVars => Accounting!ShareInv'
  BY GatewaySteps, SelectorTurns DEF GatewayInv
<1>3. GatewayInv /\ Accounting!ShareInv => Selector!FairShare
  BY SelectorTurns DEF GatewayInv
<1> QED BY <1>1, <1>2, <1>3, GatewayInvariant, PTL DEF GatewaySpec
=============================================================================
