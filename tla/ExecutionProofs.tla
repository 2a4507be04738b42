--------------------------- MODULE ExecutionProofs ---------------------------
(***************************************************************************)
(* What the theorems about streaming and non-streaming requests share: the *)
(* theory of the store and of the selector, carried over to the instances  *)
(* that Execution runs on, and the effect of each transaction on the rows  *)
(* of its own request and of the others.                                   *)
(***************************************************************************)
EXTENDS Execution, FiniteSetTheorems, WellFoundedInduction, TLAPS

(* The instances of Execution, with the lemmas about them. *)
Store == INSTANCE RoutingStoreProofs WITH
    Attempts <- Responses \X (1 .. MaxAttempts), now <- 0,
    SessionTTL <- 0, MaxLag <- 0, MaxTime <- 0
Accounting == INSTANCE ConductorProofs WITH
    Requests <- {}, outcome <- [kind |-> "none", account |-> None]

StoreInv == Store!WellFormed /\ Store!RoutingInv
SelectorInv == Accounting!ConductorInv

-----------------------------------------------------------------------------
(* The same operators under two names *)

LEMMA StoreAssumption == Store!RoutingStoreAssumption
  BY ExecutionAssumption
  DEF Repository!RoutingStoreAssumption, Store!RoutingStoreAssumption,
      Repository!IsFiniteSet, Store!IsFiniteSet

LEMMA SelectorAssumption == Accounting!ConductorAssumption
  BY ExecutionAssumption
  DEF Selector!ConductorAssumption, Accounting!ConductorAssumption,
      Selector!IsFiniteSet, Accounting!IsFiniteSet, Selector!Account, Accounting!Account,
      Selector!SelectRequest, Accounting!SelectRequest

(* What the proofs use of the assumptions, in plain words. *)
LEMMA Assumed ==
    /\ None \notin Clients \cup Keys \cup Models
    /\ None \notin Providers \cup Sessions \cup Nat
    /\ MaxTier \in Nat /\ MaxAttempts \in Nat /\ MaxWait \in Nat \ {0}
    /\ Accounts \subseteq Nat /\ IsFiniteSet(Accounts) /\ IsFiniteSet(Models)
    /\ IsFiniteSet(Responses \X (1 .. MaxAttempts))
    /\ TierOf \in [Models -> 0 .. MaxTier] /\ ProviderOf \in [Models -> Providers]
    /\ ExplicitOnly \subseteq Models /\ Asks \subseteq Models \cup {None} /\ Breaks \subseteq Errors
    /\ AffinityTTL \in Nat /\ MaxTime \in Nat
<1>1. IsFiniteSet(Accounts) /\ IsFiniteSet(Responses \X (1 .. MaxAttempts))
  BY ExecutionAssumption
  DEF Repository!RoutingStoreAssumption, Selector!ConductorAssumption,
      Repository!IsFiniteSet, Selector!IsFiniteSet, IsFiniteSet
<1> QED BY <1>1, ExecutionAssumption
        DEF Repository!RoutingStoreAssumption, Selector!ConductorAssumption

LEMMA SameCardinality ==
    ASSUME NEW S
    PROVE  /\ Repository!Cardinality(S) = Cardinality(S) /\ Store!Cardinality(S) = Cardinality(S)
  BY DEF Repository!Cardinality, Store!Cardinality, Cardinality

LEMMA SameStoreTypes ==
    /\ Repository!TypeOK <=> Store!TypeOK
    /\ Repository!Init <=> Store!Init
  BY DEF Repository!TypeOK, Repository!ConversationRow, Repository!SessionRow, Repository!ResponseRow,
         Repository!AttemptRow, Repository!Pins, Repository!NoPin, Repository!Tiers,
         Repository!SessionIDs, Repository!Init, Repository!NoConversation, Repository!NoSession,
         Repository!NoResponse, Repository!NoAttempt,
         Store!TypeOK, Store!ConversationRow, Store!SessionRow, Store!ResponseRow,
         Store!AttemptRow, Store!Pins, Store!NoPin, Store!Tiers,
         Store!SessionIDs, Store!Init, Store!NoConversation, Store!NoSession,
         Store!NoResponse, Store!NoAttempt

LEMMA SameTransactions == [Repository!Next]_(Repository!vars) <=> [Store!Next]_(Store!vars)
  BY DEF Repository!Next, Repository!vars, Repository!Turn, Repository!Attempt, Repository!RecentTimes,
         Repository!Tick, Repository!DeleteExpiredSessions, Repository!CreateTurn,
         Repository!ContinueTurn, Repository!InsertResponse, Repository!SeededSession,
         Repository!IdleAt, Repository!NoSession, Repository!SessionIDs, Repository!Tiers,
         Repository!BeginProviderAttempt, Repository!CommitConversationResult,
         Repository!FailProviderAttempt, Repository!RecordAttemptSavings,
         Repository!RaiseConversationFloor, Repository!NextTier, Repository!Finished,
         Repository!LatestStarted, Repository!Cardinality, Repository!Owns, Repository!Unanswered,
         Repository!ConversationOf, Repository!TierAccepted, Repository!Maximum, Repository!NoPin,
         Repository!Repinned, Repository!SyncSession, Repository!MergedSession,
         Repository!FreshSession, Repository!AttemptsOf,
         Store!Next, Store!vars, Store!Turn, Store!Attempt, Store!RecentTimes,
         Store!Tick, Store!DeleteExpiredSessions, Store!CreateTurn,
         Store!ContinueTurn, Store!InsertResponse, Store!SeededSession,
         Store!IdleAt, Store!NoSession, Store!SessionIDs, Store!Tiers,
         Store!BeginProviderAttempt, Store!CommitConversationResult,
         Store!FailProviderAttempt, Store!RecordAttemptSavings,
         Store!RaiseConversationFloor, Store!NextTier, Store!Finished,
         Store!LatestStarted, Store!Cardinality, Store!Owns, Store!Unanswered,
         Store!ConversationOf, Store!TierAccepted, Store!Maximum, Store!NoPin,
         Store!Repinned, Store!SyncSession, Store!MergedSession,
         Store!FreshSession, Store!AttemptsOf

LEMMA SameSelectorTypes ==
    /\ Selector!TypeOK <=> Accounting!TypeOK
    /\ Selector!Init <=> Accounting!Init
  BY DEF Selector!TypeOK, Selector!Init, Selector!Sortings, Selector!Before, Selector!Account,
         Selector!NoBinding, Selector!NoTally, Selector!Granted, Selector!Refused,
         Selector!Cardinality,
         Accounting!TypeOK, Accounting!Init, Accounting!Sortings, Accounting!Before, Accounting!Account,
         Accounting!NoBinding, Accounting!NoTally, Accounting!Granted, Accounting!Refused,
         Accounting!Cardinality

LEMMA SameSelections ==
    ASSUME NEW req, NEW result
    PROVE  /\ Selector!Returns(req, result) <=> Accounting!Returns(req, result)
           /\ Selector!HasEligible(req) <=> Accounting!HasEligible(req)
  BY DEF Selector!Returns, Selector!HasEligible, Selector!Refuse, Selector!Stick, Selector!Rotate,
         Selector!Exhausted, Selector!Eligible, Selector!Admits, Selector!Addressed,
         Selector!Qualified, Selector!RetryLimit, Selector!Cooling, Selector!Unexpired,
         Selector!Alive, Selector!NoBinding, Selector!Sticky, Selector!Inherits, Selector!Holds,
         Selector!Granted, Selector!Refused, Selector!Bound, Selector!First, Selector!RoundRobin,
         Selector!Ahead, Selector!Weighted, Selector!WeightUpTo, Selector!MapThenSumSet,
         Selector!Count, Selector!Share, Selector!NoTally, Selector!Thaw, Selector!Cardinality,
         Selector!MapThenFoldSet,
         Accounting!Returns, Accounting!HasEligible, Accounting!Refuse, Accounting!Stick, Accounting!Rotate,
         Accounting!Exhausted, Accounting!Eligible, Accounting!Admits, Accounting!Addressed,
         Accounting!Qualified, Accounting!RetryLimit, Accounting!Cooling, Accounting!Unexpired,
         Accounting!Alive, Accounting!NoBinding, Accounting!Sticky, Accounting!Inherits, Accounting!Holds,
         Accounting!Granted, Accounting!Refused, Accounting!Bound, Accounting!First, Accounting!RoundRobin,
         Accounting!Ahead, Accounting!Weighted, Accounting!WeightUpTo, Accounting!MapThenSumSet,
         Accounting!Count, Accounting!Share, Accounting!NoTally, Accounting!Thaw, Accounting!Cardinality,
         Accounting!MapThenFoldSet

LEMMA SameReports ==
    ASSUME NEW session, NEW account, NEW class
    PROVE  /\ Selector!ReportSuccess(session, account) <=> Accounting!ReportSuccess(session, account)
           /\ Selector!ReportFailure(session, account, class)
                  <=> Accounting!ReportFailure(session, account, class)
           /\ \A accounts : Selector!ReplaceAccounts(accounts) <=> Accounting!ReplaceAccounts(accounts)
           /\ Selector!Tick <=> Accounting!Tick
  BY DEF Selector!ReportSuccess, Selector!ReportFailure, Selector!ReplaceAccounts, Selector!Tick,
         Selector!CooledDown, Selector!CooldownFor, Selector!NoBinding, Selector!NoTally,
         Selector!Sortings, Selector!Before, Selector!Cardinality,
         Accounting!ReportSuccess, Accounting!ReportFailure, Accounting!ReplaceAccounts, Accounting!Tick,
         Accounting!CooledDown, Accounting!CooldownFor, Accounting!NoBinding, Accounting!NoTally,
         Accounting!Sortings, Accounting!Before, Accounting!Cardinality

-----------------------------------------------------------------------------
(* The store's theory, for Execution's store *)

LEMMA StoreInit == Repository!Init => StoreInv
<1>1. Store!Init => Store!WellFormed
  BY StoreAssumption, Store!WellFormedInit
<1>2. Store!Init => Store!RoutingInv
  BY StoreAssumption, Store!RoutingInvInit
<1> QED BY <1>1, <1>2, SameStoreTypes DEF StoreInv

LEMMA StoreStep ==
    ASSUME StoreInv, [Repository!Next]_(Repository!vars)
    PROVE  StoreInv' /\ Store!ConversationsRise
<1>1. [Store!Next]_(Store!vars)
  BY SameTransactions
<1>2. (Store!WellFormed /\ Store!RoutingInv)'
  BY <1>1, StoreAssumption, Store!RoutingInvStep DEF StoreInv
<1>3. Store!ConversationsRise
  BY <1>1, StoreAssumption, Store!RatchetStep DEF StoreInv
<1> QED BY <1>2, <1>3 DEF StoreInv

(* What the executors' proofs use of it. *)
LEMMA Rows ==
    ASSUME StoreInv
    PROVE  /\ Repository!TypeOK
           /\ \A r \in Responses : responses[r].status # "absent" =>
                 /\ responses[r].conversation \in Conversations
                 /\ conversations[responses[r].conversation].client \in Clients
           /\ \A a \in Responses \X (1 .. MaxAttempts) : attempts[a].status # "absent" =>
                 /\ attempts[a].response \in Responses
                 /\ attempts[a].model \in Models /\ attempts[a].tier \in 0 .. MaxTier
  BY SameStoreTypes DEF StoreInv, Store!WellFormed, Store!References, Store!ConversationOf, Store!Tiers

LEMMA StoreTypes == StoreInv' => Repository!TypeOK'
<1>1. StoreInv => Repository!TypeOK
  BY Rows
<1> QED BY <1>1, PTL

LEMMA Rising ==
    ASSUME StoreInv, Store!ConversationsRise, NEW r \in Responses, responses[r].status # "absent"
    PROVE  conversations[responses[r].conversation].floor <= conversations'[responses[r].conversation].floor
<1>1. /\ responses[r].conversation \in Conversations
      /\ conversations[responses[r].conversation].client \in Clients
  BY Rows
<1> QED BY <1>1, Assumed DEF Store!ConversationsRise

-----------------------------------------------------------------------------
(* The attempts of a request are numbered 1 .. n in the order they began. *)
Numbered(r, n) ==
    \A k \in 1 .. MaxAttempts :
        IF k <= n THEN /\ attempts[<<r, k>>].status # "absent"
                       /\ attempts[<<r, k>>].response = r /\ attempts[<<r, k>>].seq = k - 1
        ELSE attempts[<<r, k>>].status = "absent"

(* An attempt is of the request whose ID it carries. *)
OwnRows == \A r \in Responses, k \in 1 .. MaxAttempts :
    attempts[<<r, k>>].status # "absent" => attempts[<<r, k>>].response = r

(* A step leaves the rows of q as they are. *)
Untouched(q) ==
    /\ responses'[q] = responses[q]
    /\ \A k \in 1 .. MaxAttempts : attempts'[<<q, k>>] = attempts[<<q, k>>]

OthersUntouched(r) == \A q \in Responses \ {r} : Untouched(q)

LEMMA NoneNumbered == Repository!Init => \A r \in Responses : Numbered(r, 0)
  BY Assumed DEF Numbered, Repository!Init, Repository!NoAttempt

LEMMA AttemptRows ==
    ASSUME OwnRows, NEW r \in Responses, NEW n \in 0 .. MaxAttempts, Numbered(r, n)
    PROVE  /\ Repository!AttemptsOf(r) = {<<r, k>> : k \in 1 .. n}
           /\ Repository!Cardinality(Repository!AttemptsOf(r)) = n
           /\ NextAttempt(r) = <<r, n + 1>>
           /\ Bounded(r) => n + 1 \in 1 .. MaxAttempts
<1>2. Repository!AttemptsOf(r) = {<<r, k>> : k \in 1 .. n}
  <2>1. ASSUME NEW a \in Repository!AttemptsOf(r) PROVE a \in {<<r, k>> : k \in 1 .. n}
    <3>1. PICK q \in Responses, k \in 1 .. MaxAttempts : a = <<q, k>>
      BY <2>1 DEF Repository!AttemptsOf
    <3>2. attempts[<<q, k>>].status # "absent" /\ attempts[<<q, k>>].response = r
      BY <2>1, <3>1 DEF Repository!AttemptsOf
    <3>3. q = r
      BY <3>2 DEF OwnRows
    <3> QED BY <3>1, <3>2, <3>3 DEF Numbered
  <2>2. ASSUME NEW k \in 1 .. n PROVE <<r, k>> \in Repository!AttemptsOf(r)
    <3>1. k \in 1 .. MaxAttempts /\ k <= n
      BY <2>2, Assumed
    <3> QED BY <3>1 DEF Numbered, Repository!AttemptsOf
  <2> QED BY <2>1, <2>2
<1>3. Cardinality({<<r, k>> : k \in 1 .. n}) = n
  <2> DEFINE pair == [k \in 1 .. n |-> <<r, k>>]
  <2>1. IsFiniteSet(1 .. n) /\ Cardinality(1 .. n) = n
    BY FS_Interval
  <2>2. pair \in Bijection(1 .. n, {<<r, k>> : k \in 1 .. n})
    BY DEF Bijection, Injection, Surjection, IsInjective
  <2> QED BY <2>1, <2>2, FS_Bijection DEF ExistsBijection
<1>4. Repository!Cardinality(Repository!AttemptsOf(r)) = n
  BY <1>2, <1>3, SameCardinality
<1>5. NextAttempt(r) = <<r, n + 1>>
  <2>1. NextAttempt(r) = <<r, Repository!Cardinality(Repository!AttemptsOf(r)) + 1>>
    BY SameCardinality DEF NextAttempt
  <2> QED BY <1>4, <2>1
<1>6. Bounded(r) => n + 1 \in 1 .. MaxAttempts
  BY <1>4, Assumed, SameCardinality DEF Bounded
<1> QED BY <1>2, <1>4, <1>5, <1>6

-----------------------------------------------------------------------------
(* Each transaction is a step of the store, and this is what it does to the *)
(* rows of its request; those of the others stay.                           *)

LEMMA Owner ==
    ASSUME StoreInv, NEW client, NEW r \in Responses, Repository!Owns(client, r)
    PROVE  client \in Clients /\ responses[r].status # "absent"
  BY Rows DEF Repository!Owns, Repository!ConversationOf

LEMMA TurnEffect ==
    ASSUME StoreInv, NEW client \in Clients, NEW r \in Responses, NEW named,
           StartTurn(r, client, named)
    PROVE  /\ Repository!Next
           /\ responses[r].status = "absent" /\ responses'[r].status = "pending"
           /\ responses'[r].conversation \in Conversations
           /\ attempts' = attempts /\ OthersUntouched(r)
<1>1. 0 \in Repository!RecentTimes
  BY DEF Repository!RecentTimes
<1>2. Repository!Next
  BY <1>1 DEF StartTurn, Repository!Next, Repository!Turn
<1>3. /\ \E c \in Conversations : Repository!InsertResponse(r, c, named # None)
      /\ attempts' = attempts
  <2>1. ASSUME NEW key, NEW c \in Conversations,
               Repository!CreateTurn(client, key, c, r, named # None, 0)
        PROVE  Repository!InsertResponse(r, c, named # None) /\ attempts' = attempts
    BY <2>1 DEF Repository!CreateTurn
  <2>2. ASSUME NEW previous \in Responses, Repository!ContinueTurn(client, previous, r, named # None)
        PROVE  /\ Repository!ConversationOf(previous) \in Conversations
               /\ Repository!InsertResponse(r, Repository!ConversationOf(previous), named # None)
               /\ attempts' = attempts
    BY <2>2, Owner, Rows DEF Repository!ContinueTurn, Repository!ConversationOf
  <2> QED BY <2>1, <2>2 DEF StartTurn
<1>4. responses \in [Responses -> Repository!ResponseRow]
  BY Rows DEF Repository!TypeOK
<1>5. \A q \in Responses \ {r} : responses'[q] = responses[q]
  BY <1>3, <1>4 DEF Repository!InsertResponse
<1>6. /\ responses[r].status = "absent" /\ responses'[r].status = "pending"
      /\ responses'[r].conversation \in Conversations
  BY <1>3, <1>4 DEF Repository!InsertResponse
<1> QED BY <1>2, <1>3, <1>5, <1>6 DEF OthersUntouched, Untouched

(* The new attempt gets the next number. *)
LEMMA BeginEffect ==
    ASSUME StoreInv, OwnRows, NEW client, NEW r \in Responses,
           NEW n \in 0 .. MaxAttempts, Numbered(r, n), NEW model \in Models,
           Bounded(r),
           Repository!BeginProviderAttempt(client, r, NextAttempt(r), model, TierOf[model])
    PROVE  /\ Repository!Next
           /\ responses[r].status = "pending" /\ responses' = responses
           /\ TierOf[model] >= conversations[responses[r].conversation].floor
           /\ attempts'[<<r, n + 1>>] =
                  [response |-> r, model |-> model, tier |-> TierOf[model],
                   seq |-> n, status |-> "started", completed |-> 0]
           /\ \A k \in 1 .. MaxAttempts : k # n + 1 => attempts'[<<r, k>>] = attempts[<<r, k>>]
           /\ OthersUntouched(r)
           /\ Numbered(r, n + 1)'
<1>1. /\ NextAttempt(r) = <<r, n + 1>> /\ n + 1 \in 1 .. MaxAttempts
      /\ Repository!Cardinality(Repository!AttemptsOf(r)) = n
  BY AttemptRows
<1>2. client \in Clients /\ TierOf[model] \in 0 .. MaxTier
  BY Owner, Assumed DEF Repository!BeginProviderAttempt
<1>3. Repository!Next
  BY <1>1, <1>2 DEF Repository!Next, Repository!Attempt, Repository!Tiers
<1>4. /\ responses[r].status = "pending" /\ responses' = responses
      /\ TierOf[model] >= conversations[responses[r].conversation].floor
      /\ attempts' = [attempts EXCEPT ![<<r, n + 1>>] =
             [response |-> r, model |-> model, tier |-> TierOf[model],
              seq |-> n, status |-> "started", completed |-> 0]]
  BY <1>1 DEF Repository!BeginProviderAttempt, Repository!Unanswered, Repository!TierAccepted,
              Repository!ConversationOf
<1>5. attempts \in [Responses \X (1 .. MaxAttempts) -> Repository!AttemptRow]
  BY Rows DEF Repository!TypeOK
<1>6. /\ attempts'[<<r, n + 1>>] =
             [response |-> r, model |-> model, tier |-> TierOf[model],
              seq |-> n, status |-> "started", completed |-> 0]
      /\ \A q \in Responses, k \in 1 .. MaxAttempts :
            <<q, k>> # <<r, n + 1>> => attempts'[<<q, k>>] = attempts[<<q, k>>]
  BY <1>1, <1>4, <1>5
<1>7. Numbered(r, n + 1)'
  BY <1>1, <1>6, Assumed DEF Numbered
<1> QED BY <1>3, <1>4, <1>6, <1>7 DEF OthersUntouched, Untouched

(* Of attempts that are numbered in order, the store takes the last for the *)
(* latest, if that one is started.                                          *)
LEMMA CommitEffect ==
    ASSUME StoreInv, OwnRows, NEW client, NEW r \in Responses,
           NEW n \in 0 .. MaxAttempts, Numbered(r, n),
           n >= 1, attempts[<<r, n>>].status = "started",
           NEW a \in Repository!AttemptsOf(r), NEW known \in BOOLEAN,
           Repository!CommitConversationResult(client, r, a, known)
    PROVE  /\ Repository!Next /\ a = <<r, n>>
           /\ responses[r].status = "pending" /\ responses'[r].status = "completed"
           /\ responses'[r].conversation = responses[r].conversation
           /\ attempts'[a].status = "succeeded" /\ attempts'[a].response = attempts[a].response
           /\ attempts'[a].model = attempts[a].model /\ attempts'[a].tier = attempts[a].tier
           /\ attempts'[a].seq = attempts[a].seq
           /\ \A k \in 1 .. MaxAttempts : k # n => attempts'[<<r, k>>] = attempts[<<r, k>>]
           /\ OthersUntouched(r)
           /\ Numbered(r, n)'
<1>1. n \in 1 .. MaxAttempts /\ Repository!AttemptsOf(r) = {<<r, k>> : k \in 1 .. n}
  BY AttemptRows, Assumed
<1>2. a = <<r, n>>
  <2>1. PICK k \in 1 .. n : a = <<r, k>>
    BY <1>1
  <2>2. <<r, n>> \in Repository!AttemptsOf(r)
    BY <1>1
  <2>3. attempts[<<r, n>>].seq <= attempts[a].seq
    BY <2>2 DEF Repository!CommitConversationResult, Repository!LatestStarted
  <2>4. attempts[<<r, n>>].seq = n - 1 /\ attempts[a].seq = k - 1
    BY <1>1, <2>1, Assumed DEF Numbered
  <2> QED BY <1>1, <2>1, <2>3, <2>4, Assumed
<1>3. client \in Clients
  BY Owner DEF Repository!CommitConversationResult
<1>4. Repository!Next
  BY <1>1, <1>2, <1>3 DEF Repository!Next, Repository!Attempt
<1>5. /\ responses[r].status = "pending"
      /\ responses' = [responses EXCEPT ![r].status = "completed"]
      /\ attempts' = [attempts EXCEPT ![a] = Repository!Finished(attempts[a], "succeeded")]
  BY DEF Repository!CommitConversationResult, Repository!Unanswered
<1>6. /\ attempts \in [Responses \X (1 .. MaxAttempts) -> Repository!AttemptRow]
      /\ responses \in [Responses -> Repository!ResponseRow]
  BY Rows DEF Repository!TypeOK
<1>7. /\ responses'[r].status = "completed" /\ responses'[r].conversation = responses[r].conversation
      /\ \A q \in Responses \ {r} : responses'[q] = responses[q]
  BY <1>5, <1>6 DEF Repository!ResponseRow
<1>8. /\ attempts'[a] = Repository!Finished(attempts[a], "succeeded")
      /\ \A q \in Responses, k \in 1 .. MaxAttempts :
            <<q, k>> # <<r, n>> => attempts'[<<q, k>>] = attempts[<<q, k>>]
  BY <1>1, <1>2, <1>5, <1>6
<1>9. Numbered(r, n)'
  BY <1>1, <1>2, <1>8 DEF Numbered, Repository!Finished
<1> QED BY <1>2, <1>4, <1>5, <1>7, <1>8, <1>9 DEF OthersUntouched, Untouched, Repository!Finished

LEMMA FailEffect ==
    ASSUME StoreInv, OwnRows, NEW client, NEW r \in Responses,
           NEW n \in 0 .. MaxAttempts, Numbered(r, n), NEW i \in 1 .. n,
           Repository!FailProviderAttempt(client, r, <<r, i>>)
    PROVE  /\ Repository!Next /\ responses' = responses
           /\ LET a == <<r, i>>
              IN  /\ attempts[a].status = "started"
                  /\ attempts'[a].status = "failed" /\ attempts'[a].response = attempts[a].response
                  /\ attempts'[a].model = attempts[a].model /\ attempts'[a].tier = attempts[a].tier
                  /\ attempts'[a].seq = attempts[a].seq
           /\ \A k \in 1 .. MaxAttempts : k # i => attempts'[<<r, k>>] = attempts[<<r, k>>]
           /\ OthersUntouched(r)
           /\ Numbered(r, n)'
<1>1. i \in 1 .. MaxAttempts
  BY Assumed
<1>2. client \in Clients
  BY Owner DEF Repository!FailProviderAttempt
<1>3. Repository!Next
  BY <1>1, <1>2 DEF Repository!Next, Repository!Attempt
<1>4. /\ responses' = responses /\ attempts[<<r, i>>].status = "started"
      /\ attempts' = [attempts EXCEPT ![<<r, i>>] = Repository!Finished(attempts[<<r, i>>], "failed")]
  BY DEF Repository!FailProviderAttempt
<1>5. attempts \in [Responses \X (1 .. MaxAttempts) -> Repository!AttemptRow]
  BY Rows DEF Repository!TypeOK
<1>6. /\ attempts'[<<r, i>>] = Repository!Finished(attempts[<<r, i>>], "failed")
      /\ \A q \in Responses, k \in 1 .. MaxAttempts :
            <<q, k>> # <<r, i>> => attempts'[<<q, k>>] = attempts[<<q, k>>]
  BY <1>1, <1>4, <1>5
<1>7. Numbered(r, n)'
  BY <1>1, <1>6 DEF Numbered, Repository!Finished
<1> QED BY <1>3, <1>4, <1>6, <1>7 DEF OthersUntouched, Untouched, Repository!Finished

LEMMA SavingsEffect ==
    ASSUME StoreInv, NEW client, NEW r \in Responses, NEW a,
           Repository!RecordAttemptSavings(client, r, a)
    PROVE  Repository!Next /\ UNCHANGED <<responses, attempts>>
<1>1. client \in Clients /\ a \in Responses \X (1 .. MaxAttempts)
  BY Owner DEF Repository!RecordAttemptSavings, Repository!AttemptsOf
<1> QED BY <1>1 DEF Repository!Next, Repository!Attempt, Repository!RecordAttemptSavings

LEMMA RaiseEffect ==
    ASSUME StoreInv, NEW client, NEW r \in Responses, NEW a,
           Repository!RaiseConversationFloor(client, r, a)
    PROVE  /\ Repository!Next /\ UNCHANGED <<responses, attempts>>
           /\ conversations'[responses[r].conversation].floor >= Repository!NextTier(attempts[a].tier)
<1>1. client \in Clients /\ responses[r].status # "absent"
  BY Owner DEF Repository!RaiseConversationFloor
<1>2. a \in Responses \X (1 .. MaxAttempts) /\ attempts[a].status # "absent"
  BY DEF Repository!RaiseConversationFloor, Repository!AttemptsOf
<1>3. Repository!Next
  BY <1>1, <1>2 DEF Repository!Next, Repository!Attempt
<1> DEFINE c == responses[r].conversation
           floor == Repository!NextTier(attempts[a].tier)
<1>4. c \in Conversations /\ conversations \in [Conversations -> Repository!ConversationRow]
  BY <1>1, Rows DEF Repository!TypeOK
<1>5. attempts[a].tier \in 0 .. MaxTier /\ floor \in 0 .. MaxTier
  BY <1>2, Rows, Assumed DEF Repository!NextTier
<1>6. conversations[c].floor \in 0 .. MaxTier
  BY <1>4 DEF Repository!ConversationRow, Repository!Tiers
<1>7. IF floor > conversations[c].floor
      THEN conversations' = [conversations EXCEPT ![c] = Repository!Repinned(@, @.pin, floor)]
      ELSE conversations' = conversations
  BY DEF Repository!RaiseConversationFloor, Repository!ConversationOf
<1> HIDE DEF c, floor
<1>8. conversations'[c].floor >= floor
  BY <1>4, <1>5, <1>6, <1>7, Assumed DEF Repository!Repinned
<1> QED BY <1>3, <1>8 DEF c, floor, Repository!RaiseConversationFloor

-----------------------------------------------------------------------------
(* What any step of the store does to attempts *)

(* An attempt keeps the model it began with, whatever the store does. *)
LEMMA ModelsKept ==
    ASSUME StoreInv, [Repository!Next]_(Repository!vars), NEW r \in Responses, NEW k \in 1 .. MaxAttempts,
           attempts[<<r, k>>].status # "absent"
    PROVE  attempts'[<<r, k>>].model = attempts[<<r, k>>].model
<1>1. attempts \in [Responses \X (1 .. MaxAttempts) -> Repository!AttemptRow] /\ <<r, k>> \in DOMAIN attempts
  BY Rows DEF Repository!TypeOK
<1>2. CASE attempts' = attempts
  BY <1>2
<1>3. ASSUME NEW a, attempts[a].status = "absent", NEW row, attempts' = [attempts EXCEPT ![a] = row]
      PROVE  attempts'[<<r, k>>].model = attempts[<<r, k>>].model
  BY <1>1, <1>3
<1>4. ASSUME NEW a, NEW status, attempts' = [attempts EXCEPT ![a] = Repository!Finished(@, status)]
      PROVE  attempts'[<<r, k>>].model = attempts[<<r, k>>].model
  <2>1. CASE a = <<r, k>>
    BY <1>1, <1>4, <2>1 DEF Repository!Finished
  <2>2. CASE a # <<r, k>>
    BY <1>1, <1>4, <2>2
  <2> QED BY <2>1, <2>2
<1>5. CASE Repository!Next
  <2>1. ASSUME NEW client, NEW key, NEW c, NEW q, NEW explicit, NEW time,
               Repository!CreateTurn(client, key, c, q, explicit, time)
        PROVE  attempts' = attempts
    BY <2>1 DEF Repository!CreateTurn
  <2>2. ASSUME NEW client, NEW previous, NEW q, NEW explicit,
               Repository!ContinueTurn(client, previous, q, explicit)
        PROVE  attempts' = attempts
    BY <2>2 DEF Repository!ContinueTurn
  <2>3. CASE Repository!Turn
    BY <1>2, <2>1, <2>2, <2>3 DEF Repository!Turn
  <2>4. CASE Repository!Attempt
    <3>1. PICK client \in Clients, q \in Responses, a \in Responses \X (1 .. MaxAttempts) :
              \/ \E model \in Models, tier \in Repository!Tiers :
                    Repository!BeginProviderAttempt(client, q, a, model, tier)
              \/ \E known \in BOOLEAN : Repository!CommitConversationResult(client, q, a, known)
              \/ Repository!FailProviderAttempt(client, q, a)
              \/ Repository!RecordAttemptSavings(client, q, a)
              \/ Repository!RaiseConversationFloor(client, q, a)
      BY <2>4 DEF Repository!Attempt
    <3>2. ASSUME NEW model, NEW tier, Repository!BeginProviderAttempt(client, q, a, model, tier)
          PROVE  attempts'[<<r, k>>].model = attempts[<<r, k>>].model
      BY <1>3, <3>2 DEF Repository!BeginProviderAttempt
    <3>3. ASSUME NEW known, Repository!CommitConversationResult(client, q, a, known)
          PROVE  attempts'[<<r, k>>].model = attempts[<<r, k>>].model
      BY <1>4, <3>3 DEF Repository!CommitConversationResult
    <3>4. CASE Repository!FailProviderAttempt(client, q, a)
      BY <1>4, <3>4 DEF Repository!FailProviderAttempt
    <3>5. CASE Repository!RecordAttemptSavings(client, q, a) \/ Repository!RaiseConversationFloor(client, q, a)
      BY <1>2, <3>5 DEF Repository!RecordAttemptSavings, Repository!RaiseConversationFloor
    <3> QED BY <3>1, <3>2, <3>3, <3>4, <3>5
  <2>5. CASE Repository!Tick \/ \E time \in Repository!RecentTimes : Repository!DeleteExpiredSessions(time)
    BY <1>2, <2>5 DEF Repository!Tick, Repository!DeleteExpiredSessions
  <2> QED BY <1>5, <2>3, <2>4, <2>5 DEF Repository!Next
<1>6. CASE UNCHANGED Repository!vars
  BY <1>2, <1>6 DEF Repository!vars
<1> QED BY <1>5, <1>6

LEMMA OwnAttempts ==
    OwnRows => \A r \in Responses :
        Repository!AttemptsOf(r) =
            {<<r, k>> : k \in {i \in 1 .. MaxAttempts : attempts[<<r, i>>].status # "absent"}}
<1> SUFFICES ASSUME OwnRows, NEW r \in Responses
             PROVE  Repository!AttemptsOf(r) =
                        {<<r, k>> : k \in {i \in 1 .. MaxAttempts : attempts[<<r, i>>].status # "absent"}}
  OBVIOUS
<1>1. ASSUME NEW a \in Repository!AttemptsOf(r)
      PROVE  \E k \in 1 .. MaxAttempts : a = <<r, k>> /\ attempts[<<r, k>>].status # "absent"
  <2>1. PICK q \in Responses, k \in 1 .. MaxAttempts : a = <<q, k>>
    BY <1>1 DEF Repository!AttemptsOf
  <2>2. attempts[<<q, k>>].status # "absent" /\ attempts[<<q, k>>].response = r
    BY <1>1, <2>1 DEF Repository!AttemptsOf
  <2> QED BY <2>1, <2>2 DEF OwnRows
<1>2. ASSUME NEW k \in 1 .. MaxAttempts, attempts[<<r, k>>].status # "absent"
      PROVE  <<r, k>> \in Repository!AttemptsOf(r)
  BY <1>2 DEF OwnRows, Repository!AttemptsOf
<1> QED BY <1>1, <1>2

(* Whoever begins an attempt, the store accepts it only at or above the     *)
(* floor of its conversation.                                               *)
LEMMA BeginsAboveFloor ==
    ASSUME StoreInv, [Repository!Next]_(Repository!vars), NEW a \in Responses \X (1 .. MaxAttempts),
           attempts[a].status = "absent", attempts'[a].status # "absent"
    PROVE  attempts'[a].tier >= conversations[responses[attempts'[a].response].conversation].floor
<1>1. attempts \in [Responses \X (1 .. MaxAttempts) -> Repository!AttemptRow]
  BY Rows DEF Repository!TypeOK
<1>2. attempts' # attempts
  OBVIOUS
<1>3. PICK client \in Clients, r \in Responses, b \in Responses \X (1 .. MaxAttempts) :
          \/ \E model \in Models, tier \in 0 .. MaxTier :
                Repository!BeginProviderAttempt(client, r, b, model, tier)
          \/ \E known \in BOOLEAN : Repository!CommitConversationResult(client, r, b, known)
          \/ Repository!FailProviderAttempt(client, r, b)
  <2>1. Repository!Attempt
    <3>1. ASSUME NEW client, NEW key, NEW c, NEW r, NEW explicit, NEW created,
                 Repository!CreateTurn(client, key, c, r, explicit, created)
          PROVE  FALSE
      BY <1>2, <3>1 DEF Repository!CreateTurn
    <3>2. ASSUME NEW client, NEW previous, NEW r, NEW explicit,
                 Repository!ContinueTurn(client, previous, r, explicit)
          PROVE  FALSE
      BY <1>2, <3>2 DEF Repository!ContinueTurn
    <3>3. ~Repository!Turn
      BY <3>1, <3>2 DEF Repository!Turn
    <3>4. \A time : ~Repository!DeleteExpiredSessions(time)
      BY <1>2 DEF Repository!DeleteExpiredSessions
    <3>5. ~Repository!Tick /\ ~UNCHANGED Repository!vars
      BY <1>2 DEF Repository!Tick, Repository!vars
    <3> QED BY <3>3, <3>4, <3>5 DEF Repository!Next
  <2> QED BY <1>2, <2>1 DEF Repository!Attempt, Repository!RecordAttemptSavings,
                            Repository!RaiseConversationFloor, Repository!Tiers
<1>4. ASSUME NEW model \in Models, NEW tier \in 0 .. MaxTier,
             Repository!BeginProviderAttempt(client, r, b, model, tier)
      PROVE  attempts'[a].tier >= conversations[responses[attempts'[a].response].conversation].floor
  <2>1. tier >= conversations[responses[r].conversation].floor
    BY <1>4 DEF Repository!BeginProviderAttempt, Repository!TierAccepted, Repository!ConversationOf
  <2>2. PICK row : row.response = r /\ row.tier = tier /\ attempts' = [attempts EXCEPT ![b] = row]
    BY <1>4 DEF Repository!BeginProviderAttempt
  <2>3. a = b /\ attempts'[a] = row
    BY <1>1, <2>2
  <2> QED BY <2>1, <2>2, <2>3
<1>5. ASSUME NEW result, attempts' = [attempts EXCEPT ![b] = Repository!Finished(attempts[b], result)],
             attempts[b].status # "absent"
      PROVE  FALSE
  BY <1>1, <1>5
<1>6. \A known \in BOOLEAN : ~Repository!CommitConversationResult(client, r, b, known)
  BY <1>5 DEF Repository!CommitConversationResult, Repository!LatestStarted, Repository!AttemptsOf
<1>7. ~Repository!FailProviderAttempt(client, r, b)
  BY <1>5 DEF Repository!FailProviderAttempt
<1> QED BY <1>3, <1>4, <1>6, <1>7

-----------------------------------------------------------------------------
(* The selector's theory, for Execution's selector *)

LEMMA SelectorInit == Selector!Init => SelectorInv
<1>1. Accounting!Init => Accounting!ConductorInv
  BY SelectorAssumption, Accounting!InvInit
<1> QED BY <1>1, SameSelectorTypes DEF SelectorInv

LEMMA SelectorTypes ==
    ASSUME SelectorInv
    PROVE  /\ Selector!TypeOK
           /\ now \in Nat /\ cooldown \in [Accounts -> Nat]
           /\ \A s \in Sessions : bindings[s].account \in Accounts \cup {None}
  BY SameSelectorTypes DEF SelectorInv, Accounting!ConductorInv, Selector!TypeOK, Selector!NoBinding

LEMMA ReturnsStep ==
    ASSUME SelectorInv, NEW req \in Selector!SelectRequest, NEW result, Selector!Returns(req, result)
    PROVE  SelectorInv'
<1>1. Accounting!Returns(req, result) /\ req \in Accounting!SelectRequest
  BY SameSelections DEF Selector!SelectRequest, Accounting!SelectRequest
<1>2. Accounting!ConductorInv'
  BY <1>1, SelectorAssumption, Accounting!ReturnsStep DEF SelectorInv
<1> QED BY <1>2 DEF SelectorInv

LEMMA HasEligibleStep ==
    ASSUME SelectorInv, NEW req, Selector!HasEligible(req)
    PROVE  SelectorInv'
<1>1. Accounting!HasEligible(req)
  BY SameSelections
<1>2. Accounting!ConductorInv'
  BY <1>1, SelectorAssumption, Accounting!HasEligibleStep DEF SelectorInv
<1> QED BY <1>2 DEF SelectorInv

LEMMA StandStill ==
    ASSUME SelectorInv, UNCHANGED selectorVars
    PROVE  SelectorInv'
<1>1. Accounting!ConductorInv'
  BY DEF SelectorInv, selectorVars, Accounting!ConductorInv, Accounting!TypeOK, Accounting!Sortings,
         Accounting!Rested, Accounting!Rests
<1> QED BY <1>1 DEF SelectorInv

LEMMA ReportSuccessStep ==
    ASSUME SelectorInv, NEW session \in Sessions \cup {None}, NEW account \in Accounts \cup {None},
           ReportSuccess(session, account)
    PROVE  SelectorInv'
<1>1. CASE UNCHANGED selectorVars
  BY <1>1, StandStill
<1>2. CASE account # None /\ session # None /\ Selector!ReportSuccess(session, account)
  <2>1. Accounting!ReportSuccess(session, account)
    BY <1>2, SameReports
  <2>2. Accounting!ConductorInv'
    BY <1>2, <2>1, SelectorAssumption, Accounting!ReportSuccessStep DEF SelectorInv
  <2> QED BY <2>2 DEF SelectorInv
<1> QED BY <1>1, <1>2 DEF ReportSuccess

LEMMA ReportFailureStep ==
    ASSUME SelectorInv, NEW session \in Sessions \cup {None}, NEW account \in Accounts \cup {None},
           NEW error, ReportFailure(session, account, error)
    PROVE  SelectorInv'
<1>1. CASE UNCHANGED selectorVars
  BY <1>1, StandStill
<1>2. CASE account # None /\ Selector!ReportFailure(session, account, FailureClass(error))
  <2>1. Accounting!ReportFailure(session, account, FailureClass(error))
    BY <1>2, SameReports
  <2>2. Accounting!ConductorInv'
    BY <1>2, <2>1, SelectorAssumption, Accounting!ReportFailureStep DEF SelectorInv
  <2> QED BY <2>2 DEF SelectorInv
<1> QED BY <1>1, <1>2 DEF ReportFailure

LEMMA ReloadOrTickStep ==
    ASSUME SelectorInv, Reload \/ Tick
    PROVE  SelectorInv'
<1>1. ASSUME NEW accounts \in Pools, Selector!ReplaceAccounts(accounts) PROVE SelectorInv'
  <2>1. Accounting!ReplaceAccounts(accounts)
    BY <1>1, SameReports
  <2>2. Accounting!ConductorInv'
    BY <2>1, SelectorAssumption, Accounting!ReplaceAccountsStep DEF SelectorInv
  <2> QED BY <2>2 DEF SelectorInv
<1>2. CASE Tick
  <2>1. Accounting!Tick
    BY <1>2, SameReports DEF Tick
  <2>2. Accounting!ConductorInv'
    BY <2>1, SelectorAssumption, Accounting!TickStep DEF SelectorInv
  <2> QED BY <2>2 DEF SelectorInv
<1> QED BY <1>1, <1>2 DEF Reload

(* What a request asks the selector for. *)
LEMMA WantedType ==
    ASSUME NEW model \in Models, NEW session \in Sessions \cup {None}, NEW round \in Nat,
           NEW tried \in SUBSET Accounts
    PROVE  AccountRequest(model, session, round, tried) \in Selector!SelectRequest
  BY Assumed DEF AccountRequest, Selector!SelectRequest

(* A wait ends at a time: there is a first among those it may end at. *)
LEMMA WaitEndType ==
    ASSUME SelectorInv
    PROVE  WaitEnd \in Nat
<1> DEFINE ends == {cooldown[a] : a \in {b \in Accounts : cooldown[b] > now}} \cup {now + MaxWait}
           Less == {pair \in Nat \X Nat : pair[1] < pair[2]}
<1>1. ends \subseteq Nat /\ ends # {}
  BY SelectorTypes, Assumed
<1>2. PICK t \in ends : \A u \in ends : ~(<<u, t>> \in Less)
  <2>1. IsWellFoundedOn(Less, Nat)
    BY NatLessThanWellFounded DEF OpToRel
  <2> HIDE DEF ends, Less
  <2> QED BY <1>1, <2>1, WFMin
<1>3. \A u \in ends : t <= u
  <2> HIDE DEF ends
  <2> SUFFICES ASSUME NEW u \in ends PROVE t <= u
    OBVIOUS
  <2>1. t \in Nat /\ u \in Nat /\ <<u, t>> \notin Less
    BY <1>1, <1>2
  <2> QED BY <2>1
<1>4. WaitEnd = CHOOSE e \in ends : \A u \in ends : e <= u
  BY DEF WaitEnd
<1> HIDE DEF ends
<1>5. (CHOOSE e \in ends : \A u \in ends : e <= u) \in ends
  BY <1>3
<1> QED BY <1>1, <1>4, <1>5

-----------------------------------------------------------------------------
(* Requests call the selector as any caller may, so what is proved of it    *)
(* holds under them.                                                        *)
SelectorStep == Accounting!Call \/ UNCHANGED selectorVars

LEMMA SelectionCall ==
    ASSUME NEW req \in Selector!SelectRequest, NEW result
    PROVE  Selector!Returns(req, result) \/ Selector!HasEligible(req) => SelectorStep
<1>1. req \in Accounting!SelectRequest
  BY DEF Selector!SelectRequest, Accounting!SelectRequest
<1>2. Selector!Returns(req, result) => Accounting!Call
  BY <1>1, SameSelections DEF Accounting!Call
<1>3. Selector!HasEligible(req) => Accounting!Call
  BY <1>1, SameSelections DEF Accounting!Call
<1> QED BY <1>2, <1>3 DEF SelectorStep

LEMMA ReportCall ==
    ASSUME NEW session \in Sessions \cup {None}, NEW account \in Accounts \cup {None}, NEW error,
           ReportSuccess(session, account) \/ ReportFailure(session, account, error)
    PROVE  SelectorStep
<1>1. CASE UNCHANGED selectorVars
  BY <1>1 DEF SelectorStep
<1>2. CASE account # None /\ session # None /\ Selector!ReportSuccess(session, account)
  BY <1>2, SameReports DEF SelectorStep, Accounting!Call
<1>3. CASE /\ account # None /\ FailureClass(error) # "permanent"
           /\ Selector!ReportFailure(session, account, FailureClass(error))
  <2>1. FailureClass(error) \in {"auth", "quota", "transient"}
    BY <1>3 DEF FailureClass
  <2>2. Accounting!ReportFailure(session, account, FailureClass(error))
    BY <1>3, SameReports
  <2> QED BY <1>3, <2>1, <2>2 DEF SelectorStep, Accounting!Call
<1> QED BY <1>1, <1>2, <1>3 DEF ReportSuccess, ReportFailure

LEMMA ReloadOrTickCall == Reload \/ Tick => SelectorStep
<1>1. ASSUME NEW accounts \in Pools, Selector!ReplaceAccounts(accounts) PROVE SelectorStep
  BY <1>1, SameReports DEF SelectorStep, Accounting!Call
<1>2. Tick => SelectorStep
  BY SameReports DEF Tick, SelectorStep, Accounting!Call
<1> QED BY <1>1, <1>2 DEF Reload

LEMMA CallsOnly == SelectorStep => [Accounting!Call]_(Accounting!vars)
  BY DEF SelectorStep, selectorVars, Accounting!vars

(* Bindings *)
LEMMA SelectorTimely ==
    /\ Selector!Init => Accounting!Timely
    /\ SelectorInv /\ Accounting!Timely /\ SelectorStep => Accounting!Timely'
<1>1. Selector!Init => Accounting!Timely
  BY SameSelectorTypes, SelectorAssumption, Accounting!TimelyInit
<1>2. SelectorInv => Accounting!TypeOK
  BY DEF SelectorInv, Accounting!ConductorInv
<1> QED BY <1>1, <1>2, CallsOnly, SelectorAssumption, Accounting!TimelyStep

LEMMA SelectorKeeps ==
    ASSUME SelectorInv, Accounting!Timely, SelectorStep, NEW s \in Sessions, Selector!Alive(s)
    PROVE  \/ bindings'[s] = Selector!NoBinding
           \/ /\ bindings'[s].account = bindings[s].account
              /\ bindings'[s].model = bindings[s].model
              /\ bindings'[s].expires >= bindings[s].expires
<1>1. Accounting!Kept
  BY CallsOnly, SelectorAssumption, Accounting!KeptStep DEF SelectorInv
<1> QED BY <1>1 DEF Accounting!Kept, Accounting!Alive, Accounting!NoBinding,
                    Selector!Alive, Selector!NoBinding

(* Rests *)
RestsBeforeSelection == [][
    \A req \in Selector!SelectRequest, a \in Accounts :
        Selector!Returns(req, Selector!Granted(a)) /\ failed[a] >= 0 =>
            \E rest \in {AuthCooldown, QuotaCooldown, TransientCooldown} : now >= failed[a] + rest]_selectorVars

LEMMA SelectorRests ==
    ASSUME SelectorInv, NEW req \in Selector!SelectRequest, NEW a \in Accounts,
           Selector!Returns(req, Selector!Granted(a)), failed[a] >= 0
    PROVE  \E rest \in {AuthCooldown, QuotaCooldown, TransientCooldown} : now >= failed[a] + rest
<1>1. /\ req \in Accounting!SelectRequest
      /\ Accounting!Returns(req, Accounting!Granted(a))
  BY SameSelections DEF Selector!SelectRequest, Accounting!SelectRequest,
                        Selector!Granted, Accounting!Granted
<1>2. \E rest \in Accounting!Rests : now >= failed[a] + rest
  BY <1>1, SelectorAssumption, Accounting!SelectedRested DEF SelectorInv
<1> QED BY <1>2 DEF Accounting!Rests

(* Turns *)
LEMMA SelectorTurns ==
    /\ Selector!Init => Accounting!ShareInv
    /\ SelectorInv /\ Accounting!ShareInv /\ SelectorStep => Accounting!ShareInv'
    /\ SelectorInv /\ Accounting!ShareInv => Selector!FairShare
<1>1. Selector!Init => Accounting!ShareInv
  BY SameSelectorTypes, SelectorAssumption, Accounting!ShareInvInit
<1>2. SelectorInv /\ Accounting!ShareInv /\ SelectorStep => Accounting!ShareInv'
  BY CallsOnly, SelectorAssumption, Accounting!ShareInvStep DEF SelectorInv
<1>3. SelectorInv /\ Accounting!ShareInv => Accounting!FairShare
  BY SelectorAssumption, Accounting!SharesAreFair DEF SelectorInv, Accounting!ConductorInv
<1>4. Accounting!FairShare => Selector!FairShare
  BY DEF Accounting!FairShare, Selector!FairShare, Accounting!Share, Selector!Share
<1> QED BY <1>1, <1>2, <1>3, <1>4
=============================================================================
