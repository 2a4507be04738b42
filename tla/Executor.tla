------------------------------ MODULE Executor ------------------------------
(***************************************************************************)
(* Requests that are not streamed (internal/executor/service.go): a single *)
(* attempt for an automatic request, and for a request that names a model  *)
(* rounds of attempts over the accounts (internal/executor/accounts.go).   *)
(* Unlike a stream, every call uses the request's own context: once the    *)
(* caller is gone, transactions fail.                                      *)
(*                                                                         *)
(* The policy chooses any model at or above the floor it is given; the     *)
(* upstream answers or fails with any class of error at any time.          *)
(***************************************************************************)
EXTENDS Execution

CONSTANT MaxRounds        \* maxAccountRounds, 32

ASSUME ExecutorAssumption == MaxRounds \in Nat

VARIABLE request          \* request -> its goroutine

vars == <<request, storeVars, selectorVars>>

-----------------------------------------------------------------------------
(* Where a goroutine stands, in the order of Execute. *)
Running == {"read", "select", "wait", "begin", "call", "fail", "commit", "saved", "praise", "report"}

NoRequest == [pc |-> "idle", client |-> None, session |-> None, named |-> None, model |-> None,
              round |-> 0, tried |-> {}, progressed |-> FALSE, until |-> 0,
              attempt |-> 0, account |-> None, error |-> None, gone |-> FALSE,
              answered |-> FALSE, calls |-> [a \in Accounts |-> 0]]

Goroutine ==
    [pc : Running \cup {"idle", "ended"}, client : Clients \cup {None},
     session : Sessions \cup {None}, named : Models \cup {None},
     model : Models \cup {None},            \* the decision
     round : 0 .. MaxRounds + 1, tried : SUBSET Accounts, progressed : BOOLEAN,
     until : Nat, attempt : 0 .. MaxAttempts, account : Accounts \cup {None},
     error : Errors \cup {None}, gone : BOOLEAN,
     answered : BOOLEAN,                    \* whether Execute returned an Output
     calls : [Accounts -> 0 .. MaxAttempts]]  \* history: upstream calls by account

TypeOK == Repository!TypeOK /\ Selector!TypeOK /\ request \in [Responses -> Goroutine]

Init ==
    /\ Repository!Init /\ Selector!Init
    /\ request = [r \in Responses |-> NoRequest]

-----------------------------------------------------------------------------
Current(r) == <<r, request[r].attempt>>

At(r, pc) == request[r].pc = pc

Goto(r, pc) == request' = [request EXCEPT ![r].pc = pc]

(* Execute returns: of its variables only the history stays. *)
Returned(r, answered) ==
    [NoRequest EXCEPT !.pc = "ended", !.client = request[r].client, !.attempt = request[r].attempt,
                      !.gone = request[r].gone, !.answered = answered, !.calls = request[r].calls]

Return(r) == request' = [request EXCEPT ![r] = Returned(r, FALSE)]

(* executeDecision returns an error: the caller's unless accounts are left. *)
Fail(r, error) ==
    IF request[r].account = None THEN Return(r)
    ELSE request' = [request EXCEPT ![r].pc = "report", ![r].error = error]

(* An ended context makes a transaction fail with it. *)
StorageErrors(r) ==
    (IF StorageFails THEN {"other"} ELSE {}) \cup (IF request[r].gone THEN {"canceled"} ELSE {})

Start(r, client, session, named) ==
    /\ At(r, "idle")
    /\ StartTurn(r, client, named)
    /\ request' = [request EXCEPT ![r] = [NoRequest EXCEPT
           !.pc = "read", !.client = client, !.named = named,
           !.session = IF named = None THEN None ELSE session]]
    /\ UNCHANGED selectorVars

(* Without a pin, a classified request starts from T0 and an unclassified   *)
(* one from the fallback tier, whatever floor the conversation has.         *)
DecisionFloor(row) ==
    IF row.pin = Repository!NoPin THEN 0 ELSE Repository!Maximum(row.pin.tier, row.floor)

Decide(r) ==
    LET named == request[r].named
    IN  /\ At(r, "read")
        /\ \/ /\ named = None
              /\ \E model \in Models \ ExplicitOnly :
                    /\ TierOf[model] >= DecisionFloor(TurnOf(r))
                    /\ request' = [request EXCEPT ![r].pc = "begin", ![r].model = model]
           \/ /\ named # None /\ TierOf[named] >= TurnOf(r).floor
              /\ request' = [request EXCEPT ![r].pc = "select", ![r].model = named]
           \/ Return(r)  \* nothing is eligible, or the read failed
        /\ UNCHANGED <<storeVars, selectorVars>>

-----------------------------------------------------------------------------
(* executeNamed: rounds over the accounts *)

Wanted(r) == AccountRequest(request[r].model, request[r].session, request[r].round, request[r].tried)

Selects(r, result) == Selector!Returns(Wanted(r), result)

NewPass(r, round) ==
    [request[r] EXCEPT !.pc = "select", !.round = round, !.tried = {}, !.progressed = FALSE]

(* An account; where none was found in this pass a wait, or the end; or the *)
(* next round.  To select looks at the accounts' directory, which may fail. *)
SelectAccount(r) ==
    /\ At(r, "select") /\ request[r].round <= MaxRounds
    /\ \/ \E account \in Accounts :
             /\ Selects(r, Selector!Granted(account))
             /\ request' = [request EXCEPT ![r].pc = "begin", ![r].account = account,
                                           ![r].progressed = TRUE]
       \/ /\ Selects(r, Selector!Refused("unavailable")) /\ ~request[r].progressed
          /\ request' = [request EXCEPT ![r].pc = "wait", ![r].until = WaitEnd]
       \/ /\ ~request[r].progressed
          /\ \/ Selects(r, Selector!Refused("none"))
             \/ ReloadFails /\ UNCHANGED selectorVars
          /\ Return(r)
       \/ /\ request[r].progressed
          /\ \/ \E kind \in {"unavailable", "none"} : Selects(r, Selector!Refused(kind))
             \/ ReloadFails /\ UNCHANGED selectorVars
          /\ request' = [request EXCEPT ![r] = NewPass(r, request[r].round + 1)]
    /\ UNCHANGED storeVars

NoMoreRounds(r) ==
    /\ At(r, "select") /\ request[r].round > MaxRounds
    /\ Return(r)
    /\ UNCHANGED <<storeVars, selectorVars>>

(* mutant: a wait that ends with the cooldown waits for the next one *)
WaitCooldown_Strict(r) ==
    /\ At(r, "wait")
    /\ \/ /\ now > request[r].until
          /\ request' = [request EXCEPT ![r] = [NewPass(r, request[r].round) EXCEPT !.until = 0]]
       \/ request[r].gone /\ Return(r)
    /\ UNCHANGED <<storeVars, selectorVars>>

(* waitCooldown: the timer, or a caller who is gone. *)
WaitCooldown(r) ==
    /\ At(r, "wait")
    /\ \/ /\ now >= request[r].until
          /\ request' = [request EXCEPT ![r] = [NewPass(r, request[r].round) EXCEPT !.until = 0]]
       \/ request[r].gone /\ Return(r)
    /\ UNCHANGED <<storeVars, selectorVars>>

(* attemptContext or protocolAdapter fails: only the first is reported. *)
Unusable(r) ==
    /\ At(r, "begin") /\ request[r].account # None /\ Bounded(r)
    /\ \/ UNCHANGED selectorVars
       \/ ReportFailure(request[r].session, request[r].account, "authentication")
    /\ Return(r)
    /\ UNCHANGED storeVars

(* mutant: an account that failed is tried again in the same round *)
Report_TriesAgain(r) ==
    /\ At(r, "report")
    /\ ReportFailure(request[r].session, request[r].account, request[r].error)
    /\ IF FailureClass(request[r].error) = "permanent" THEN Return(r)
       ELSE request' = [request EXCEPT ![r].pc = "select", ![r].account = None, ![r].error = None]
    /\ UNCHANGED storeVars

Report(r) ==
    /\ At(r, "report")
    /\ ReportFailure(request[r].session, request[r].account, request[r].error)
    /\ IF FailureClass(request[r].error) = "permanent" THEN Return(r)
       ELSE request' = [request EXCEPT ![r].pc = "select", ![r].account = None, ![r].error = None,
                                       ![r].tried = @ \cup {request[r].account}]
    /\ UNCHANGED storeVars

-----------------------------------------------------------------------------
(* executeDecision *)

BeginAttempt(r) ==
    /\ At(r, "begin") /\ Bounded(r)
    /\ \/ /\ Repository!BeginProviderAttempt(
                 request[r].client, r, NextAttempt(r), request[r].model, TierOf[request[r].model])
          /\ request' = [request EXCEPT ![r].pc = "call", ![r].attempt = NextAttempt(r)[2]]
       \/ /\ \E error \in StorageErrors(r) \cup (IF Outgrown(r, request[r].model) THEN {"other"} ELSE {}) :
                Fail(r, error)
          /\ UNCHANGED storeVars
    /\ UNCHANGED selectorVars

(* Compression and adapter.Execute: the answer, or an error. *)
Call(r) ==
    /\ At(r, "call")
    /\ \/ request' = [request EXCEPT ![r].pc = "commit",
                                     ![r].calls = [a \in Accounts |->
                                         IF a = request[r].account THEN @[a] + 1 ELSE @[a]]]
       \/ \E error \in Breaks \cup (IF request[r].gone THEN {"canceled"} ELSE {}) :
             request' = [request EXCEPT ![r].pc = "fail", ![r].error = error,
                                        ![r].calls = [a \in Accounts |->
                                            IF a = request[r].account THEN @[a] + 1 ELSE @[a]]]
    /\ UNCHANGED <<storeVars, selectorVars>>

(* Where the failure cannot be recorded the errors are joined: a provider's *)
(* decides the class, and a caller who is gone that of any other.           *)
Joined(error, other) == IF error = "other" THEN other ELSE error

FailAttempt(r) ==
    /\ At(r, "fail")
    /\ \/ /\ Repository!FailProviderAttempt(request[r].client, r, Current(r))
          /\ Fail(r, request[r].error)
       \/ /\ \E other \in StorageErrors(r) : Fail(r, Joined(request[r].error, other))
          /\ UNCHANGED storeVars
    /\ UNCHANGED selectorVars

(* mutant: the answer is returned although it could not be stored *)
CommitResult_Unchecked(r) ==
    /\ At(r, "commit")
    /\ \/ \E a \in Repository!AttemptsOf(r), known \in BOOLEAN :
             Repository!CommitConversationResult(request[r].client, r, a, known)
       \/ StorageErrors(r) # {} /\ UNCHANGED storeVars
    /\ Goto(r, "saved")
    /\ UNCHANGED selectorVars

(* The store credits the latest started attempt.  After an error the        *)
(* attempt stays started and the answer is lost.                            *)
CommitResult(r) ==
    /\ At(r, "commit")
    /\ \/ /\ \E a \in Repository!AttemptsOf(r), known \in BOOLEAN :
                Repository!CommitConversationResult(request[r].client, r, a, known)
          /\ Goto(r, "saved")
       \/ /\ \E error \in StorageErrors(r) \cup (IF Outgrown(r, request[r].model) THEN {"other"} ELSE {}) :
                Fail(r, error)
          /\ UNCHANGED storeVars
    /\ UNCHANGED selectorVars

(* recordSavings, whose error is only traced *)
RecordSavings(r) ==
    /\ At(r, "saved")
    /\ \/ Repository!RecordAttemptSavings(request[r].client, r, Current(r))
       \/ StorageErrors(r) # {} /\ UNCHANGED storeVars
    /\ Goto(r, "praise")
    /\ UNCHANGED selectorVars

Answer(r) ==
    /\ At(r, "praise")
    /\ ReportSuccess(request[r].session, request[r].account)
    /\ request' = [request EXCEPT ![r] = Returned(r, TRUE)]
    /\ UNCHANGED storeVars

-----------------------------------------------------------------------------
HangUp(r) ==
    /\ r \in Impatient /\ request[r].pc \in Running /\ ~request[r].gone
    /\ request' = [request EXCEPT ![r].gone = TRUE]
    /\ UNCHANGED <<storeVars, selectorVars>>

Arrive == \E r \in Responses, client \in Clients, session \in Sessions \cup {None}, named \in Asks :
    Start(r, client, session, named)

(* A step of the goroutine of r. *)
Step(r) ==
    \/ Decide(r) \/ SelectAccount(r) \/ NoMoreRounds(r) \/ WaitCooldown(r) \/ Unusable(r)
    \/ BeginAttempt(r) \/ Call(r) \/ FailAttempt(r) \/ CommitResult(r) \/ RecordSavings(r)
    \/ Answer(r) \/ Report(r)

Next ==
    \/ Arrive
    \/ (Reload \/ Tick) /\ UNCHANGED <<request, storeVars>>
    \/ \E r \in Responses : Step(r) \/ HangUp(r)

(* A goroutine keeps running, the clock ticks, and the upstream answers,    *)
(* fails or is given up, as every HTTP exchange eventually does.            *)
Fairness ==
    /\ WF_vars(Tick /\ UNCHANGED <<request, storeVars>>)
    /\ \A r \in Responses : WF_vars(Step(r))

Spec == Init /\ [][Next]_vars /\ Fairness

-----------------------------------------------------------------------------
(* Properties *)

Ended(r) == request[r].pc = "ended"
Stored(r) == responses[r].status = "completed"

(* "Output is returned only after the encrypted result and conversation pin *)
(* have committed successfully" (Output), and a stored result is returned:  *)
(* it is credited to the attempt that gave it, even where the failures of   *)
(* earlier attempts could not be recorded and they still count as started.  *)
OutputIsStored == \A r \in Responses : Ended(r) =>
    /\ request[r].answered <=> Stored(r)
    /\ Stored(r) => attempts[Current(r)].status = "succeeded"

(* request_retry: an account is called at most once in every round it       *)
(* admits, whatever the waits for cooldowns, reloads and other requests     *)
(* do to the rounds.                                                        *)
CallsWithinRetryLimit == \A r \in Responses, i \in DOMAIN pool :
    request[r].calls[pool[i].id] <= Selector!RetryLimit(pool[i]) + 1

(* "ReportFailure cools an account down and may release its session         *)
(* binding" (conductor.go): the binding of a session that is alive is       *)
(* released only by the report of the account it is bound to.               *)
ReleasesItsOwnBinding == [][
    \A s \in Sessions : Selector!Alive(s) /\ bindings'[s] = Selector!NoBinding =>
        \E r \in Responses : request'[r] # request[r] /\ request[r].account = bindings[s].account]_vars
=============================================================================
