--------------------------- MODULE StreamExecutor ---------------------------
(***************************************************************************)
(* Streaming requests (internal/executor/stream.go) over the conversation  *)
(* store and the account selector.  Every request is a goroutine: its      *)
(* local variables are the record stream[r], and each transaction, each    *)
(* selector call and each exchange with the upstream or the caller is an   *)
(* action, because the other requests run in between.                      *)
(*                                                                         *)
(* The policy (router.Decide) is taken to choose any model at or above the *)
(* floor it is given, and to rank the others in any order.  The upstream   *)
(* may produce output, end, or break with any class of error at any time;  *)
(* the caller may hang up at any time; with StorageFails a transaction may *)
(* fail and roll back.                                                     *)
(***************************************************************************)
EXTENDS Execution

CONSTANT Controls         \* values of X-Mindctl-Allow-Escalation, None if absent

ASSUME StreamExecutorAssumption ==
    Controls \subseteq BOOLEAN \cup {None} /\ None \notin {"completed", "error"}

VARIABLE stream           \* request -> its goroutine

vars == <<stream, storeVars, selectorVars>>

-----------------------------------------------------------------------------
RetryableStreamError(error) == error \in {"retryable", "rate_limit", "unexpected"}

(* Where a goroutine stands, in the order of Stream. *)
Running == {"read", "next", "wait", "begin", "drain", "commit", "saved", "complete",
            "report", "settle", "abandon", "retry", "fallback", "raise", "terminal"}

NoStream == [pc |-> "idle", client |-> None, session |-> None, named |-> None, floor |-> 0,
             decisions |-> <<>>, tried |-> [m \in Models |-> {}], expanded |-> FALSE,
             until |-> 0, attempt |-> 0, account |-> None, error |-> None,
             allow |-> FALSE, emitted |-> FALSE, gone |-> FALSE, told |-> None, lost |-> FALSE]

Goroutine ==
    [pc : Running \cup {"idle", "ended"}, client : Clients \cup {None},
     session : Sessions \cup {None}, named : Models \cup {None}, floor : 0 .. MaxTier,
     decisions : Seq(Models),              \* the candidates left, the current one first
     tried : [Models -> SUBSET Accounts], expanded : BOOLEAN,
     until : Nat, attempt : 0 .. MaxAttempts, account : Accounts \cup {None},
     error : Errors \cup {None}, emitted : BOOLEAN, gone : BOOLEAN,
     allow : BOOLEAN,                      \* streamEscalationAllowed
     told : {None, "completed", "error"},  \* the terminal event the caller got
     lost : BOOLEAN]                       \* history: a failure could not be recorded

TypeOK == Repository!TypeOK /\ Selector!TypeOK /\ stream \in [Responses -> Goroutine]

Init ==
    /\ Repository!Init /\ Selector!Init
    /\ stream = [r \in Responses |-> NoStream]

-----------------------------------------------------------------------------
Candidate(r) == Head(stream[r].decisions)
Current(r) == <<r, stream[r].attempt>>

(* The goroutine of r is at one of the places pcs. *)
At(r, pcs) == stream[r].pc \in pcs

Goto(r, pc) == stream' = [stream EXCEPT ![r].pc = pc]

(* Stream returns: of its variables only the history stays. *)
Returned(r) == [stream[r] EXCEPT !.pc = "ended", !.session = None, !.floor = 0, !.decisions = <<>>,
                                 !.tried = NoStream.tried, !.expanded = FALSE, !.until = 0,
                                 !.account = None, !.error = None]
Return(r) == stream' = [stream EXCEPT ![r] = Returned(r)]

(* The attempt fails; a selected account is reported first. *)
Break(r, error) ==
    stream' = [stream EXCEPT ![r].pc = IF stream[r].account = None THEN "settle" ELSE "report",
                             ![r].error = error]

(* A transaction can fail for a request whose context has ended, unless it  *)
(* is detached from it (persistenceContext), and when the storage fails.    *)
Refusable(r) == StorageFails \/ stream[r].gone

-----------------------------------------------------------------------------
(* streamDecision: conversations.Start writes the turn, then reads it back. *)
Start(r, client, session, named, control) ==
    /\ At(r, {"idle"})
    /\ StartTurn(r, client, named)
    /\ stream' = [stream EXCEPT ![r] =
           [NoStream EXCEPT !.pc = "read", !.client = client, !.session = session,
                           !.named = named,
                           !.allow = IF control = None THEN named = None ELSE control]]
    /\ UNCHANGED selectorVars

(* Unlike Execute, Stream honours a stored floor that comes without a pin.  *)
DecisionFloor(row) == Repository!Maximum(row.pin.tier, row.floor)

(* The models a decision for the model initial may fall back to. *)
Fallbacks(initial) ==
    {m \in Models \ (ExplicitOnly \cup {initial}) : TierOf[m] >= TierOf[initial]}

(* streamCandidates: an automatic request may open its first choice twice. *)
Candidates(r, initial, rest) ==
    IF stream[r].named # None \/ ~stream[r].allow THEN <<initial>> ELSE <<initial, initial>> \o rest

(* resume and Decide on the row as it was read. *)
Decide(r) ==
    LET named == stream[r].named
        floor == DecisionFloor(TurnOf(r))
        stored == TurnOf(r).floor
    IN  /\ At(r, {"read"})
        /\ \/ \E initial \in (IF named # None THEN {named} ELSE Models \ ExplicitOnly) :
                 /\ TierOf[initial] >= (IF named # None THEN stored ELSE floor)
                 /\ \E rest \in SetToAllKPermutations(
                                     IF named = None /\ stream[r].allow THEN Fallbacks(initial) ELSE {}) :
                       stream' = [stream EXCEPT ![r].pc = IF named # None THEN "next" ELSE "begin",
                                                ![r].floor = stored,
                                                ![r].decisions = Candidates(r, initial, rest)]
           \/ Return(r)  \* nothing is eligible, or the read failed
    /\ UNCHANGED <<storeVars, selectorVars>>

-----------------------------------------------------------------------------
(* Accounts of a request that names its model *)

Wanted(r) ==
    AccountRequest(Candidate(r), stream[r].session, 0, stream[r].tried[Candidate(r)])

(* accountTried, Select and what it returns; after ErrNone the next         *)
(* candidate's turn comes.  A directory that cannot be read ends the stream.*)
SelectAccount(r) ==
    /\ At(r, {"next"}) /\ stream[r].decisions # <<>>
    /\ \/ \E account \in Accounts :
             /\ Selector!Returns(Wanted(r), Selector!Granted(account))
             /\ stream' = [stream EXCEPT ![r].pc = "begin", ![r].account = account,
                                         ![r].tried[Candidate(r)] = @ \cup {account}]
       \/ /\ Selector!Returns(Wanted(r), Selector!Refused("unavailable"))
          /\ stream' = [stream EXCEPT ![r].pc = "wait", ![r].until = WaitEnd]
       \/ /\ Selector!Returns(Wanted(r), Selector!Refused("none"))
          /\ stream' = [stream EXCEPT ![r].decisions = Tail(@), ![r].tried[Candidate(r)] = {}]
       \/ ReloadFails /\ Return(r) /\ UNCHANGED selectorVars
    /\ UNCHANGED storeVars

(* mutant: a wait that ends with the cooldown waits for the next one *)
WaitCooldown_Strict(r) ==
    /\ At(r, {"wait"})
    /\ \/ now > stream[r].until /\ Goto(r, "next")
       \/ stream[r].gone /\ Return(r)
    /\ UNCHANGED <<storeVars, selectorVars>>

(* waitCooldown: the timer, or a caller who is gone. *)
WaitCooldown(r) ==
    /\ At(r, {"wait"})
    /\ \/ now >= stream[r].until /\ Goto(r, "next")
       \/ stream[r].gone /\ Return(r)
    /\ UNCHANGED <<storeVars, selectorVars>>

NoCandidate(r) ==
    /\ At(r, {"next"}) /\ stream[r].decisions = <<>>
    /\ Return(r)
    /\ UNCHANGED <<storeVars, selectorVars>>

(* attemptContext or protocolAdapter fails: only the first is reported. *)
Unusable(r) ==
    /\ At(r, {"begin"}) /\ stream[r].account # None /\ Bounded(r)
    /\ UNCHANGED selectorVars \/ ReportFailure(stream[r].session, stream[r].account, "authentication")
    /\ Return(r)
    /\ UNCHANGED storeVars

-----------------------------------------------------------------------------
(* One attempt *)

(* BeginAttempt uses the request's context; a decision the conversation has *)
(* outgrown is refused as well.                                             *)
BeginAttempt(r) ==
    /\ At(r, {"begin"}) /\ Bounded(r)
    /\ \/ /\ Repository!BeginProviderAttempt(
                 stream[r].client, r, NextAttempt(r), Candidate(r), TierOf[Candidate(r)])
          /\ stream' = [stream EXCEPT ![r].pc = "drain", ![r].attempt = NextAttempt(r)[2]]
       \/ /\ Refusable(r) \/ Outgrown(r, Candidate(r))
          /\ Return(r)
          /\ UNCHANGED storeVars
    /\ UNCHANGED selectorVars

(* Compression, writer.Start, adapter.Stream and drainStream: the attempt   *)
(* is abandoned before it opens, shows its first visible event, reaches the *)
(* end of a successful result, or breaks: by an upstream error or by an     *)
(* event that cannot be written because the caller is gone.                 *)
Drain(r) ==
    /\ At(r, {"drain"})
    /\ \/ ~stream[r].emitted /\ Goto(r, "abandon")
       \/ ~stream[r].emitted /\ stream' = [stream EXCEPT ![r].emitted = TRUE]
       \/ Goto(r, "commit")
       \/ \E error \in Breaks : Break(r, error)
       \/ stream[r].gone /\ \E error \in {"canceled", "other"} : Break(r, error)
    /\ UNCHANGED <<storeVars, selectorVars>>

(* mutant: an error of the commit is only logged *)
CommitResult_Unchecked(r) ==
    /\ At(r, {"commit"})
    /\ \/ \E a \in Repository!AttemptsOf(r), known \in BOOLEAN :
             Repository!CommitConversationResult(stream[r].client, r, a, known)
       \/ StorageFails /\ UNCHANGED storeVars
    /\ Goto(r, "saved")
    /\ UNCHANGED selectorVars

(* CommitResult, detached from the request: whichever attempt the store     *)
(* takes for the latest is credited.                                        *)
CommitResult(r) ==
    /\ At(r, {"commit"})
    /\ \/ /\ \E a \in Repository!AttemptsOf(r), known \in BOOLEAN :
                Repository!CommitConversationResult(stream[r].client, r, a, known)
          /\ Goto(r, "saved")
       \/ /\ StorageFails \/ Outgrown(r, Candidate(r))
          /\ Break(r, "other")
          /\ UNCHANGED storeVars
    /\ UNCHANGED selectorVars

(* recordSavings, whose error is only traced, then selector.ReportSuccess *)
RecordSavings(r) ==
    /\ At(r, {"saved"})
    /\ \/ Repository!RecordAttemptSavings(stream[r].client, r, Current(r))
       \/ StorageFails /\ UNCHANGED storeVars
    /\ Goto(r, "complete")
    /\ ReportSuccess(stream[r].session, stream[r].account)

(* The completion is held back until the result is stored. *)
Complete(r) ==
    /\ At(r, {"complete"})
    /\ \/ stream' = [stream EXCEPT ![r] = [Returned(r) EXCEPT !.told = "completed"]]
       \/ stream[r].gone /\ Return(r)
    /\ UNCHANGED <<storeVars, selectorVars>>

-----------------------------------------------------------------------------
(* After a failed attempt *)

Report(r) ==
    /\ At(r, {"report"})
    /\ ReportFailure(stream[r].session, stream[r].account, stream[r].error)
    /\ Goto(r, "settle")
    /\ UNCHANGED storeVars

(* mutant: the failure of an abandoned attempt is not recorded *)
Abandon_Unrecorded(r) ==
    /\ At(r, {"abandon"})
    /\ Return(r)
    /\ UNCHANGED <<storeVars, selectorVars>>

Abandon(r) ==
    /\ At(r, {"abandon"})
    /\ \/ Repository!FailProviderAttempt(stream[r].client, r, Current(r)) /\ Return(r)
       \/ /\ StorageFails
          /\ stream' = [stream EXCEPT ![r] = [Returned(r) EXCEPT !.lost = TRUE]]
          /\ UNCHANGED storeVars
    /\ UNCHANGED selectorVars

(* failStreamAttempt, detached from the request *)
FailAttempt(r, pc) ==
    \/ Repository!FailProviderAttempt(stream[r].client, r, Current(r)) /\ Goto(r, pc)
    \/ /\ StorageFails
       /\ stream' = [stream EXCEPT ![r].pc = pc, ![r].lost = TRUE]
       /\ UNCHANGED storeVars

(* mutant: output does not rule out another attempt *)
Settle_RetriesAlways(r) ==
    /\ At(r, {"settle"})
    /\ FailAttempt(r, "retry")
    /\ UNCHANGED selectorVars

(* mutant: Stream returns when the failure cannot be recorded *)
Settle_GivesUp(r) ==
    /\ At(r, {"settle"})
    /\ \/ /\ Repository!FailProviderAttempt(stream[r].client, r, Current(r))
          /\ Goto(r, IF stream[r].emitted THEN "raise" ELSE "retry")
       \/ StorageFails /\ Return(r) /\ UNCHANGED storeVars
    /\ UNCHANGED selectorVars

Settle(r) ==
    /\ At(r, {"settle"})
    /\ FailAttempt(r, IF stream[r].emitted THEN "raise" ELSE "retry")
    /\ UNCHANGED selectorVars

(* mutant: the floor stays where it is *)
RaiseFloor_Skipped(r) ==
    /\ At(r, {"raise"})
    /\ Goto(r, "terminal")
    /\ UNCHANGED <<storeVars, selectorVars>>

RaiseFloor(r) ==
    /\ At(r, {"raise"})
    /\ \/ Repository!RaiseConversationFloor(stream[r].client, r, Current(r)) /\ Goto(r, "terminal")
       \/ /\ StorageFails
          /\ stream' = [stream EXCEPT ![r].pc = "terminal", ![r].lost = TRUE]
          /\ UNCHANGED storeVars
    /\ UNCHANGED selectorVars

TerminalError(r) ==
    /\ At(r, {"terminal"})
    /\ \/ stream' = [stream EXCEPT ![r] = [Returned(r) EXCEPT !.told = "error"]]
       \/ stream[r].gone /\ Return(r)
    /\ UNCHANGED <<storeVars, selectorVars>>

(* mutant: explicit-only models escalate too *)
Additional_ExplicitOnlyToo(r) ==
    LET initial == stream[r].named
    IN  IF initial = None \/ ~stream[r].allow THEN {}
        ELSE {m \in Fallbacks(initial) : TierOf[m] >= stream[r].floor}

(* explicitStreamCandidates: what an explicit request may escalate to *)
Additional(r) ==
    LET initial == stream[r].named
    IN  IF initial = None \/ ~stream[r].allow \/ initial \in ExplicitOnly THEN {}
        ELSE {m \in Fallbacks(initial) : TierOf[m] >= stream[r].floor}

Advanced(r, decisions) ==
    [stream[r] EXCEPT !.pc = IF stream[r].named = None THEN "begin" ELSE "next",
                      !.decisions = decisions, !.account = None, !.error = None]

(* Nothing was visible yet: another account may serve the same model ...    *)
RetryAccount(r) ==
    /\ At(r, {"retry"}) /\ stream[r].account # None /\ RetryableStreamError(stream[r].error)
    /\ Selector!HasEligible(Wanted(r))
    /\ IF Selector!Eligible(Wanted(r)) # {} /\ ~Selector!Exhausted(Wanted(r))
       THEN stream' = [stream EXCEPT ![r] = Advanced(r, stream[r].decisions)]
       ELSE Goto(r, "fallback")
    /\ UNCHANGED storeVars

(* ... or the next candidate does, or once the models that an explicit      *)
(* request may escalate to.                                                 *)
RetryModel(r) ==
    /\ \/ At(r, {"fallback"})
       \/ At(r, {"retry"}) /\ (stream[r].account = None \/ ~RetryableStreamError(stream[r].error))
    /\ \/ /\ ~RetryableStreamError(stream[r].error)
          /\ Return(r)
       \/ /\ RetryableStreamError(stream[r].error) /\ Len(stream[r].decisions) > 1
          /\ stream' = [stream EXCEPT ![r] = Advanced(r, Tail(stream[r].decisions))]
       \/ /\ RetryableStreamError(stream[r].error) /\ Len(stream[r].decisions) = 1
          /\ \/ Return(r)
             \/ /\ ~stream[r].expanded
                /\ \E rest \in SetToAllKPermutations(Additional(r)) \ {<<>>} :
                      stream' = [stream EXCEPT ![r] = [Advanced(r, rest) EXCEPT !.expanded = TRUE]]
    /\ UNCHANGED <<storeVars, selectorVars>>

-----------------------------------------------------------------------------
HangUp(r) ==
    /\ r \in Impatient /\ At(r, Running) /\ ~stream[r].gone
    /\ stream' = [stream EXCEPT ![r].gone = TRUE]
    /\ UNCHANGED <<storeVars, selectorVars>>

Arrive == \E r \in Responses, client \in Clients, session \in Sessions \cup {None},
             named \in Asks, control \in Controls : Start(r, client, session, named, control)

(* A step of the goroutine of r. *)
Step(r) ==
    \/ Decide(r) \/ SelectAccount(r) \/ WaitCooldown(r) \/ NoCandidate(r) \/ Unusable(r)
    \/ BeginAttempt(r) \/ Drain(r) \/ CommitResult(r) \/ RecordSavings(r) \/ Complete(r)
    \/ Report(r) \/ Abandon(r) \/ Settle(r) \/ RaiseFloor(r) \/ TerminalError(r)
    \/ RetryAccount(r) \/ RetryModel(r)

Next ==
    \/ Arrive
    \/ (Reload \/ Tick) /\ UNCHANGED <<stream, storeVars>>
    \/ \E r \in Responses : Step(r) \/ HangUp(r)

(* A goroutine keeps running, the clock ticks, and the upstream answers,    *)
(* breaks off or is given up, as every HTTP exchange eventually does.       *)
Fairness == WF_vars(Tick /\ UNCHANGED <<stream, storeVars>>) /\ \A r \in Responses : WF_vars(Step(r))

Spec == Init /\ [][Next]_vars /\ Fairness

-----------------------------------------------------------------------------
(* Properties *)

Ended(r) == stream[r].pc = "ended"
Stored(r) == responses[r].status = "completed"

(* "A retry may begin only before the writer observes a visible event;      *)
(* afterwards a failure is terminal" (Stream): no attempt of a request      *)
(* begins once any of its attempts has shown output.                        *)
NoRetryAfterOutput == [][
    \A r \in Responses : stream[r].emitted =>
        Repository!AttemptsOf(r)' = Repository!AttemptsOf(r)]_vars

(* A caller who is told that the response is complete can continue from it: *)
(* it is stored, and credited to the very attempt that was streamed.        *)
CompletionIsStored == \A r \in Responses : stream[r].told = "completed" =>
    Stored(r) /\ attempts[Current(r)].status = "succeeded"

(* A caller who is still there when the stream ends and has seen output is  *)
(* told how it ended: completed exactly when the result was stored.         *)
CallerLearnsTheEnd == \A r \in Responses :
    Ended(r) /\ stream[r].emitted /\ ~stream[r].gone =>
        stream[r].told = IF Stored(r) THEN "completed" ELSE "error"

(* When a stream is over, every attempt it made is recorded as succeeded or *)
(* failed, unless the storage refused the record.                           *)
AttemptsSettled == \A r \in Responses : Ended(r) /\ ~stream[r].lost =>
    \A a \in Repository!AttemptsOf(r) : attempts[a].status # "started"

(* After a stream broke off in front of its caller, every later attempt of  *)
(* the conversation is a tier stronger, up to the strongest, whichever      *)
(* request makes it and whatever it decided before.                         *)
BrokenStreamsEscalate == [][
    \A r, q \in Responses :
        /\ Ended(q) /\ stream[q].emitted /\ ~Stored(q) /\ ~stream[q].lost
        /\ responses[q].conversation = responses[r].conversation
        => \A a \in Repository!AttemptsOf(r)' \ Repository!AttemptsOf(r) :
               attempts'[a].tier >= Repository!NextTier(attempts[Current(q)].tier)]_vars

(* Retries stay on the model first chosen or go to one that is at least as  *)
(* strong and open to automatic routing, and a request leaves its model     *)
(* only where escalation is allowed, an explicit-only model never.          *)
FallbacksAreAllowed == \A r \in Responses :
    \A a, b \in Repository!AttemptsOf(r) :
        attempts[a].seq = 0 /\ attempts[b].model # attempts[a].model =>
            /\ attempts[b].model \notin ExplicitOnly
            /\ attempts[b].tier >= attempts[a].tier
            /\ stream[r].allow /\ stream[r].named \notin ExplicitOnly
=============================================================================
