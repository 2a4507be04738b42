---------------------------- MODULE ExecutorProofs ----------------------------
(***************************************************************************)
(* What Executor promises, for any number of concurrent requests, any      *)
(* catalog, accounts and failures.  As in StreamExecutorProofs, the        *)
(* invariant says of every place a goroutine can stand at what the store   *)
(* holds of its request; here it also counts the calls of every account.   *)
(***************************************************************************)
EXTENDS Executor, ExecutionProofs

(* The attempt of a goroutine at one of these places is not over. *)
InFlight == {"call", "fail", "commit"}

(* Where the goroutine s of r stands tells what the store holds of r. *)
Progress(r, s) ==
    /\ s.pc = "idle" => s = NoRequest
    /\ s.pc # "idle" => responses[r].status # "absent"
    /\ s.pc \in Running \ {"saved", "praise"} => responses[r].status = "pending"
    /\ s.pc \in {"saved", "praise"} => responses[r].status = "completed"
    /\ s.pc \in InFlight => s.attempt >= 1 /\ attempts[<<r, s.attempt>>].status = "started"
    /\ responses[r].status = "completed" =>
          s.attempt >= 1 /\ attempts[<<r, s.attempt>>].status = "succeeded"
    /\ s.answered <=> s.pc = "ended" /\ responses[r].status = "completed"

(* The decision and the account that each place needs are there. *)
Equipped(s) ==
    /\ s.pc \in Running \ {"read"} => s.model # None
    /\ s.pc \in {"read", "select", "wait"} => s.account = None
    /\ s.pc = "report" => s.account # None
    /\ ~s.progressed => s.tried = {} /\ s.account = None
    /\ s.pc = "wait" => ~s.progressed

(* Some list of accounts lets a be called in this round. *)
Allowed(a, round) == \E P \in Pools : \E b \in P : b.id = a /\ round <= Selector!RetryLimit(b)

(* The account a was called in the round of s. *)
Called(s, a) == a \in s.tried \/ (a = s.account /\ s.pc \notin {"begin", "call"})

(* An account is called once in a round, and in no round that it refuses.   *)
Rationed(s) ==
    /\ \A a \in Accounts : s.calls[a] <= s.attempt /\ (s.pc = "call" => s.calls[a] < s.attempt)
    /\ s.pc # "ended" =>
          \A a \in Accounts : s.calls[a] <= s.round + (IF Called(s, a) THEN 1 ELSE 0)
    /\ s.pc \in {"begin", "call"} => s.account \notin s.tried
    /\ s.pc \in {"begin", "call"} /\ s.account # None => Allowed(s.account, s.round)
    /\ \A a \in Accounts : s.calls[a] = 0 \/ Allowed(a, s.calls[a] - 1)

Held(r, s) == Numbered(r, s.attempt) /\ Progress(r, s) /\ Equipped(s) /\ Rationed(s)

(* What a step of r relies on: its own goroutine, and the store and the     *)
(* selector, whoever else uses them.                                        *)
Here(r) ==
    /\ StoreInv /\ SelectorInv /\ OwnRows
    /\ request \in [Responses -> Goroutine] /\ Held(r, request[r])

ExecutorInv ==
    /\ StoreInv /\ SelectorInv
    /\ request \in [Responses -> Goroutine]
    /\ \A r \in Responses : Held(r, request[r])

LEMMA Everywhere == ASSUME ExecutorInv, NEW r \in Responses PROVE Here(r)
<1>1. ASSUME NEW q \in Responses, NEW k \in 1 .. MaxAttempts, attempts[<<q, k>>].status # "absent"
      PROVE  attempts[<<q, k>>].response = q
  BY <1>1 DEF ExecutorInv, Held, Numbered
<1> QED BY <1>1 DEF ExecutorInv, Here, OwnRows

-----------------------------------------------------------------------------
(* What every step of r keeps: the rows and goroutines of the others, and   *)
(* what the store holds of r where r stands now.                            *)
Stepped(r) ==
    /\ [Repository!Next]_(Repository!vars) /\ SelectorInv' /\ OthersUntouched(r)
    /\ \E row \in Goroutine : request' = [request EXCEPT ![r] = row] /\ Held(r, row)'

LEMMA OthersHeld ==
    ASSUME NEW q \in Responses, Here(q), Untouched(q), request'[q] = request[q]
    PROVE  Held(q, request[q])'
<1> DEFINE n == request[q].attempt
<1>1. n \in 0 .. MaxAttempts /\ Held(q, request[q])
  BY DEF Here, Goroutine
<1>2. \A k \in 1 .. n : attempts'[<<q, k>>] = attempts[<<q, k>>]
  BY <1>1, Assumed DEF Untouched
<1>3. Numbered(q, n)'
  BY <1>1 DEF Held, Numbered, Untouched
<1>4. Progress(q, request[q])'
  BY <1>1, <1>2 DEF Held, Progress, Untouched, InFlight, Running
<1>5. Equipped(request[q])' /\ Rationed(request[q])'
  BY <1>1 DEF Held, Equipped, Rationed, Called
<1> QED BY <1>3, <1>4, <1>5 DEF Held

LEMMA SteppedInv ==
    ASSUME ExecutorInv, NEW r \in Responses, Stepped(r)
    PROVE  ExecutorInv'
<1>1. StoreInv'
  BY StoreStep DEF Stepped, ExecutorInv
<1>2. PICK row \in Goroutine : request' = [request EXCEPT ![r] = row] /\ Held(r, row)'
  BY DEF Stepped
<1>3. /\ request \in [Responses -> Goroutine] /\ request' \in [Responses -> Goroutine]
      /\ request'[r] = row /\ \A q \in Responses \ {r} : request'[q] = request[q]
  BY <1>2 DEF ExecutorInv
<1>4. Held(r, request[r])'
  BY <1>2, <1>3
<1>5. ASSUME NEW q \in Responses \ {r} PROVE Held(q, request[q])'
  BY <1>3, Everywhere, OthersHeld DEF Stepped, OthersUntouched
<1> QED BY <1>1, <1>3, <1>4, <1>5 DEF Stepped, ExecutorInv

(* A step that leaves the store alone. *)
LEMMA QuietStep ==
    ASSUME NEW r \in Responses, Here(r), NEW row \in Goroutine, Held(r, row),
           request' = [request EXCEPT ![r] = row], UNCHANGED storeVars, SelectorInv'
    PROVE  Stepped(r)
<1>1. UNCHANGED Repository!vars /\ OthersUntouched(r)
  BY DEF storeVars, Repository!vars, OthersUntouched, Untouched
<1>2. Held(r, row)'
  BY DEF storeVars, Held, Numbered, Progress, Equipped, Rationed, Called
<1> QED BY <1>1, <1>2 DEF Stepped

-----------------------------------------------------------------------------
(* Rows of a goroutine that goes on, or returns *)

LEMMA NoRequestRow == NoRequest \in Goroutine
<1>1. [a \in Accounts |-> 0] \in [Accounts -> 0 .. MaxAttempts] /\ 0 \in 0 .. MaxAttempts
      /\ 0 \in 0 .. MaxRounds + 1
  BY Assumed, ExecutorAssumption
<1> QED BY <1>1 DEF NoRequest, Goroutine

LEMMA ReturnedRow ==
    ASSUME NEW r \in Responses, Here(r), NEW answered \in BOOLEAN
    PROVE  LET t == Returned(r, answered)
           IN  /\ t \in Goroutine /\ t.pc = "ended" /\ t.attempt = request[r].attempt
               /\ t.answered = answered /\ t.calls = request[r].calls
               /\ t.tried = {} /\ t.account = None /\ ~t.progressed
<1>1. request[r] \in Goroutine /\ NoRequest \in Goroutine
  BY NoRequestRow DEF Here
<1>2. NoRequest.tried = {} /\ NoRequest.account = None /\ ~NoRequest.progressed
  BY DEF NoRequest
<1>3. PICK s \in Goroutine : s = request[r]
  BY <1>1
<1>4. PICK n \in Goroutine : n = NoRequest
  BY <1>1
<1>5. PICK u : u = [n EXCEPT !.pc = "ended", !.client = s.client, !.attempt = s.attempt]
  OBVIOUS
<1>6. u \in Goroutine
  BY <1>5 DEF Goroutine
<1>7. PICK v : v = [u EXCEPT !.gone = s.gone]
  OBVIOUS
<1>8. v \in Goroutine
  BY <1>6, <1>7 DEF Goroutine
<1>9. PICK w : w = [v EXCEPT !.answered = answered]
  OBVIOUS
<1>10. w \in Goroutine
  BY <1>8, <1>9 DEF Goroutine
<1>11. PICK t : t = [w EXCEPT !.calls = s.calls]
  OBVIOUS
<1>12. t \in Goroutine
  BY <1>10, <1>11 DEF Goroutine
<1>13. t = [n EXCEPT !.pc = "ended", !.client = s.client, !.attempt = s.attempt,
                    !.gone = s.gone, !.answered = answered, !.calls = s.calls]
  BY <1>5, <1>7, <1>9, <1>11
<1>14. t = Returned(r, answered)
  BY <1>3, <1>4, <1>13 DEF Returned
<1>15. /\ t.pc = "ended" /\ t.attempt = s.attempt /\ t.answered = answered /\ t.calls = s.calls
       /\ t.tried = n.tried /\ t.account = n.account /\ t.progressed = n.progressed
  BY <1>13 DEF Goroutine
<1> QED BY <1>2, <1>3, <1>4, <1>12, <1>14, <1>15

LEMMA ReturnedHeld ==
    ASSUME NEW r \in Responses, Here(r), request[r].pc \in Running, NEW answered \in BOOLEAN,
           answered <=> responses[r].status = "completed"
    PROVE  Held(r, Returned(r, answered))
<1> DEFINE s == request[r]
<1>1. Held(r, s) /\ s \in Goroutine
  BY DEF Here
<1>2. PICK t : t = Returned(r, answered)
  OBVIOUS
<1>3. /\ t.pc = "ended" /\ t.attempt = s.attempt /\ t.answered = answered
      /\ t.calls = s.calls /\ t.tried = {} /\ t.account = None /\ ~t.progressed
  BY <1>2, ReturnedRow
<1> HIDE DEF s
<1>4. Numbered(r, t.attempt) /\ Progress(r, t)
  BY <1>1, <1>3 DEF s, Held, Progress, Running, InFlight
<1>5. Equipped(t) /\ Rationed(t)
  BY <1>1, <1>3 DEF Held, Equipped, Rationed, Running
<1> QED BY <1>2, <1>4, <1>5 DEF Held

LEMMA ReturnStep ==
    ASSUME NEW r \in Responses, Here(r), request[r].pc \in Running \ {"saved", "praise"},
           Return(r), UNCHANGED storeVars, SelectorInv'
    PROVE  Stepped(r)
<1>1. FALSE <=> responses[r].status = "completed"
  BY DEF Here, Held, Progress
<1>2. Returned(r, FALSE) \in Goroutine /\ Held(r, Returned(r, FALSE))
  BY <1>1, ReturnedRow, ReturnedHeld
<1> QED BY <1>2, QuietStep DEF Return

(* It keeps its decision, account, round and calls. *)
Alike(s, t) ==
    /\ t.attempt = s.attempt /\ t.answered = s.answered /\ t.model = s.model
    /\ t.account = s.account /\ t.round = s.round /\ t.tried = s.tried
    /\ t.progressed = s.progressed /\ t.calls = s.calls

(* What is rationed stays rationed once the account's attempt has ended. *)
LEMMA RationedLater ==
    ASSUME NEW s \in Goroutine, NEW t, Rationed(s), Alike(s, t),
           s.pc \in Running, t.pc \notin {"begin", "call"}
    PROVE  Rationed(t)
<1>1. /\ \A a \in Accounts : s.calls[a] \in Int /\ s.round \in Int /\ s.attempt \in Int
  BY DEF Goroutine
<1>2. \A a \in Accounts : Called(s, a) => Called(t, a)
  BY DEF Called, Alike
<1>3. \A a \in Accounts : t.calls[a] <= t.round + (IF Called(t, a) THEN 1 ELSE 0)
  BY <1>1, <1>2 DEF Rationed, Alike, Running
<1> QED BY <1>3 DEF Rationed, Alike

(* An account that fails is reported, any other failure is the caller's. *)
LEMMA FailStep ==
    ASSUME NEW r \in Responses, Here(r), request[r].pc \in {"begin", "fail", "commit"},
           NEW error \in Errors \cup {None}, Fail(r, error), UNCHANGED storeVars, SelectorInv'
    PROVE  Stepped(r)
<1> DEFINE s == request[r]
<1>1. Held(r, s) /\ s \in Goroutine
  BY DEF Here
<1>2. CASE Return(r)
  BY <1>2, ReturnStep DEF Running
<1>3. CASE /\ s.account # None
           /\ request' = [request EXCEPT ![r].pc = "report", ![r].error = error]
  <2>1. PICK t : t = [s EXCEPT !.pc = "report", !.error = error]
    OBVIOUS
  <2>2. t \in Goroutine /\ Alike(s, t) /\ t.pc = "report"
    BY <1>1, <2>1 DEF Goroutine, Alike, Running
  <2>3. Progress(r, t) /\ Equipped(t)
    BY <1>1, <1>3, <2>2 DEF Held, Alike, Progress, Equipped, Running, InFlight
  <2>4. Rationed(t)
    BY <1>1, <2>2, RationedLater DEF Held, Running
  <2>5. Held(r, t)
    BY <1>1, <2>2, <2>3, <2>4 DEF Held, Alike
  <2>6. request' = [request EXCEPT ![r] = t]
    BY <1>3, <2>1 DEF Here
  <2> QED BY <2>2, <2>5, <2>6, QuietStep
<1> QED BY <1>2, <1>3 DEF Fail

-----------------------------------------------------------------------------
(* Accounts *)

LEMMA PoolAccounts ==
    /\ None \notin Accounts
    /\ \A P \in Pools : \A b \in P : b.id \in Accounts /\ Selector!RetryLimit(b) \in Nat
<1>1. None \notin Accounts
  BY Assumed
<1>2. /\ Pools \subseteq SUBSET Selector!Account /\ RequestRetry \in Nat
  BY ExecutionAssumption DEF Selector!ConductorAssumption
<1> QED BY <1>1, <1>2 DEF Selector!Account, Selector!RetryLimit

(* A selection grants an account of the pool that it is admitted to in this *)
(* round.                                                                   *)
LEMMA GrantedAccount ==
    ASSUME SelectorInv, NEW req, NEW account \in Accounts,
           Selector!Returns(req, Selector!Granted(account))
    PROVE  \E P \in Pools : \E b \in P :
               b.id = account /\ account \notin req.tried /\ req.round <= Selector!RetryLimit(b)
<1>1. PICK i \in Selector!Eligible(req) : pool[i].id = account
  BY DEF Selector!Returns, Selector!Refuse, Selector!Stick, Selector!Rotate, Selector!Sticky,
         Selector!Granted, Selector!Refused
<1>2. /\ i \in DOMAIN pool /\ pool[i].id \notin req.tried
      /\ req.round <= Selector!RetryLimit(pool[i])
  BY DEF Selector!Eligible, Selector!Admits, Selector!Addressed, Selector!Qualified
<1>3. PICK P \in Pools : pool \in Selector!Sortings(P)
  BY SelectorTypes DEF Selector!TypeOK
<1>4. pool[i] \in P
  BY <1>2, <1>3 DEF Selector!Sortings
<1> QED BY <1>1, <1>2, <1>3, <1>4

-----------------------------------------------------------------------------
(* Each step of a goroutine *)

LEMMA StartStep ==
    ASSUME NEW r \in Responses, Here(r), NEW client \in Clients, NEW session \in Sessions \cup {None},
           NEW named \in Asks, Start(r, client, session, named)
    PROVE  Stepped(r)
<1>1. Held(r, request[r]) /\ request[r] = NoRequest /\ SelectorInv'
  BY StandStill DEF Here, Start, At, Held, Progress
<1>2. /\ Repository!Next /\ responses'[r].status = "pending"
      /\ attempts' = attempts /\ OthersUntouched(r)
  BY TurnEffect DEF Start, Here
<1>3. PICK of \in Sessions \cup {None} : of = IF named = None THEN None ELSE session
  <2>1. (IF named = None THEN None ELSE session) \in Sessions \cup {None}
    OBVIOUS
  <2> QED BY <2>1
<1>4. PICK n \in Goroutine : n = NoRequest
  BY NoRequestRow
<1>5. PICK t : t = [n EXCEPT !.pc = "read", !.client = client, !.named = named, !.session = of]
  OBVIOUS
<1>6. /\ n.pc = "idle" /\ n.attempt = 0 /\ n.answered = FALSE /\ n.account = None /\ n.tried = {}
      /\ n.round = 0 /\ n.calls = [a \in Accounts |-> 0]
  BY <1>4 DEF NoRequest
<1>7. named \in Models \cup {None}
  BY Assumed
<1>8. /\ t \in Goroutine /\ t.pc = "read" /\ t.attempt = 0 /\ t.answered = FALSE /\ t.account = None
      /\ t.tried = {} /\ t.round = 0 /\ t.calls = [a \in Accounts |-> 0]
  <2>1. t \in Goroutine
    BY <1>5, <1>7 DEF Goroutine, Running
  <2>2. /\ t.pc = "read" /\ t.attempt = n.attempt /\ t.answered = n.answered /\ t.account = n.account
        /\ t.tried = n.tried /\ t.round = n.round /\ t.calls = n.calls
    BY <1>5 DEF Goroutine
  <2> QED BY <1>6, <2>1, <2>2
<1>9. request' = [request EXCEPT ![r] = t]
  BY <1>3, <1>4, <1>5 DEF Start, Here
<1>10. Numbered(r, 0)
  BY <1>1 DEF Held, NoRequest
<1>11. Numbered(r, t.attempt)'
  BY <1>2, <1>8, <1>10 DEF Numbered
<1>12. Progress(r, t)' /\ Equipped(t)'
  BY <1>2, <1>8 DEF Progress, Equipped, Running, InFlight
<1>13. Rationed(t)
  BY <1>8, PoolAccounts DEF Rationed
<1>14. Held(r, t)'
  BY <1>11, <1>12, <1>13 DEF Held, Rationed, Called
<1> QED BY <1>1, <1>2, <1>8, <1>9, <1>14 DEF Stepped

(* A goroutine without an account goes on with the same calls and round. *)
LEMMA RationedWithout ==
    ASSUME NEW s \in Goroutine, NEW t, Rationed(s), s.pc \in Running, s.account = None,
           t.account = None, t.tried = s.tried, t.attempt = s.attempt,
           t.round = s.round, t.calls = s.calls, t.pc # "call"
    PROVE  Rationed(t)
<1>1. s.tried \subseteq Accounts
  BY DEF Goroutine
<1>2. \A a \in Accounts : Called(t, a) <=> Called(s, a)
  BY PoolAccounts DEF Called
<1>3. \A a \in Accounts : t.calls[a] <= t.attempt /\ t.calls[a] <= t.round + (IF Called(t, a) THEN 1 ELSE 0)
  BY <1>2 DEF Rationed, Running
<1>4. t.account \notin t.tried
  BY <1>1, PoolAccounts
<1> QED BY <1>3, <1>4 DEF Rationed

LEMMA DecideStep ==
    ASSUME NEW r \in Responses, Here(r), Decide(r)
    PROVE  Stepped(r)
<1> DEFINE s == request[r]
<1>1. /\ s \in Goroutine /\ Held(r, s) /\ s.pc = "read" /\ s.account = None
      /\ UNCHANGED storeVars /\ SelectorInv'
  BY StandStill DEF Here, Decide, At, Held, Equipped
<1>2. ASSUME NEW pc \in {"begin", "select"}, NEW model \in Models,
             request' = [request EXCEPT ![r].pc = pc, ![r].model = model]
      PROVE  Stepped(r)
  <2>1. PICK t : t = [s EXCEPT !.pc = pc, !.model = model]
    OBVIOUS
  <2>2. /\ t \in Goroutine /\ t.pc = pc /\ t.model = model /\ t.attempt = s.attempt
        /\ t.answered = s.answered /\ t.account = None /\ t.round = s.round /\ t.tried = s.tried
        /\ t.progressed = s.progressed /\ t.calls = s.calls
    <3>1. pc \in Running
      BY DEF Running
    <3>2. t \in Goroutine
      <4>1. PICK u : u = [s EXCEPT !.pc = pc]
        OBVIOUS
      <4>2. u \in Goroutine
        BY <1>1, <3>1, <4>1 DEF Goroutine
      <4>3. t = [u EXCEPT !.model = model]
        BY <2>1, <4>1
      <4> QED BY <4>2, <4>3 DEF Goroutine
    <3>3. /\ t.pc = pc /\ t.model = model /\ t.attempt = s.attempt /\ t.answered = s.answered
          /\ t.account = s.account /\ t.round = s.round /\ t.tried = s.tried
          /\ t.progressed = s.progressed /\ t.calls = s.calls
      BY <1>1, <2>1 DEF Goroutine
    <3> QED BY <1>1, <3>2, <3>3
  <2>3. Progress(r, t) /\ Equipped(t)
    BY <1>1, <2>2, Assumed DEF Held, Progress, Equipped, Running, InFlight
  <2>4. Rationed(t)
    BY <1>1, <2>2, RationedWithout DEF Held, Running
  <2>5. Held(r, t)
    BY <1>1, <2>2, <2>3, <2>4 DEF Held
  <2>6. request' = [request EXCEPT ![r] = t]
    BY <1>2, <2>1 DEF Here
  <2> QED BY <1>1, <2>2, <2>5, <2>6, QuietStep
<1>3. CASE Return(r)
  BY <1>1, <1>3, ReturnStep DEF Running
<1>4. s.named \in Models \cup {None}
  BY <1>1 DEF Goroutine
<1> QED BY <1>2, <1>3, <1>4 DEF Decide

LEMMA NoMoreRoundsStep ==
    ASSUME NEW r \in Responses, Here(r), NoMoreRounds(r)
    PROVE  Stepped(r)
<1>1. request[r].pc = "select" /\ UNCHANGED storeVars /\ SelectorInv'
  BY StandStill DEF NoMoreRounds, At, Here
<1> QED BY <1>1, ReturnStep DEF NoMoreRounds, Running

LEMMA UnusableStep ==
    ASSUME NEW r \in Responses, Here(r), Unusable(r)
    PROVE  Stepped(r)
<1>1. request[r].session \in Sessions \cup {None} /\ request[r].account \in Accounts \cup {None}
  BY DEF Here, Goroutine
<1>2. SelectorInv'
  BY <1>1, StandStill, ReportFailureStep DEF Unusable, Here
<1> QED BY <1>2, ReturnStep DEF Unusable, At, Running

LEMMA WaitRow ==
    ASSUME NEW s \in Goroutine, NEW until \in Nat
    PROVE  [s EXCEPT !.pc = "wait", !.until = until] \in Goroutine
<1>1. PICK u : u = [s EXCEPT !.pc = "wait"]
  OBVIOUS
<1>2. u \in Goroutine
  BY <1>1 DEF Goroutine, Running
<1>3. [u EXCEPT !.until = until] \in Goroutine
  BY <1>2 DEF Goroutine
<1> QED BY <1>1, <1>3

LEMMA NewPassRow ==
    ASSUME NEW s \in Goroutine, NEW round \in 0 .. MaxRounds + 1, NEW until \in Nat
    PROVE  [s EXCEPT !.pc = "select", !.round = round, !.tried = {}, !.progressed = FALSE,
                     !.until = until] \in Goroutine
<1>1. PICK u : u = [s EXCEPT !.pc = "select", !.tried = {}]
  OBVIOUS
<1>2. u \in Goroutine
  BY <1>1 DEF Goroutine, Running
<1>3. PICK v : v = [u EXCEPT !.round = round]
  OBVIOUS
<1>4. v \in Goroutine
  BY <1>2, <1>3 DEF Goroutine
<1>5. PICK w : w = [v EXCEPT !.progressed = FALSE]
  OBVIOUS
<1>6. w \in Goroutine
  BY <1>4, <1>5 DEF Goroutine
<1>7. [w EXCEPT !.until = until] \in Goroutine
  BY <1>6 DEF Goroutine
<1> QED BY <1>1, <1>3, <1>5, <1>7

LEMMA GrantedRow ==
    ASSUME NEW s \in Goroutine, NEW account \in Accounts
    PROVE  [s EXCEPT !.pc = "begin", !.account = account, !.progressed = TRUE] \in Goroutine
<1>1. PICK u : u = [s EXCEPT !.pc = "begin"]
  OBVIOUS
<1>2. u \in Goroutine
  BY <1>1 DEF Goroutine, Running
<1>3. PICK v : v = [u EXCEPT !.account = account]
  OBVIOUS
<1>4. v \in Goroutine
  BY <1>2, <1>3 DEF Goroutine
<1>5. PICK progressed \in BOOLEAN : progressed = TRUE
  OBVIOUS
<1>6. [v EXCEPT !.progressed = progressed] \in Goroutine
  BY <1>4 DEF Goroutine
<1> QED BY <1>1, <1>3, <1>5, <1>6

(* The next pass over the accounts, in the next round or, where no account  *)
(* was called in this one, in the same.                                     *)
LEMMA NewPassStep ==
    ASSUME NEW r \in Responses, Here(r), NEW round \in 0 .. MaxRounds + 1, NEW until \in Nat,
           request[r].pc \in {"select", "wait"},
           round = request[r].round + 1 \/ (round = request[r].round /\ ~request[r].progressed),
           request' = [request EXCEPT ![r] = [NewPass(r, round) EXCEPT !.until = until]],
           UNCHANGED storeVars, SelectorInv'
    PROVE  Stepped(r)
<1> DEFINE s == request[r]
<1>1. s \in Goroutine /\ Held(r, s) /\ s.account = None
  BY DEF Here, Held, Equipped
<1>2. PICK t : t = [s EXCEPT !.pc = "select", !.round = round, !.tried = {}, !.progressed = FALSE,
                             !.until = until]
  OBVIOUS
<1>3. t \in Goroutine
  BY <1>1, <1>2, NewPassRow
<1>4. /\ t.pc = "select" /\ t.model = s.model /\ t.attempt = s.attempt
      /\ t.answered = s.answered /\ t.account = s.account /\ t.round = round /\ t.tried = {}
      /\ t.progressed = FALSE /\ t.calls = s.calls
  BY <1>1, <1>2 DEF Goroutine
<1>5. Progress(r, t) /\ Equipped(t)
  BY <1>1, <1>4 DEF Held, Progress, Equipped, Running, InFlight
<1>6. Rationed(t)
  <2>1. ASSUME NEW a \in Accounts PROVE s.calls[a] <= round
    <3>1. /\ s.calls[a] \in Int /\ s.round \in Int
          /\ s.calls[a] <= s.round + (IF Called(s, a) THEN 1 ELSE 0)
      BY <1>1 DEF Goroutine, Held, Rationed, Running
    <3>2. CASE round = s.round + 1
      BY <3>1, <3>2
    <3>3. CASE round = s.round /\ ~s.progressed
      <4>1. ~Called(s, a)
        BY <1>1, <3>3, PoolAccounts DEF Held, Equipped, Called
      <4> QED BY <3>1, <3>3, <4>1
    <3> QED BY <3>2, <3>3
  <2>2. \A a \in Accounts : s.calls[a] \in Int
    BY <1>1 DEF Goroutine
  <2>3. \A a \in Accounts : t.calls[a] <= t.attempt /\ t.calls[a] <= t.round + (IF Called(t, a) THEN 1 ELSE 0)
    BY <1>1, <1>4, <2>1, <2>2 DEF Held, Rationed
  <2> QED BY <1>1, <1>4, <2>3 DEF Held, Rationed
<1>7. Held(r, t)
  BY <1>1, <1>4, <1>5, <1>6 DEF Held
<1>8. request' = [request EXCEPT ![r] = t]
  BY <1>2 DEF NewPass
<1> QED BY <1>3, <1>7, <1>8, QuietStep

LEMMA WaitCooldownStep ==
    ASSUME NEW r \in Responses, Here(r), WaitCooldown(r)
    PROVE  Stepped(r)
<1>1. /\ request[r] \in Goroutine /\ Held(r, request[r]) /\ request[r].pc = "wait"
      /\ UNCHANGED storeVars /\ SelectorInv'
  BY StandStill DEF Here, WaitCooldown, At
<1>2. PICK round \in 0 .. MaxRounds + 1 : round = request[r].round
  BY <1>1 DEF Goroutine
<1>3. ~request[r].progressed
  BY <1>1 DEF Held, Equipped
<1>4. CASE request' = [request EXCEPT ![r] = [NewPass(r, request[r].round) EXCEPT !.until = 0]]
  BY <1>1, <1>2, <1>3, <1>4, NewPassStep
<1>5. CASE Return(r)
  BY <1>1, <1>5, ReturnStep DEF Running
<1> QED BY <1>4, <1>5 DEF WaitCooldown

LEMMA SelectAccountStep ==
    ASSUME NEW r \in Responses, Here(r), SelectAccount(r)
    PROVE  Stepped(r)
<1> DEFINE s == request[r]
<1>1. /\ s \in Goroutine /\ Held(r, s) /\ s.pc = "select" /\ s.account = None /\ s.model # None
      /\ s.round <= MaxRounds /\ UNCHANGED storeVars
  BY DEF Here, SelectAccount, At, Held, Equipped, Running
<1>2. Wanted(r) \in Selector!SelectRequest /\ Wanted(r).tried = s.tried /\ Wanted(r).round = s.round
  BY <1>1, WantedType DEF Goroutine, Wanted, AccountRequest
<1>3. ASSUME NEW result, Selects(r, result) PROVE SelectorInv'
  BY <1>2, <1>3, ReturnsStep DEF Selects, Here
<1>4. UNCHANGED selectorVars => SelectorInv'
  BY StandStill DEF Here
<1>5. ASSUME NEW account \in Accounts, Selects(r, Selector!Granted(account)),
             request' = [request EXCEPT ![r].pc = "begin", ![r].account = account,
                                        ![r].progressed = TRUE]
      PROVE  Stepped(r)
  <2>1. PICK P \in Pools : \E b \in P :
            b.id = account /\ account \notin s.tried /\ s.round <= Selector!RetryLimit(b)
    BY <1>2, <1>5, GrantedAccount DEF Selects, Here
  <2>2. PICK t : t = [s EXCEPT !.pc = "begin", !.account = account, !.progressed = TRUE]
    OBVIOUS
  <2>3. t \in Goroutine
    BY <1>1, <2>2, GrantedRow
  <2>4. /\ t.pc = "begin" /\ t.model = s.model /\ t.attempt = s.attempt
        /\ t.answered = s.answered /\ t.account = account /\ t.round = s.round
        /\ t.tried = s.tried /\ t.progressed = TRUE /\ t.calls = s.calls
    BY <1>1, <2>2 DEF Goroutine
  <2>5. Progress(r, t) /\ Equipped(t)
    BY <1>1, <2>4 DEF Held, Progress, Equipped, Running, InFlight
  <2>6. Rationed(t)
    <3>1. \A a \in Accounts : Called(s, a) <=> Called(t, a)
      BY <1>1, <2>4, PoolAccounts DEF Called
    <3>2. \A a \in Accounts : t.calls[a] <= t.attempt /\ t.calls[a] <= t.round + (IF Called(t, a) THEN 1 ELSE 0)
      BY <1>1, <2>4, <3>1 DEF Held, Rationed, Running
    <3>3. t.account \notin t.tried
      BY <2>1, <2>4
    <3>4. Allowed(t.account, t.round)
      BY <2>1, <2>4 DEF Allowed
    <3> QED BY <1>1, <2>4, <3>2, <3>3, <3>4 DEF Held, Rationed
  <2>7. Held(r, t)
    BY <1>1, <2>4, <2>5, <2>6 DEF Held
  <2>8. request' = [request EXCEPT ![r] = t]
    BY <1>5, <2>2 DEF Here
  <2> QED BY <1>1, <1>3, <1>5, <2>3, <2>7, <2>8, QuietStep
<1>6. CASE /\ Selects(r, Selector!Refused("unavailable")) /\ ~s.progressed
           /\ request' = [request EXCEPT ![r].pc = "wait", ![r].until = WaitEnd]
  <2>1. PICK until \in Nat : until = WaitEnd
    BY WaitEndType DEF Here
  <2>2. PICK t : t = [s EXCEPT !.pc = "wait", !.until = until]
    OBVIOUS
  <2>3. t \in Goroutine /\ Alike(s, t) /\ t.pc = "wait"
    <3>1. t \in Goroutine
      BY <1>1, <2>2, WaitRow
    <3>2. Alike(s, t) /\ t.pc = "wait"
      BY <1>1, <2>2 DEF Goroutine, Alike
    <3> QED BY <3>1, <3>2
  <2>4. Progress(r, t) /\ Equipped(t)
    BY <1>1, <1>6, <2>3 DEF Held, Alike, Progress, Equipped, Running, InFlight
  <2>5. Rationed(t)
    BY <1>1, <2>3, RationedLater DEF Held, Running
  <2>6. Held(r, t)
    BY <1>1, <2>3, <2>4, <2>5 DEF Held, Alike
  <2>7. request' = [request EXCEPT ![r] = t]
    BY <1>6, <2>1, <2>2 DEF Here
  <2> QED BY <1>1, <1>3, <1>6, <2>3, <2>6, <2>7, QuietStep
<1>7. ASSUME Return(r), SelectorInv' PROVE Stepped(r)
  BY <1>1, <1>7, ReturnStep DEF Running
<1>8. ASSUME request' = [request EXCEPT ![r] = NewPass(r, s.round + 1)], SelectorInv'
      PROVE  Stepped(r)
  <2>1. PICK round \in 0 .. MaxRounds + 1 : round = s.round + 1
    BY <1>1, ExecutorAssumption DEF Goroutine
  <2>2. PICK until \in Nat : until = s.until
    BY <1>1 DEF Goroutine
  <2>3. NewPass(r, round) = [NewPass(r, round) EXCEPT !.until = until]
    BY <1>1, <2>2 DEF NewPass, Goroutine
  <2>4. request' = [request EXCEPT ![r] = [NewPass(r, round) EXCEPT !.until = until]]
    BY <1>8, <2>1, <2>3
  <2> QED BY <1>1, <1>8, <2>1, <2>4, NewPassStep
<1> QED BY <1>3, <1>4, <1>5, <1>6, <1>7, <1>8 DEF SelectAccount

LEMMA ReportStep ==
    ASSUME NEW r \in Responses, Here(r), Report(r)
    PROVE  Stepped(r)
<1> DEFINE s == request[r]
<1>1. /\ s \in Goroutine /\ Held(r, s) /\ s.pc = "report" /\ s.account # None
      /\ UNCHANGED storeVars
  BY DEF Here, Report, At, Held, Equipped
<1>2. s.session \in Sessions \cup {None} /\ s.account \in Accounts
  BY <1>1 DEF Goroutine
<1>3. SelectorInv'
  BY <1>2, ReportFailureStep DEF Report, Here
<1>4. CASE Return(r)
  BY <1>1, <1>3, <1>4, ReturnStep DEF Running
<1>5. CASE request' = [request EXCEPT ![r].pc = "select", ![r].account = None, ![r].error = None,
                                      ![r].tried = @ \cup {s.account}]
  <2>1. PICK tried \in SUBSET Accounts : tried = s.tried \cup {s.account}
    BY <1>1, <1>2 DEF Goroutine
  <2>2. PICK t : t = [s EXCEPT !.pc = "select", !.account = None, !.error = None, !.tried = tried]
    OBVIOUS
  <2>3. t \in Goroutine
    BY <1>1, <2>2 DEF Goroutine, Running
  <2>4. /\ t.pc = "select" /\ t.model = s.model /\ t.attempt = s.attempt
        /\ t.answered = s.answered /\ t.account = None /\ t.round = s.round
        /\ t.tried = tried /\ t.progressed = s.progressed /\ t.calls = s.calls
    BY <1>1, <2>2 DEF Goroutine
  <2>5. Progress(r, t) /\ Equipped(t)
    BY <1>1, <2>4 DEF Held, Progress, Equipped, Running, InFlight
  <2>6. Rationed(t)
    <3>1. \A a \in Accounts : Called(s, a) <=> Called(t, a)
      BY <1>1, <2>1, <2>4, PoolAccounts DEF Called
    <3>2. \A a \in Accounts : t.calls[a] <= t.attempt /\ t.calls[a] <= t.round + (IF Called(t, a) THEN 1 ELSE 0)
      BY <1>1, <2>4, <3>1 DEF Held, Rationed, Running
    <3> QED BY <1>1, <2>4, <3>2 DEF Held, Rationed
  <2>7. Held(r, t)
    BY <1>1, <2>4, <2>5, <2>6 DEF Held
  <2>8. request' = [request EXCEPT ![r] = t]
    BY <1>5, <2>1, <2>2 DEF Here
  <2> QED BY <1>1, <1>3, <2>3, <2>7, <2>8, QuietStep
<1> QED BY <1>4, <1>5 DEF Report

LEMMA BeginAttemptStep ==
    ASSUME NEW r \in Responses, Here(r), BeginAttempt(r)
    PROVE  Stepped(r)
<1> DEFINE s == request[r]
<1>1. s \in Goroutine /\ Held(r, s) /\ s.pc = "begin" /\ SelectorInv' /\ Bounded(r)
  BY StandStill DEF Here, BeginAttempt, At
<1>2. s.model \in Models
  BY <1>1 DEF Held, Equipped, Running, Goroutine
<1>3. ASSUME NEW error \in Errors, Fail(r, error), UNCHANGED storeVars PROVE Stepped(r)
  BY <1>1, <1>3, FailStep
<1>4. CASE /\ Repository!BeginProviderAttempt(s.client, r, NextAttempt(r), s.model, TierOf[s.model])
           /\ request' = [request EXCEPT ![r].pc = "call", ![r].attempt = NextAttempt(r)[2]]
  <2>2. OwnRows /\ Numbered(r, s.attempt) /\ StoreInv
    BY <1>1 DEF Here, Held
  <2>3. PICK n : n = s.attempt + 1
    OBVIOUS
  <2>4. /\ n \in 1 .. MaxAttempts /\ s.attempt \in 0 .. MaxAttempts
        /\ NextAttempt(r) = <<r, n>>
    <3>1. s.attempt \in 0 .. MaxAttempts
      BY <1>1 DEF Goroutine
    <3> QED BY <1>1, <2>2, <2>3, <3>1, AttemptRows
  <2>5. PICK model \in Models : model = s.model
    BY <1>2
  <2>6. PICK t : t = [s EXCEPT !.pc = "call", !.attempt = n]
    OBVIOUS
  <2>7. /\ t \in Goroutine /\ t.pc = "call" /\ t.attempt = n /\ t.model = s.model
        /\ t.answered = s.answered /\ t.account = s.account /\ t.round = s.round
        /\ t.tried = s.tried /\ t.progressed = s.progressed /\ t.calls = s.calls
    <3>1. n \in 0 .. MaxAttempts
      BY <2>4, Assumed
    <3>2. PICK u : u = [s EXCEPT !.pc = "call"]
      OBVIOUS
    <3>3. u \in Goroutine
      BY <1>1, <3>2 DEF Goroutine, Running
    <3>4. [u EXCEPT !.attempt = n] \in Goroutine
      BY <3>1, <3>3 DEF Goroutine
    <3>5. t = [u EXCEPT !.attempt = n]
      BY <2>6, <3>2
    <3>6. /\ t.pc = "call" /\ t.attempt = n /\ t.model = s.model
          /\ t.answered = s.answered /\ t.account = s.account /\ t.round = s.round
          /\ t.tried = s.tried /\ t.progressed = s.progressed /\ t.calls = s.calls
      BY <1>1, <2>6 DEF Goroutine
    <3> QED BY <3>4, <3>5, <3>6
  <2>8. /\ Repository!Next
        /\ responses[r].status = "pending" /\ responses' = responses
        /\ attempts'[<<r, n>>] =
               [response |-> r, model |-> model, tier |-> TierOf[model],
                seq |-> n - 1, status |-> "started", completed |-> 0]
        /\ OthersUntouched(r)
        /\ Numbered(r, n)'
    <3>1. Repository!BeginProviderAttempt(s.client, r, NextAttempt(r), model, TierOf[model])
      BY <1>4, <2>5
    <3>2. PICK m \in 0 .. MaxAttempts : m = s.attempt
      BY <2>4
    <3>3. n = m + 1 /\ m = n - 1 /\ Numbered(r, m)
      BY <2>2, <2>3, <3>2
    <3> QED BY <1>1, <2>2, <3>1, <3>3, BeginEffect
  <2>9. request' = [request EXCEPT ![r] = t]
    <3>1. NextAttempt(r)[2] = n
      BY <2>4
    <3> QED BY <1>4, <2>6, <3>1 DEF Here
  <2>10. Progress(r, t)' /\ Equipped(t)'
    BY <1>1, <2>4, <2>7, <2>8 DEF Held, Progress, Equipped, Running, InFlight
  <2>11. Rationed(t)
    <3>1. \A a \in Accounts : s.calls[a] \in Int /\ s.calls[a] <= s.attempt
      BY <1>1 DEF Goroutine, Held, Rationed
    <3>2. \A a \in Accounts : t.calls[a] < t.attempt /\ t.calls[a] <= t.attempt
      BY <2>3, <2>4, <2>7, <3>1
    <3>3. \A a \in Accounts : Called(t, a) <=> Called(s, a)
      BY <1>1, <2>7 DEF Called
    <3>4. \A a \in Accounts : t.calls[a] <= t.round + (IF Called(t, a) THEN 1 ELSE 0)
      BY <1>1, <2>7, <3>3 DEF Held, Rationed
    <3> QED BY <1>1, <2>7, <3>2, <3>4 DEF Held, Rationed
  <2>12. Held(r, t)'
    BY <2>7, <2>8, <2>10, <2>11 DEF Held, Rationed, Called
  <2> QED BY <1>1, <2>7, <2>8, <2>9, <2>12 DEF Stepped
<1>5. StorageErrors(r) \cup (IF Outgrown(r, s.model) THEN {"other"} ELSE {}) \subseteq Errors
  BY DEF StorageErrors, Errors
<1> QED BY <1>3, <1>4, <1>5 DEF BeginAttempt

(* A call is counted where it is made. *)
CallsWith(s) == [a \in Accounts |-> IF a = s.account THEN s.calls[a] + 1 ELSE s.calls[a]]

CallEnded(s, pc, error) == [s EXCEPT !.pc = pc, !.error = error, !.calls = CallsWith(s)]

LEMMA CallRow ==
    ASSUME NEW s \in Goroutine, NEW error \in Errors \cup {None}, NEW pc \in {"commit", "fail"},
           s.pc = "call", Rationed(s)
    PROVE  LET t == CallEnded(s, pc, error)
           IN  /\ t \in Goroutine /\ t.pc = pc /\ t.attempt = s.attempt /\ t.model = s.model
               /\ t.answered = s.answered /\ t.account = s.account /\ t.tried = s.tried
               /\ t.progressed = s.progressed /\ Rationed(t)
<1>1. PICK calls : calls = CallsWith(s)
  OBVIOUS
<1>2. /\ \A a \in Accounts : s.calls[a] \in 0 .. MaxAttempts /\ s.calls[a] < s.attempt
      /\ s.attempt \in 0 .. MaxAttempts /\ MaxAttempts \in Nat /\ s.round \in Int
  BY Assumed DEF Rationed, Goroutine
<1>3. \A a \in Accounts : /\ calls[a] = IF a = s.account THEN s.calls[a] + 1 ELSE s.calls[a]
                          /\ calls[a] \in 0 .. MaxAttempts /\ calls[a] <= s.attempt
  BY <1>1, <1>2 DEF CallsWith
<1>4. calls \in [Accounts -> 0 .. MaxAttempts]
  BY <1>1, <1>3 DEF CallsWith
<1>5. PICK u : u = [s EXCEPT !.pc = pc]
  OBVIOUS
<1>6. u \in Goroutine
  BY <1>5 DEF Goroutine, Running
<1>7. PICK v : v = [u EXCEPT !.error = error]
  OBVIOUS
<1>8. v \in Goroutine
  BY <1>6, <1>7 DEF Goroutine
<1>9. PICK t : t = [v EXCEPT !.calls = calls]
  OBVIOUS
<1>10. t \in Goroutine
  BY <1>4, <1>8, <1>9 DEF Goroutine
<1>11. t = [s EXCEPT !.pc = pc, !.error = error, !.calls = calls]
  BY <1>5, <1>7, <1>9
<1>12. t = CallEnded(s, pc, error)
  BY <1>1, <1>11 DEF CallEnded
<1>13. /\ t.pc = pc /\ t.attempt = s.attempt /\ t.model = s.model /\ t.answered = s.answered
       /\ t.account = s.account /\ t.round = s.round /\ t.tried = s.tried
       /\ t.progressed = s.progressed /\ t.calls = calls
  BY <1>11 DEF Goroutine
<1>14. \A a \in Accounts : calls[a] <= t.round + (IF Called(t, a) THEN 1 ELSE 0)
  <2> SUFFICES ASSUME NEW a \in Accounts
               PROVE  calls[a] <= t.round + (IF Called(t, a) THEN 1 ELSE 0)
    OBVIOUS
  <2>1. s.calls[a] <= s.round + (IF Called(s, a) THEN 1 ELSE 0)
    BY DEF Rationed
  <2>2. CASE a = s.account
    <3>1. ~Called(s, a) /\ Called(t, a)
      BY <1>13, <2>2 DEF Rationed, Called
    <3> QED BY <1>2, <1>3, <1>13, <2>1, <2>2, <3>1
  <2>3. CASE a # s.account
    <3>1. Called(s, a) <=> Called(t, a)
      BY <1>13, <2>3 DEF Called
    <3> QED BY <1>3, <1>13, <2>1, <2>3, <3>1
  <2> QED BY <2>2, <2>3
<1>15. ASSUME NEW a \in Accounts PROVE calls[a] = 0 \/ Allowed(a, calls[a] - 1)
  <2>1. CASE a = s.account
    <3>1. Allowed(a, s.round)
      BY <2>1, PoolAccounts DEF Rationed
    <3>2. ~Called(s, a)
      BY <2>1 DEF Rationed, Called
    <3>3. s.calls[a] <= s.round
      BY <1>2, <3>2 DEF Rationed
    <3>4. calls[a] - 1 = s.calls[a]
      BY <1>2, <1>3, <2>1
    <3>5. calls[a] - 1 <= s.round /\ calls[a] - 1 \in Int /\ s.round \in Int
      BY <1>2, <3>3, <3>4
    <3> QED BY <3>1, <3>5, PoolAccounts DEF Allowed
  <2>2. CASE a # s.account
    BY <1>3, <2>2 DEF Rationed
  <2> QED BY <2>1, <2>2
<1>16. Rationed(t)
  BY <1>3, <1>13, <1>14, <1>15 DEF Rationed
<1> QED BY <1>10, <1>12, <1>13, <1>16

LEMMA CallStep ==
    ASSUME NEW r \in Responses, Here(r), Call(r)
    PROVE  Stepped(r)
<1> DEFINE s == request[r]
<1>1. /\ s \in Goroutine /\ Held(r, s) /\ s.pc = "call" /\ UNCHANGED storeVars /\ SelectorInv'
  BY StandStill DEF Here, Call, At
<1>2. PICK calls : calls = CallsWith(s)
  OBVIOUS
<1>3. ASSUME NEW error \in Errors \cup {None}, NEW pc \in {"commit", "fail"},
             request' = [request EXCEPT ![r] = [s EXCEPT !.pc = pc, !.error = error, !.calls = calls]]
      PROVE  Stepped(r)
  <2>1. PICK t : t = [s EXCEPT !.pc = pc, !.error = error, !.calls = calls]
    OBVIOUS
  <2>2. /\ t \in Goroutine /\ t.pc = pc /\ t.attempt = s.attempt /\ t.model = s.model
        /\ t.answered = s.answered /\ t.account = s.account /\ t.tried = s.tried
        /\ t.progressed = s.progressed /\ Rationed(t)
    <3>1. PICK g \in Goroutine : g = s
      BY <1>1
    <3>2. g.pc = "call" /\ Rationed(g)
      BY <1>1, <3>1 DEF Held
    <3>3. t = CallEnded(g, pc, error)
      BY <1>2, <2>1, <3>1 DEF CallEnded
    <3> HIDE DEF s
    <3> QED BY <3>1, <3>2, <3>3, CallRow
  <2>3. Progress(r, t) /\ Equipped(t)
    BY <1>1, <2>2 DEF Held, Progress, Equipped, Running, InFlight
  <2>4. Held(r, t)
    BY <1>1, <2>2, <2>3 DEF Held
  <2> QED BY <1>1, <1>3, <2>1, <2>2, <2>4, QuietStep
<1>4. CASE request' = [request EXCEPT ![r].pc = "commit",
                                      ![r].calls = [a \in Accounts |->
                                          IF a = s.account THEN @[a] + 1 ELSE @[a]]]
  <2>1. PICK error \in Errors \cup {None} : error = s.error
    BY <1>1 DEF Goroutine
  <2>2. request' = [request EXCEPT ![r] = [s EXCEPT !.pc = "commit", !.calls = calls]]
    BY <1>2, <1>4 DEF Here, CallsWith
  <2>3. [s EXCEPT !.pc = "commit", !.calls = calls]
        = [s EXCEPT !.pc = "commit", !.error = error, !.calls = calls]
    BY <1>1, <2>1 DEF Goroutine
  <2> QED BY <1>3, <2>2, <2>3
<1>5. ASSUME NEW error \in Errors,
             request' = [request EXCEPT ![r].pc = "fail", ![r].error = error,
                                        ![r].calls = [a \in Accounts |->
                                            IF a = s.account THEN @[a] + 1 ELSE @[a]]]
      PROVE  Stepped(r)
  <2>1. request' = [request EXCEPT ![r] = [s EXCEPT !.pc = "fail", !.error = error, !.calls = calls]]
    BY <1>2, <1>5 DEF Here, CallsWith
  <2> QED BY <1>3, <2>1
<1>6. Breaks \cup (IF s.gone THEN {"canceled"} ELSE {}) \subseteq Errors
  BY Assumed DEF Errors
<1> QED BY <1>4, <1>5, <1>6 DEF Call

(* A failure that is recorded ends the attempt. *)
LEMMA FailAttemptStep ==
    ASSUME NEW r \in Responses, Here(r), FailAttempt(r)
    PROVE  Stepped(r)
<1> DEFINE s == request[r]
<1>1. s \in Goroutine /\ Held(r, s) /\ s.pc = "fail" /\ SelectorInv'
  BY StandStill DEF Here, FailAttempt, At
<1>2. ASSUME NEW other \in StorageErrors(r), Fail(r, Joined(s.error, other)), UNCHANGED storeVars
      PROVE  Stepped(r)
  <2>1. PICK error \in Errors \cup {None} : error = Joined(s.error, other)
    <3>1. Joined(s.error, other) \in Errors \cup {None}
      BY <1>1 DEF Joined, StorageErrors, Errors, Goroutine
    <3> QED BY <3>1
  <2> QED BY <1>1, <1>2, <2>1, FailStep
<1>3. CASE Repository!FailProviderAttempt(s.client, r, Current(r)) /\ Fail(r, s.error)
  <2>2. PICK n : n = s.attempt
    OBVIOUS
  <2>3. OwnRows /\ Numbered(r, n) /\ StoreInv
    BY <1>1, <2>2 DEF Here, Held
  <2>4. n \in 1 .. MaxAttempts /\ n \in 1 .. n
    BY <1>1, <2>2, <2>3, Assumed DEF Held, Progress, InFlight, Goroutine
  <2>5. Repository!FailProviderAttempt(s.client, r, <<r, n>>)
    BY <1>3, <2>2 DEF Current
  <2>6. /\ Repository!Next /\ responses' = responses
        /\ OthersUntouched(r) /\ Numbered(r, n)'
    BY <2>3, <2>4, <2>5, FailEffect
  <2>7. ASSUME NEW t \in Goroutine, t.pc \in {"ended", "report"}, t.attempt = n, t.answered = FALSE,
               Equipped(t), Rationed(t), request' = [request EXCEPT ![r] = t]
        PROVE  Stepped(r)
    <3>1. Progress(r, t)'
      BY <1>1, <2>6, <2>7 DEF Held, Progress, Running, InFlight
    <3>2. Held(r, t)'
      BY <2>6, <2>7, <3>1 DEF Held, Equipped, Rationed, Called
    <3> QED BY <1>1, <2>6, <2>7, <3>2 DEF Stepped
  <2>8. CASE Return(r)
    <3>1. PICK t \in Goroutine : t = Returned(r, FALSE)
      BY ReturnedRow
    <3>2. /\ t.pc = "ended" /\ t.attempt = n /\ t.answered = FALSE
          /\ t.calls = s.calls /\ t.tried = {} /\ t.account = None /\ ~t.progressed
      BY <2>2, <3>1, ReturnedRow
    <3>3. Equipped(t) /\ Rationed(t)
      BY <1>1, <2>2, <3>2 DEF Held, Equipped, Rationed, Running
    <3> QED BY <2>7, <2>8, <3>1, <3>2, <3>3 DEF Return
  <2>9. CASE s.account # None /\ request' = [request EXCEPT ![r].pc = "report", ![r].error = s.error]
    <3>1. PICK error \in Errors \cup {None} : error = s.error
      BY <1>1 DEF Goroutine
    <3>2. PICK t : t = [s EXCEPT !.pc = "report", !.error = error]
      OBVIOUS
    <3>3. t \in Goroutine /\ Alike(s, t) /\ t.pc = "report"
      BY <1>1, <3>2 DEF Goroutine, Alike, Running
    <3>4. Equipped(t)
      BY <1>1, <2>9, <3>3 DEF Held, Alike, Equipped, Running
    <3>5. Rationed(t)
      BY <1>1, <3>3, RationedLater DEF Held, Running
    <3>6. t.answered = FALSE
      BY <1>1, <3>3 DEF Held, Progress, Alike, Goroutine
    <3>7. request' = [request EXCEPT ![r] = t]
      BY <2>9, <3>1, <3>2 DEF Here
    <3> QED BY <2>2, <2>7, <3>3, <3>4, <3>5, <3>6, <3>7 DEF Alike
  <2> QED BY <1>3, <2>8, <2>9 DEF Fail
<1> QED BY <1>2, <1>3 DEF FailAttempt

LEMMA CommitResultStep ==
    ASSUME NEW r \in Responses, Here(r), CommitResult(r)
    PROVE  Stepped(r)
<1> DEFINE s == request[r]
<1>1. s \in Goroutine /\ Held(r, s) /\ s.pc = "commit" /\ SelectorInv'
  BY StandStill DEF Here, CommitResult, At
<1>2. ASSUME NEW error \in Errors, Fail(r, error), UNCHANGED storeVars PROVE Stepped(r)
  BY <1>1, <1>2, FailStep
<1>3. ASSUME NEW a \in Repository!AttemptsOf(r), NEW known \in BOOLEAN,
             Repository!CommitConversationResult(s.client, r, a, known), Goto(r, "saved")
      PROVE  Stepped(r)
  <2>2. PICK n : n = s.attempt
    OBVIOUS
  <2>3. OwnRows /\ Numbered(r, n) /\ StoreInv
    BY <1>1, <2>2 DEF Here, Held
  <2>4. n \in 1 .. MaxAttempts /\ attempts[<<r, n>>].status = "started"
    BY <1>1, <2>2, Assumed DEF Held, Progress, InFlight, Goroutine
  <2>5. PICK t : t = [s EXCEPT !.pc = "saved"]
    OBVIOUS
  <2>6. t \in Goroutine /\ Alike(s, t) /\ t.pc = "saved"
    BY <1>1, <2>5 DEF Goroutine, Alike, Running
  <2>7. /\ Repository!Next /\ a = <<r, n>> /\ responses'[r].status = "completed"
        /\ attempts'[a].status = "succeeded" /\ OthersUntouched(r) /\ Numbered(r, n)'
    BY <1>3, <2>3, <2>4, CommitEffect
  <2>8. Progress(r, t)' /\ Equipped(t)'
    BY <1>1, <2>2, <2>4, <2>6, <2>7 DEF Held, Alike, Progress, Equipped, Running, InFlight
  <2>9. Rationed(t)
    BY <1>1, <2>6, RationedLater DEF Held, Running
  <2>10. Held(r, t)'
    BY <2>2, <2>6, <2>7, <2>8, <2>9 DEF Held, Alike, Rationed, Called
  <2>11. request' = [request EXCEPT ![r] = t]
    BY <1>3, <2>5 DEF Goto, Here
  <2> QED BY <1>1, <2>6, <2>7, <2>10, <2>11 DEF Stepped
<1>4. StorageErrors(r) \cup (IF Outgrown(r, s.model) THEN {"other"} ELSE {}) \subseteq Errors
  BY DEF StorageErrors, Errors
<1> QED BY <1>2, <1>3, <1>4 DEF CommitResult

LEMMA RecordSavingsStep ==
    ASSUME NEW r \in Responses, Here(r), RecordSavings(r)
    PROVE  Stepped(r)
<1> DEFINE s == request[r]
<1>1. s \in Goroutine /\ Held(r, s) /\ s.pc = "saved" /\ SelectorInv'
  BY StandStill DEF Here, RecordSavings, At
<1>2. [Repository!Next]_(Repository!vars) /\ UNCHANGED <<responses, attempts>>
  <2>1. CASE UNCHANGED storeVars
    BY <2>1 DEF storeVars, Repository!vars
  <2>2. CASE Repository!RecordAttemptSavings(s.client, r, Current(r))
    BY <2>2, SavingsEffect DEF Here
  <2> QED BY <2>1, <2>2 DEF RecordSavings
<1>3. OthersUntouched(r)
  BY <1>2 DEF OthersUntouched, Untouched
<1>4. PICK t : t = [s EXCEPT !.pc = "praise"]
  OBVIOUS
<1>5. t \in Goroutine /\ Alike(s, t) /\ t.pc = "praise"
  BY <1>1, <1>4 DEF Goroutine, Alike, Running
<1>6. Progress(r, t) /\ Equipped(t)
  BY <1>1, <1>5 DEF Held, Alike, Progress, Equipped, Running, InFlight
<1>7. Rationed(t)
  BY <1>1, <1>5, RationedLater DEF Held, Running
<1>8. Held(r, t)
  BY <1>1, <1>5, <1>6, <1>7 DEF Held, Alike
<1>9. Held(r, t)'
  BY <1>2, <1>8 DEF Held, Numbered, Progress, Equipped, Rationed, Called
<1>10. request' = [request EXCEPT ![r] = t]
  BY <1>4 DEF RecordSavings, Goto, Here
<1> QED BY <1>1, <1>2, <1>3, <1>5, <1>9, <1>10 DEF Stepped

LEMMA AnswerStep ==
    ASSUME NEW r \in Responses, Here(r), Answer(r)
    PROVE  Stepped(r)
<1>1. /\ request[r] \in Goroutine /\ Held(r, request[r]) /\ request[r].pc = "praise"
      /\ UNCHANGED storeVars
  BY DEF Here, Answer, At
<1>2. SelectorInv'
  BY <1>1, ReportSuccessStep DEF Answer, Here, Goroutine
<1>3. TRUE <=> responses[r].status = "completed"
  BY <1>1 DEF Held, Progress
<1>4. Returned(r, TRUE) \in Goroutine /\ Held(r, Returned(r, TRUE))
  BY <1>1, <1>3, ReturnedRow, ReturnedHeld DEF Running
<1> QED BY <1>1, <1>2, <1>4, QuietStep DEF Answer

LEMMA HangUpStep ==
    ASSUME NEW r \in Responses, Here(r), HangUp(r)
    PROVE  Stepped(r)
<1> DEFINE s == request[r]
<1>1. s \in Goroutine /\ Held(r, s) /\ UNCHANGED storeVars /\ SelectorInv' /\ s.pc \in Running
  BY StandStill DEF Here, HangUp
<1>2. PICK gone \in BOOLEAN : gone = TRUE
  OBVIOUS
<1>3. PICK t : t = [s EXCEPT !.gone = gone]
  OBVIOUS
<1>4. t \in Goroutine /\ Alike(s, t) /\ t.pc = s.pc
  <2>1. t \in Goroutine
    BY <1>1, <1>3 DEF Goroutine
  <2>2. Alike(s, t) /\ t.pc = s.pc
    BY <1>1, <1>3 DEF Goroutine, Alike
  <2> QED BY <2>1, <2>2
<1>5. Progress(r, t)
  BY <1>1, <1>4 DEF Held, Alike, Progress, Running, InFlight
<1>6. Equipped(t) /\ Rationed(t)
  BY <1>1, <1>4 DEF Held, Alike, Equipped, Rationed, Called
<1>7. Held(r, t)
  BY <1>1, <1>4, <1>5, <1>6 DEF Held, Alike
<1>8. request' = [request EXCEPT ![r] = t]
  BY <1>2, <1>3 DEF HangUp, Here
<1> QED BY <1>1, <1>4, <1>7, <1>8, QuietStep

-----------------------------------------------------------------------------
LEMMA StepLemma ==
    ASSUME NEW r \in Responses, Here(r), Step(r) \/ HangUp(r)
    PROVE  Stepped(r)
  BY DecideStep, SelectAccountStep, NoMoreRoundsStep, WaitCooldownStep, UnusableStep,
     BeginAttemptStep, CallStep, FailAttemptStep, CommitResultStep, RecordSavingsStep,
     AnswerStep, ReportStep, HangUpStep
  DEF Step

(* A request that has not begun. *)
LEMMA IdleHeld ==
    ASSUME NEW r \in Responses, Numbered(r, 0), responses[r].status = "absent"
    PROVE  Held(r, NoRequest)
<1>1. PICK n \in Goroutine : n = NoRequest
  BY NoRequestRow
<1>2. /\ n.pc = "idle" /\ n.attempt = 0 /\ n.answered = FALSE /\ n.account = None /\ n.tried = {}
      /\ n.round = 0 /\ n.calls = [a \in Accounts |-> 0] /\ n.progressed = FALSE
  BY <1>1 DEF NoRequest
<1>3. Progress(r, n) /\ Equipped(n)
  BY <1>1, <1>2 DEF Progress, Equipped, Running, InFlight
<1>4. Rationed(n)
  BY <1>2, PoolAccounts DEF Rationed
<1> QED BY <1>1, <1>2, <1>3, <1>4 DEF Held

LEMMA ExecutorInvInit == Init => ExecutorInv
<1> SUFFICES ASSUME Init PROVE ExecutorInv
  OBVIOUS
<1>1. StoreInv /\ SelectorInv
  BY StoreInit, SelectorInit DEF Init
<1>2. \A r \in Responses : request[r] = NoRequest /\ request \in [Responses -> Goroutine]
  BY NoRequestRow DEF Init
<1>3. \A r \in Responses : Numbered(r, 0) /\ responses[r].status = "absent"
  BY NoneNumbered DEF Init, Repository!Init, Repository!NoResponse
<1> QED BY <1>1, <1>2, <1>3, NoRequestRow, IdleHeld DEF ExecutorInv, Init

(* Every step is a stutter of the goroutines and the store, or the step of  *)
(* one goroutine.                                                           *)
LEMMA Steps ==
    ASSUME ExecutorInv, [Next]_vars
    PROVE  \/ UNCHANGED <<request, storeVars>> /\ SelectorInv'
           \/ \E r \in Responses : Stepped(r)
<1>1. CASE UNCHANGED vars
  BY <1>1, StandStill DEF vars, ExecutorInv
<1>2. CASE (Reload \/ Tick) /\ UNCHANGED <<request, storeVars>>
  BY <1>2, ReloadOrTickStep DEF ExecutorInv
<1>3. CASE Arrive
  BY <1>3, Everywhere, StartStep DEF Arrive
<1>4. CASE \E r \in Responses : Step(r) \/ HangUp(r)
  BY <1>4, Everywhere, StepLemma
<1> QED BY <1>1, <1>2, <1>3, <1>4 DEF Next

LEMMA ExecutorInvStep == ExecutorInv /\ [Next]_vars => ExecutorInv'
<1> SUFFICES ASSUME ExecutorInv, [Next]_vars PROVE ExecutorInv'
  OBVIOUS
<1>1. CASE UNCHANGED <<request, storeVars>> /\ SelectorInv'
  <2>1. StoreInv'
    BY <1>1, StoreStep DEF storeVars, Repository!vars, ExecutorInv
  <2>2. \A r \in Responses : Held(r, request[r])'
    BY <1>1 DEF ExecutorInv, storeVars, Held, Numbered, Progress, Equipped, Rationed, Called
  <2> QED BY <1>1, <2>1, <2>2 DEF ExecutorInv
<1>2. CASE \E r \in Responses : Stepped(r)
  BY <1>2, SteppedInv
<1> QED BY <1>1, <1>2, Steps

(* The invariant holds of every behaviour. *)
THEOREM ExecutorInvariant == Spec => []ExecutorInv
<1> QED BY ExecutorInvInit, ExecutorInvStep, PTL DEF Spec

-----------------------------------------------------------------------------
(* Theorems *)

(* Requests keep the types of their variables and of the store and selector *)
(* they share.                                                              *)
THEOREM TypeCorrect == Spec => []TypeOK
<1>1. ExecutorInv => TypeOK
  BY Rows, SelectorTypes DEF ExecutorInv, TypeOK
<1> QED BY <1>1, ExecutorInvariant, PTL

(* An output is returned exactly where its response is stored, and credited *)
(* to the attempt that gave it, however many earlier ones still count as    *)
(* started.                                                                 *)
THEOREM OutputsAreStored == Spec => []OutputIsStored
<1>1. ExecutorInv => OutputIsStored
  <2> SUFFICES ASSUME ExecutorInv, NEW r \in Responses, Ended(r)
               PROVE  /\ request[r].answered <=> Stored(r)
                      /\ Stored(r) => attempts[Current(r)].status = "succeeded"
    BY DEF OutputIsStored
  <2> QED BY DEF ExecutorInv, Held, Progress, Ended, Stored, Current
<1> QED BY <1>1, ExecutorInvariant, PTL

(* An account is called at most once in every round that it admits: where   *)
(* it was called, one of its entries allows that many calls.                *)
CallsAreAllowed == \A r \in Responses, a \in Accounts :
    request[r].calls[a] > 0 => Allowed(a, request[r].calls[a] - 1)

THEOREM CallsAllowed == Spec => []CallsAreAllowed
<1>1. ExecutorInv => CallsAreAllowed
  <2> SUFFICES ASSUME ExecutorInv, NEW r \in Responses, NEW a \in Accounts, request[r].calls[a] > 0
               PROVE  Allowed(a, request[r].calls[a] - 1)
    BY DEF CallsAreAllowed
  <2> QED BY DEF ExecutorInv, Held, Rationed
<1> QED BY <1>1, ExecutorInvariant, PTL

(* So, where no reload changes how often an account may be retried, it is   *)
(* never called more often than its retry limit and once.                   *)
SameLimits == \A P, Q \in Pools : \A a \in P, b \in Q :
    a.id = b.id => Selector!RetryLimit(a) = Selector!RetryLimit(b)

THEOREM RetryLimitsHold ==
    ASSUME SameLimits
    PROVE  Spec => []CallsWithinRetryLimit
<1>1. ExecutorInv => CallsWithinRetryLimit
  <2> SUFFICES ASSUME ExecutorInv, NEW r \in Responses, NEW i \in DOMAIN pool
               PROVE  request[r].calls[pool[i].id] <= Selector!RetryLimit(pool[i]) + 1
    BY DEF CallsWithinRetryLimit
  <2>1. PICK P \in Pools : pool[i] \in P
    BY SelectorTypes DEF Selector!TypeOK, Selector!Sortings, ExecutorInv
  <2>2. PICK b \in P : b = pool[i]
    BY <2>1
  <2>3. b.id \in Accounts /\ Selector!RetryLimit(b) \in Nat
    BY PoolAccounts
  <2>4. PICK calls \in 0 .. MaxAttempts : calls = request[r].calls[b.id]
    BY <2>3 DEF ExecutorInv, Goroutine
  <2>5. calls = 0 \/ Allowed(b.id, calls - 1)
    BY <2>3, <2>4 DEF ExecutorInv, Held, Rationed
  <2>6. calls = 0 \/ calls - 1 <= Selector!RetryLimit(b)
    BY <2>5 DEF Allowed, SameLimits
  <2>7. calls <= Selector!RetryLimit(b) + 1
    BY <2>3, <2>4, <2>6
  <2> QED BY <2>2, <2>4, <2>7
<1> QED BY <1>1, ExecutorInvariant, PTL

-----------------------------------------------------------------------------
(* All attempts of a request are made with its one model: the decision is   *)
(* made before the first and kept until the request returns.                *)
OneModel(r, s) ==
    /\ s.pc \in {"idle", "read"} => s.attempt = 0
    /\ s.pc \in Running => \A k \in 1 .. s.attempt : attempts[<<r, k>>].model = s.model
    /\ \A k, l \in 1 .. s.attempt : attempts[<<r, k>>].model = attempts[<<r, l>>].model

(* After a step of the goroutine s it goes on with its model, or is over. *)
GoesOn(s, t) ==
    /\ t.attempt = s.attempt
    /\ t.pc = "ended" \/ (s.pc \in Running /\ t.model = s.model)
    /\ t.pc \in {"idle", "read"} => t.pc = s.pc

LEMMA OneModelKept ==
    ASSUME NEW r \in Responses, Here(r), OneModel(r, request[r]),
           [Repository!Next]_(Repository!vars), GoesOn(request[r], request'[r])
    PROVE  OneModel(r, request[r])'
<1> DEFINE n == request[r].attempt
<1>1. n \in 0 .. MaxAttempts /\ Numbered(r, n) /\ StoreInv
  BY DEF Here, Held, Goroutine
<1>2. \A k \in 1 .. n : k \in 1 .. MaxAttempts /\ attempts[<<r, k>>].status # "absent"
  BY <1>1, Assumed DEF Numbered
<1>3. \A k \in 1 .. n : attempts'[<<r, k>>].model = attempts[<<r, k>>].model
  BY <1>1, <1>2, ModelsKept
<1> QED BY <1>3 DEF OneModel, GoesOn, Running

LEMMA Returning ==
    ASSUME NEW r \in Responses, Here(r), NEW answered \in BOOLEAN,
           request' = [request EXCEPT ![r] = Returned(r, answered)]
    PROVE  GoesOn(request[r], request'[r])
<1>1. request'[r] = Returned(r, answered)
  BY DEF Here
<1> QED BY <1>1, ReturnedRow DEF GoesOn

LEMMA Failing ==
    ASSUME NEW r \in Responses, Here(r), request[r].pc \in Running, NEW error, Fail(r, error)
    PROVE  GoesOn(request[r], request'[r])
<1>1. CASE Return(r)
  BY <1>1, Returning DEF Return
<1>2. CASE request' = [request EXCEPT ![r].pc = "report", ![r].error = error]
  BY <1>2 DEF Here, Goroutine, GoesOn
<1> QED BY <1>1, <1>2 DEF Fail

(* The part of BeginAttempt that begins one. *)
BeginsAttempt(r) ==
    /\ At(r, "begin") /\ Bounded(r)
    /\ Repository!BeginProviderAttempt(
           request[r].client, r, NextAttempt(r), request[r].model, TierOf[request[r].model])
    /\ request' = [request EXCEPT ![r].pc = "call", ![r].attempt = NextAttempt(r)[2]]

(* Only the decision and a new attempt do more. *)
LEMMA MostGoOn ==
    ASSUME NEW r \in Responses, Here(r),
           Step(r) \/ HangUp(r), ~Decide(r)
    PROVE  GoesOn(request[r], request'[r]) \/ BeginsAttempt(r)
<1> DEFINE s == request[r]
<1>1. s \in Goroutine /\ request \in [Responses -> Goroutine]
  BY DEF Here
<1>2. ASSUME Return(r) PROVE GoesOn(request[r], request'[r])
  BY <1>2, Returning DEF Return
<1>3. CASE SelectAccount(r)
  <2>1. s.pc = "select"
    BY <1>3 DEF SelectAccount, At
  <2>2. ASSUME NEW round, request' = [request EXCEPT ![r] = NewPass(r, round)]
        PROVE  GoesOn(request[r], request'[r])
    BY <1>1, <2>1, <2>2 DEF NewPass, GoesOn, Goroutine, Running
  <2>3. ASSUME NEW account, request' = [request EXCEPT ![r].pc = "begin", ![r].account = account,
                                                       ![r].progressed = TRUE]
        PROVE  GoesOn(request[r], request'[r])
    BY <1>1, <2>1, <2>3 DEF GoesOn, Goroutine, Running
  <2>4. ASSUME request' = [request EXCEPT ![r].pc = "wait", ![r].until = WaitEnd]
        PROVE  GoesOn(request[r], request'[r])
    BY <1>1, <2>1, <2>4 DEF GoesOn, Goroutine, Running
  <2> QED BY <1>2, <1>3, <2>2, <2>3, <2>4 DEF SelectAccount
<1>4. CASE NoMoreRounds(r) \/ Unusable(r)
  BY <1>2, <1>4 DEF NoMoreRounds, Unusable
<1>5. CASE WaitCooldown(r)
  <2>1. CASE request' = [request EXCEPT ![r] = [NewPass(r, request[r].round) EXCEPT !.until = 0]]
    BY <1>1, <1>5, <2>1 DEF WaitCooldown, At, NewPass, GoesOn, Goroutine, Running
  <2> QED BY <1>2, <1>5, <2>1 DEF WaitCooldown
<1>6. CASE BeginAttempt(r)
  <2>1. s.pc \in Running
    BY <1>6 DEF BeginAttempt, At, Running
  <2> QED BY <1>6, <2>1, Failing DEF BeginAttempt, BeginsAttempt
<1>7. CASE Call(r)
  <2>1. PICK calls : calls = CallsWith(s)
    OBVIOUS
  <2>2. \/ request' = [request EXCEPT ![r].pc = "commit", ![r].calls = calls]
        \/ \E error : request' = [request EXCEPT ![r].pc = "fail", ![r].error = error, ![r].calls = calls]
    BY <1>7, <2>1 DEF Call, CallsWith, Here
  <2>3. s.pc = "call"
    BY <1>7 DEF Call, At
  <2>4. ASSUME request' = [request EXCEPT ![r].pc = "commit", ![r].calls = calls]
        PROVE  GoesOn(request[r], request'[r])
    BY <1>1, <2>3, <2>4 DEF GoesOn, Goroutine, Running
  <2>5. ASSUME NEW error,
               request' = [request EXCEPT ![r].pc = "fail", ![r].error = error, ![r].calls = calls]
        PROVE  GoesOn(request[r], request'[r])
    BY <1>1, <2>3, <2>5 DEF GoesOn, Goroutine, Running
  <2> QED BY <2>2, <2>4, <2>5
<1>8. CASE FailAttempt(r)
  <2>1. s.pc \in Running
    BY <1>8 DEF FailAttempt, At, Running
  <2> QED BY <1>8, <2>1, Failing DEF FailAttempt
<1>9. CASE CommitResult(r)
  <2>1. s.pc \in Running
    BY <1>9 DEF CommitResult, At, Running
  <2>2. ASSUME Goto(r, "saved") PROVE GoesOn(request[r], request'[r])
    BY <1>1, <2>1, <2>2 DEF Goto, GoesOn, Goroutine, Running
  <2> QED BY <1>9, <2>1, <2>2, Failing DEF CommitResult
<1>10. CASE RecordSavings(r)
  BY <1>1, <1>10 DEF RecordSavings, At, Goto, GoesOn, Goroutine, Running
<1>11. CASE Answer(r)
  BY <1>11, Returning DEF Answer
<1>12. CASE Report(r)
  <2>1. CASE request' = [request EXCEPT ![r].pc = "select", ![r].account = None, ![r].error = None,
                                        ![r].tried = @ \cup {request[r].account}]
    BY <1>1, <1>12, <2>1 DEF Report, At, GoesOn, Goroutine, Running
  <2> QED BY <1>2, <1>12, <2>1 DEF Report
<1>13. CASE HangUp(r)
  BY <1>1, <1>13 DEF HangUp, GoesOn, Goroutine
<1> QED BY <1>3, <1>4, <1>5, <1>6, <1>7, <1>8, <1>9, <1>10, <1>11, <1>12, <1>13 DEF Step

LEMMA OneModelStep ==
    ASSUME NEW r \in Responses, Here(r), OneModel(r, request[r]), Step(r) \/ HangUp(r)
    PROVE  OneModel(r, request[r])'
<1> DEFINE s == request[r]
<1>1. /\ s \in Goroutine /\ Held(r, s) /\ request \in [Responses -> Goroutine]
      /\ StoreInv /\ OwnRows
  BY DEF Here
<1>2. [Repository!Next]_(Repository!vars)
  BY StepLemma DEF Stepped
<1>3. CASE GoesOn(request[r], request'[r])
  BY <1>2, <1>3, OneModelKept
<1>4. CASE Decide(r)
  <2>1. s.pc = "read" /\ s.attempt = 0
    BY <1>4 DEF Decide, At, OneModel
  <2>2. request'[r].attempt = 0 /\ request'[r].pc \in {"begin", "select", "ended"}
    <3>1. CASE Return(r)
      BY <1>1, <2>1, <3>1, ReturnedRow DEF Return
    <3>2. CASE ~Return(r)
      BY <1>1, <1>4, <2>1, <3>2 DEF Decide, Goroutine
    <3> QED BY <3>1, <3>2
  <2> QED BY <2>2 DEF OneModel
<1>5. CASE BeginsAttempt(r)
  <2>1. PICK n \in 0 .. MaxAttempts : n = s.attempt
    BY <1>1 DEF Goroutine
  <2>2. Numbered(r, n) /\ Bounded(r) /\ s.pc = "begin"
    BY <1>1, <1>5, <2>1 DEF Held, BeginsAttempt, At
  <2>3. NextAttempt(r) = <<r, n + 1>> /\ n + 1 \in 1 .. MaxAttempts
    BY <1>1, <2>2, AttemptRows
  <2>4. PICK model \in Models : model = s.model
    BY <1>1, <2>2 DEF Held, Equipped, Running, Goroutine
  <2>5. /\ attempts'[<<r, n + 1>>].model = model
        /\ \A k \in 1 .. MaxAttempts : k # n + 1 => attempts'[<<r, k>>] = attempts[<<r, k>>]
    <3>1. Repository!BeginProviderAttempt(s.client, r, NextAttempt(r), model, TierOf[model])
      BY <1>5, <2>4 DEF BeginsAttempt
    <3>2. /\ attempts'[<<r, n + 1>>] =
                 [response |-> r, model |-> model, tier |-> TierOf[model],
                  seq |-> n, status |-> "started", completed |-> 0]
          /\ \A k \in 1 .. MaxAttempts : k # n + 1 => attempts'[<<r, k>>] = attempts[<<r, k>>]
      BY <1>1, <2>2, <3>1, BeginEffect
    <3> QED BY <3>2
  <2>6. \A k \in 1 .. n : attempts[<<r, k>>].model = model
    BY <2>1, <2>2, <2>4 DEF OneModel, Running
  <2>7. \A k \in 1 .. n + 1 : attempts'[<<r, k>>].model = model
    <3>1. \A k \in 1 .. n + 1 : k \in 1 .. MaxAttempts /\ (k = n + 1 \/ k \in 1 .. n)
      BY <2>3, Assumed
    <3> QED BY <2>5, <2>6, <3>1
  <2>8. request'[r].attempt = n + 1 /\ request'[r].pc = "call" /\ request'[r].model = model
    <3>1. NextAttempt(r)[2] = n + 1
      BY <2>3
    <3>2. request'[r] = [s EXCEPT !.pc = "call", !.attempt = NextAttempt(r)[2]]
      BY <1>1, <1>5 DEF BeginsAttempt
    <3> QED BY <1>1, <2>4, <3>1, <3>2 DEF Goroutine
  <2> QED BY <2>7, <2>8 DEF OneModel
<1> QED BY <1>3, <1>4, <1>5, MostGoOn

LEMMA OneModelStart ==
    ASSUME NEW r \in Responses, Here(r), NEW client \in Clients, NEW session \in Sessions \cup {None},
           NEW named \in Asks, Start(r, client, session, named)
    PROVE  OneModel(r, request[r])'
<1>1. PICK n \in Goroutine : n = NoRequest
  BY NoRequestRow
<1>2. n.attempt = 0
  BY <1>1 DEF NoRequest
<1>3. request'[r].attempt = 0 /\ request'[r].pc = "read"
  <2>1. request'[r] = [n EXCEPT !.pc = "read", !.client = client, !.named = named,
                                !.session = IF named = None THEN None ELSE session]
    BY <1>1 DEF Start, Here
  <2> QED BY <1>2, <2>1 DEF Goroutine
<1> QED BY <1>3 DEF OneModel

LEMMA OneModelOthers ==
    ASSUME NEW q \in Responses, Here(q), OneModel(q, request[q]), Untouched(q), request'[q] = request[q]
    PROVE  OneModel(q, request[q])'
<1>1. \A k \in 1 .. request[q].attempt : attempts'[<<q, k>>] = attempts[<<q, k>>]
  BY Assumed DEF Here, Goroutine, Untouched
<1> QED BY <1>1 DEF OneModel

(* A request that is not streamed never falls back: whatever accounts and   *)
(* rounds it goes through, all its attempts are made with one model.        *)
THEOREM RequestsKeepTheirModel == Spec => [](\A r \in Responses : OneModel(r, request[r]))
<1> DEFINE Kept == \A r \in Responses : OneModel(r, request[r])
<1>1. Init => Kept
  BY DEF Init, NoRequest, OneModel, Running
<1>2. ExecutorInv /\ Kept /\ [Next]_vars => Kept'
  <2> SUFFICES ASSUME ExecutorInv, Kept, [Next]_vars, NEW q \in Responses
               PROVE  OneModel(q, request[q])'
    OBVIOUS
  <2>1. \A r \in Responses : Here(r)
    BY Everywhere
  <2>2. CASE UNCHANGED <<request, storeVars>>
    BY <2>2 DEF storeVars, OneModel
  <2>3. ASSUME NEW r \in Responses, Stepped(r), OneModel(r, request[r])'
        PROVE  OneModel(q, request[q])'
    <3>1. CASE q # r
      <4>1. request'[q] = request[q] /\ Untouched(q)
        BY <2>3, <3>1 DEF Stepped, OthersUntouched, ExecutorInv
      <4> QED BY <2>1, <4>1, OneModelOthers
    <3> QED BY <2>3, <3>1
  <2>4. CASE Arrive
    BY <2>1, <2>3, <2>4, StartStep, OneModelStart DEF Arrive
  <2>5. CASE \E r \in Responses : Step(r) \/ HangUp(r)
    BY <2>1, <2>3, <2>5, StepLemma, OneModelStep
  <2> QED BY <2>2, <2>4, <2>5 DEF Next, vars
<1> QED BY <1>1, <1>2, ExecutorInvariant, PTL DEF Spec

-----------------------------------------------------------------------------
(* Requests implement the store: whatever goroutines, accounts and callers  *)
(* do, the conversations change by the store's transactions alone, so that  *)
(* all that is proved of the store holds of it under them.                  *)
THEOREM RequestsUseTheStore == Spec => Repository!Spec
<1>1. Init => Repository!Init
  BY DEF Init
<1>2. ExecutorInv /\ [Next]_vars => [Repository!Next]_(Repository!vars)
  <2> SUFFICES ASSUME ExecutorInv, [Next]_vars PROVE [Repository!Next]_(Repository!vars)
    OBVIOUS
  <2>1. CASE UNCHANGED <<request, storeVars>>
    BY <2>1 DEF storeVars, Repository!vars
  <2>2. CASE \E r \in Responses : Stepped(r)
    BY <2>2 DEF Stepped
  <2> QED BY <2>1, <2>2, Steps
<1> QED BY <1>1, <1>2, ExecutorInvariant, PTL DEF Spec, Repository!Spec

-----------------------------------------------------------------------------
(* The account selector under requests *)

LEMMA CallOf ==
    ASSUME NEW r \in Responses, Here(r), Step(r) \/ HangUp(r)
    PROVE  SelectorStep
<1>1. CASE UNCHANGED selectorVars
  BY <1>1 DEF SelectorStep
<1>2. CASE SelectAccount(r)
  <2>1. Wanted(r) \in Selector!SelectRequest
    <3>1. request[r] \in Goroutine /\ request[r].model # None
      BY <1>2 DEF Here, SelectAccount, At, Held, Equipped, Running
    <3> QED BY <3>1, WantedType DEF Goroutine, Wanted
  <2>2. \A result : Selector!Returns(Wanted(r), result) => SelectorStep
    BY <2>1, SelectionCall
  <2> QED BY <1>1, <1>2, <2>2 DEF SelectAccount, Selects
<1>3. CASE Unusable(r) \/ Report(r) \/ Answer(r)
  <2>1. request[r].session \in Sessions \cup {None} /\ request[r].account \in Accounts \cup {None}
    BY DEF Here, Goroutine
  <2>2. ASSUME ReportFailure(request[r].session, request[r].account, request[r].error) PROVE SelectorStep
    BY <2>1, <2>2, ReportCall
  <2>3. ASSUME ReportFailure(request[r].session, request[r].account, "authentication") PROVE SelectorStep
    BY <2>1, <2>3, ReportCall
  <2>4. ASSUME ReportSuccess(request[r].session, request[r].account) PROVE SelectorStep
    BY <2>1, <2>4, ReportCall
  <2> QED BY <1>1, <1>3, <2>2, <2>3, <2>4 DEF Unusable, Report, Answer
<1> QED BY <1>1, <1>2, <1>3
        DEF Step, Decide, NoMoreRounds, WaitCooldown, BeginAttempt, Call, FailAttempt,
            CommitResult, RecordSavings, HangUp

LEMMA SelectorSteps == ExecutorInv /\ [Next]_vars => SelectorStep
<1> SUFFICES ASSUME ExecutorInv, [Next]_vars PROVE SelectorStep
  OBVIOUS
<1>1. CASE UNCHANGED vars
  BY <1>1 DEF vars, SelectorStep
<1>2. CASE Reload \/ Tick
  BY <1>2, ReloadOrTickCall
<1>3. CASE \E r \in Responses : Step(r) \/ HangUp(r)
  BY <1>3, Everywhere, CallOf
<1>4. CASE Arrive
  BY <1>4 DEF Arrive, Start, SelectorStep
<1> QED BY <1>1, <1>2, <1>3, <1>4 DEF Next

(* Requests reach the account selector through its operations alone: every  *)
(* step of theirs is a call of it, as any caller may make it, or leaves it  *)
(* as it is.                                                                *)
THEOREM RequestsUseTheSelector == Spec => Selector!Init /\ [][SelectorStep]_selectorVars
<1>1. Init => Selector!Init
  BY DEF Init
<1>2. ExecutorInv /\ [Next]_vars => [SelectorStep]_selectorVars
  BY SelectorSteps
<1> QED BY <1>1, <1>2, ExecutorInvariant, PTL DEF Spec

LEMMA SelectorTimes == Spec => []Accounting!Timely
<1>1. Init => Accounting!Timely
  BY SelectorTimely DEF Init
<1>2. ExecutorInv /\ Accounting!Timely /\ [Next]_vars => Accounting!Timely'
  BY SelectorSteps, SelectorTimely DEF ExecutorInv
<1> QED BY <1>1, <1>2, ExecutorInvariant, PTL DEF Spec

(* So concurrent requests never hand a session's binding that is alive to   *)
(* another account, nor shorten it, whatever they select, report and retry. *)
THEOREM RequestsKeepBindings == Spec => Selector!BindingsAreKept
<1> DEFINE Kept == \A s \in Sessions : Selector!Alive(s) =>
        \/ bindings'[s] = Selector!NoBinding
        \/ /\ bindings'[s].account = bindings[s].account
           /\ bindings'[s].model = bindings[s].model
           /\ bindings'[s].expires >= bindings[s].expires
<1>1. ExecutorInv /\ Accounting!Timely /\ [Next]_vars => [Kept]_(Selector!vars)
  <2> SUFFICES ASSUME ExecutorInv, Accounting!Timely, [Next]_vars PROVE Kept
    OBVIOUS
  <2> QED BY SelectorSteps, SelectorKeeps DEF ExecutorInv
<1> QED BY <1>1, ExecutorInvariant, SelectorTimes, PTL DEF Spec, Selector!BindingsAreKept

(* They never get an account before the shortest cooldown since its last    *)
(* failure is over, whichever of them reported it.                          *)
THEOREM RequestsLetAccountsRest == Spec => RestsBeforeSelection
<1> DEFINE Rests == \A req \in Selector!SelectRequest, a \in Accounts :
        Selector!Returns(req, Selector!Granted(a)) /\ failed[a] >= 0 =>
            \E rest \in {AuthCooldown, QuotaCooldown, TransientCooldown} : now >= failed[a] + rest
<1>1. ExecutorInv => [Rests]_selectorVars
  <2> SUFFICES ASSUME ExecutorInv PROVE Rests
    OBVIOUS
  <2> QED BY SelectorRests DEF ExecutorInv
<1> QED BY <1>1, ExecutorInvariant, PTL DEF Spec, RestsBeforeSelection

(* And no account is taken more often than its share before every eligible  *)
(* one had its own, with weights or without, whichever of them asks.        *)
THEOREM RequestsTakeTurns == Spec => []Selector!FairShare
<1>1. Init => Accounting!ShareInv
  BY SelectorTurns DEF Init
<1>2. ExecutorInv /\ Accounting!ShareInv /\ [Next]_vars => Accounting!ShareInv'
  BY SelectorSteps, SelectorTurns DEF ExecutorInv
<1>3. ExecutorInv /\ Accounting!ShareInv => Selector!FairShare
  BY SelectorTurns DEF ExecutorInv
<1> QED BY <1>1, <1>2, <1>3, ExecutorInvariant, PTL DEF Spec
=============================================================================
