------------------------- MODULE StreamExecutorProofs -------------------------
(***************************************************************************)
(* What StreamExecutor promises, for any number of concurrent streams, any *)
(* catalog, accounts and failures.  The inductive invariant says of every  *)
(* place a goroutine can stand at what the store holds of its request.     *)
(***************************************************************************)
EXTENDS StreamExecutor, ExecutionProofs

(* The attempt of a goroutine at one of these places is not over. *)
InFlight == {"drain", "commit", "report", "settle", "abandon"}

(* Nothing has been shown at these. *)
Silent == {"idle", "read", "next", "wait", "begin", "abandon", "retry", "fallback"}

(* Where the goroutine s of r stands tells what the store holds of r. *)
Progress(r, s) ==
    /\ s.pc = "idle" => s = NoStream
    /\ s.pc # "idle" => responses[r].status # "absent"
    /\ s.pc = "read" => s.attempt = 0
    /\ s.pc \in Running \ {"saved", "complete"} => responses[r].status = "pending"
    /\ s.pc \in InFlight => s.attempt >= 1 /\ attempts[<<r, s.attempt>>].status = "started"
    /\ s.pc \in {"saved", "complete"} =>
          /\ s.attempt >= 1 /\ attempts[<<r, s.attempt>>].status = "succeeded"
          /\ responses[r].status = "completed"
    /\ s.pc \in {"raise", "terminal"} => s.emitted
    /\ s.pc \in {"retry", "fallback"} \/ s.emitted => s.attempt >= 1
    /\ s.pc \in Silent => ~s.emitted

(* Only the attempt in flight is unsettled, unless a record was lost. *)
Settled(r, s) ==
    \A k \in 1 .. s.attempt : attempts[<<r, k>>].status = "started" =>
        s.lost \/ (k = s.attempt /\ s.pc \in InFlight)

(* What the caller was told agrees with the store. *)
Told(r, s) ==
    /\ s.told # None => s.pc = "ended"
    /\ s.told = "completed" =>
          /\ s.attempt >= 1 /\ attempts[<<r, s.attempt>>].status = "succeeded"
          /\ responses[r].status = "completed"
    /\ s.told = "error" => responses[r].status # "completed"
    /\ s.pc = "ended" /\ s.emitted /\ ~s.gone => s.told # None

(* The model m is the first of s, or one it may fall back to. *)
Allows(s, first, m) ==
    m = first \/ (m \in Fallbacks(first) /\ s.allow /\ s.named \notin ExplicitOnly)

FirstModel(r, s) == IF s.attempt >= 1 THEN attempts[<<r, 1>>].model ELSE Head(s.decisions)

(* The attempts made and the candidates left are allowed, and a request     *)
(* that names its model began, or begins, with that one.                    *)
Decided(r, s) ==
    /\ \A k \in 1 .. s.attempt :
          /\ attempts[<<r, k>>].model \in Models
          /\ attempts[<<r, k>>].tier = TierOf[attempts[<<r, k>>].model]
          /\ Allows(s, FirstModel(r, s), attempts[<<r, k>>].model)
    /\ \A i \in DOMAIN s.decisions : Allows(s, FirstModel(r, s), s.decisions[i])
    /\ s.named # None =>
          IF s.attempt >= 1 THEN attempts[<<r, 1>>].model = s.named
          ELSE \A i \in DOMAIN s.decisions : s.decisions[i] = s.named
    /\ s.account # None \/ s.pc \in {"next", "wait"} => s.named # None
    /\ s.pc \in Running \ {"read", "next"} => s.decisions # <<>>

(* Once a stream broke off in front of its caller, its conversation's floor *)
(* is above the broken attempt.                                             *)
Raised(r, s) ==
    s.pc \in {"terminal", "ended"} /\ s.emitted /\ responses[r].status # "completed" /\ ~s.lost =>
        conversations[responses[r].conversation].floor
            >= Repository!NextTier(attempts[<<r, s.attempt>>].tier)

Held(r, s) ==
    /\ Numbered(r, s.attempt) /\ Progress(r, s) /\ Settled(r, s)
    /\ Told(r, s) /\ Decided(r, s) /\ Raised(r, s)

(* What a step of r relies on: its own goroutine, and the store and the     *)
(* selector, whoever else uses them.                                        *)
Here(r) ==
    /\ StoreInv /\ SelectorInv /\ OwnRows
    /\ stream \in [Responses -> Goroutine] /\ Held(r, stream[r])

StreamInv ==
    /\ StoreInv /\ SelectorInv
    /\ stream \in [Responses -> Goroutine]
    /\ \A r \in Responses : Held(r, stream[r])

LEMMA Everywhere == ASSUME StreamInv, NEW r \in Responses PROVE Here(r)
<1>1. ASSUME NEW q \in Responses, NEW k \in 1 .. MaxAttempts, attempts[<<q, k>>].status # "absent"
      PROVE  attempts[<<q, k>>].response = q
  BY <1>1 DEF StreamInv, Held, Numbered
<1> QED BY <1>1 DEF StreamInv, Here, OwnRows
-----------------------------------------------------------------------------
(* What every step of r keeps: the rows and goroutines of the others, and   *)
(* what the store holds of r where r stands now.  A new attempt begins only *)
(* before any output, at a tier that its conversation still accepts.        *)
Opened(r) ==
    /\ ~stream[r].emitted /\ stream'[r].attempt = stream[r].attempt + 1
    /\ attempts'[<<r, stream'[r].attempt>>].tier >= conversations[responses[r].conversation].floor

Stepped(r) ==
    /\ [Repository!Next]_(Repository!vars) /\ SelectorInv' /\ OthersUntouched(r)
    /\ \E row \in Goroutine : stream' = [stream EXCEPT ![r] = row] /\ Held(r, row)'
    /\ stream'[r].attempt = stream[r].attempt \/ Opened(r)

LEMMA OthersHeld ==
    ASSUME NEW q \in Responses, Here(q), Store!ConversationsRise, StoreInv', Untouched(q),
           stream'[q] = stream[q]
    PROVE  Held(q, stream[q])'
<1> DEFINE n == stream[q].attempt
<1>1. stream[q] \in Goroutine /\ Held(q, stream[q])
  BY DEF Here
<1>2. n \in 0 .. MaxAttempts
  BY <1>1 DEF Goroutine
<1>3. \A k \in 1 .. n : attempts'[<<q, k>>] = attempts[<<q, k>>]
  BY <1>2, Assumed DEF Untouched
<1>4. Numbered(q, n)'
  BY <1>1 DEF Held, Numbered, Untouched
<1>5. Progress(q, stream[q])'
  BY <1>1, <1>2, <1>3 DEF Held, Progress, Untouched, InFlight, Running
<1>6. Settled(q, stream[q])'
  BY <1>1, <1>3 DEF Held, Settled
<1>7. Told(q, stream[q])'
  BY <1>1, <1>2, <1>3 DEF Held, Told, Untouched
<1>8. Decided(q, stream[q])'
  BY <1>1, <1>2, <1>3 DEF Held, Decided, FirstModel, Allows
<1>9. Raised(q, stream[q])'
  <2> SUFFICES ASSUME stream[q].pc \in {"terminal", "ended"}, stream[q].emitted,
                      responses[q].status # "completed", ~stream[q].lost
               PROVE  conversations'[responses[q].conversation].floor
                          >= Repository!NextTier(attempts[<<q, n>>].tier)
    BY <1>1, <1>2, <1>3 DEF Untouched, Raised, Held, Progress, Repository!NextTier
  <2> DEFINE c == responses[q].conversation
  <2>1. responses[q].status # "absent" /\ n \in 1 .. n
    BY <1>1, <1>2 DEF Held, Progress
  <2>2. conversations[c].floor >= Repository!NextTier(attempts[<<q, n>>].tier)
    BY <1>1 DEF Held, Raised
  <2>3. conversations[c].floor <= conversations'[c].floor
    BY <2>1, Rising DEF Here
  <2>4. c \in Conversations
    BY <2>1, Rows DEF Here
  <2>5. conversations[c].floor \in Int /\ conversations'[c].floor \in Int
    <3>1. Repository!TypeOK /\ Repository!TypeOK'
      BY Rows, StoreTypes DEF Here
    <3> QED BY <2>4, <3>1, Assumed DEF Repository!TypeOK, Repository!ConversationRow, Repository!Tiers
  <2>6. Repository!NextTier(attempts[<<q, n>>].tier) \in Int
    <3>1. attempts[<<q, n>>].tier \in 0 .. MaxTier
      <4>1. <<q, n>> \in Responses \X (1 .. MaxAttempts) /\ attempts[<<q, n>>].status # "absent"
        BY <1>1, <1>2, <2>1 DEF Held, Numbered
      <4> QED BY <4>1, Rows DEF Here
    <3> QED BY <3>1, Assumed DEF Repository!NextTier
  <2> HIDE DEF c, n
  <2> QED BY <2>2, <2>3, <2>5, <2>6 DEF c
<1> QED BY <1>4, <1>5, <1>6, <1>7, <1>8, <1>9 DEF Held

LEMMA SteppedInv ==
    ASSUME StreamInv, NEW r \in Responses, Stepped(r)
    PROVE  StreamInv' /\ Store!ConversationsRise
<1>1. StoreInv' /\ Store!ConversationsRise
  BY StoreStep DEF Stepped, StreamInv
<1>2. PICK row \in Goroutine : stream' = [stream EXCEPT ![r] = row] /\ Held(r, row)'
  BY DEF Stepped
<1>3. /\ stream \in [Responses -> Goroutine] /\ stream' \in [Responses -> Goroutine]
      /\ stream'[r] = row /\ \A q \in Responses \ {r} : stream'[q] = stream[q]
  BY <1>2 DEF StreamInv
<1>4. Held(r, stream[r])'
  BY <1>2, <1>3
<1>5. ASSUME NEW q \in Responses \ {r} PROVE Held(q, stream[q])'
  BY <1>1, <1>3, Everywhere, OthersHeld DEF Stepped, OthersUntouched
<1> QED BY <1>1, <1>3, <1>4, <1>5 DEF Stepped, StreamInv

(* A step that leaves the store alone. *)
LEMMA QuietStep ==
    ASSUME NEW r \in Responses, Here(r), NEW row \in Goroutine, Held(r, row),
           row.attempt = stream[r].attempt,
           stream' = [stream EXCEPT ![r] = row], UNCHANGED storeVars, SelectorInv'
    PROVE  Stepped(r)
<1>1. UNCHANGED Repository!vars /\ OthersUntouched(r)
  BY DEF storeVars, Repository!vars, OthersUntouched, Untouched
<1>2. Held(r, row)'
  BY DEF storeVars, Held, Numbered, Progress, Settled, Told, Decided, FirstModel, Allows, Raised
<1>3. stream'[r] = row
  BY DEF Here
<1> QED BY <1>1, <1>2, <1>3 DEF Stepped
-----------------------------------------------------------------------------
(* Rows of a goroutine that goes on, or returns *)

(* s may go to the place pc with nothing but its own variables changed. *)
Course(s, pc) ==
    /\ {s.pc, pc} \subseteq Running /\ pc # "read"
    /\ pc \in InFlight <=> s.pc \in InFlight
    /\ pc \in {"saved", "complete"} <=> s.pc \in {"saved", "complete"}
    /\ pc \notin {"raise", "terminal"}
    /\ pc \in {"retry", "fallback"} => s.attempt >= 1
    /\ pc \in Silent => ~s.emitted

Alike(s, t) ==
    /\ t.attempt = s.attempt /\ t.emitted = s.emitted /\ t.told = s.told /\ t.lost = s.lost
    /\ t.gone = s.gone /\ t.named = s.named /\ t.allow = s.allow

LEMMA CourseHeld ==
    ASSUME NEW r, NEW s, NEW t, Held(r, s), Alike(s, t), Course(s, t.pc), Decided(r, t)
    PROVE  Held(r, t)
<1>1. Numbered(r, t.attempt)
  BY DEF Held, Alike
<1>2. Progress(r, t)
  BY DEF Held, Alike, Course, Progress, Running, InFlight
<1>3. Settled(r, t)
  BY DEF Held, Alike, Course, Settled
<1>4. Told(r, t)
  BY DEF Held, Alike, Course, Told, Running
<1>5. Raised(r, t)
  BY DEF Course, Raised, Running
<1> QED BY <1>1, <1>2, <1>3, <1>4, <1>5 DEF Held

(* It keeps its candidates, and takes no new account. *)
LEMMA SameCandidates ==
    ASSUME NEW r, NEW s, NEW t, Decided(r, s), Alike(s, t), t.decisions = s.decisions,
           t.account \in {None, s.account},
           t.pc \in {"next", "wait"} => s.named # None,
           t.pc \in Running \ {"read", "next"} => s.decisions # <<>>
    PROVE  Decided(r, t)
  BY DEF Decided, FirstModel, Allows, Alike

LEMMA GotoStep ==
    ASSUME NEW r \in Responses, Here(r), NEW pc, Goto(r, pc), Course(stream[r], pc),
           pc \in {"next", "wait"} => stream[r].named # None,
           stream[r].pc \notin {"read", "next"},
           UNCHANGED storeVars, SelectorInv'
    PROVE  Stepped(r)
<1> DEFINE s == stream[r]  t == [stream[r] EXCEPT !.pc = pc]
<1>1. s \in Goroutine /\ Held(r, s)
  BY DEF Here
<1>2. t \in Goroutine /\ t.pc = pc /\ Alike(s, t) /\ t.decisions = s.decisions /\ t.account = s.account
  BY <1>1 DEF Course, Goroutine, Alike
<1>3. stream' = [stream EXCEPT ![r] = t]
  BY DEF Goto
<1> HIDE DEF s, t
<1>4. Decided(r, t)
  <2>1. Decided(r, s) /\ s.decisions # <<>>
    BY <1>1 DEF s, Held, Decided, Course
  <2> QED BY <1>2, <2>1, SameCandidates DEF s
<1>5. Held(r, t)
  BY <1>1, <1>2, <1>4, CourseHeld DEF s
<1> QED BY <1>2, <1>3, <1>5, QuietStep DEF s, Alike

LEMMA ReturnedRow ==
    ASSUME NEW r \in Responses, Here(r)
    PROVE  /\ Returned(r) \in Goroutine
           /\ Returned(r).pc = "ended" /\ Returned(r).attempt = stream[r].attempt
           /\ Returned(r).emitted = stream[r].emitted /\ Returned(r).told = stream[r].told
           /\ Returned(r).lost = stream[r].lost /\ Returned(r).gone = stream[r].gone
           /\ Returned(r).named = stream[r].named /\ Returned(r).allow = stream[r].allow
           /\ Returned(r).decisions = <<>> /\ Returned(r).account = None
<1>1. stream[r] \in Goroutine
  BY DEF Here
<1>2. /\ <<>> \in Seq(Models) /\ NoStream.tried \in [Models -> SUBSET Accounts]
      /\ 0 \in 0 .. MaxTier /\ 0 \in Nat
  BY Assumed DEF NoStream
<1> QED BY <1>1, <1>2 DEF Returned, Goroutine

(* s ends as t, which only remembers its request and its attempts. *)
Ends(s, t) ==
    /\ t.pc = "ended" /\ t.attempt = s.attempt /\ t.emitted = s.emitted /\ t.gone = s.gone
    /\ t.named = s.named /\ t.allow = s.allow /\ t.decisions = <<>> /\ t.account = None

LEMMA EndsHeld ==
    ASSUME NEW r \in Responses, Here(r), stream[r].pc \in Running, NEW t \in Goroutine,
           Ends(stream[r], t), Settled(r, t), Told(r, t), Raised(r, t)
    PROVE  Held(r, t)
<1> DEFINE s == stream[r]
<1>1. Held(r, s) /\ s \in Goroutine
  BY DEF Here
<1> HIDE DEF s
<1>2. Progress(r, t)
  BY <1>1 DEF s, Ends, Held, Progress, Running, InFlight, Silent
<1>3. Decided(r, t)
  <2>1. s.attempt \in Int /\ DOMAIN t.decisions = {} /\ t.pc \notin Running
    BY <1>1 DEF s, Ends, Goroutine, Running
  <2>2. CASE s.attempt >= 1
    BY <1>1, <2>1, <2>2 DEF s, Ends, Held, Decided, FirstModel, Allows
  <2>3. CASE ~(s.attempt >= 1)
    BY <2>1, <2>3 DEF s, Ends, Decided
  <2> QED BY <2>2, <2>3
<1> QED BY <1>1, <1>2, <1>3 DEF s, Ends, Held

(* A goroutine returns that has settled its attempts and shown nothing, or  *)
(* whose caller is gone, or learns the end.                                 *)
LEMMA ReturnStep ==
    ASSUME NEW r \in Responses, Here(r), stream[r].pc \in Running \ InFlight,
           stream[r].emitted => stream[r].gone /\ stream[r].pc \in {"complete", "terminal"},
           stream' = [stream EXCEPT ![r] = Returned(r)], UNCHANGED storeVars, SelectorInv'
    PROVE  Stepped(r)
<1> DEFINE s == stream[r]  t == Returned(r)
<1>1. s \in Goroutine /\ Held(r, s)
  BY DEF Here
<1>2. t \in Goroutine /\ Ends(s, t) /\ t.lost = s.lost /\ t.told = s.told
  BY ReturnedRow DEF Ends
<1> HIDE DEF s, t
<1>3. s.told = None
  BY <1>1 DEF s, Held, Told, Running
<1>4. Settled(r, t)
  BY <1>1, <1>2 DEF s, Ends, Held, Settled
<1>5. Told(r, t)
  BY <1>2, <1>3, StreamExecutorAssumption DEF s, Ends, Told
<1>6. Raised(r, t)
  <2>1. CASE ~s.emitted
    BY <1>2, <2>1 DEF Ends, Raised
  <2>2. CASE s.pc = "complete"
    BY <1>1, <2>2 DEF Held, Progress, Raised
  <2>3. CASE s.pc = "terminal"
    BY <1>1, <1>2, <2>3 DEF Ends, Held, Raised
  <2> QED BY <2>1, <2>2, <2>3 DEF s
<1>7. Held(r, t)
  BY <1>2, <1>4, <1>5, <1>6, EndsHeld DEF s
<1> QED BY <1>2, <1>7, QuietStep DEF s, t, Ends

-----------------------------------------------------------------------------
(* One lemma per action of a goroutine *)

LEMMA Selecting ==
    ASSUME NEW r \in Responses, Here(r), stream[r].decisions # <<>>
    PROVE  /\ Candidate(r) \in Models
           /\ Wanted(r) \in Selector!SelectRequest
           /\ stream[r].tried \in [Models -> SUBSET Accounts]
<1>1. /\ stream[r].decisions \in Seq(Models) /\ stream[r].session \in Sessions \cup {None}
      /\ stream[r].tried \in [Models -> SUBSET Accounts]
  BY DEF Here, Goroutine
<1>2. Candidate(r) \in Models
  BY <1>1 DEF Candidate
<1> QED BY <1>1, <1>2, WantedType DEF Wanted

LEMMA WaitCooldownStep ==
    ASSUME NEW r \in Responses, Here(r), WaitCooldown(r)
    PROVE  Stepped(r)
<1>1. Held(r, stream[r]) /\ stream[r].pc = "wait" /\ ~stream[r].emitted /\ stream[r].named # None
  BY DEF Here, WaitCooldown, At, Held, Progress, Decided, Silent
<1>2. UNCHANGED storeVars /\ SelectorInv'
  BY StandStill DEF WaitCooldown, Here
<1>3. CASE Goto(r, "next")
  <2>1. Course(stream[r], "next")
    BY <1>1 DEF Course, Running, InFlight
  <2> QED BY <1>1, <1>2, <1>3, <2>1, GotoStep
<1>4. CASE Return(r)
  BY <1>1, <1>2, <1>4, ReturnStep DEF Return, Running, InFlight
<1> QED BY <1>3, <1>4 DEF WaitCooldown

LEMMA NoCandidateStep ==
    ASSUME NEW r \in Responses, Here(r), NoCandidate(r)
    PROVE  Stepped(r)
<1>1. stream[r].pc = "next" /\ ~stream[r].emitted
  BY DEF Here, NoCandidate, At, Held, Progress, Silent
<1>2. UNCHANGED storeVars /\ SelectorInv'
  BY StandStill DEF NoCandidate, Here
<1> QED BY <1>1, <1>2, ReturnStep DEF NoCandidate, Return, Running, InFlight

LEMMA UnusableStep ==
    ASSUME NEW r \in Responses, Here(r), Unusable(r)
    PROVE  Stepped(r)
<1>1. stream[r].pc = "begin" /\ ~stream[r].emitted
  BY DEF Here, Unusable, At, Held, Progress, Silent
<1>2. stream[r].session \in Sessions \cup {None} /\ stream[r].account \in Accounts \cup {None}
  BY DEF Here, Goroutine
<1>3. SelectorInv'
  BY <1>2, StandStill, ReportFailureStep DEF Unusable, Here
<1> QED BY <1>1, <1>3, ReturnStep DEF Unusable, Return, Running, InFlight

LEMMA ReportStep ==
    ASSUME NEW r \in Responses, Here(r), Report(r)
    PROVE  Stepped(r)
<1>1. stream[r].session \in Sessions \cup {None} /\ stream[r].account \in Accounts \cup {None}
  BY DEF Here, Goroutine
<1>2. SelectorInv'
  BY <1>1, ReportFailureStep DEF Report, Here
<1>3. stream[r].pc = "report" /\ Course(stream[r], "settle")
  BY DEF Report, At, Course, Running, InFlight, Silent
<1> QED BY <1>2, <1>3, GotoStep DEF Report

LEMMA CompleteStep ==
    ASSUME NEW r \in Responses, Here(r), Complete(r)
    PROVE  Stepped(r)
<1>1. UNCHANGED storeVars /\ SelectorInv' /\ stream[r].pc = "complete"
  BY StandStill DEF Complete, At, Here
<1>2. CASE stream[r].gone /\ Return(r)
  BY <1>1, <1>2, ReturnStep DEF Return, Running, InFlight
<1>3. CASE stream' = [stream EXCEPT ![r] = [Returned(r) EXCEPT !.told = "completed"]]
  <2> DEFINE t == [Returned(r) EXCEPT !.told = "completed"]
  <2>1. t \in Goroutine /\ Ends(stream[r], t) /\ t.lost = stream[r].lost /\ t.told = "completed"
    BY ReturnedRow DEF Ends, Goroutine
  <2>2. Held(r, stream[r])
    BY DEF Here
  <2> HIDE DEF t
  <2>3. Settled(r, t)
    BY <1>1, <2>1, <2>2 DEF Ends, Held, Settled, InFlight
  <2>4. Told(r, t)
    BY <1>1, <2>1, <2>2, StreamExecutorAssumption DEF Ends, Held, Progress, Told
  <2>5. Raised(r, t)
    BY <1>1, <2>1, <2>2 DEF Ends, Held, Progress, Raised
  <2>6. Held(r, t)
    BY <1>1, <2>1, <2>3, <2>4, <2>5, EndsHeld DEF Running
  <2> QED BY <1>1, <1>3, <2>1, <2>6, QuietStep DEF t, Ends
<1> QED BY <1>2, <1>3 DEF Complete

LEMMA TerminalErrorStep ==
    ASSUME NEW r \in Responses, Here(r), TerminalError(r)
    PROVE  Stepped(r)
<1>1. UNCHANGED storeVars /\ SelectorInv' /\ stream[r].pc = "terminal"
  BY StandStill DEF TerminalError, At, Here
<1>2. CASE stream[r].gone /\ Return(r)
  BY <1>1, <1>2, ReturnStep DEF Return, Running, InFlight
<1>3. CASE stream' = [stream EXCEPT ![r] = [Returned(r) EXCEPT !.told = "error"]]
  <2> DEFINE t == [Returned(r) EXCEPT !.told = "error"]
  <2>1. t \in Goroutine /\ Ends(stream[r], t) /\ t.lost = stream[r].lost /\ t.told = "error"
    BY ReturnedRow DEF Ends, Goroutine
  <2>2. Held(r, stream[r])
    BY DEF Here
  <2> HIDE DEF t
  <2>3. Settled(r, t)
    BY <1>1, <2>1, <2>2 DEF Ends, Held, Settled, InFlight
  <2>4. Told(r, t)
    BY <1>1, <2>1, <2>2, StreamExecutorAssumption DEF Ends, Held, Progress, Told, Running
  <2>5. Raised(r, t)
    BY <1>1, <2>1, <2>2 DEF Ends, Held, Raised
  <2>6. Held(r, t)
    BY <1>1, <2>1, <2>3, <2>4, <2>5, EndsHeld DEF Running
  <2> QED BY <1>1, <1>3, <2>1, <2>6, QuietStep DEF t, Ends
<1> QED BY <1>2, <1>3 DEF TerminalError

LEMMA HangUpStep ==
    ASSUME NEW r \in Responses, Here(r), HangUp(r)
    PROVE  Stepped(r)
<1> DEFINE s == stream[r]  t == [stream[r] EXCEPT !.gone = TRUE]
<1>1. s \in Goroutine /\ Held(r, s) /\ s.pc \in Running
  BY DEF Here, HangUp, At
<1>2. /\ t \in Goroutine /\ t.pc = s.pc /\ t.attempt = s.attempt /\ t.emitted = s.emitted
      /\ t.told = s.told /\ t.lost = s.lost /\ t.named = s.named /\ t.allow = s.allow
      /\ t.decisions = s.decisions /\ t.account = s.account
  BY <1>1 DEF Goroutine
<1>3. UNCHANGED storeVars /\ SelectorInv' /\ stream' = [stream EXCEPT ![r] = t]
  BY StandStill DEF HangUp, Here
<1> HIDE DEF s, t
<1>4. Progress(r, t) /\ Settled(r, t) /\ Told(r, t) /\ Raised(r, t)
  BY <1>1, <1>2 DEF Held, Progress, Settled, Told, Raised, Running
<1>5. Decided(r, t)
  BY <1>1, <1>2 DEF Held, Decided, FirstModel, Allows
<1>6. Held(r, t)
  BY <1>1, <1>2, <1>4, <1>5 DEF Held
<1> QED BY <1>2, <1>3, <1>6, QuietStep DEF s

(* The attempt breaks: its account is reported, or it is settled at once. *)
LEMMA BreakStep ==
    ASSUME NEW r \in Responses, Here(r), stream[r].pc \in {"drain", "commit"},
           NEW error \in Errors, Break(r, error), UNCHANGED storeVars, SelectorInv'
    PROVE  Stepped(r)
<1> DEFINE s == stream[r]
           pc == IF s.account = None THEN "settle" ELSE "report"
           t == [s EXCEPT !.pc = pc, !.error = error]
<1>1. s \in Goroutine /\ Held(r, s)
  BY DEF Here
<1>2. /\ t \in Goroutine /\ Alike(s, t) /\ t.pc \in {"settle", "report"}
      /\ t.decisions = s.decisions /\ t.account = s.account
  <2>1. pc \in {"settle", "report"}
    OBVIOUS
  <2> HIDE DEF pc
  <2>2. PICK u : u = [s EXCEPT !.pc = pc]
    OBVIOUS
  <2>3. u \in Goroutine
    BY <1>1, <2>1, <2>2 DEF Goroutine, Running
  <2>4. t = [u EXCEPT !.error = error]
    BY <2>2
  <2>5. t \in Goroutine
    BY <2>3, <2>4 DEF Goroutine
  <2>6. Alike(s, t) /\ t.pc = pc /\ t.decisions = s.decisions /\ t.account = s.account
    BY <1>1 DEF Goroutine, Alike
  <2> QED BY <2>1, <2>5, <2>6
<1>3. stream' = [stream EXCEPT ![r] = t]
  BY <1>1 DEF Break, Here
<1> HIDE DEF s, t
<1>4. Course(s, t.pc)
  BY <1>2 DEF s, Course, Running, InFlight, Silent
<1>5. Decided(r, t)
  <2>1. Decided(r, s) /\ s.decisions # <<>>
    BY <1>1 DEF s, Held, Decided, Running
  <2> QED BY <1>2, <2>1, SameCandidates
<1>6. Held(r, t)
  BY <1>1, <1>2, <1>4, <1>5, CourseHeld
<1> QED BY <1>2, <1>3, <1>6, QuietStep DEF s, Alike

LEMMA DrainStep ==
    ASSUME NEW r \in Responses, Here(r), Drain(r)
    PROVE  Stepped(r)
<1>1. UNCHANGED storeVars /\ SelectorInv' /\ stream[r].pc = "drain"
  BY StandStill DEF Drain, At, Here
<1>2. CASE ~stream[r].emitted /\ Goto(r, "abandon")
  <2>1. Course(stream[r], "abandon")
    BY <1>1, <1>2 DEF Course, Running, InFlight
  <2> QED BY <1>1, <1>2, <2>1, GotoStep
<1>3. CASE Goto(r, "commit")
  <2>1. Course(stream[r], "commit")
    BY <1>1 DEF Course, Running, InFlight, Silent
  <2> QED BY <1>1, <1>3, <2>1, GotoStep
<1>4. ASSUME NEW error \in Breaks \cup {"canceled", "other"}, Break(r, error) PROVE Stepped(r)
  BY <1>1, <1>4, BreakStep, Assumed DEF Errors
<1>5. CASE stream' = [stream EXCEPT ![r].emitted = TRUE]
  <2> DEFINE s == stream[r]  t == [stream[r] EXCEPT !.emitted = TRUE]
  <2>1. s \in Goroutine /\ Held(r, s)
    BY DEF Here
  <2>2. /\ t \in Goroutine /\ t.pc = s.pc /\ t.attempt = s.attempt /\ t.emitted
        /\ t.told = s.told /\ t.lost = s.lost /\ t.gone = s.gone /\ t.named = s.named
        /\ t.allow = s.allow /\ t.decisions = s.decisions /\ t.account = s.account
    BY <2>1 DEF Goroutine
  <2>3. stream' = [stream EXCEPT ![r] = t]
    BY <1>5
  <2>4. s.pc = "drain"
    BY <1>1
  <2> HIDE DEF s, t
  <2>5. Progress(r, t) /\ Settled(r, t) /\ Told(r, t) /\ Raised(r, t)
    BY <2>1, <2>2, <2>4 DEF Held, Progress, Settled, Told, Raised, Running, InFlight, Silent
  <2>6. Decided(r, t)
    BY <2>1, <2>2, <2>4 DEF Held, Decided, FirstModel, Allows
  <2>7. Held(r, t)
    BY <2>1, <2>2, <2>5, <2>6 DEF Held
  <2> QED BY <1>1, <2>2, <2>3, <2>7, QuietStep DEF s
<1> QED BY <1>1, <1>2, <1>3, <1>4, <1>5 DEF Drain

(* The failure of the attempt in flight is recorded. *)
LEMMA FailureHeld ==
    ASSUME NEW r \in Responses, Here(r), stream[r].pc \in InFlight, NEW client,
           Repository!FailProviderAttempt(client, r, Current(r)),
           NEW t \in Goroutine, t.attempt = stream[r].attempt, stream[r].lost => t.lost,
           Decided(r, t)
    PROVE  /\ Repository!Next /\ OthersUntouched(r) /\ responses' = responses
           /\ Numbered(r, t.attempt)' /\ Settled(r, t)' /\ Decided(r, t)'
<1> DEFINE n == t.attempt
<1>1. /\ OwnRows /\ Numbered(r, n) /\ n \in 0 .. MaxAttempts /\ n >= 1
      /\ Held(r, stream[r]) /\ Current(r) = <<r, n>>
  BY DEF Here, Held, Progress, Goroutine, Current
<1> HIDE DEF n
<1>2. n \in 1 .. n /\ StoreInv
  BY <1>1, Assumed DEF Here
<1>3. /\ Repository!Next /\ OthersUntouched(r) /\ responses' = responses
      /\ attempts'[<<r, n>>].status = "failed"
      /\ attempts'[<<r, n>>].model = attempts[<<r, n>>].model
      /\ attempts'[<<r, n>>].tier = attempts[<<r, n>>].tier
      /\ \A k \in 1 .. MaxAttempts : k # n => attempts'[<<r, k>>] = attempts[<<r, k>>]
      /\ Numbered(r, n)'
  <2>1. Repository!FailProviderAttempt(client, r, <<r, n>>)
    BY <1>1
  <2> QED BY <1>1, <1>2, <2>1, FailEffect
<1>4. Numbered(r, t.attempt)'
  BY <1>1, <1>3 DEF n
<1>5. Settled(r, t)'
  <2> SUFFICES ASSUME NEW k \in 1 .. n, attempts'[<<r, k>>].status = "started"
               PROVE  t.lost
    BY DEF n, Settled
  <2>1. k # n /\ k \in 1 .. MaxAttempts
    BY <1>1, <1>3, Assumed
  <2> QED BY <1>1, <1>3, <2>1 DEF n, Held, Settled
<1>6. Decided(r, t)'
  <2>1. \A k \in 1 .. n : /\ attempts'[<<r, k>>].model = attempts[<<r, k>>].model
                          /\ attempts'[<<r, k>>].tier = attempts[<<r, k>>].tier
    BY <1>1, <1>3, Assumed
  <2> QED BY <1>1, <2>1 DEF n, Decided, FirstModel, Allows
<1> QED BY <1>3, <1>4, <1>5, <1>6

(* Where s stands after its failure, and what it says of the loss. *)
LEMMA SettleStep ==
    ASSUME NEW r \in Responses, Here(r), Settle(r)
    PROVE  Stepped(r)
<1> DEFINE s == stream[r]
<1>1. s \in Goroutine /\ Held(r, s) /\ s.pc = "settle" /\ SelectorInv' /\ s.attempt >= 1
  BY StandStill DEF Here, Settle, At, Held, Progress, InFlight
<1>2. PICK pc \in Running : pc = IF s.emitted THEN "raise" ELSE "retry"
  BY DEF Running
<1>3. ASSUME NEW t, t.pc = pc, t.attempt = s.attempt, t.emitted = s.emitted, t.told = s.told,
             t.gone = s.gone, t.named = s.named, t.allow = s.allow, t.decisions = s.decisions,
             t.account = s.account
      PROVE  Progress(r, t) /\ Told(r, t) /\ Decided(r, t) /\ Raised(r, t) /\ t.told = None
  <2>2. t.told = None
    BY <1>1, <1>3 DEF Held, Told
  <2> HIDE DEF s
  <2>3. Progress(r, t)
    BY <1>1, <1>2, <1>3 DEF Held, Progress, Running, InFlight, Silent
  <2>4. Told(r, t) /\ Raised(r, t)
    BY <1>2, <1>3, <2>2, StreamExecutorAssumption DEF Told, Raised
  <2>5. Decided(r, t)
    BY <1>1, <1>2, <1>3 DEF Held, Decided, FirstModel, Allows, Running
  <2> QED BY <2>2, <2>3, <2>4, <2>5
<1>4. CASE Repository!FailProviderAttempt(s.client, r, Current(r)) /\ Goto(r, pc)
  <2>1. PICK t : t = [s EXCEPT !.pc = pc]
    OBVIOUS
  <2>2. /\ t \in Goroutine /\ t.pc = pc /\ t.attempt = s.attempt /\ t.emitted = s.emitted
        /\ t.told = s.told /\ t.gone = s.gone /\ t.named = s.named /\ t.allow = s.allow
        /\ t.decisions = s.decisions /\ t.account = s.account /\ t.lost = s.lost
    BY <1>1, <2>1 DEF Goroutine
  <2>3. Progress(r, t) /\ Told(r, t) /\ Decided(r, t) /\ Raised(r, t) /\ t.told = None
    BY <1>3, <2>2
  <2>4. stream' = [stream EXCEPT ![r] = t]
    BY <1>4, <2>1 DEF Goto
  <2>5. /\ Repository!Next /\ OthersUntouched(r) /\ responses' = responses
        /\ Numbered(r, t.attempt)' /\ Settled(r, t)' /\ Decided(r, t)'
    BY <1>1, <1>4, <2>2, <2>3, FailureHeld DEF InFlight
  <2>6. Progress(r, t)' /\ Told(r, t)' /\ Raised(r, t)'
    BY <1>2, <2>2, <2>3, <2>5, StreamExecutorAssumption DEF Progress, Told, Raised, InFlight
  <2>7. stream'[r] = t
    BY <2>4 DEF Here
  <2> QED BY <1>1, <2>2, <2>4, <2>5, <2>6, <2>7 DEF Held, Stepped
<1>5. CASE stream' = [stream EXCEPT ![r].pc = pc, ![r].lost = TRUE] /\ UNCHANGED storeVars
  <2>1. PICK t : t = [s EXCEPT !.pc = pc, !.lost = TRUE]
    OBVIOUS
  <2>2. /\ t \in Goroutine /\ t.pc = pc /\ t.attempt = s.attempt /\ t.emitted = s.emitted
        /\ t.told = s.told /\ t.gone = s.gone /\ t.named = s.named /\ t.allow = s.allow
        /\ t.decisions = s.decisions /\ t.account = s.account /\ t.lost
    BY <1>1, <2>1 DEF Goroutine
  <2>3. Progress(r, t) /\ Told(r, t) /\ Decided(r, t) /\ Raised(r, t) /\ t.told = None
    BY <1>3, <2>2
  <2>4. stream' = [stream EXCEPT ![r] = t]
    BY <1>5, <2>1 DEF Here
  <2>5. Settled(r, t)
    BY <2>2 DEF Settled
  <2>6. Held(r, t)
    BY <1>1, <2>2, <2>3, <2>5 DEF Held
  <2> QED BY <1>1, <1>5, <2>2, <2>4, <2>6, QuietStep
<1> QED BY <1>2, <1>4, <1>5 DEF Settle, FailAttempt

LEMMA AbandonStep ==
    ASSUME NEW r \in Responses, Here(r), Abandon(r)
    PROVE  Stepped(r)
<1> DEFINE s == stream[r]
<1>1. s \in Goroutine /\ Held(r, s) /\ s.pc = "abandon" /\ SelectorInv'
  BY StandStill DEF Here, Abandon, At
<1>2. s.told = None /\ ~s.emitted
  BY <1>1 DEF Held, Told, Progress, Silent
<1>3. ASSUME NEW t \in Goroutine, Ends(s, t), t.told = None, t.lost
      PROVE  Held(r, t)
  <2>1. Settled(r, t) /\ Told(r, t) /\ Raised(r, t)
    BY <1>2, <1>3, StreamExecutorAssumption DEF Settled, Told, Raised, Ends
  <2> QED BY <1>1, <1>3, <2>1, EndsHeld DEF Running
<1>4. CASE Repository!FailProviderAttempt(s.client, r, Current(r)) /\ Return(r)
  <2>1. PICK t : t = Returned(r)
    OBVIOUS
  <2>2. t \in Goroutine /\ Ends(s, t) /\ t.told = s.told /\ t.lost = s.lost
    BY <2>1, ReturnedRow DEF Ends
  <2>a. PICK lost \in BOOLEAN : lost = TRUE
    OBVIOUS
  <2>3. PICK u : u = [t EXCEPT !.lost = lost]
    OBVIOUS
  <2>4. u \in Goroutine /\ Ends(s, u) /\ u.told = t.told /\ u.lost
    <3>1. u \in Goroutine
      BY <2>2, <2>a, <2>3 DEF Goroutine
    <3>2. Ends(s, u) /\ u.told = t.told /\ u.lost
      BY <2>2, <2>a, <2>3 DEF Ends, Goroutine
    <3> QED BY <3>1, <3>2
  <2>5. Held(r, u)
    BY <1>2, <1>3, <2>2, <2>4
  <2>6. Decided(r, t) /\ Progress(r, t)
    BY <2>2, <2>4, <2>5 DEF Held, Decided, Progress, FirstModel, Allows, Ends, Running, InFlight, Silent
  <2>7. /\ Repository!Next /\ OthersUntouched(r) /\ responses' = responses
        /\ Numbered(r, t.attempt)' /\ Settled(r, t)' /\ Decided(r, t)'
    BY <1>1, <1>4, <2>2, <2>6, FailureHeld DEF InFlight, Ends
  <2>8. Progress(r, t)' /\ Told(r, t)' /\ Raised(r, t)'
    BY <1>2, <2>2, <2>6, <2>7, StreamExecutorAssumption
    DEF Ends, Progress, Told, Raised, Running, InFlight, Silent
  <2>9. stream' = [stream EXCEPT ![r] = t] /\ stream'[r] = t
    BY <1>4, <2>1 DEF Return, Here
  <2> QED BY <1>1, <2>2, <2>7, <2>8, <2>9 DEF Held, Stepped, Ends
<1>5. CASE stream' = [stream EXCEPT ![r] = [Returned(r) EXCEPT !.lost = TRUE]] /\ UNCHANGED storeVars
  <2>0. PICK u : u = Returned(r)
    OBVIOUS
  <2>a. PICK lost \in BOOLEAN : lost = TRUE
    OBVIOUS
  <2>1. PICK t : t = [u EXCEPT !.lost = lost]
    OBVIOUS
  <2>2. t \in Goroutine /\ Ends(s, t) /\ t.told = s.told /\ t.lost
    <3>1. u \in Goroutine /\ Ends(s, u) /\ u.told = s.told
      BY <2>0, ReturnedRow DEF Ends
    <3>2. t \in Goroutine
      BY <2>a, <2>1, <3>1 DEF Goroutine
    <3>3. Ends(s, t) /\ t.told = s.told /\ t.lost
      BY <2>a, <2>1, <3>1 DEF Ends, Goroutine
    <3> QED BY <3>2, <3>3
  <2>3. Held(r, t)
    BY <1>2, <1>3, <2>2
  <2>4. stream' = [stream EXCEPT ![r] = t]
    BY <1>5, <2>0, <2>a, <2>1
  <2> QED BY <1>1, <1>5, <2>2, <2>3, <2>4, QuietStep DEF Ends
<1> QED BY <1>4, <1>5 DEF Abandon

LEMMA RaiseFloorStep ==
    ASSUME NEW r \in Responses, Here(r), RaiseFloor(r)
    PROVE  Stepped(r)
<1> DEFINE s == stream[r]
<1>1. s \in Goroutine /\ Held(r, s) /\ s.pc = "raise" /\ SelectorInv'
  BY StandStill DEF Here, RaiseFloor, At
<1>2. s.told = None /\ s.emitted /\ s.decisions # <<>>
  BY <1>1 DEF Held, Told, Progress, Decided, Running
<1>3. ASSUME NEW t, t.pc = "terminal", t.attempt = s.attempt, t.emitted = s.emitted,
             t.told = s.told, t.gone = s.gone, t.named = s.named, t.allow = s.allow,
             t.decisions = s.decisions, t.account = s.account, s.lost => t.lost
      PROVE  /\ Numbered(r, t.attempt) /\ Progress(r, t) /\ Settled(r, t)
             /\ Told(r, t) /\ Decided(r, t)
  <2> HIDE DEF s
  <2>1. Numbered(r, t.attempt) /\ Progress(r, t)
    BY <1>1, <1>2, <1>3 DEF Held, Progress, Running, InFlight, Silent
  <2>2. Settled(r, t)
    BY <1>1, <1>3 DEF Held, Settled, InFlight
  <2>3. Told(r, t)
    BY <1>2, <1>3, StreamExecutorAssumption DEF Told
  <2>4. Decided(r, t)
    BY <1>1, <1>2, <1>3 DEF Held, Decided, FirstModel, Allows
  <2> QED BY <2>1, <2>2, <2>3, <2>4
<1>4. CASE Repository!RaiseConversationFloor(s.client, r, Current(r)) /\ Goto(r, "terminal")
  <2>1. PICK t : t = [s EXCEPT !.pc = "terminal"]
    OBVIOUS
  <2>2. /\ t \in Goroutine /\ t.pc = "terminal" /\ t.attempt = s.attempt /\ t.emitted = s.emitted
        /\ t.told = s.told /\ t.gone = s.gone /\ t.named = s.named /\ t.allow = s.allow
        /\ t.decisions = s.decisions /\ t.account = s.account /\ t.lost = s.lost
    BY <1>1, <2>1 DEF Goroutine, Running
  <2>3. /\ Numbered(r, t.attempt) /\ Progress(r, t) /\ Settled(r, t)
        /\ Told(r, t) /\ Decided(r, t)
    BY <1>3, <2>2
  <2>4. PICK a : a = Current(r)
    OBVIOUS
  <2>5. a = <<r, t.attempt>>
    BY <2>2, <2>4 DEF Current
  <2>6. /\ Repository!Next /\ responses' = responses /\ attempts' = attempts
        /\ conversations'[responses[r].conversation].floor >= Repository!NextTier(attempts[a].tier)
    <3>1. StoreInv /\ Repository!RaiseConversationFloor(s.client, r, a)
      BY <1>4, <2>4 DEF Here
    <3> QED BY <3>1, RaiseEffect
  <2>7. /\ Numbered(r, t.attempt)' /\ Progress(r, t)' /\ Settled(r, t)'
        /\ Told(r, t)' /\ Decided(r, t)'
    BY <2>3, <2>6 DEF Numbered, Progress, Settled, Told, Decided, FirstModel, Allows
  <2>8. Raised(r, t)'
    BY <2>5, <2>6 DEF Raised, Repository!NextTier
  <2>9. stream' = [stream EXCEPT ![r] = t] /\ stream'[r] = t
    BY <1>4, <2>1 DEF Goto, Here
  <2>10. OthersUntouched(r)
    BY <2>6 DEF OthersUntouched, Untouched
  <2> QED BY <1>1, <2>2, <2>6, <2>7, <2>8, <2>9, <2>10 DEF Held, Stepped
<1>5. CASE /\ stream' = [stream EXCEPT ![r].pc = "terminal", ![r].lost = TRUE]
           /\ UNCHANGED storeVars
  <2>1. PICK t : t = [s EXCEPT !.pc = "terminal", !.lost = TRUE]
    OBVIOUS
  <2>2. /\ t \in Goroutine /\ t.pc = "terminal" /\ t.attempt = s.attempt /\ t.emitted = s.emitted
        /\ t.told = s.told /\ t.gone = s.gone /\ t.named = s.named /\ t.allow = s.allow
        /\ t.decisions = s.decisions /\ t.account = s.account /\ t.lost
    BY <1>1, <2>1 DEF Goroutine, Running
  <2>3. Held(r, t)
    BY <1>3, <2>2 DEF Held, Raised
  <2>4. stream' = [stream EXCEPT ![r] = t]
    BY <1>5, <2>1 DEF Here
  <2> QED BY <1>1, <1>5, <2>2, <2>3, <2>4, QuietStep
<1> QED BY <1>4, <1>5 DEF RaiseFloor

LEMMA BeginAttemptStep ==
    ASSUME NEW r \in Responses, Here(r), BeginAttempt(r)
    PROVE  Stepped(r)
<1> DEFINE s == stream[r]
<1>1. s \in Goroutine /\ Held(r, s) /\ s.pc = "begin" /\ SelectorInv' /\ Bounded(r)
  BY StandStill DEF Here, BeginAttempt, At
<1>2. s.told = None /\ ~s.emitted /\ s.decisions # <<>>
  BY <1>1 DEF Held, Told, Progress, Silent, Decided, Running
<1>3. CASE Return(r) /\ UNCHANGED storeVars
  BY <1>1, <1>2, <1>3, ReturnStep DEF Return, Running, InFlight
<1>4. CASE /\ Repository!BeginProviderAttempt(s.client, r, NextAttempt(r), Candidate(r), TierOf[Candidate(r)])
           /\ stream' = [stream EXCEPT ![r].pc = "drain", ![r].attempt = NextAttempt(r)[2]]
  <2>2. OwnRows /\ Numbered(r, s.attempt) /\ StoreInv
    BY <1>1 DEF Here, Held
  <2>3. PICK n : n = s.attempt + 1
    OBVIOUS
  <2>4. /\ n \in 1 .. MaxAttempts /\ s.attempt \in 0 .. MaxAttempts
        /\ NextAttempt(r) = <<r, n>>
    <3>1. s.attempt \in 0 .. MaxAttempts
      BY <1>1 DEF Goroutine
    <3> QED BY <1>1, <2>2, <2>3, <3>1, AttemptRows
  <2>5. PICK model \in Models : model = Candidate(r)
    BY <1>2, Selecting
  <2>6. PICK t : t = [s EXCEPT !.pc = "drain", !.attempt = n]
    OBVIOUS
  <2>7. /\ t \in Goroutine /\ t.pc = "drain" /\ t.attempt = n /\ t.emitted = s.emitted
        /\ t.told = s.told /\ t.gone = s.gone /\ t.named = s.named /\ t.allow = s.allow
        /\ t.decisions = s.decisions /\ t.account = s.account /\ t.lost = s.lost
    <3>1. n \in 0 .. MaxAttempts
      BY <2>4, Assumed
    <3> QED BY <1>1, <2>6, <3>1 DEF Goroutine, Running
  <2>8. /\ Repository!Next
        /\ responses[r].status = "pending" /\ responses' = responses
        /\ TierOf[model] >= conversations[responses[r].conversation].floor
        /\ attempts'[<<r, n>>] =
               [response |-> r, model |-> model, tier |-> TierOf[model],
                seq |-> n - 1, status |-> "started", completed |-> 0]
        /\ \A k \in 1 .. MaxAttempts : k # n => attempts'[<<r, k>>] = attempts[<<r, k>>]
        /\ OthersUntouched(r)
        /\ Numbered(r, n)'
    <3>1. Repository!BeginProviderAttempt(s.client, r, NextAttempt(r), model, TierOf[model])
      BY <1>4, <2>5
    <3>2. PICK m \in 0 .. MaxAttempts : m = s.attempt
      BY <2>4
    <3>3. n = m + 1 /\ m = n - 1 /\ Numbered(r, m)
      BY <2>2, <2>3, <3>2
    <3> QED BY <1>1, <2>2, <3>1, <3>3, BeginEffect
  <2>9. stream' = [stream EXCEPT ![r] = t] /\ stream'[r] = t
    <3>1. NextAttempt(r)[2] = n
      BY <2>4
    <3> QED BY <1>4, <2>6, <3>1 DEF Here
  <2>10. attempts'[<<r, n>>].model = model /\ attempts'[<<r, n>>].tier = TierOf[model]
         /\ attempts'[<<r, n>>].status = "started"
    BY <2>8
  <2>11. Progress(r, t)' /\ Told(r, t)' /\ Raised(r, t)'
    BY <1>1, <1>2, <2>4, <2>7, <2>8, <2>10, StreamExecutorAssumption
    DEF Progress, Told, Raised, Running, InFlight, Silent
  <2>12. Settled(r, t)'
    <3> SUFFICES ASSUME NEW k \in 1 .. n, k # n, attempts'[<<r, k>>].status = "started"
                 PROVE  t.lost
      BY <2>7 DEF Settled, InFlight
    <3>1. k \in 1 .. s.attempt /\ attempts[<<r, k>>].status = "started"
      BY <2>3, <2>4, <2>8, Assumed
    <3> QED BY <1>1, <2>7, <3>1 DEF Held, Settled, InFlight
  <2>13. Decided(r, t)'
    <3>1. \A k \in 1 .. s.attempt : /\ attempts'[<<r, k>>].model = attempts[<<r, k>>].model
                                    /\ attempts'[<<r, k>>].tier = attempts[<<r, k>>].tier
      <4> SUFFICES ASSUME NEW k \in 1 .. s.attempt PROVE attempts'[<<r, k>>] = attempts[<<r, k>>]
        OBVIOUS
      <4>1. k \in 1 .. MaxAttempts /\ k # n
        BY <2>3, <2>4, Assumed
      <4> QED BY <2>8, <4>1
    <3>2. Decided(r, s) /\ 1 \in DOMAIN s.decisions /\ s.decisions[1] = model
      <4>1. s.decisions \in Seq(Models) /\ model = Head(s.decisions)
        BY <1>1, <2>5 DEF Goroutine, Candidate
      <4> QED BY <1>1, <1>2, <4>1 DEF Held
    <3>3. FirstModel(r, s) = attempts'[<<r, 1>>].model
      <4>1. CASE s.attempt >= 1
        BY <2>4, <3>1, <4>1 DEF FirstModel
      <4>2. CASE ~(s.attempt >= 1)
        <5>1. n = 1
          BY <2>3, <2>4, <4>2
        <5> QED BY <2>5, <2>10, <4>2, <5>1 DEF FirstModel, Candidate
      <4> QED BY <4>1, <4>2
    <3>4. PICK first : first = FirstModel(r, s)
      OBVIOUS
    <3>5. FirstModel(r, t)' = first
      BY <2>4, <2>7, <3>3, <3>4 DEF FirstModel
    <3>6. \A k \in 1 .. n : /\ attempts'[<<r, k>>].model \in Models
                            /\ attempts'[<<r, k>>].tier = TierOf[attempts'[<<r, k>>].model]
                            /\ Allows(t, first, attempts'[<<r, k>>].model)
      <4> SUFFICES ASSUME NEW k \in 1 .. n
                   PROVE  /\ attempts'[<<r, k>>].model \in Models
                          /\ attempts'[<<r, k>>].tier = TierOf[attempts'[<<r, k>>].model]
                          /\ Allows(t, first, attempts'[<<r, k>>].model)
        OBVIOUS
      <4>1. CASE k = n
        BY <2>7, <2>10, <3>2, <3>4, <4>1 DEF Decided, Allows
      <4>2. CASE k # n
        <5>1. k \in 1 .. s.attempt
          BY <2>3, <2>4, <4>2
        <5> QED BY <2>7, <3>1, <3>2, <3>4, <5>1 DEF Decided, Allows
      <4> QED BY <4>1, <4>2
    <3>7. \A i \in DOMAIN t.decisions : Allows(t, first, t.decisions[i])
      BY <2>7, <3>2, <3>4 DEF Decided, Allows
    <3>8. t.named # None => attempts'[<<r, 1>>].model = t.named
      <4>1. CASE s.attempt >= 1
        BY <2>4, <2>7, <3>1, <3>2, <4>1 DEF Decided
      <4>2. CASE ~(s.attempt >= 1)
        <5>1. n = 1
          BY <2>3, <2>4, <4>2
        <5> QED BY <2>7, <2>10, <3>2, <4>2, <5>1 DEF Decided
      <4> QED BY <4>1, <4>2
    <3>9. t.account # None => t.named # None
      BY <2>7, <3>2 DEF Decided
    <3> QED BY <1>2, <2>4, <2>7, <3>5, <3>6, <3>7, <3>8, <3>9 DEF Decided
  <2>14. Held(r, t)'
    BY <2>7, <2>8, <2>11, <2>12, <2>13 DEF Held
  <2>15. Opened(r)
    BY <1>2, <2>3, <2>7, <2>8, <2>9, <2>10 DEF Opened
  <2> QED BY <1>1, <2>7, <2>8, <2>9, <2>14, <2>15 DEF Stepped
<1> QED BY <1>3, <1>4 DEF BeginAttempt

LEMMA CommitResultStep ==
    ASSUME NEW r \in Responses, Here(r), CommitResult(r)
    PROVE  Stepped(r)
<1> DEFINE s == stream[r]
<1>1. s \in Goroutine /\ Held(r, s) /\ s.pc = "commit" /\ SelectorInv'
  BY StandStill DEF Here, CommitResult, At
<1>2. s.told = None /\ s.decisions # <<>>
  BY <1>1 DEF Held, Told, Decided, Running
<1>3. CASE Break(r, "other") /\ UNCHANGED storeVars
  BY <1>1, <1>3, BreakStep DEF Errors
<1>4. ASSUME NEW a \in Repository!AttemptsOf(r), NEW known \in BOOLEAN,
             Repository!CommitConversationResult(s.client, r, a, known), Goto(r, "saved")
      PROVE  Stepped(r)
  <2>2. PICK n : n = s.attempt
    OBVIOUS
  <2>3. OwnRows /\ Numbered(r, n) /\ StoreInv
    BY <1>1, <2>2 DEF Here, Held
  <2>4. n \in 1 .. MaxAttempts /\ attempts[<<r, n>>].status = "started"
    BY <1>1, <2>2, Assumed DEF Held, Progress, InFlight, Goroutine
  <2>5. PICK t : t = [s EXCEPT !.pc = "saved"]
    OBVIOUS
  <2>6. /\ t \in Goroutine /\ t.pc = "saved" /\ t.attempt = n /\ t.emitted = s.emitted
        /\ t.told = s.told /\ t.gone = s.gone /\ t.named = s.named /\ t.allow = s.allow
        /\ t.decisions = s.decisions /\ t.account = s.account /\ t.lost = s.lost
    BY <1>1, <2>2, <2>5 DEF Goroutine, Running
  <2>7. /\ Repository!Next /\ a = <<r, n>> /\ responses'[r].status = "completed"
        /\ attempts'[a].status = "succeeded"
        /\ attempts'[a].model = attempts[a].model /\ attempts'[a].tier = attempts[a].tier
        /\ \A k \in 1 .. MaxAttempts : k # n => attempts'[<<r, k>>] = attempts[<<r, k>>]
        /\ OthersUntouched(r)
        /\ Numbered(r, n)'
    BY <1>4, <2>3, <2>4, CommitEffect
  <2>8. stream' = [stream EXCEPT ![r] = t] /\ stream'[r] = t
    BY <1>4, <2>5 DEF Goto, Here
  <2>9. Progress(r, t)' /\ Told(r, t)' /\ Raised(r, t)'
    BY <1>1, <1>2, <2>4, <2>6, <2>7, StreamExecutorAssumption
    DEF Progress, Told, Raised, Running, InFlight, Silent
  <2>10. Settled(r, t)'
    <3> SUFFICES ASSUME NEW k \in 1 .. n, attempts'[<<r, k>>].status = "started"
                 PROVE  t.lost
      BY <2>6 DEF Settled
    <3>1. k # n /\ attempts[<<r, k>>].status = "started"
      BY <2>4, <2>7, Assumed
    <3> QED BY <1>1, <2>2, <2>6, <3>1 DEF Held, Settled
  <2>11. Decided(r, t)'
    <3>1. \A k \in 1 .. n : /\ attempts'[<<r, k>>].model = attempts[<<r, k>>].model
                            /\ attempts'[<<r, k>>].tier = attempts[<<r, k>>].tier
      <4> SUFFICES ASSUME NEW k \in 1 .. n
                   PROVE  /\ attempts'[<<r, k>>].model = attempts[<<r, k>>].model
                          /\ attempts'[<<r, k>>].tier = attempts[<<r, k>>].tier
        OBVIOUS
      <4>1. k \in 1 .. MaxAttempts
        BY <2>4, Assumed
      <4> QED BY <2>7, <4>1
    <3>2. PICK first : first = FirstModel(r, s)
      OBVIOUS
    <3>3. FirstModel(r, t)' = first
      BY <2>2, <2>4, <2>6, <3>1, <3>2 DEF FirstModel
    <3>4. Decided(r, s)
      BY <1>1 DEF Held
    <3>5. \A k \in 1 .. n : /\ attempts'[<<r, k>>].model \in Models
                            /\ attempts'[<<r, k>>].tier = TierOf[attempts'[<<r, k>>].model]
                            /\ Allows(t, first, attempts'[<<r, k>>].model)
      BY <2>2, <2>6, <3>1, <3>2, <3>4 DEF Decided, Allows
    <3> QED BY <1>2, <2>2, <2>4, <2>6, <3>1, <3>2, <3>3, <3>4, <3>5 DEF Decided, Allows
  <2>12. Held(r, t)'
    BY <2>6, <2>7, <2>9, <2>10, <2>11 DEF Held
  <2> QED BY <1>1, <2>2, <2>6, <2>7, <2>8, <2>12 DEF Stepped
<1> QED BY <1>1, <1>3, <1>4 DEF CommitResult

LEMMA RecordSavingsStep ==
    ASSUME NEW r \in Responses, Here(r), RecordSavings(r)
    PROVE  Stepped(r)
<1> DEFINE s == stream[r]
<1>1. s \in Goroutine /\ Held(r, s) /\ s.pc = "saved"
  BY DEF Here, RecordSavings, At
<1>2. SelectorInv'
  <2>1. s.session \in Sessions \cup {None} /\ s.account \in Accounts \cup {None}
    BY <1>1 DEF Goroutine
  <2> QED BY <2>1, ReportSuccessStep DEF RecordSavings, Here
<1>3. [Repository!Next]_(Repository!vars) /\ UNCHANGED <<responses, attempts>>
  <2>1. CASE UNCHANGED storeVars
    BY <2>1 DEF storeVars, Repository!vars
  <2>2. CASE Repository!RecordAttemptSavings(s.client, r, Current(r))
    BY <2>2, SavingsEffect DEF Here
  <2> QED BY <2>1, <2>2 DEF RecordSavings
<1>4. OthersUntouched(r)
  BY <1>3 DEF OthersUntouched, Untouched
<1>5. PICK t : t = [s EXCEPT !.pc = "complete"]
  OBVIOUS
<1>6. t \in Goroutine /\ Alike(s, t) /\ t.pc = "complete" /\ t.decisions = s.decisions /\ t.account = s.account
  BY <1>1, <1>5 DEF Goroutine, Alike, Running
<1>7. stream' = [stream EXCEPT ![r] = t] /\ stream'[r] = t
  BY <1>5 DEF RecordSavings, Goto, Here
<1>8. Decided(r, t)
  <2>1. Decided(r, s) /\ s.decisions # <<>>
    BY <1>1 DEF Held, Decided, Running
  <2> QED BY <1>6, <2>1, SameCandidates
<1>9. Held(r, t)
  <2>1. Course(s, t.pc)
    BY <1>1, <1>6 DEF Course, Running, InFlight, Silent
  <2> QED BY <1>1, <1>6, <1>8, <2>1, CourseHeld
<1>10. Held(r, t)'
  BY <1>3, <1>6, <1>9 DEF Held, Numbered, Progress, Settled, Told, Decided, FirstModel, Allows, Raised
<1> QED BY <1>2, <1>3, <1>4, <1>6, <1>7, <1>10 DEF Stepped, Alike

(* A ranking of models lists models of that set. *)
LEMMA Rankings ==
    ASSUME NEW S \in SUBSET Models, NEW rest \in SetToAllKPermutations(S)
    PROVE  rest \in Seq(Models) /\ \A i \in DOMAIN rest : rest[i] \in S
<1>1. PICK T \in SUBSET S : rest \in SetToSeqs(T)
  BY DEF SetToAllKPermutations
<1>2. IsFiniteSet(T)
  BY Assumed, FS_Subset
<1>3. Cardinality(T) \in Nat
  BY <1>2, FS_CardinalityType
<1>4. rest \in [1 .. Cardinality(T) -> T]
  BY <1>1 DEF SetToSeqs
<1> QED BY <1>3, <1>4

LEMMA StartStep ==
    ASSUME NEW r \in Responses, Here(r), NEW client \in Clients, NEW session \in Sessions \cup {None},
           NEW named \in Asks, NEW control \in Controls, Start(r, client, session, named, control)
    PROVE  Stepped(r)
<1>1. Held(r, stream[r]) /\ stream[r] = NoStream /\ SelectorInv'
  BY StandStill DEF Here, Start, At, Held, Progress
<1>2. /\ Repository!Next /\ responses'[r].status = "pending"
      /\ attempts' = attempts /\ OthersUntouched(r)
  BY TurnEffect DEF Start, Here
<1>3. PICK t : t = [NoStream EXCEPT !.pc = "read", !.client = client, !.session = session,
                                    !.named = named,
                                    !.allow = IF control = None THEN named = None ELSE control]
  OBVIOUS
<1>4. /\ t.pc = "read" /\ t.attempt = 0 /\ t.emitted = FALSE /\ t.told = None
      /\ t.decisions = <<>> /\ t.account = None
  BY <1>3 DEF NoStream
<1>5. t \in Goroutine
  <2>1. PICK allow \in BOOLEAN : allow = IF control = None THEN named = None ELSE control
    BY StreamExecutorAssumption
  <2>2. named \in Models \cup {None}
    BY Assumed
  <2>3. NoStream \in Goroutine
    <3>1. <<>> \in Seq(Models) /\ [m \in Models |-> {}] \in [Models -> SUBSET Accounts]
          /\ 0 \in 0 .. MaxTier /\ 0 \in 0 .. MaxAttempts
      BY Assumed
    <3> QED BY <3>1 DEF NoStream, Goroutine
  <2>4. t = [NoStream EXCEPT !.pc = "read", !.client = client, !.session = session,
                             !.named = named, !.allow = allow]
    BY <1>3, <2>1
  <2> HIDE DEF NoStream
  <2> QED BY <2>2, <2>3, <2>4 DEF Goroutine, Running
<1>6. stream' = [stream EXCEPT ![r] = t] /\ stream'[r] = t
  BY <1>3 DEF Start, Here
<1>7. Numbered(r, 0)
  BY <1>1 DEF Held, NoStream
<1>8. Held(r, t)'
  <2>1. Numbered(r, t.attempt)'
    BY <1>2, <1>4, <1>7 DEF Numbered
  <2>2. Progress(r, t)' /\ Settled(r, t)' /\ Told(r, t)' /\ Raised(r, t)'
    BY <1>2, <1>4, StreamExecutorAssumption
    DEF Progress, Settled, Told, Raised, Running, InFlight, Silent
  <2>3. Decided(r, t)'
    BY <1>4 DEF Decided
  <2> QED BY <2>1, <2>2, <2>3 DEF Held
<1>9. stream'[r].attempt = stream[r].attempt
  BY <1>1, <1>4, <1>6 DEF NoStream
<1> QED BY <1>1, <1>2, <1>5, <1>6, <1>8, <1>9 DEF Stepped

LEMMA DecideStep ==
    ASSUME NEW r \in Responses, Here(r), Decide(r)
    PROVE  Stepped(r)
<1> DEFINE s == stream[r]
<1>1. /\ s \in Goroutine /\ Held(r, s) /\ s.pc = "read" /\ ~s.emitted /\ s.attempt = 0
      /\ responses[r].status # "absent" /\ UNCHANGED storeVars /\ SelectorInv'
  BY StandStill DEF Here, Decide, At, Held, Progress, Silent
<1>2. CASE Return(r)
  BY <1>1, <1>2, ReturnStep DEF Return, Running, InFlight
<1>3. ASSUME NEW initial \in (IF s.named # None THEN {s.named} ELSE Models \ ExplicitOnly),
             NEW rest \in SetToAllKPermutations(
                              IF s.named = None /\ s.allow THEN Fallbacks(initial) ELSE {}),
             stream' = [stream EXCEPT ![r].pc = IF s.named # None THEN "next" ELSE "begin",
                                      ![r].floor = TurnOf(r).floor,
                                      ![r].decisions = Candidates(r, initial, rest)]
      PROVE  Stepped(r)
  <2>1. PICK pc \in {"next", "begin"} : pc = IF s.named # None THEN "next" ELSE "begin"
    OBVIOUS
  <2>2. PICK floor \in 0 .. MaxTier : floor = TurnOf(r).floor
    <3>1. responses[r].conversation \in Conversations /\ Repository!TypeOK
      BY <1>1, Rows DEF Here
    <3> QED BY <3>1 DEF TurnOf, Repository!TypeOK, Repository!ConversationRow, Repository!Tiers,
                        Repository!ConversationOf
  <2>3. initial \in Models /\ (s.named # None => initial = s.named)
    BY <1>1 DEF Goroutine
  <2>4. /\ rest \in Seq(Models)
        /\ s.named = None /\ s.allow => \A i \in DOMAIN rest : rest[i] \in Fallbacks(initial)
    BY Rankings DEF Fallbacks
  <2>5. PICK decisions \in Seq(Models) : decisions = Candidates(r, initial, rest)
    <3>1. <<initial>> \in Seq(Models) /\ <<initial, initial>> \o rest \in Seq(Models)
      BY <2>3, <2>4
    <3> QED BY <3>1 DEF Candidates
  <2>6. /\ decisions # <<>> /\ Head(decisions) = initial
        /\ s.named # None => \A i \in DOMAIN decisions : decisions[i] = s.named
        /\ \A i \in DOMAIN decisions : Allows(s, initial, decisions[i])
    <3>1. CASE s.named # None \/ ~s.allow
      <4>1. decisions = <<initial>>
        BY <2>5, <3>1 DEF Candidates
      <4> QED BY <2>3, <4>1 DEF Allows
    <3>2. CASE s.named = None /\ s.allow
      <4>1. decisions = <<initial, initial>> \o rest
        BY <2>5, <3>2 DEF Candidates
      <4>2. Len(decisions) = Len(rest) + 2 /\ decisions[1] = initial /\ decisions[2] = initial
        BY <2>3, <2>4, <4>1
      <4>3. Len(rest) \in Nat /\ DOMAIN decisions = 1 .. Len(rest) + 2
        BY <2>4, <4>2
      <4>4. \A i \in DOMAIN decisions : i > 2 => i - 2 \in DOMAIN rest /\ decisions[i] = rest[i - 2]
        BY <2>3, <2>4, <4>1, <4>3
      <4>5. s.named \notin ExplicitOnly
        BY <3>2, Assumed
      <4>6. \A i \in DOMAIN decisions : Allows(s, initial, decisions[i])
        BY <2>4, <3>2, <4>2, <4>3, <4>4, <4>5 DEF Allows
      <4> QED BY <3>2, <4>2, <4>6
    <3> QED BY <3>1, <3>2
  <2>7. PICK t : t = [s EXCEPT !.pc = pc, !.floor = floor, !.decisions = decisions]
    OBVIOUS
  <2>8. /\ t \in Goroutine /\ Alike(s, t) /\ t.pc = pc /\ t.decisions = decisions
        /\ t.account = s.account
    <3>1. pc \in Running
      BY <2>1 DEF Running
    <3>2. PICK u : u = [s EXCEPT !.pc = pc, !.floor = floor]
      OBVIOUS
    <3>3. u \in Goroutine
      BY <1>1, <3>1, <3>2 DEF Goroutine
    <3>4. t = [u EXCEPT !.decisions = decisions]
      BY <2>7, <3>2
    <3>5. t \in Goroutine
      BY <3>3, <3>4 DEF Goroutine
    <3>6. Alike(s, t) /\ t.pc = pc /\ t.decisions = decisions /\ t.account = s.account
      BY <1>1, <2>7 DEF Goroutine, Alike
    <3> QED BY <3>5, <3>6
  <2>9. Decided(r, t)
    <3>1. s.account # None => s.named # None
      BY <1>1 DEF Held, Decided
    <3> QED BY <1>1, <2>1, <2>6, <2>8, <3>1 DEF Decided, FirstModel, Allows, Alike
  <2>10. Held(r, t)
    <3>1. Course(s, t.pc)
      BY <1>1, <2>1, <2>8 DEF Course, Running, InFlight
    <3> QED BY <1>1, <2>8, <2>9, <3>1, CourseHeld
  <2>11. stream' = [stream EXCEPT ![r] = t]
    BY <1>3, <2>1, <2>2, <2>5, <2>7 DEF Here
  <2> QED BY <1>1, <2>8, <2>10, <2>11, QuietStep DEF Alike
<1> QED BY <1>2, <1>3 DEF Decide

(* A candidate is dropped. *)
LEMMA TailDecided ==
    ASSUME NEW r, NEW s \in Goroutine, NEW t, Decided(r, s), Alike(s, t), s.decisions # <<>>,
           t.decisions = Tail(s.decisions), t.account \in {None, s.account},
           s.attempt >= 1 \/ s.named # None,
           t.pc \in {"next", "wait"} => s.named # None,
           t.pc \in Running \ {"read", "next"} => t.decisions # <<>>
    PROVE  Decided(r, t)
<1>1. s.decisions \in Seq(Models) /\ s.attempt \in Int
  BY DEF Goroutine
<1>2. \A i \in DOMAIN t.decisions : i + 1 \in DOMAIN s.decisions /\ t.decisions[i] = s.decisions[i + 1]
  BY <1>1
<1>3. CASE s.attempt >= 1
  BY <1>2, <1>3 DEF Decided, FirstModel, Allows, Alike
<1>4. CASE ~(s.attempt >= 1)
  <2>1. \A i \in DOMAIN t.decisions : t.decisions[i] = s.named
    BY <1>2, <1>4 DEF Decided
  <2>2. \A i \in DOMAIN t.decisions : t.decisions[i] = FirstModel(r, t)
    <3> SUFFICES ASSUME NEW i \in DOMAIN t.decisions PROVE t.decisions[i] = FirstModel(r, t)
      OBVIOUS
    <3>1. t.decisions \in Seq(Models)
      BY <1>1
    <3>2. 1 \in DOMAIN t.decisions /\ Head(t.decisions) = t.decisions[1]
      BY <3>1
    <3> QED BY <1>4, <2>1, <3>2 DEF FirstModel, Alike
  <2> QED BY <1>1, <1>4, <2>1, <2>2 DEF Decided, Allows, Alike
<1> QED BY <1>3, <1>4

(* The next of the candidates takes its turn, its account not chosen yet. *)
LEMMA SelectAccountStep ==
    ASSUME NEW r \in Responses, Here(r), SelectAccount(r)
    PROVE  Stepped(r)
<1> DEFINE s == stream[r]
<1>1. /\ s \in Goroutine /\ Held(r, s) /\ s.pc = "next" /\ ~s.emitted
      /\ s.decisions # <<>> /\ s.named # None /\ UNCHANGED storeVars
  BY DEF Here, SelectAccount, At, Held, Progress, Silent, Decided
<1>2. /\ Candidate(r) \in Models /\ Wanted(r) \in Selector!SelectRequest
      /\ s.tried \in [Models -> SUBSET Accounts]
  BY <1>1, Selecting
<1>3. CASE Return(r) /\ UNCHANGED selectorVars
  <2>1. SelectorInv'
    BY <1>3, StandStill DEF Here
  <2> QED BY <1>1, <1>3, <2>1, ReturnStep DEF Return, Running, InFlight
<1>4. ASSUME NEW account \in Accounts, Selector!Returns(Wanted(r), Selector!Granted(account)),
             stream' = [stream EXCEPT ![r].pc = "begin", ![r].account = account,
                                      ![r].tried[Candidate(r)] = @ \cup {account}]
      PROVE  Stepped(r)
  <2>1. SelectorInv'
    BY <1>2, <1>4, ReturnsStep DEF Here
  <2>2. PICK tried \in [Models -> SUBSET Accounts] :
            tried = [s.tried EXCEPT ![Candidate(r)] = @ \cup {account}]
    BY <1>2
  <2>3. PICK t : t = [s EXCEPT !.pc = "begin", !.account = account, !.tried = tried]
    OBVIOUS
  <2>4. /\ t \in Goroutine /\ Alike(s, t) /\ t.pc = "begin" /\ t.decisions = s.decisions
    BY <1>1, <2>3 DEF Goroutine, Alike, Running
  <2>5. stream' = [stream EXCEPT ![r] = t]
    BY <1>1, <1>4, <2>2, <2>3 DEF Here, Goroutine
  <2>6. Decided(r, t)
    BY <1>1, <2>4 DEF Held, Decided, FirstModel, Allows, Alike
  <2>7. Course(s, t.pc)
    BY <1>1, <2>4 DEF Course, Running, InFlight
  <2>8. Held(r, t)
    BY <1>1, <2>4, <2>6, <2>7, CourseHeld
  <2> QED BY <1>1, <2>1, <2>4, <2>5, <2>8, QuietStep DEF Alike
<1>5. CASE /\ Selector!Returns(Wanted(r), Selector!Refused("unavailable"))
           /\ stream' = [stream EXCEPT ![r].pc = "wait", ![r].until = WaitEnd]
  <2>1. SelectorInv'
    BY <1>2, <1>5, ReturnsStep DEF Here
  <2>2. PICK until \in Nat : until = WaitEnd
    BY WaitEndType DEF Here
  <2>3. PICK t : t = [s EXCEPT !.pc = "wait", !.until = until]
    OBVIOUS
  <2>4. /\ t \in Goroutine /\ Alike(s, t) /\ t.pc = "wait" /\ t.decisions = s.decisions
        /\ t.account = s.account
    BY <1>1, <2>3 DEF Goroutine, Alike, Running
  <2>5. stream' = [stream EXCEPT ![r] = t]
    BY <1>5, <2>2, <2>3 DEF Here
  <2>6. Decided(r, t)
    BY <1>1, <2>4, SameCandidates DEF Held
  <2>7. Course(s, t.pc)
    BY <1>1, <2>4 DEF Course, Running, InFlight
  <2>8. Held(r, t)
    BY <1>1, <2>4, <2>6, <2>7, CourseHeld
  <2> QED BY <1>1, <2>1, <2>4, <2>5, <2>8, QuietStep DEF Alike
<1>6. CASE /\ Selector!Returns(Wanted(r), Selector!Refused("none"))
           /\ stream' = [stream EXCEPT ![r].decisions = Tail(@), ![r].tried[Candidate(r)] = {}]
  <2>1. SelectorInv'
    BY <1>2, <1>6, ReturnsStep DEF Here
  <2>2. PICK tried \in [Models -> SUBSET Accounts] : tried = [s.tried EXCEPT ![Candidate(r)] = {}]
    BY <1>2
  <2>3. PICK decisions \in Seq(Models) : decisions = Tail(s.decisions)
    <3>1. s.decisions \in Seq(Models) /\ s.decisions # <<>>
      BY <1>1 DEF Goroutine
    <3>2. Tail(s.decisions) \in Seq(Models)
      BY <3>1
    <3> QED BY <3>2
  <2>4. PICK t : t = [s EXCEPT !.decisions = decisions, !.tried = tried]
    OBVIOUS
  <2>5. /\ t \in Goroutine /\ Alike(s, t) /\ t.pc = "next" /\ t.decisions = decisions
        /\ t.account = s.account
    BY <1>1, <2>4 DEF Goroutine, Alike
  <2>6. stream' = [stream EXCEPT ![r] = t]
    BY <1>1, <1>6, <2>2, <2>3, <2>4 DEF Here, Goroutine
  <2>7. Decided(r, t)
    BY <1>1, <2>3, <2>5, TailDecided DEF Held
  <2>8. Course(s, t.pc)
    BY <1>1, <2>5 DEF Course, Running, InFlight
  <2>9. Held(r, t)
    BY <1>1, <2>5, <2>7, <2>8, CourseHeld
  <2> QED BY <1>1, <2>1, <2>5, <2>6, <2>9, QuietStep DEF Alike
<1> QED BY <1>3, <1>4, <1>5, <1>6 DEF SelectAccount

(* What Advanced leaves and what it changes. *)
LEMMA AdvancedRow ==
    ASSUME NEW r \in Responses, Here(r), NEW decisions \in Seq(Models)
    PROVE  LET t == Advanced(r, decisions)
           IN  /\ t \in Goroutine /\ Alike(stream[r], t) /\ t.decisions = decisions
               /\ t.account = None /\ t.expanded = stream[r].expanded
               /\ t.pc = IF stream[r].named = None THEN "begin" ELSE "next"
<1>1. stream[r] \in Goroutine
  BY DEF Here
<1>2. PICK pc \in Running : pc = IF stream[r].named = None THEN "begin" ELSE "next"
  BY DEF Running
<1>3. PICK t : t = [stream[r] EXCEPT !.pc = pc, !.decisions = decisions, !.account = None, !.error = None]
  OBVIOUS
<1>4. /\ t \in Goroutine /\ Alike(stream[r], t) /\ t.decisions = decisions
      /\ t.account = None /\ t.expanded = stream[r].expanded /\ t.pc = pc
  BY <1>1, <1>3 DEF Goroutine, Alike
<1> QED BY <1>2, <1>3, <1>4 DEF Advanced

LEMMA RetryAccountStep ==
    ASSUME NEW r \in Responses, Here(r), RetryAccount(r)
    PROVE  Stepped(r)
<1> DEFINE s == stream[r]
<1>1. /\ s \in Goroutine /\ Held(r, s) /\ s.pc = "retry" /\ ~s.emitted /\ s.attempt >= 1
      /\ s.decisions # <<>> /\ s.named # None /\ UNCHANGED storeVars
  BY DEF Here, RetryAccount, At, Held, Progress, Silent, Decided, Running
<1>2. SelectorInv'
  BY HasEligibleStep DEF RetryAccount, Here
<1>3. CASE Goto(r, "fallback")
  <2>1. Course(s, "fallback")
    BY <1>1 DEF Course, Running, InFlight
  <2> QED BY <1>1, <1>2, <1>3, <2>1, GotoStep
<1>4. CASE stream' = [stream EXCEPT ![r] = Advanced(r, s.decisions)]
  <2>1. PICK t : t = Advanced(r, s.decisions)
    OBVIOUS
  <2>2. s.decisions \in Seq(Models)
    BY <1>1 DEF Goroutine
  <2>3. /\ t \in Goroutine /\ Alike(s, t) /\ t.decisions = s.decisions
        /\ t.account = None /\ t.pc \in {"begin", "next"}
    BY <2>1, <2>2, AdvancedRow
  <2>4. Decided(r, t)
    BY <1>1, <2>3, SameCandidates DEF Held
  <2>5. Course(s, t.pc)
    BY <1>1, <2>3 DEF Course, Running, InFlight
  <2>6. Held(r, t)
    BY <1>1, <2>3, <2>4, <2>5, CourseHeld
  <2> QED BY <1>1, <1>2, <1>4, <2>1, <2>3, <2>6, QuietStep DEF Alike
<1> QED BY <1>3, <1>4 DEF RetryAccount

(* Of two candidates or more, dropping one leaves one. *)
LEMMA TailLeft ==
    ASSUME NEW S, NEW seq \in Seq(S), Len(seq) > 1
    PROVE  Tail(seq) \in Seq(S) /\ Tail(seq) # <<>>
<1>1. Len(seq) \in Nat /\ seq # <<>>
  OBVIOUS
<1>2. Tail(seq) \in Seq(S) /\ Len(Tail(seq)) = Len(seq) - 1
  BY <1>1
<1>3. Len(Tail(seq)) # 0
  BY <1>1, <1>2
<1>4. Len(<<>>) = 0
  OBVIOUS
<1> QED BY <1>2, <1>3, <1>4

(* A goroutine whose fallbacks were added is still a goroutine. *)
LEMMA ExpandedRow ==
    ASSUME NEW t \in Goroutine, NEW yes \in BOOLEAN
    PROVE  [t EXCEPT !.expanded = yes] \in Goroutine
BY DEF Goroutine

LEMMA RetryModelStep ==
    ASSUME NEW r \in Responses, Here(r), RetryModel(r)
    PROVE  Stepped(r)
<1> DEFINE s == stream[r]
<1>1. /\ s \in Goroutine /\ Held(r, s) /\ s.pc \in {"retry", "fallback"} /\ ~s.emitted
      /\ s.attempt >= 1 /\ s.decisions # <<>> /\ s.decisions \in Seq(Models)
  BY DEF Here, RetryModel, At, Held, Progress, Silent, Decided, Running, Goroutine
<1>2. UNCHANGED storeVars /\ SelectorInv'
  BY StandStill DEF RetryModel, Here
<1>3. CASE Return(r)
  BY <1>1, <1>2, <1>3, ReturnStep DEF Return, Running, InFlight
<1>4. CASE Len(s.decisions) > 1 /\ stream' = [stream EXCEPT ![r] = Advanced(r, Tail(s.decisions))]
  <2>1. PICK t : t = Advanced(r, Tail(s.decisions))
    OBVIOUS
  <2>2. Tail(s.decisions) \in Seq(Models) /\ Tail(s.decisions) # <<>>
    BY <1>1, <1>4, TailLeft
  <2>3. /\ t \in Goroutine /\ Alike(s, t) /\ t.decisions = Tail(s.decisions) /\ t.account = None
        /\ t.pc = IF s.named = None THEN "begin" ELSE "next"
    BY <2>1, <2>2, AdvancedRow
  <2>4. Decided(r, t)
    BY <1>1, <2>2, <2>3, TailDecided DEF Held
  <2>5. Course(s, t.pc)
    BY <1>1, <2>3 DEF Course, Running, InFlight
  <2>6. Held(r, t)
    BY <1>1, <2>3, <2>4, <2>5, CourseHeld
  <2> QED BY <1>1, <1>2, <1>4, <2>1, <2>3, <2>6, QuietStep DEF Alike
<1>5. ASSUME NEW rest \in SetToAllKPermutations(Additional(r)) \ {<<>>},
             stream' = [stream EXCEPT ![r] = [Advanced(r, rest) EXCEPT !.expanded = TRUE]]
      PROVE  Stepped(r)
  <2>1. Additional(r) \in SUBSET Models
    BY DEF Additional, Fallbacks
  <2>2. rest \in Seq(Models) /\ \A i \in DOMAIN rest : rest[i] \in Additional(r)
    BY <2>1, Rankings
  <2>3. PICK u : u = Advanced(r, rest)
    OBVIOUS
  <2>4. /\ u \in Goroutine /\ Alike(s, u) /\ u.decisions = rest /\ u.account = None
        /\ u.pc = IF s.named = None THEN "begin" ELSE "next"
    BY <2>2, <2>3, AdvancedRow
  <2>a. PICK yes \in BOOLEAN : yes = TRUE
    OBVIOUS
  <2>5. PICK t : t = [u EXCEPT !.expanded = yes]
    OBVIOUS
  <2>6. /\ t \in Goroutine /\ Alike(s, t) /\ t.decisions = rest /\ t.account = None
        /\ t.pc = IF s.named = None THEN "begin" ELSE "next"
    <3>1. t \in Goroutine
      <4>1. u \in Goroutine
        BY <2>4
      <4> QED BY <4>1, <2>a, <2>5, ExpandedRow
    <3>2. Alike(u, t) /\ t.pc = u.pc /\ t.decisions = u.decisions /\ t.account = u.account
      BY <2>4, <2>a, <2>5 DEF Goroutine, Alike
    <3> QED BY <2>4, <3>1, <3>2 DEF Alike
  <2>7. Decided(r, t)
    <3>1. Decided(r, s) /\ s.attempt \in Int
      BY <1>1 DEF Held, Goroutine
    <3>2. FirstModel(r, s) = attempts[<<r, 1>>].model /\ FirstModel(r, t) = FirstModel(r, s)
      BY <1>1, <2>6 DEF FirstModel, Alike
    <3>3. ASSUME NEW i \in DOMAIN rest PROVE Allows(t, FirstModel(r, s), rest[i])
      <4>1. rest[i] \in Additional(r)
        BY <2>2
      <4>2. s.named # None /\ s.allow /\ s.named \notin ExplicitOnly /\ rest[i] \in Fallbacks(s.named)
        BY <4>1 DEF Additional
      <4>3. FirstModel(r, s) = s.named
        BY <1>1, <3>1, <3>2, <4>2 DEF Decided
      <4> QED BY <2>6, <4>2, <4>3 DEF Allows, Alike
    <3> QED BY <1>1, <2>6, <3>1, <3>2, <3>3 DEF Decided, Allows, Alike
  <2>8. Course(s, t.pc)
    BY <1>1, <2>6 DEF Course, Running, InFlight
  <2>9. Held(r, t)
    BY <1>1, <2>6, <2>7, <2>8, CourseHeld
  <2>10. stream' = [stream EXCEPT ![r] = t]
    BY <1>5, <2>3, <2>a, <2>5
  <2> QED BY <1>1, <1>2, <2>6, <2>9, <2>10, QuietStep DEF Alike
<1> QED BY <1>3, <1>4, <1>5 DEF RetryModel

-----------------------------------------------------------------------------
(* The invariant *)

LEMMA StepLemma ==
    ASSUME NEW r \in Responses, Here(r), Step(r) \/ HangUp(r)
    PROVE  Stepped(r)
  BY DecideStep, SelectAccountStep, WaitCooldownStep, NoCandidateStep, UnusableStep,
     BeginAttemptStep, DrainStep, CommitResultStep, RecordSavingsStep, CompleteStep,
     ReportStep, AbandonStep, SettleStep, RaiseFloorStep, TerminalErrorStep,
     RetryAccountStep, RetryModelStep, HangUpStep
  DEF Step

LEMMA NoStreamType == NoStream \in Goroutine
<1>1. <<>> \in Seq(Models) /\ [m \in Models |-> {}] \in [Models -> SUBSET Accounts]
      /\ 0 \in 0 .. MaxTier /\ 0 \in 0 .. MaxAttempts
  BY Assumed
<1> QED BY <1>1 DEF NoStream, Goroutine

(* A request that has not begun. *)
LEMMA IdleHeld ==
    ASSUME NEW r \in Responses, Numbered(r, 0)
    PROVE  Held(r, NoStream)
<1>1. /\ NoStream.pc = "idle" /\ NoStream.attempt = 0 /\ NoStream.emitted = FALSE
      /\ NoStream.told = None /\ NoStream.decisions = <<>> /\ NoStream.account = None
  BY DEF NoStream
<1> HIDE DEF NoStream
<1>2. Progress(r, NoStream) /\ Settled(r, NoStream) /\ Told(r, NoStream) /\ Raised(r, NoStream)
  BY <1>1, StreamExecutorAssumption DEF Progress, Settled, Told, Raised, Running, InFlight, Silent
<1>3. Decided(r, NoStream)
  BY <1>1 DEF Decided, Running
<1> QED BY <1>1, <1>2, <1>3 DEF Held

LEMMA StreamInvInit == Init => StreamInv
<1> SUFFICES ASSUME Init PROVE StreamInv
  OBVIOUS
<1>1. StoreInv /\ SelectorInv
  BY StoreInit, SelectorInit DEF Init
<1>2. \A r \in Responses : stream[r] = NoStream /\ stream \in [Responses -> Goroutine]
  BY NoStreamType DEF Init
<1>3. \A r \in Responses : Numbered(r, 0)
  BY NoneNumbered DEF Init
<1> QED BY <1>1, <1>2, <1>3, NoStreamType, IdleHeld DEF StreamInv, Init

(* Every step is a stutter of the goroutines and the store, or the step of  *)
(* one goroutine.                                                           *)
LEMMA Steps ==
    ASSUME StreamInv, [Next]_vars
    PROVE  \/ UNCHANGED <<stream, storeVars>> /\ SelectorInv'
           \/ \E r \in Responses : Stepped(r)
<1>1. CASE UNCHANGED vars
  BY <1>1, StandStill DEF vars, StreamInv
<1>2. CASE (Reload \/ Tick) /\ UNCHANGED <<stream, storeVars>>
  BY <1>2, ReloadOrTickStep DEF StreamInv
<1>3. CASE Arrive
  BY <1>3, Everywhere, StartStep DEF Arrive
<1>4. CASE \E r \in Responses : Step(r) \/ HangUp(r)
  BY <1>4, Everywhere, StepLemma
<1> QED BY <1>1, <1>2, <1>3, <1>4 DEF Next

LEMMA StreamInvStep == StreamInv /\ [Next]_vars => StreamInv'
<1> SUFFICES ASSUME StreamInv, [Next]_vars PROVE StreamInv'
  OBVIOUS
<1>1. CASE UNCHANGED <<stream, storeVars>> /\ SelectorInv'
  <2>1. StoreInv'
    BY <1>1, StoreStep DEF storeVars, Repository!vars, StreamInv
  <2>2. \A r \in Responses : Held(r, stream[r])'
    BY <1>1 DEF StreamInv, storeVars, Held, Numbered, Progress, Settled, Told, Decided,
                FirstModel, Allows, Raised
  <2> QED BY <1>1, <2>1, <2>2 DEF StreamInv
<1>2. CASE \E r \in Responses : Stepped(r)
  BY <1>2, SteppedInv
<1> QED BY <1>1, <1>2, Steps

(* The invariant holds of every behaviour. *)
THEOREM StreamInvariant == Spec => []StreamInv
<1> QED BY StreamInvInit, StreamInvStep, PTL DEF Spec

(* The attempts a goroutine counts are those the store has of its request. *)
LEMMA AttemptsMade ==
    StreamInv => \A r \in Responses :
        Repository!AttemptsOf(r) = {<<r, k>> : k \in 1 .. stream[r].attempt}
<1> SUFFICES ASSUME StreamInv, NEW r \in Responses
             PROVE  Repository!AttemptsOf(r) = {<<r, k>> : k \in 1 .. stream[r].attempt}
  OBVIOUS
<1>1. OwnRows /\ stream[r].attempt \in 0 .. MaxAttempts /\ Numbered(r, stream[r].attempt)
  BY Everywhere DEF Here, Held, Goroutine
<1> QED BY <1>1, AttemptRows

LEMMA AttemptsMadeNext ==
    StreamInv' => \A r \in Responses :
        Repository!AttemptsOf(r)' = {<<r, k>> : k \in 1 .. stream'[r].attempt}
<1>1. (StreamInv => \A r \in Responses :
          Repository!AttemptsOf(r) = {<<r, k>> : k \in 1 .. stream[r].attempt})'
  BY AttemptsMade, PTL
<1> QED BY <1>1

-----------------------------------------------------------------------------
(* Theorems *)

(* Streams keep the types of their variables and of the store and selector  *)
(* they share.                                                              *)
THEOREM TypeCorrect == Spec => []TypeOK
<1>1. StreamInv => TypeOK
  BY Rows, SelectorTypes DEF StreamInv, TypeOK
<1> QED BY <1>1, StreamInvariant, PTL

(* A caller who is told that the response is complete can continue from it. *)
THEOREM CompletionsAreStored == Spec => []CompletionIsStored
<1>1. StreamInv => CompletionIsStored
  BY DEF StreamInv, CompletionIsStored, Held, Told, Stored, Current
<1> QED BY <1>1, StreamInvariant, PTL

(* A caller who has seen output learns how the stream ended. *)
THEOREM CallersLearnTheEnd == Spec => []CallerLearnsTheEnd
<1>1. StreamInv => CallerLearnsTheEnd
  <2> SUFFICES ASSUME StreamInv, NEW r \in Responses,
                      Ended(r), stream[r].emitted, ~stream[r].gone
               PROVE  stream[r].told = IF Stored(r) THEN "completed" ELSE "error"
    BY DEF CallerLearnsTheEnd
  <2>1. stream[r].told \in {"completed", "error"}
    BY DEF StreamInv, Held, Told, Ended, Goroutine
  <2>2. stream[r].told = "completed" => Stored(r)
    BY DEF StreamInv, Held, Told, Stored
  <2>3. stream[r].told = "error" => ~Stored(r)
    BY DEF StreamInv, Held, Told, Stored
  <2> QED BY <2>1, <2>2, <2>3
<1> QED BY <1>1, StreamInvariant, PTL

(* When a stream is over, its attempts are settled, or a record was lost. *)
THEOREM StreamsSettle == Spec => []AttemptsSettled
<1>1. StreamInv => AttemptsSettled
  <2> SUFFICES ASSUME StreamInv, NEW r \in Responses, Ended(r), ~stream[r].lost,
                      NEW a \in Repository!AttemptsOf(r)
               PROVE  attempts[a].status # "started"
    BY DEF AttemptsSettled
  <2>1. PICK k \in 1 .. stream[r].attempt : a = <<r, k>>
    BY AttemptsMade
  <2> QED BY <2>1 DEF StreamInv, Held, Settled, Ended, InFlight
<1> QED BY <1>1, StreamInvariant, PTL

(* Retries stay on the model first chosen, or go where escalation allows. *)
THEOREM RetriesAreAllowed == Spec => []FallbacksAreAllowed
<1>1. StreamInv => FallbacksAreAllowed
  <2> SUFFICES ASSUME StreamInv, NEW r \in Responses,
                      NEW a \in Repository!AttemptsOf(r), NEW b \in Repository!AttemptsOf(r),
                      attempts[a].seq = 0, attempts[b].model # attempts[a].model
               PROVE  /\ attempts[b].model \notin ExplicitOnly
                      /\ attempts[b].tier >= attempts[a].tier
                      /\ stream[r].allow /\ stream[r].named \notin ExplicitOnly
    BY DEF FallbacksAreAllowed
  <2> DEFINE n == stream[r].attempt
  <2>1. n \in 0 .. MaxAttempts /\ Held(r, stream[r])
    BY DEF StreamInv, Goroutine
  <2>2. Repository!AttemptsOf(r) = {<<r, k>> : k \in 1 .. n}
    BY AttemptsMade
  <2>3. PICK i \in 1 .. n, k \in 1 .. n : a = <<r, i>> /\ b = <<r, k>>
    BY <2>2
  <2>4. i = 1 /\ n >= 1
    BY <2>1, <2>3, Assumed DEF Held, Numbered
  <2>5. /\ attempts[a].tier = TierOf[attempts[a].model] /\ attempts[b].tier = TierOf[attempts[b].model]
        /\ Allows(stream[r], attempts[a].model, attempts[b].model)
    BY <2>1, <2>3, <2>4 DEF Held, Decided, FirstModel
  <2> QED BY <2>5 DEF Allows, Fallbacks
<1> QED BY <1>1, StreamInvariant, PTL

(* Only an opening goroutine adds an attempt, and adds one. *)
LEMMA NewAttempts ==
    ASSUME StreamInv, StreamInv', NEW r \in Responses, NEW q \in Responses, Stepped(q)
    PROVE  \/ Repository!AttemptsOf(r)' = Repository!AttemptsOf(r)
           \/ /\ r = q /\ Opened(r)
              /\ Repository!AttemptsOf(r)' \ Repository!AttemptsOf(r) = {<<r, stream'[r].attempt>>}
<1>1. Repository!AttemptsOf(r) = {<<r, k>> : k \in 1 .. stream[r].attempt}
  BY AttemptsMade
<1>2. Repository!AttemptsOf(r)' = {<<r, k>> : k \in 1 .. stream'[r].attempt}
  BY AttemptsMadeNext
<1>3. r # q => stream'[r] = stream[r]
  BY DEF Stepped, StreamInv
<1>4. stream[r].attempt \in Nat
  BY DEF StreamInv, Goroutine
<1>5. CASE stream'[r].attempt = stream[r].attempt
  BY <1>1, <1>2, <1>5
<1>6. CASE r = q /\ Opened(r)
  <2>1. 1 .. stream'[r].attempt = (1 .. stream[r].attempt) \cup {stream'[r].attempt}
        /\ stream'[r].attempt \notin 1 .. stream[r].attempt
    BY <1>4, <1>6 DEF Opened
  <2> QED BY <1>1, <1>2, <1>6, <2>1
<1> QED BY <1>3, <1>5, <1>6 DEF Stepped

(* Once an attempt of a request has shown output, no attempt of it begins. *)
THEOREM OutputEndsRetries == Spec => NoRetryAfterOutput
<1>1. StreamInv /\ StreamInv' /\ [Next]_vars =>
          [\A r \in Responses : stream[r].emitted =>
              Repository!AttemptsOf(r)' = Repository!AttemptsOf(r)]_vars
  <2> SUFFICES ASSUME StreamInv, StreamInv', [Next]_vars, NEW r \in Responses, stream[r].emitted
               PROVE  Repository!AttemptsOf(r)' = Repository!AttemptsOf(r)
    OBVIOUS
  <2>1. CASE UNCHANGED <<stream, storeVars>>
    BY <2>1, AttemptsMade, AttemptsMadeNext
  <2>2. CASE \E q \in Responses : Stepped(q)
    BY <2>2, NewAttempts DEF Opened
  <2> QED BY <2>1, <2>2, Steps
<1> QED BY <1>1, StreamInvariant, PTL DEF Spec, NoRetryAfterOutput

(* After a stream broke off in front of its caller, every later attempt of  *)
(* the conversation is a tier stronger, up to the strongest.                *)
THEOREM BreaksEscalate == Spec => BrokenStreamsEscalate
<1>1. StreamInv /\ StreamInv' /\ [Next]_vars =>
          [\A r, q \in Responses :
              /\ Ended(q) /\ stream[q].emitted /\ ~Stored(q) /\ ~stream[q].lost
              /\ responses[q].conversation = responses[r].conversation
              => \A a \in Repository!AttemptsOf(r)' \ Repository!AttemptsOf(r) :
                     attempts'[a].tier >= Repository!NextTier(attempts[Current(q)].tier)]_vars
  <2> SUFFICES ASSUME StreamInv, StreamInv', [Next]_vars, NEW r \in Responses, NEW q \in Responses,
                      Ended(q), stream[q].emitted, ~Stored(q), ~stream[q].lost,
                      responses[q].conversation = responses[r].conversation,
                      NEW a \in Repository!AttemptsOf(r)' \ Repository!AttemptsOf(r)
               PROVE  attempts'[a].tier >= Repository!NextTier(attempts[Current(q)].tier)
    OBVIOUS
  <2> DEFINE c == responses[q].conversation
  <2>1. Opened(r) /\ a = <<r, stream'[r].attempt>>
    <3>1. CASE UNCHANGED <<stream, storeVars>>
      BY <3>1, AttemptsMade, AttemptsMadeNext
    <3>2. CASE \E p \in Responses : Stepped(p)
      BY <3>2, NewAttempts
    <3> QED BY <3>1, <3>2, Steps
  <2>2. attempts'[a].tier >= conversations[c].floor
    BY <2>1 DEF Opened
  <2>3. /\ conversations[c].floor >= Repository!NextTier(attempts[Current(q)].tier)
        /\ responses[q].status # "absent" /\ Current(q) \in Repository!AttemptsOf(q)
    <3>1. Held(q, stream[q]) /\ stream[q].attempt >= 1 /\ stream[q].attempt \in Nat
      <4>1. Held(q, stream[q]) /\ stream[q] \in Goroutine
        BY DEF StreamInv
      <4>2. stream[q].attempt \in Nat
        BY <4>1, Assumed DEF Goroutine
      <4> QED BY <4>1, <4>2 DEF Held, Progress
    <3>2. Current(q) \in Repository!AttemptsOf(q)
      BY <3>1, AttemptsMade DEF Current
    <3> QED BY <3>1, <3>2 DEF Held, Raised, Progress, Ended, Stored, Current
  <2>4. conversations[c].floor \in Int
    BY <2>3, Rows, Assumed DEF StreamInv, Repository!TypeOK, Repository!ConversationRow, Repository!Tiers
  <2>5. Repository!NextTier(attempts[Current(q)].tier) \in Int
    BY <2>3, Rows, Assumed DEF StreamInv, Repository!AttemptsOf, Repository!NextTier
  <2>6. attempts'[a].tier \in Int
    <3>1. Repository!TypeOK'
      BY StoreTypes DEF StreamInv
    <3>2. a \in Responses \X (1 .. MaxAttempts)
      BY <2>1 DEF Repository!AttemptsOf
    <3> QED BY <3>1, <3>2, Assumed DEF Repository!TypeOK, Repository!AttemptRow, Repository!Tiers
  <2> HIDE DEF c
  <2> QED BY <2>2, <2>3, <2>4, <2>5, <2>6
<1> QED BY <1>1, StreamInvariant, PTL DEF Spec, BrokenStreamsEscalate

(* Streams implement the store: whatever goroutines, accounts and callers   *)
(* do, the conversations change by the store's transactions alone, so that  *)
(* all that is proved of the store holds of it under streams.               *)
THEOREM StreamsUseTheStore == Spec => Repository!Spec
<1>1. Init => Repository!Init
  BY DEF Init
<1>2. StreamInv /\ [Next]_vars => [Repository!Next]_(Repository!vars)
  <2> SUFFICES ASSUME StreamInv, [Next]_vars PROVE [Repository!Next]_(Repository!vars)
    OBVIOUS
  <2>1. CASE UNCHANGED <<stream, storeVars>>
    BY <2>1 DEF storeVars, Repository!vars
  <2>2. CASE \E r \in Responses : Stepped(r)
    BY <2>2 DEF Stepped
  <2> QED BY <2>1, <2>2, Steps
<1> QED BY <1>1, <1>2, StreamInvariant, PTL DEF Spec, Repository!Spec

-----------------------------------------------------------------------------
(* The account selector under streams *)

LEMMA CallOf ==
    ASSUME NEW r \in Responses, Here(r), Step(r) \/ HangUp(r)
    PROVE  SelectorStep
<1>1. CASE UNCHANGED selectorVars
  BY <1>1 DEF SelectorStep
<1>2. CASE SelectAccount(r)
  <2>1. Wanted(r) \in Selector!SelectRequest
    BY <1>2, Selecting DEF SelectAccount
  <2>2. \A result : Selector!Returns(Wanted(r), result) => SelectorStep
    BY <2>1, SelectionCall
  <2> QED BY <1>1, <1>2, <2>2 DEF SelectAccount
<1>3. CASE RetryAccount(r)
  <2>1. stream[r].decisions # <<>> /\ Selector!HasEligible(Wanted(r))
    BY <1>3 DEF Here, Held, Decided, RetryAccount, At, Running
  <2>2. Wanted(r) \in Selector!SelectRequest
    BY <2>1, Selecting
  <2> QED BY <2>1, <2>2, SelectionCall
<1>4. CASE Unusable(r) \/ Report(r) \/ RecordSavings(r)
  <2>1. stream[r].session \in Sessions \cup {None} /\ stream[r].account \in Accounts \cup {None}
    BY DEF Here, Goroutine
  <2>2. ASSUME ReportFailure(stream[r].session, stream[r].account, stream[r].error) PROVE SelectorStep
    BY <2>1, <2>2, ReportCall
  <2>3. ASSUME ReportFailure(stream[r].session, stream[r].account, "authentication") PROVE SelectorStep
    BY <2>1, <2>3, ReportCall
  <2>4. ASSUME ReportSuccess(stream[r].session, stream[r].account) PROVE SelectorStep
    BY <2>1, <2>4, ReportCall
  <2> QED BY <1>1, <1>4, <2>2, <2>3, <2>4 DEF Unusable, Report, RecordSavings
<1> QED BY <1>1, <1>2, <1>3, <1>4
        DEF Step, Decide, WaitCooldown, NoCandidate, BeginAttempt, Drain, CommitResult, Complete,
            Abandon, Settle, RaiseFloor, TerminalError, RetryModel, HangUp

LEMMA SelectorSteps == StreamInv /\ [Next]_vars => SelectorStep
<1> SUFFICES ASSUME StreamInv, [Next]_vars PROVE SelectorStep
  OBVIOUS
<1>1. CASE UNCHANGED vars
  BY <1>1 DEF vars, SelectorStep
<1>2. CASE Reload \/ Tick
  BY <1>2, ReloadOrTickCall
<1>3. CASE \E r \in Responses : Step(r) \/ HangUp(r)
  BY <1>3, Everywhere, CallOf
<1>4. CASE Arrive
  BY <1>4 DEF Arrive, Start, SelectorStep
<1> QED BY <1>1, <1>2, <1>3, <1>4 DEF Next

(* Streams reach the account selector through its operations alone: every   *)
(* step of theirs is a call of it, as any caller may make it, or leaves it  *)
(* as it is.                                                                *)
THEOREM StreamsUseTheSelector == Spec => Selector!Init /\ [][SelectorStep]_selectorVars
<1>1. Init => Selector!Init
  BY DEF Init
<1>2. StreamInv /\ [Next]_vars => [SelectorStep]_selectorVars
  BY SelectorSteps
<1> QED BY <1>1, <1>2, StreamInvariant, PTL DEF Spec

LEMMA SelectorTimes == Spec => []Accounting!Timely
<1>1. Init => Accounting!Timely
  BY SelectorTimely DEF Init
<1>2. StreamInv /\ Accounting!Timely /\ [Next]_vars => Accounting!Timely'
  BY SelectorSteps, SelectorTimely DEF StreamInv
<1> QED BY <1>1, <1>2, StreamInvariant, PTL DEF Spec

(* So concurrent streams never hand a session's binding that is alive to    *)
(* another account, nor shorten it, whatever they select, report and retry. *)
THEOREM StreamsKeepBindings == Spec => Selector!BindingsAreKept
<1> DEFINE Kept == \A s \in Sessions : Selector!Alive(s) =>
        \/ bindings'[s] = Selector!NoBinding
        \/ /\ bindings'[s].account = bindings[s].account
           /\ bindings'[s].model = bindings[s].model
           /\ bindings'[s].expires >= bindings[s].expires
<1>1. StreamInv /\ Accounting!Timely /\ [Next]_vars => [Kept]_(Selector!vars)
  <2> SUFFICES ASSUME StreamInv, Accounting!Timely, [Next]_vars PROVE Kept
    OBVIOUS
  <2> QED BY SelectorSteps, SelectorKeeps DEF StreamInv
<1> QED BY <1>1, StreamInvariant, SelectorTimes, PTL DEF Spec, Selector!BindingsAreKept

(* They never get an account before the shortest cooldown since its last    *)
(* failure is over, whichever of them reported it.                          *)
THEOREM StreamsLetAccountsRest == Spec => RestsBeforeSelection
<1> DEFINE Rests == \A req \in Selector!SelectRequest, a \in Accounts :
        Selector!Returns(req, Selector!Granted(a)) /\ failed[a] >= 0 =>
            \E rest \in {AuthCooldown, QuotaCooldown, TransientCooldown} : now >= failed[a] + rest
<1>1. StreamInv => [Rests]_selectorVars
  <2> SUFFICES ASSUME StreamInv PROVE Rests
    OBVIOUS
  <2> QED BY SelectorRests DEF StreamInv
<1> QED BY <1>1, StreamInvariant, PTL DEF Spec, RestsBeforeSelection

(* And no account is taken more often than its share before every eligible  *)
(* one had its own, with weights or without, whichever of them asks.        *)
THEOREM StreamsTakeTurns == Spec => []Selector!FairShare
<1>1. Init => Accounting!ShareInv
  BY SelectorTurns DEF Init
<1>2. StreamInv /\ Accounting!ShareInv /\ [Next]_vars => Accounting!ShareInv'
  BY SelectorSteps, SelectorTurns DEF StreamInv
<1>3. StreamInv /\ Accounting!ShareInv => Selector!FairShare
  BY SelectorTurns DEF StreamInv
<1> QED BY <1>1, <1>2, <1>3, StreamInvariant, PTL DEF Spec
=============================================================================
