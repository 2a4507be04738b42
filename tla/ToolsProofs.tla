----------------------------- MODULE ToolsProofs ----------------------------
(***************************************************************************)
(* What the repository's tools promise: the CI monitor's bookkeeping, for  *)
(* any reports and any limits, the npm package, for any targets and hosts  *)
(* and any number of versions and stagings, and the workspace's scripts,   *)
(* for runs of any length.                                                 *)
(***************************************************************************)
EXTENDS MCTools, WellFoundedInduction, SequenceTheorems, TLAPS

(* The CI monitor: what the agent does is counted, and not done twice to    *)
(* one attempt.                                                             *)

Fields == {"pc", "code", "wait", "polls", "noProgress", "localFixes", "envReruns", "cycles", "agent",
           "retried", "lastUrl", "expectedSha", "prev", "url"}

(* The fields of the records, and the types of the counters. *)
Shape ==
    /\ DOMAIN m = Fields /\ DOMAIN history = {"actions", "acted", "equal"}
    /\ DOMAIN ci = {"url", "sha", "report"}
    /\ m.cycles \in Nat /\ m.agent \in BOOLEAN /\ history.actions \in Nat
    /\ m.pc \in {"poll", "done", "left"} /\ m.wait \in BOOLEAN

CycleInv == Shape /\ CyclesAreCounted

(* What a record keeps, and that cycle-check moves the mark to the count.   *)
Marked(t) == IF t.agent THEN 1 ELSE 0
Typed(t) == DOMAIN t = Fields /\ t.cycles \in Nat /\ t.agent \in BOOLEAN

LEMMA CycleCheckFields ==
    ASSUME NEW t, Typed(t), NEW code
    PROVE  /\ Typed(CycleCheck(t, code))
           /\ CycleCheck(t, code).cycles = t.cycles + Marked(t)
           /\ CycleCheck(t, code).agent = FALSE
           /\ CycleCheck(t, code).pc = t.pc /\ CycleCheck(t, code).wait = t.wait
           /\ CycleCheck(t, code).url = t.url /\ CycleCheck(t, code).lastUrl = t.lastUrl
           /\ CycleCheck(t, code).expectedSha = t.expectedSha
<1> DEFINE c == CycleCheck(t, code)
<1>1. DOMAIN c = Fields /\ c.agent = FALSE
  BY DEF CycleCheck, Typed, Fields
<1>2. c.cycles = IF t.agent THEN t.cycles + 1 ELSE t.cycles
  BY DEF CycleCheck, Typed, Fields
<1>3. /\ c.pc = t.pc /\ c.wait = t.wait /\ c.url = t.url
      /\ c.lastUrl = t.lastUrl /\ c.expectedSha = t.expectedSha
  BY DEF CycleCheck, Typed, Fields
<1> HIDE DEF c
<1>4. c.cycles = t.cycles + Marked(t) /\ c.cycles \in Nat
  BY <1>2 DEF Typed, Marked
<1> QED BY <1>1, <1>3, <1>4 DEF Typed, c

LEMMA CycleInvStep ==
    ASSUME CycleInv, [Next]_vars
    PROVE  CycleInv'
<1>a. Typed(m) /\ m.pc \in {"poll", "done", "left"} /\ m.wait \in BOOLEAN
  BY DEF CycleInv, Shape, Typed
<1>b. DOMAIN history = {"actions", "acted", "equal"} /\ history.actions \in Nat
  BY DEF CycleInv, Shape
<1>c. m.cycles + Marked(m) = history.actions
  BY DEF CycleInv, CyclesAreCounted, Marked
<1>d. DOMAIN ci = {"url", "sha", "report"}
  BY DEF CycleInv, Shape
<1>e. SUFFICES /\ Typed(m)' /\ (m.pc \in {"poll", "done", "left"} /\ m.wait \in BOOLEAN)'
               /\ (DOMAIN history = {"actions", "acted", "equal"} /\ history.actions \in Nat)'
               /\ m'.cycles + Marked(m') = history'.actions
               /\ (DOMAIN ci = {"url", "sha", "report"})'
  BY DEF CycleInv, Shape, CyclesAreCounted, Marked, Typed
<1>1. CASE Poll
  <2> PICK output : m' = Tracked(m, ci, output)
    BY <1>1 DEF Poll
  <2>1. Typed(m') /\ m'.cycles = m.cycles /\ m'.agent = m.agent
    BY <1>a DEF Tracked, Typed, Fields
  <2>2. m'.pc \in {"poll", "done"} /\ m'.wait \in BOOLEAN
    BY <1>a DEF Tracked, Typed, Fields
  <2>3. DOMAIN history' = DOMAIN history /\ history'.actions = history.actions /\ ci' = ci
    BY <1>1, <1>b DEF Poll
  <2> QED BY <1>b, <1>c, <1>d, <2>1, <2>2, <2>3 DEF Marked
<1>2. CASE Garbled
  <2> DEFINE t == [m EXCEPT !.polls = @ + 1, !.noProgress = @ + 1, !.prev = Unknown, !.code = "error"]
  <2>1. Typed(t) /\ t.cycles = m.cycles /\ t.agent = m.agent /\ t.pc = m.pc /\ t.wait = m.wait
    BY <1>a DEF Typed, Fields
  <2>2. m' = CycleCheck(t, "error")
    BY <1>2 DEF Garbled
  <2>3. DOMAIN history' = DOMAIN history /\ history'.actions = history.actions /\ ci' = ci
    BY <1>2, <1>b DEF Garbled
  <2> HIDE DEF t
  <2>4. /\ Typed(m') /\ m'.cycles = t.cycles + Marked(t) /\ m'.agent = FALSE
        /\ m'.pc = t.pc /\ m'.wait = t.wait
    BY <2>1, <2>2, CycleCheckFields
  <2>5. Marked(t) = Marked(m) /\ Marked(m') = 0
    BY <2>1, <2>4 DEF Marked
  <2>6. m'.cycles + Marked(m') = history'.actions
    BY <1>a, <1>b, <1>c, <2>1, <2>3, <2>4, <2>5 DEF Typed, Marked
  <2> QED BY <1>a, <1>b, <1>d, <2>1, <2>3, <2>4, <2>6
<1>3. CASE Act
  <2> DEFINE checked == CycleCheck(m, m.code)
  <2> PICK action : /\ \E t \in Charged(checked, action) : m' = PostAction(t, action, head')
                    /\ history' = [history EXCEPT
                           !.actions = IF action # "fix-auto-applying" THEN @ + 1 ELSE @,
                           !.acted = @ \cup {m.url}, !.equal = 0]
    BY <1>3 DEF Act
  <2> PICK t \in Charged(checked, action) : m' = PostAction(t, action, head')
    OBVIOUS
  <2>1. Typed(checked) /\ checked.cycles = m.cycles + Marked(m)
    BY <1>a, CycleCheckFields
  <2> HIDE DEF checked
  <2>2. DOMAIN t = Fields /\ t.cycles = checked.cycles
    BY <2>1 DEF Charged, Typed, Fields
  <2>3. /\ DOMAIN m' = Fields /\ m'.cycles = t.cycles /\ m'.pc = "poll" /\ m'.wait = TRUE
        /\ m'.agent = (action # "fix-auto-applying")
    BY <2>2 DEF PostAction, Fields
  <2>4. DOMAIN history' = DOMAIN history
    BY <1>b
  <2>5. history'.actions = IF action # "fix-auto-applying" THEN history.actions + 1 ELSE history.actions
    BY <1>b
  <2> DEFINE Goal == Typed(m') /\ m'.cycles + Marked(m') = history'.actions /\ history'.actions \in Nat
  <2>6. ASSUME action # "fix-auto-applying" PROVE Goal
    <3>1. m'.agent = TRUE /\ history'.actions = history.actions + 1
      BY <2>3, <2>5, <2>6
    <3> QED BY <1>b, <1>c, <2>1, <2>2, <2>3, <3>1 DEF Marked, Typed
  <2>7. ASSUME action = "fix-auto-applying" PROVE Goal
    <3>1. m'.agent = FALSE /\ history'.actions = history.actions
      BY <2>3, <2>5, <2>7
    <3> QED BY <1>b, <1>c, <2>1, <2>2, <2>3, <3>1 DEF Marked, Typed
  <2>8. Typed(m') /\ m'.cycles + Marked(m') = history'.actions /\ history'.actions \in Nat
    BY <2>6, <2>7
  <2>9. ci' = ci
    BY <1>3 DEF Act
  <2> QED BY <1>b, <1>d, <2>3, <2>4, <2>8, <2>9
<1>4. CASE Leave
  <2> DEFINE checked == CycleCheck(m, m.code)
  <2>1. m' = [checked EXCEPT !.pc = "left"]
    BY <1>4 DEF Leave
  <2>2. /\ Typed(checked) /\ checked.cycles = m.cycles + Marked(m) /\ checked.agent = FALSE
        /\ checked.wait = m.wait
    BY <1>a, CycleCheckFields
  <2> HIDE DEF checked
  <2>3. Typed(m') /\ m'.cycles = checked.cycles /\ m'.agent = FALSE /\ m'.pc = "left" /\ m'.wait = m.wait
    BY <2>1, <2>2 DEF Typed, Fields
  <2>4. history' = history /\ ci' = ci
    BY <1>4 DEF Leave
  <2> QED BY <1>a, <1>b, <1>c, <1>d, <2>2, <2>3, <2>4 DEF Marked, Typed
<1>5. CASE Progress
  BY <1>5, <1>a, <1>b, <1>c, <1>d DEF Progress
<1>6. CASE Spawn
  BY <1>6, <1>a, <1>b, <1>c, <1>d DEF Spawn
<1>7. CASE HumanPush \/ UNCHANGED vars
  BY <1>7, <1>a, <1>b, <1>c, <1>d DEF HumanPush, vars
<1> QED BY <1>1, <1>2, <1>3, <1>4, <1>5, <1>6, <1>7 DEF Next

LEMMA CycleInvInit == Init => CycleInv
BY DEF Init, CycleInv, Shape, CyclesAreCounted, Fields

(* The cycles counted against --max-cycles are the agent's own actions, but *)
(* for the one whose outcome is awaited (ci-state-update.mjs:80-144).       *)
THEOREM CyclesTheorem == Spec => []CyclesAreCounted
<1>1. CycleInv => CyclesAreCounted
  BY DEF CycleInv
<1> QED BY <1>1, CycleInvInit, CycleInvStep, PTL DEF Spec
-----------------------------------------------------------------------------
(* No attempt before u is left to act on: those acted on are older. *)
Newer(u) == \A a \in history.acted : a < u

OnceShape ==
    /\ Typed(m) /\ m.wait \in BOOLEAN
    /\ DOMAIN history = {"actions", "acted", "equal"} /\ history.actions \in Nat
    /\ history.acted \subseteq Nat
    /\ DOMAIN ci = {"url", "sha", "report"} /\ ci.url \in Nat /\ ci.sha \in Nat
    /\ head \in Nat /\ ci.sha <= head
    /\ \A a \in history.acted : a <= ci.url

(* While it waits, what would count as the new attempt is newer than every  *)
(* attempt acted on.                                                        *)
WaitsForNewer ==
    m.pc = "poll" /\ m.wait =>
        /\ m.lastUrl # None =>
              m.lastUrl \in Nat /\ m.lastUrl <= ci.url /\ \A a \in history.acted : a <= m.lastUrl
        /\ m.expectedSha # None /\ ci.sha = m.expectedSha => Newer(ci.url)

PollsNewer == m.pc = "poll" /\ ~m.wait => Newer(ci.url)

DoneIsNewer ==
    m.pc = "done" =>
        /\ m.url \in Nat /\ m.url <= ci.url /\ \A a \in history.acted : a <= m.url
        /\ m.code # "no_new_cipe" => Newer(m.url)

OnceInv == OnceShape /\ WaitsForNewer /\ PollsNewer /\ DoneIsNewer

LEMMA OnceInvInit == Init => OnceInv
BY DEF Init, OnceInv, OnceShape, WaitsForNewer, PollsNewer, DoneIsNewer, Newer, Typed, Fields

LEMMA PollKeepsOnce ==
    ASSUME OnceInv, Poll
    PROVE  OnceInv'
<1>1. PICK noProgress : m' = Tracked(m, ci, BuildOutput(Classify(m, ci, noProgress), noProgress))
  BY DEF Poll
<1> DEFINE code == Classify(m, ci, noProgress).code
           action == Classify(m, ci, noProgress).action
<1>2. /\ ci' = ci /\ head' = head /\ m.pc = "poll"
      /\ DOMAIN history' = DOMAIN history /\ history'.actions = history.actions
      /\ history'.acted = history.acted
  BY DEF Poll, OnceInv, OnceShape
<1>3. /\ Typed(m') /\ m'.pc = (IF action = "done" THEN "done" ELSE "poll") /\ m'.code = code
      /\ m'.wait = (m.wait /\ code # "new_cipe_detected") /\ m'.url = ci.url
      /\ m'.lastUrl = m.lastUrl /\ m'.expectedSha = m.expectedSha
  <2>1. Typed(m)
    BY DEF OnceInv, OnceShape
  <2>2. m'.code = code /\ m'.pc = (IF action = "done" THEN "done" ELSE "poll")
    BY <1>1, <2>1 DEF Tracked, BuildOutput, Typed, Fields
  <2>3. m'.wait = (m.wait /\ code # "new_cipe_detected")
    BY <1>1, <2>1 DEF Tracked, BuildOutput, Typed, Fields
  <2>4. Typed(m') /\ m'.url = ci.url /\ m'.lastUrl = m.lastUrl /\ m'.expectedSha = m.expectedSha
    BY <1>1, <2>1 DEF Tracked, Typed, Fields
  <2> QED BY <2>2, <2>3, <2>4
<1> HIDE DEF code, action
<1>4. OnceShape'
  BY <1>2, <1>3 DEF OnceInv, OnceShape
<1>5. CASE ~m.wait
  <2>1. Newer(ci.url)' /\ m'.wait = FALSE
    BY <1>2, <1>3, <1>5 DEF OnceInv, PollsNewer, Newer
  <2> QED BY <1>2, <1>3, <1>4, <2>1
          DEF OnceInv, OnceShape, WaitsForNewer, PollsNewer, DoneIsNewer, Newer
<1>6. CASE m.wait /\ IsNewCipe(m, ci)
  <2>1. action = "poll" /\ code = "new_cipe_detected"
    BY <1>6 DEF action, code, Classify, ClassifyWait, Rule
  <2>2. Newer(ci.url)
    BY <1>2, <1>6 DEF IsNewCipe, OnceInv, OnceShape, WaitsForNewer, Newer
  <2>3. Newer(ci.url)'
    BY <1>2, <2>2 DEF Newer
  <2>4. m'.wait = FALSE /\ m'.pc = "poll"
    BY <1>3, <2>1
  <2> QED BY <1>4, <2>3, <2>4 DEF OnceInv, WaitsForNewer, PollsNewer, DoneIsNewer
<1>7. CASE m.wait /\ ~IsNewCipe(m, ci)
  <2>1. \/ action = "done" /\ code = "no_new_cipe"
        \/ action = "wait" /\ code = "waiting_for_cipe"
    BY <1>7 DEF action, code, Classify, ClassifyWait, Rule
  <2>2. CASE action = "done" /\ code = "no_new_cipe"
    <3>1. m'.pc = "done" /\ m'.code = "no_new_cipe" /\ m'.url = ci.url
      BY <1>3, <2>2
    <3> QED BY <1>2, <1>4, <3>1 DEF OnceInv, OnceShape, WaitsForNewer, PollsNewer, DoneIsNewer
  <2>3. CASE action = "wait" /\ code = "waiting_for_cipe"
    <3>1. m'.pc = "poll" /\ m'.wait = TRUE
      BY <1>3, <1>7, <2>3
    <3> QED BY <1>2, <1>3, <1>4, <1>7, <3>1
            DEF OnceInv, OnceShape, WaitsForNewer, PollsNewer, DoneIsNewer, Newer
  <2> QED BY <2>1, <2>2, <2>3
<1> QED BY <1>5, <1>6, <1>7

LEMMA ActKeepsOnce ==
    ASSUME OnceInv, Act
    PROVE  OnceInv' /\ (m.code # "no_new_cipe" => m.url \notin history.acted)
<1> DEFINE checked == CycleCheck(m, m.code)
<1>1. m.pc = "done" /\ ci' = ci
  BY DEF Act
<1>2. /\ m.url \in Nat /\ m.url <= ci.url /\ \A a \in history.acted : a <= m.url
      /\ m.code # "no_new_cipe" => Newer(m.url)
  BY <1>1 DEF OnceInv, DoneIsNewer
<1>3. m.code # "no_new_cipe" => m.url \notin history.acted
  BY <1>2 DEF Newer
<1>4. PICK action : /\ head' = IF action \in Pushes THEN head + 1 ELSE head
                    /\ \E t \in Charged(checked, action) : m' = PostAction(t, action, head')
                    /\ history' = [history EXCEPT
                           !.actions = IF action # "fix-auto-applying" THEN @ + 1 ELSE @,
                           !.acted = @ \cup {m.url}, !.equal = 0]
  BY DEF Act
<1>5. PICK t \in Charged(checked, action) : m' = PostAction(t, action, head')
  BY <1>4
<1>6. Typed(checked) /\ checked.url = m.url
  BY CycleCheckFields DEF OnceInv, OnceShape
<1> HIDE DEF checked
<1>7. DOMAIN t = Fields /\ t.cycles = checked.cycles /\ t.url = checked.url
  BY <1>6 DEF Charged, Typed, Fields
<1>8. /\ DOMAIN m' = Fields /\ m'.cycles = t.cycles /\ m'.pc = "poll" /\ m'.wait = TRUE
      /\ m'.lastUrl = IF action \in ByUrl THEN t.url ELSE None
  BY <1>5, <1>7 DEF PostAction, Fields
<1>9. /\ m'.expectedSha = IF action \in Pushes THEN head' ELSE None
      /\ m'.agent = (action # "fix-auto-applying")
  BY <1>5, <1>7 DEF PostAction, Fields
<1>10. m'.agent \in BOOLEAN
  BY <1>9
<1>11. /\ DOMAIN history' = {"actions", "acted", "equal"} /\ history'.acted = history.acted \cup {m.url}
       /\ history'.actions \in Nat
  BY <1>4 DEF OnceInv, OnceShape
<1>12. OnceShape'
  <2>1. Typed(m)' /\ (m.wait \in BOOLEAN)'
    BY <1>6, <1>7, <1>8, <1>10 DEF Typed
  <2>2. head' \in Nat /\ ci.sha <= head'
    BY <1>4 DEF OnceInv, OnceShape
  <2>3. history'.acted \subseteq Nat /\ \A a \in history'.acted : a <= ci.url
    BY <1>2, <1>11 DEF OnceInv, OnceShape
  <2> QED BY <1>1, <1>11, <2>1, <2>2, <2>3 DEF OnceInv, OnceShape
<1>13. m'.lastUrl # None => m'.lastUrl = m.url
  BY <1>6, <1>7, <1>8
<1>14. m'.expectedSha # None => m'.expectedSha = head + 1
  BY <1>4, <1>9
<1>15. WaitsForNewer'
  <2>1. m'.lastUrl # None => m'.lastUrl \in Nat /\ m'.lastUrl <= ci.url
                              /\ \A a \in history'.acted : a <= m'.lastUrl
    BY <1>2, <1>11, <1>13
  <2>2. ~(m'.expectedSha # None /\ ci.sha = m'.expectedSha)
    BY <1>14 DEF OnceInv, OnceShape
  <2> QED BY <1>1, <2>1, <2>2 DEF WaitsForNewer
<1>16. PollsNewer' /\ DoneIsNewer'
  BY <1>8 DEF PollsNewer, DoneIsNewer
<1> QED BY <1>3, <1>12, <1>15, <1>16 DEF OnceInv

LEMMA OnceInvStep ==
    ASSUME OnceInv, [Next]_vars
    PROVE  OnceInv'
<1> USE DEF OnceInv, WaitsForNewer, PollsNewer, DoneIsNewer, Newer
<1>1. CASE Poll
  BY <1>1, PollKeepsOnce
<1>2. CASE Garbled
  <2> DEFINE t == [m EXCEPT !.polls = @ + 1, !.noProgress = @ + 1, !.prev = Unknown, !.code = "error"]
  <2>1. /\ Typed(t) /\ t.pc = m.pc /\ t.wait = m.wait
        /\ t.lastUrl = m.lastUrl /\ t.expectedSha = m.expectedSha
    BY DEF OnceShape, Typed, Fields
  <2>2. m' = CycleCheck(t, "error") /\ ci' = ci /\ head' = head /\ m.pc = "poll"
    BY <1>2 DEF Garbled
  <2> HIDE DEF t
  <2>3. /\ Typed(m') /\ m'.pc = "poll" /\ m'.wait = m.wait
        /\ m'.lastUrl = m.lastUrl /\ m'.expectedSha = m.expectedSha
    BY <2>1, <2>2, CycleCheckFields
  <2>4. /\ DOMAIN history' = DOMAIN history /\ history'.actions = history.actions
        /\ history'.acted = history.acted
    BY <1>2 DEF Garbled, OnceShape
  <2> QED BY <2>2, <2>3, <2>4 DEF OnceShape
<1>3. CASE Act
  BY <1>3, ActKeepsOnce
<1>4. CASE Leave
  <2> DEFINE checked == CycleCheck(m, m.code)
  <2>1. m' = [checked EXCEPT !.pc = "left"] /\ ci' = ci /\ head' = head /\ history' = history
    BY <1>4 DEF Leave
  <2>2. Typed(checked) /\ checked.wait = m.wait
    BY CycleCheckFields DEF OnceShape
  <2> HIDE DEF checked
  <2>3. Typed(m') /\ m'.pc = "left" /\ m'.wait = m.wait
    BY <2>1, <2>2 DEF Typed, Fields
  <2> QED BY <2>1, <2>3 DEF OnceShape
<1>5. CASE Progress
  <2>1. /\ DOMAIN ci' = DOMAIN ci /\ ci'.url = ci.url /\ ci'.sha = ci.sha
        /\ m' = m /\ head' = head /\ history' = history
    BY <1>5 DEF Progress, OnceShape
  <2> QED BY <2>1 DEF OnceShape
<1>6. CASE Spawn
  <2>1. /\ DOMAIN ci' = {"url", "sha", "report"} /\ ci'.url = ci.url + 1 /\ ci'.sha = head
        /\ m' = m /\ head' = head /\ history' = history
    BY <1>6 DEF Spawn
  <2>2. OnceShape'
    BY <2>1 DEF OnceShape
  <2>3. Newer(ci.url)'
    BY <2>1 DEF OnceShape
  <2> QED BY <2>1, <2>2, <2>3 DEF OnceShape
<1>7. CASE HumanPush
  BY <1>7 DEF HumanPush, OnceShape
<1>8. CASE UNCHANGED vars
  BY <1>8 DEF vars, OnceShape
<1> QED BY <1>1, <1>2, <1>3, <1>4, <1>5, <1>6, <1>7, <1>8 DEF Next

(* The agent acts once on an attempt, whatever CI reports and whoever else  *)
(* pushes, unless no attempt came (postAction, isNewCipe).                  *)
THEOREM ActsOnceTheorem == Spec => ActsOncePerAttempt
<1>1. OnceInv /\ [Next]_vars =>
        [history'.actions > history.actions /\ m.code # "no_new_cipe" => m.url \notin history.acted]_vars
  <2> SUFFICES ASSUME OnceInv, [Next]_vars, history'.actions > history.actions
               PROVE  m.code # "no_new_cipe" => m.url \notin history.acted
    OBVIOUS
  <2>1. CASE Act
    BY <2>1, ActKeepsOnce
  <2>2. CASE Poll \/ Garbled
    BY <2>2 DEF Poll, Garbled, OnceInv, OnceShape
  <2>3. CASE Leave \/ Progress \/ Spawn \/ HumanPush \/ UNCHANGED vars
    BY <2>3 DEF Leave, Progress, Spawn, HumanPush, vars, OnceInv, OnceShape
  <2> QED BY <2>1, <2>2, <2>3 DEF Next
<1> QED BY <1>1, OnceInvInit, OnceInvStep, PTL DEF Spec, ActsOncePerAttempt

-----------------------------------------------------------------------------
(* Types and limits *)

(* The mark is counted before the next action, so it fits into the limit.   *)
LimitInv == TypeOK /\ CycleInv /\ m.cycles + Marked(m) <= MaxCycles

LEMMA CycleCheckKeeps ==
    ASSUME NEW t, Typed(t), NEW code
    PROVE  /\ CycleCheck(t, code).localFixes = t.localFixes /\ CycleCheck(t, code).polls = t.polls
           /\ CycleCheck(t, code).envReruns \in {0, t.envReruns}
  BY DEF CycleCheck, Typed, Fields

(* What an action takes of a budget, the gates and the questions leave.     *)
LEMMA BudgetsHold ==
    ASSUME NEW t, Typed(t), t.localFixes \in 0 .. LocalAttempts, t.envReruns \in 0 .. 2,
           NEW code, NEW action \in Flow(t, code), NEW u \in Charged(t, action)
    PROVE  /\ DOMAIN u = Fields /\ u.cycles = t.cycles
           /\ u.localFixes \in 0 .. LocalAttempts /\ u.envReruns \in 0 .. 2
<1> DEFINE left == LocalAttempts - t.localFixes
           used == CASE action = "local-fix-push" -> {1}
                     [] action = "reject-fix-push" -> {1, 2} \cap 0 .. left
                     [] action = "apply-local-push" -> 0 .. left
                     [] OTHER -> {0}
<1>1. LocalAttempts \in Nat
  BY CiMonitorAssumption
<1>2. action = "local-fix-push" => t.localFixes < LocalAttempts
  BY DEF Flow, GateLocalFix
<1>3. action = "env-rerun" => t.envReruns < 2
  BY DEF Flow, GateEnvRerun
<1>4. PICK n \in used : u = [t EXCEPT !.localFixes = @ + n,
                                     !.envReruns = IF action = "env-rerun" THEN @ + 1 ELSE @,
                                     !.retried = (t.code = "cipe_no_tasks")]
  BY DEF Charged
<1>5. n \in 0 .. left
  BY <1>1, <1>2
<1>6. /\ DOMAIN u = Fields /\ u.cycles = t.cycles /\ u.localFixes = t.localFixes + n
      /\ u.envReruns = IF action = "env-rerun" THEN t.envReruns + 1 ELSE t.envReruns
  BY <1>4 DEF Typed, Fields
<1>7. u.localFixes \in 0 .. LocalAttempts
  BY <1>1, <1>5, <1>6
<1>8. u.envReruns \in 0 .. 2
  BY <1>3, <1>6
<1> QED BY <1>6, <1>7, <1>8

(* The conjuncts of TypeOK about what the agent tracks. *)
TrackedOK(t) ==
    /\ t.pc \in {"poll", "done", "left"} /\ t.wait \in BOOLEAN /\ t.agent \in BOOLEAN
    /\ t.polls \in 0 .. MaxPolls /\ t.cycles \in 0 .. MaxCycles
    /\ t.localFixes \in 0 .. LocalAttempts /\ t.envReruns \in 0 .. 2
    /\ t.lastUrl # None => t.expectedSha = None

LEMMA ActLimits ==
    ASSUME LimitInv, Act
    PROVE  TrackedOK(m') /\ m'.cycles + Marked(m') <= MaxCycles /\ (head \in 1 .. MaxPushes)'
<1> DEFINE checked == CycleCheck(m, m.code)
<1>1. PICK action \in Flow(checked, m.code) :
          /\ checked.cycles < MaxCycles /\ (action \in Pushes => head < MaxPushes)
          /\ head' = IF action \in Pushes THEN head + 1 ELSE head
          /\ \E t \in Charged(checked, action) : m' = PostAction(t, action, head')
  BY DEF Act
<1>2. PICK t \in Charged(checked, action) : m' = PostAction(t, action, head')
  BY <1>1
<1>3. Typed(m) /\ TypeOK /\ MaxCycles \in Nat /\ MaxPolls \in Nat /\ MaxPushes \in Nat
  BY CiMonitorAssumption DEF LimitInv, CycleInv, Shape, Typed
<1>4. /\ Typed(checked) /\ checked.cycles < MaxCycles /\ checked.localFixes = m.localFixes
      /\ checked.envReruns \in {0, m.envReruns}
  BY <1>1, <1>3, CycleCheckFields, CycleCheckKeeps
<1>5. checked.localFixes \in 0 .. LocalAttempts /\ checked.envReruns \in 0 .. 2
  BY <1>3, <1>4 DEF TypeOK
<1> HIDE DEF checked
<1>6. /\ DOMAIN t = Fields /\ t.cycles = checked.cycles
      /\ t.localFixes \in 0 .. LocalAttempts /\ t.envReruns \in 0 .. 2
  BY <1>4, <1>5, BudgetsHold
<1>7. /\ m'.pc = "poll" /\ m'.wait = TRUE /\ m'.polls = 0 /\ m'.cycles = t.cycles
      /\ m'.localFixes = t.localFixes /\ m'.envReruns = t.envReruns
      /\ m'.lastUrl = IF action \in ByUrl THEN t.url ELSE None
      /\ m'.expectedSha = IF action \in Pushes THEN head' ELSE None
  BY <1>2, <1>6 DEF PostAction, Fields
<1>8. m'.agent = (action # "fix-auto-applying")
  BY <1>2, <1>6 DEF PostAction, Fields
<1>9. m'.lastUrl # None => m'.expectedSha = None
  BY <1>7 DEF ByUrl, Pushes
<1>10. m'.agent \in BOOLEAN /\ Marked(m') \in 0 .. 1
  BY <1>8 DEF Marked
<1>11. m'.cycles \in Nat /\ m'.cycles < MaxCycles
  BY <1>4, <1>6, <1>7 DEF Typed
<1>12. m'.cycles + Marked(m') <= MaxCycles /\ m'.cycles \in 0 .. MaxCycles
  BY <1>3, <1>10, <1>11
<1>13. TrackedOK(m')
  <2>1. m'.pc \in {"poll", "done", "left"} /\ m'.wait \in BOOLEAN
    BY <1>7
  <2>2. /\ m'.polls \in 0 .. MaxPolls /\ m'.localFixes \in 0 .. LocalAttempts
        /\ m'.envReruns \in 0 .. 2
    BY <1>3, <1>6, <1>7
  <2> QED BY <1>9, <1>10, <1>12, <2>1, <2>2 DEF TrackedOK
<1>14. (head \in 1 .. MaxPushes)'
  BY <1>1, <1>3 DEF TypeOK
<1> QED BY <1>12, <1>13, <1>14

LEMMA LimitInvStep ==
    ASSUME LimitInv, [Next]_vars
    PROVE  LimitInv'
<1>1. CycleInv'
  BY CycleInvStep DEF LimitInv
<1>2. /\ Typed(m) /\ TypeOK /\ TrackedOK(m) /\ m.cycles + Marked(m) <= MaxCycles
      /\ MaxCycles \in Nat /\ MaxPolls \in Nat /\ MaxPushes \in Nat /\ MaxErrors \in Nat
  BY CiMonitorAssumption DEF LimitInv, CycleInv, Shape, Typed, TypeOK, TrackedOK
<1>3. SUFFICES /\ (ci \in [url : 1 .. MaxPushes, sha : 1 .. MaxPushes, report : Reports])'
               /\ (head \in 1 .. MaxPushes /\ due \in BOOLEAN /\ errors \in 0 .. MaxErrors)'
               /\ TrackedOK(m') /\ m'.cycles + Marked(m') <= MaxCycles
  BY <1>1 DEF LimitInv, TypeOK, TrackedOK, Marked
<1>4. CASE Poll
  <2> PICK output : m' = Tracked(m, ci, output)
    BY <1>4 DEF Poll
  <2>1. /\ m'.cycles = m.cycles /\ m'.agent = m.agent
        /\ m'.polls = m.polls + 1 /\ m'.lastUrl = m.lastUrl /\ m'.expectedSha = m.expectedSha
        /\ m'.localFixes \in {0, m.localFixes} /\ m'.envReruns \in {0, m.envReruns}
    BY <1>2 DEF Tracked, Typed, Fields
  <2>2. m'.pc \in {"poll", "done"} /\ m'.wait \in BOOLEAN
    BY <1>2 DEF Tracked, Typed, Fields, TrackedOK
  <2>3. m.polls < MaxPolls /\ UNCHANGED <<ci, head, due, errors>>
    BY <1>4 DEF Poll
  <2>4. m'.polls \in 0 .. MaxPolls /\ 0 \in 0 .. LocalAttempts
    BY <1>2, <2>1, <2>3, CiMonitorAssumption DEF TrackedOK
  <2>5. TrackedOK(m')
    BY <1>2, <2>1, <2>2, <2>4 DEF TrackedOK
  <2> QED BY <1>2, <2>1, <2>3, <2>5 DEF TypeOK, Marked
<1>5. CASE Garbled
  <2> DEFINE t == [m EXCEPT !.polls = @ + 1, !.noProgress = @ + 1, !.prev = Unknown, !.code = "error"]
  <2>1. /\ Typed(t) /\ t.cycles = m.cycles /\ t.agent = m.agent /\ t.pc = m.pc /\ t.wait = m.wait
        /\ t.polls = m.polls + 1 /\ t.lastUrl = m.lastUrl /\ t.expectedSha = m.expectedSha
        /\ t.localFixes = m.localFixes /\ t.envReruns = m.envReruns
    BY <1>2 DEF Typed, Fields
  <2>2. /\ m' = CycleCheck(t, "error") /\ m.polls < MaxPolls /\ errors < MaxErrors
        /\ errors' = errors + 1 /\ UNCHANGED <<ci, head, due>>
    BY <1>5 DEF Garbled
  <2> HIDE DEF t
  <2>3. /\ m'.cycles = t.cycles + Marked(t) /\ m'.agent = FALSE /\ m'.pc = t.pc /\ m'.wait = t.wait
        /\ m'.lastUrl = t.lastUrl /\ m'.expectedSha = t.expectedSha /\ m'.cycles \in Nat
        /\ m'.localFixes = t.localFixes /\ m'.polls = t.polls /\ m'.envReruns \in {0, t.envReruns}
    BY <2>1, <2>2, CycleCheckFields, CycleCheckKeeps DEF Typed
  <2>4. Marked(t) = Marked(m) /\ Marked(m') = 0
    BY <2>1, <2>3 DEF Marked
  <2>5. m'.cycles \in 0 .. MaxCycles /\ m'.cycles + Marked(m') <= MaxCycles
    BY <1>2, <2>1, <2>3, <2>4
  <2>6. TrackedOK(m')
    <3>1. m'.agent \in BOOLEAN /\ m'.wait \in BOOLEAN
      BY <1>2, <2>1, <2>3 DEF TrackedOK
    <3>2. /\ m'.polls \in 0 .. MaxPolls /\ m'.localFixes \in 0 .. LocalAttempts
          /\ m'.envReruns \in 0 .. 2 /\ m'.pc \in {"poll", "done", "left"}
      BY <1>2, <2>1, <2>2, <2>3 DEF TrackedOK
    <3>3. m'.lastUrl # None => m'.expectedSha = None
      BY <1>2, <2>1, <2>3 DEF TrackedOK
    <3> QED BY <2>5, <3>1, <3>2, <3>3 DEF TrackedOK
  <2> QED BY <1>2, <2>2, <2>5, <2>6 DEF TypeOK
<1>6. CASE Act
  <2>1. UNCHANGED <<ci, errors>> /\ due' = TRUE
    BY <1>6 DEF Act
  <2> QED BY <1>2, <1>6, <2>1, ActLimits DEF TypeOK
<1>7. CASE Leave
  <2> DEFINE checked == CycleCheck(m, m.code)
  <2>1. m' = [checked EXCEPT !.pc = "left"] /\ UNCHANGED <<ci, head, due, errors>>
    BY <1>7 DEF Leave
  <2>2. /\ Typed(checked) /\ checked.cycles = m.cycles + Marked(m) /\ checked.agent = FALSE
        /\ checked.wait = m.wait /\ checked.lastUrl = m.lastUrl /\ checked.expectedSha = m.expectedSha
        /\ checked.localFixes = m.localFixes /\ checked.polls = m.polls
        /\ checked.envReruns \in {0, m.envReruns}
    <3>0. Typed(m) /\ m.wait \in BOOLEAN
      BY <1>2 DEF TrackedOK
    <3>1. /\ Typed(checked) /\ checked.cycles = m.cycles + Marked(m) /\ checked.agent = FALSE
          /\ checked.wait = m.wait /\ checked.lastUrl = m.lastUrl /\ checked.expectedSha = m.expectedSha
      BY <3>0, CycleCheckFields
    <3>2. /\ checked.localFixes = m.localFixes /\ checked.polls = m.polls
          /\ checked.envReruns \in {0, m.envReruns}
      BY <3>0, CycleCheckKeeps
    <3> QED BY <3>1, <3>2
  <2> HIDE DEF checked
  <2>3. /\ m'.pc = "left" /\ m'.cycles = checked.cycles /\ m'.agent = FALSE /\ m'.wait = m.wait
        /\ m'.lastUrl = m.lastUrl /\ m'.expectedSha = m.expectedSha
        /\ m'.localFixes = m.localFixes /\ m'.polls = m.polls /\ m'.envReruns \in {0, m.envReruns}
    BY <2>1, <2>2 DEF Typed, Fields
  <2>4. m'.cycles \in 0 .. MaxCycles /\ m'.cycles + Marked(m') <= MaxCycles
    BY <1>2, <2>2, <2>3 DEF Marked, Typed
  <2>5. TrackedOK(m')
    <3>1. m'.agent \in BOOLEAN /\ m'.wait \in BOOLEAN /\ m'.pc \in {"poll", "done", "left"}
      BY <1>2, <2>3 DEF TrackedOK
    <3>2. /\ m'.polls \in 0 .. MaxPolls /\ m'.localFixes \in 0 .. LocalAttempts
          /\ m'.envReruns \in 0 .. 2
      BY <1>2, <2>3 DEF TrackedOK
    <3>3. m'.lastUrl # None => m'.expectedSha = None
      BY <1>2, <2>3 DEF TrackedOK
    <3> QED BY <2>4, <3>1, <3>2, <3>3 DEF TrackedOK
  <2> QED BY <1>2, <2>1, <2>4, <2>5 DEF TypeOK
<1>8. CASE Progress
  <2>1. PICK r \in Reports : ci' = [ci EXCEPT !.report = r]
    BY <1>8 DEF Progress
  <2>2. UNCHANGED <<head, due, m, errors>>
    BY <1>8 DEF Progress
  <2> QED BY <1>2, <2>1, <2>2 DEF TypeOK
<1>9. CASE Spawn
  <2>1. PICK r \in Reports : ci' = [url |-> ci.url + 1, sha |-> head, report |-> r]
    BY <1>9 DEF Spawn
  <2>2. UNCHANGED <<head, m, errors>> /\ due' = FALSE /\ ci.url < MaxPushes
    BY <1>9 DEF Spawn
  <2>3. ci.url + 1 \in 1 .. MaxPushes /\ head \in 1 .. MaxPushes
    BY <1>2, <2>2 DEF TypeOK
  <2>4. ci' \in [url : 1 .. MaxPushes, sha : 1 .. MaxPushes, report : Reports]
    BY <2>1, <2>3
  <2> QED BY <1>2, <2>2, <2>4 DEF TypeOK, Marked
<1>10. CASE HumanPush
  BY <1>2, <1>10 DEF HumanPush, TypeOK
<1>11. CASE UNCHANGED vars
  BY <1>2, <1>11 DEF vars, TypeOK
<1> QED BY <1>4, <1>5, <1>6, <1>7, <1>8, <1>9, <1>10, <1>11 DEF Next

LEMMA LimitInvInit == Init => LimitInv
<1> SUFFICES ASSUME Init PROVE LimitInv
  OBVIOUS
<1>1. CycleInv
  BY CycleInvInit
<1>2. /\ m.pc = "poll" /\ m.wait = FALSE /\ m.agent = FALSE /\ m.polls = 0 /\ m.cycles = 0
      /\ m.localFixes = 0 /\ m.envReruns = 0 /\ m.lastUrl = None /\ Marked(m) = 0
  BY DEF Init, Marked
<1>3. ci \in [url : 1 .. MaxPushes, sha : 1 .. MaxPushes, report : Reports]
  BY CiMonitorAssumption DEF Init
<1>4. head \in 1 .. MaxPushes /\ due \in BOOLEAN /\ errors \in 0 .. MaxErrors
  <2>1. head = 1 /\ due = FALSE /\ errors = 0
    BY DEF Init
  <2>2. due \in BOOLEAN
    BY <2>1
  <2>3. head \in 1 .. MaxPushes /\ errors \in 0 .. MaxErrors
    BY <2>1, CiMonitorAssumption
  <2> QED BY <2>2, <2>3
<1>5. m.pc \in {"poll", "done", "left"} /\ m.wait \in BOOLEAN /\ m.agent \in BOOLEAN
  BY <1>2
<1>7. m.lastUrl # None => m.expectedSha = None
  BY <1>2
<1>6. /\ m.polls \in 0 .. MaxPolls /\ m.cycles \in 0 .. MaxCycles
      /\ m.localFixes \in 0 .. LocalAttempts /\ m.envReruns \in 0 .. 2
      /\ m.cycles + Marked(m) <= MaxCycles
  BY <1>2, CiMonitorAssumption
<1> QED BY <1>1, <1>3, <1>4, <1>5, <1>6, <1>7 DEF LimitInv, TypeOK

(* The agent keeps to its limits: cycles, local fixes, reruns and polls are *)
(* counted within them, whatever CI reports (cycleCheck, gate).             *)
THEOREM LimitsTheorem == Spec => []TypeOK
<1>1. LimitInv => TypeOK
  BY DEF LimitInv
<1> QED BY <1>1, LimitInvInit, LimitInvStep, PTL DEF Spec

-----------------------------------------------------------------------------
(* The circuit breaker *)

(* The codes the agent stops at, and those it polls on after: those that    *)
(* set the count of idle polls back are among the first.                    *)
DoneCodes == {"polling_timeout", "circuit_breaker", "ci_success", "cipe_canceled", "cipe_timed_out",
              "cipe_no_tasks", "environment_rerun_cap", "environment_issue", "self_healing_throttled",
              "fix_auto_apply_skipped", "fix_auto_applying", "fix_needs_review", "fix_apply_ready",
              "fix_needs_local_verify", "fix_failed", "no_fix"}
PollCodes == {"ci_running", "sh_running", "flaky_rerun", "fix_auto_applied",
              "verification_pending", "fallback"}

SoundRules == {Rule(holds, "done", code) : holds \in BOOLEAN, code \in DoneCodes}
              \cup {Rule(holds, "poll", code) : holds \in BOOLEAN, code \in PollCodes}

LEMMA DoneRules == \A holds \in BOOLEAN, code \in DoneCodes : Rule(holds, "done", code) \in SoundRules
  BY DEF SoundRules

LEMMA PollRules ==
    \A holds \in BOOLEAN, code \in PollCodes : Rule(holds, "poll", code) \in SoundRules
  BY DEF SoundRules

LEMMA RulesAreSound ==
    ASSUME NEW rule \in SoundRules, rule.code \in ResetProgressCodes
    PROVE  rule.action = "done"
<1>1. \A h, a, c : Rule(h, a, c).action = a /\ Rule(h,a,c).code = c
  BY DEF Rule
<1>2. PollCodes \cap ResetProgressCodes = {}
  BY DEF PollCodes, ResetProgressCodes
<1> QED BY <1>1, <1>2 DEF SoundRules

(* Both guards stop the agent, and the second holds from five idle polls on.*)
LEMMA GuardsAreSound ==
    ASSUME NEW t, NEW noProgress
    PROVE  /\ Guards(t, noProgress) \in Seq(SoundRules) /\ Len(Guards(t, noProgress)) = 2
           /\ Guards(t, noProgress)[1].action = "done"
           /\ Guards(t, noProgress)[2].action = "done"
           /\ noProgress >= 5 => Guards(t, noProgress)[2].holds
<1>1. Rule(IsTimedOut(t), "done", "polling_timeout") \in SoundRules
  BY DoneRules, Zenon DEF IsTimedOut, DoneCodes
<1>3. (noProgress >= 5) \in BOOLEAN
  OBVIOUS
<1>4. Rule(noProgress >= 5, "done", "circuit_breaker") \in SoundRules
  BY <1>3, DoneRules, Zenon DEF DoneCodes
<1>2. \A h, a, c : Rule(h, a, c).action = a /\ Rule(h,a,c).holds = h
  BY DEF Rule
<1>5. /\ Rule(IsTimedOut(t), "done", "polling_timeout").action = "done"
      /\ Rule(noProgress >= 5, "done", "circuit_breaker").action = "done"
  BY <1>2, Zenon
<1>6. Rule(noProgress >= 5, "done", "circuit_breaker").holds = (noProgress >= 5)
  BY <1>2, Zenon
<1>7. \E a, b \in SoundRules :
          /\ Guards(t, noProgress) = <<a, b>> /\ a.action = "done" /\ b.action = "done"
          /\ b.holds = (noProgress >= 5)
  BY <1>1, <1>4, <1>5, <1>6, Zenon DEF Guards
<1> PICK a, b \in SoundRules :
          /\ Guards(t, noProgress) = <<a, b>> /\ a.action = "done" /\ b.action = "done"
          /\ b.holds = (noProgress >= 5)
  BY <1>7
<1>8. Guards(t, noProgress) \in Seq(SoundRules) /\ Len(Guards(t, noProgress)) = 2
  OBVIOUS
<1>9. Guards(t, noProgress)[1] = a /\ Guards(t, noProgress)[2] = b
  OBVIOUS
<1>10. ASSUME noProgress >= 5 PROVE b.holds
  BY <1>10
<1> QED BY <1>8, <1>9, <1>10

LEMMA AttemptRulesAreSound ==
    ASSUME NEW t, NEW r
    PROVE  AttemptRules(t, r) \in Seq(SoundRules)
<1>1. /\ Rule(r.cipe = "SUCCEEDED", "done", "ci_success") \in SoundRules
      /\ Rule(r.cipe = "CANCELED", "done", "cipe_canceled") \in SoundRules
      /\ Rule(r.cipe = "TIMED_OUT", "done", "cipe_timed_out") \in SoundRules
      /\ Rule(r.cipe = "FAILED" /\ r.failed = {} /\ r.sh = None, "done", "cipe_no_tasks") \in SoundRules
      /\ Rule(Lower(r.class) = "environment_state" /\ t.envReruns >= 2, "done", "environment_rerun_cap")
            \in SoundRules
      /\ Rule(Lower(r.class) = "environment_state", "done", "environment_issue") \in SoundRules
      /\ Rule(r.skipped = "THROTTLED", "done", "self_healing_throttled") \in SoundRules
  BY DoneRules, Zenon DEF DoneCodes
<1>2. /\ Rule(r.cipe \in {"IN_PROGRESS", "NOT_STARTED"}, "poll", "ci_running") \in SoundRules
      /\ Rule(r.sh \in {"IN_PROGRESS", "NOT_STARTED"} /\ r.skipped = None, "poll", "sh_running")
            \in SoundRules
      /\ Rule(Lower(r.class) = "flaky_task", "poll", "flaky_rerun") \in SoundRules
      /\ Rule(r.user = "APPLIED_AUTOMATICALLY", "poll", "fix_auto_applied") \in SoundRules
  <2>1. (r.cipe \in {"IN_PROGRESS", "NOT_STARTED"}) \in BOOLEAN
    OBVIOUS
  <2> QED BY <2>1, PollRules, Zenon DEF PollCodes
<1> QED BY <1>1, <1>2 DEF AttemptRules

LEMMA FixRulesAreSound ==
    ASSUME NEW r
    PROVE  FixRules(r) \in Seq(SoundRules) /\ Len(FixRules(r)) = 9 /\ FixRules(r)[9].holds
<1> DEFINE verified == r.verification \notin {"FAILED", "NOT_EXECUTABLE"}
        fixed == r.sh = "COMPLETED"
<1>0. (r.auto = "could") \in BOOLEAN /\ fixed \in BOOLEAN
  OBVIOUS
<1>1. /\ Rule(r.auto = "skipped", "done", "fix_auto_apply_skipped") \in SoundRules
      /\ Rule(r.auto = "could" /\ r.verification = "COMPLETED", "done", "fix_auto_applying") \in SoundRules
      /\ Rule(fixed /\ (~verified \/ (r.auto = None /\ r.verification = None)),
                "done", "fix_needs_review") \in SoundRules
      /\ Rule(fixed /\ ~NeedsLocalVerify(r), "done", "fix_apply_ready") \in SoundRules
      /\ Rule(fixed, "done", "fix_needs_local_verify") \in SoundRules
      /\ Rule(r.sh = "FAILED", "done", "fix_failed") \in SoundRules
      /\ Rule(r.cipe = "FAILED" /\ (~r.enabled \/ r.sh = "NOT_EXECUTABLE"), "done", "no_fix") \in SoundRules
  BY DoneRules, Zenon DEF DoneCodes
<1>2. /\ Rule(r.auto = "could" /\ r.verification \in {"NOT_STARTED", "IN_PROGRESS"},
                "poll", "verification_pending") \in SoundRules
      /\ Rule(TRUE, "poll", "fallback") \in SoundRules
  BY PollRules, Zenon DEF PollCodes
<1>3. Rule(TRUE, "poll", "fallback").holds = TRUE
  BY DEF Rule
<1> DEFINE last == Rule(TRUE, "poll", "fallback")
<1>4. last.holds = TRUE /\ last \in SoundRules
  BY <1>2, <1>3
<1> HIDE DEF last
<1>5. \E a, b, c, d, e, f, g, h \in SoundRules : FixRules(r) = <<a, b, c, d, e, f, g, h, last>>
  BY <1>1, <1>2, Zenon DEF FixRules, last
<1>6. PICK a, b, c, d, e, f, g, h \in SoundRules : FixRules(r) = <<a, b, c, d, e, f, g, h, last>>
  BY <1>5
<1>7. FixRules(r) \in Seq(SoundRules)
  BY <1>4, <1>6
<1> QED BY <1>4, <1>6, <1>7

(* Where a rule holds, the first that does is one of them. *)
LEMMA FirstIsOfRules ==
    ASSUME NEW rules \in Seq(SoundRules), Decides(rules)
    PROVE  \E n \in DOMAIN rules : FirstOf(rules) = rules[n] /\ rules[n] \in SoundRules
<1> DEFINE S == {n \in DOMAIN rules : rules[n].holds}
           Less == OpToRel(<, Nat)
<1>1. S # {} /\ S \subseteq Nat /\ DOMAIN rules = 1 .. Len(rules) /\ Len(rules) \in Nat
  BY DEF Decides
<1>2. PICK n \in S : \A k \in S : ~(<<k, n>> \in Less)
  <2>1. IsWellFoundedOn(Less, Nat)
    BY NatLessThanWellFounded
  <2> HIDE DEF Less, S
  <2> QED BY <1>1, <2>1, WFMin
<1>3. \A k \in 1 .. n - 1 : ~rules[k].holds
  <2> SUFFICES ASSUME NEW k \in 1 .. n - 1, rules[k].holds PROVE FALSE
    OBVIOUS
  <2>0. n \in 1 .. Len(rules)
    BY <1>1, <1>2
  <2>1. n \in Nat /\ k \in Nat /\ k < n /\ k \in DOMAIN rules
    <3> HIDE DEF S
    <3> QED BY <1>1, <2>0
  <2>2. k \in S /\ <<k, n>> \in Less
    BY <2>1 DEF OpToRel
  <2> QED BY <1>2, <2>2
<1>4. \E x \in DOMAIN rules : rules[x].holds /\ \A k \in 1 .. x - 1 : ~rules[k].holds
  BY <1>2, <1>3
<1> DEFINE first == CHOOSE x \in DOMAIN rules : rules[x].holds /\ \A k \in 1 .. x - 1 : ~rules[k].holds
<1>5. first \in DOMAIN rules
  BY <1>4
<1>6. FirstOf(rules) = rules[first]
  BY DEF FirstOf
<1> HIDE DEF first
<1> QED BY <1>5, <1>6

(* With five idle polls one of the guards comes first. *)
LEMMA FirstRuleDecides ==
    ASSUME NEW t, NEW i, NEW noProgress, ~t.wait
    PROVE  /\ Classify(t, i, noProgress) \in SoundRules
           /\ noProgress >= 5 => Classify(t, i, noProgress).action = "done"
<1> DEFINE guards == Guards(t, noProgress)
           others == AttemptRules(t, i.report)
           fixes == FixRules(i.report)
<1>1. /\ guards \in Seq(SoundRules) /\ Len(guards) = 2
      /\ guards[1].action = "done" /\ guards[2].action = "done"
      /\ noProgress >= 5 => guards[2].holds
  BY GuardsAreSound
<1>2. others \in Seq(SoundRules)
  BY AttemptRulesAreSound
<1>3. fixes \in Seq(SoundRules) /\ Len(fixes) = 9 /\ fixes[9].holds
  BY FixRulesAreSound
<1>4. Classify(t, i, noProgress) = IF Decides(guards) THEN FirstOf(guards)
                                   ELSE IF Decides(others) THEN FirstOf(others) ELSE FirstOf(fixes)
  BY DEF Classify
<1> HIDE DEF guards, others, fixes
<1>5. Decides(fixes)
  BY <1>3 DEF Decides
<1>6. CASE Decides(guards)
  <2>1. PICK n \in DOMAIN guards : FirstOf(guards) = guards[n] /\ guards[n] \in SoundRules
    BY <1>1, <1>6, FirstIsOfRules
  <2>2. n = 1 \/ n = 2
    BY <1>1
  <2> QED BY <1>1, <1>4, <1>6, <2>1, <2>2
<1>7. CASE ~Decides(guards)
  <2>1. ~(noProgress >= 5)
    BY <1>1, <1>7 DEF Decides
  <2>2. FirstOf(fixes) \in SoundRules
    BY <1>3, <1>5, FirstIsOfRules
  <2>3. Decides(others) => FirstOf(others) \in SoundRules
    BY <1>2, FirstIsOfRules
  <2> QED BY <1>4, <1>7, <2>1, <2>2, <2>3
<1> QED BY <1>6, <1>7

(* Until the agent acts it waits for no attempt, so it compares reports;    *)
(* and every poll that told nothing new is counted.                         *)
StuckShape ==
    /\ Typed(m) /\ m.wait \in BOOLEAN /\ m.noProgress \in Nat
    /\ DOMAIN history = {"actions", "acted", "equal"} /\ history.equal \in Nat

Fresh == history.acted = {} => m.wait = FALSE /\ m.lastUrl = None /\ m.expectedSha = None

EqualIsCounted ==
    history.acted = {} /\ m.pc = "poll" /\ m.prev.class = None =>
        history.equal <= m.noProgress /\ history.equal < 5

StuckInv == StuckShape /\ Fresh /\ EqualIsCounted

LEMMA PollKeepsStuck ==
    ASSUME StuckInv, Poll
    PROVE  StuckInv'
<1> DEFINE count == NoProgressCount(m, ci)
           decision == Classify(m, ci, count)
           output == BuildOutput(decision, count)
<1>1. /\ m' = Tracked(m, ci, output) /\ m.pc = "poll"
      /\ history' = [history EXCEPT !.equal = IF ~m.wait /\ Seen(m, ci.report) = m.prev THEN @ + 1 ELSE 0]
  BY DEF Poll
<1>2. count \in Nat
  BY DEF NoProgressCount, StuckInv, StuckShape
<1>3. /\ output.action = decision.action /\ output.code = decision.code
      /\ output.noProgress = IF decision.code \in ResetProgressCodes THEN 0 ELSE count
  BY DEF BuildOutput
<1> HIDE DEF output
<1>4. /\ Typed(m') /\ m'.pc = (IF output.action = "done" THEN "done" ELSE "poll")
      /\ m'.noProgress = output.noProgress /\ m'.prev = Seen(m, ci.report)
      /\ m'.lastUrl = m.lastUrl /\ m'.expectedSha = m.expectedSha
  BY <1>1 DEF Tracked, StuckInv, StuckShape, Typed, Fields
<1>5. m'.wait = (m.wait /\ output.code # "new_cipe_detected")
  BY <1>1 DEF Tracked, StuckInv, StuckShape, Typed, Fields
<1>6. /\ DOMAIN history' = DOMAIN history /\ history'.acted = history.acted
      /\ history'.equal = IF ~m.wait /\ Seen(m, ci.report) = m.prev THEN history.equal + 1 ELSE 0
  BY <1>1 DEF StuckInv, StuckShape
<1>7. StuckShape'
  <2>1. m'.noProgress \in Nat
    BY <1>2, <1>3, <1>4
  <2>2. history'.equal \in Nat
    BY <1>6 DEF StuckInv, StuckShape
  <2>3. m'.wait \in BOOLEAN
    BY <1>5
  <2> QED BY <1>4, <1>6, <2>1, <2>2, <2>3 DEF StuckInv, StuckShape
<1>8. Fresh'
  BY <1>4, <1>5, <1>6 DEF StuckInv, Fresh
<1>9. ASSUME history.acted = {}, m'.pc = "poll", m'.prev.class = None
      PROVE  history'.equal <= m'.noProgress /\ history'.equal < 5
  <2>1. /\ m.wait = FALSE /\ m.lastUrl = None /\ m.expectedSha = None
    BY <1>9 DEF StuckInv, Fresh
  <2>2. /\ decision \in SoundRules /\ decision.action # "done"
        /\ count >= 5 => decision.action = "done"
    BY <1>3, <1>4, <1>9, <2>1, FirstRuleDecides
  <2> HIDE DEF decision
  <2>3. m'.noProgress = count /\ count < 5
    BY <1>2, <1>3, <1>4, <2>2, RulesAreSound
  <2>4. CASE Seen(m, ci.report) # m.prev
    BY <1>2, <1>6, <2>3, <2>4
  <2>5. CASE Seen(m, ci.report) = m.prev
    <3>1. Seen(m, ci.report) = [cipe |-> ci.report.cipe, sh |-> ci.report.sh,
                                verification |-> ci.report.verification, class |-> ci.report.class]
      BY <2>1 DEF Seen
    <3>2. /\ m.prev.cipe = ci.report.cipe /\ m.prev.sh = ci.report.sh
          /\ m.prev.verification = ci.report.verification /\ m.prev.class = None
      BY <1>4, <1>9, <2>5, <3>1
    <3>3. ~HasStateChanged(m, ci)
      BY <3>2 DEF HasStateChanged
    <3>4. count = m.noProgress + 1
      BY <2>1, <3>3 DEF NoProgressCount, IsNewCipe
    <3>5. history.equal <= m.noProgress
      BY <1>1, <1>9, <3>2 DEF StuckInv, EqualIsCounted
    <3>6. history'.equal = history.equal + 1
      BY <1>6, <2>1, <2>5
    <3> HIDE DEF count
    <3> QED BY <2>3, <3>4, <3>5, <3>6 DEF StuckInv, StuckShape
  <2> QED BY <2>4, <2>5
<1> QED BY <1>6, <1>7, <1>8, <1>9 DEF StuckInv, EqualIsCounted

LEMMA StuckInvStep ==
    ASSUME StuckInv, [Next]_vars
    PROVE  StuckInv'
<1>a. Typed(m) /\ StuckShape /\ Fresh /\ EqualIsCounted
  BY DEF StuckInv, StuckShape
<1>1. CASE Poll
  BY <1>1, PollKeepsStuck
<1>2. CASE Garbled
  <2> DEFINE t == [m EXCEPT !.polls = @ + 1, !.noProgress = @ + 1, !.prev = Unknown, !.code = "error"]
  <2>1. /\ Typed(t) /\ t.wait = m.wait /\ t.lastUrl = m.lastUrl /\ t.expectedSha = m.expectedSha
        /\ t.noProgress = m.noProgress + 1
    BY <1>a DEF Typed, Fields
  <2>2. m' = CycleCheck(t, "error") /\ history' = [history EXCEPT !.equal = 0]
    BY <1>2 DEF Garbled
  <2> HIDE DEF t
  <2>3. /\ Typed(m') /\ m'.wait = m.wait /\ m'.noProgress = m.noProgress + 1
        /\ m'.lastUrl = m.lastUrl /\ m'.expectedSha = m.expectedSha
    <3>1. /\ Typed(m') /\ m'.wait = t.wait /\ m'.lastUrl = t.lastUrl /\ m'.expectedSha = t.expectedSha
      BY <2>1, <2>2, CycleCheckFields
    <3>2. m'.noProgress = t.noProgress
      BY <2>1, <2>2 DEF CycleCheck, Typed, Fields
    <3> QED BY <2>1, <3>1, <3>2
  <2>4. DOMAIN history' = DOMAIN history /\ history'.acted = history.acted /\ history'.equal = 0
    BY <1>a, <2>2 DEF StuckShape
  <2>5. StuckShape'
    BY <1>a, <2>3, <2>4 DEF StuckShape
  <2>6. Fresh'
    BY <1>a, <2>3, <2>4 DEF Fresh
  <2>7. EqualIsCounted'
    BY <1>a, <2>3, <2>4 DEF EqualIsCounted, StuckShape
  <2> QED BY <2>5, <2>6, <2>7 DEF StuckInv
<1>3. CASE Act
  <2> DEFINE checked == CycleCheck(m, m.code)
  <2> PICK action : /\ \E t \in Charged(checked, action) : m' = PostAction(t, action, head')
                    /\ history' = [history EXCEPT
                           !.actions = IF action # "fix-auto-applying" THEN @ + 1 ELSE @,
                           !.acted = @ \cup {m.url}, !.equal = 0]
    BY <1>3 DEF Act
  <2> PICK t \in Charged(checked, action) : m' = PostAction(t, action, head')
    OBVIOUS
  <2>1. Typed(checked) /\ checked.noProgress = m.noProgress
    <3>1. Typed(checked)
      BY <1>a, CycleCheckFields
    <3> QED BY <1>a, <3>1 DEF CycleCheck, Typed, Fields
  <2> HIDE DEF checked
  <2>2. DOMAIN t = Fields /\ t.cycles = checked.cycles /\ t.noProgress = checked.noProgress
    BY <2>1 DEF Charged, Typed, Fields
  <2>3. /\ DOMAIN m' = Fields /\ m'.cycles = t.cycles /\ m'.noProgress = t.noProgress
        /\ m'.wait = TRUE /\ m'.agent = (action # "fix-auto-applying")
    BY <2>2 DEF PostAction, Fields
  <2>4. Typed(m') /\ m'.wait \in BOOLEAN
    BY <2>1, <2>2, <2>3 DEF Typed
  <2>5. DOMAIN history' = DOMAIN history /\ history'.acted # {} /\ history'.equal = 0
    BY <1>a DEF StuckShape
  <2>6. StuckShape'
    BY <1>a, <2>1, <2>2, <2>3, <2>4, <2>5 DEF StuckShape
  <2> QED BY <2>5, <2>6 DEF StuckInv, Fresh, EqualIsCounted
<1>4. CASE Leave
  <2> DEFINE checked == CycleCheck(m, m.code)
  <2>1. m' = [checked EXCEPT !.pc = "left"] /\ history' = history
    BY <1>4 DEF Leave
  <2>2. /\ Typed(checked) /\ checked.wait = m.wait /\ checked.lastUrl = m.lastUrl
        /\ checked.expectedSha = m.expectedSha
    BY <1>a, CycleCheckFields DEF StuckShape
  <2>3. checked.noProgress = m.noProgress
    BY <1>a DEF CycleCheck, Typed, Fields
  <2> HIDE DEF checked
  <2>4. /\ Typed(m') /\ m'.wait = m.wait /\ m'.lastUrl = m.lastUrl /\ m'.expectedSha = m.expectedSha
        /\ m'.noProgress = m.noProgress /\ m'.pc = "left"
    BY <2>1, <2>2, <2>3 DEF Typed, Fields
  <2>5. StuckShape'
    BY <1>a, <2>1, <2>4 DEF StuckShape
  <2> QED BY <1>a, <2>1, <2>4, <2>5 DEF StuckInv, Fresh, EqualIsCounted
<1>5. CASE Progress \/ Spawn \/ HumanPush \/ UNCHANGED vars
  <2>1. m' = m /\ history' = history
    BY <1>5 DEF Progress, Spawn, HumanPush, vars
  <2> QED BY <1>a, <2>1 DEF StuckInv, StuckShape, Fresh, EqualIsCounted, Typed
<1> QED BY <1>1, <1>2, <1>3, <1>4, <1>5 DEF Next

LEMMA StuckInvInit == Init => StuckInv
<1> SUFFICES ASSUME Init PROVE StuckInv
  OBVIOUS
<1>1. StuckShape
  <2>1. Typed(m) /\ m.noProgress = 0
    BY DEF Init, Typed, Fields
  <2>2. m.wait \in BOOLEAN
    BY DEF Init
  <2>3. DOMAIN history = {"actions", "acted", "equal"} /\ history.equal \in Nat
    BY DEF Init
  <2> QED BY <2>1, <2>2, <2>3 DEF StuckShape
<1>2. Fresh /\ EqualIsCounted
  BY DEF Init, Fresh, EqualIsCounted
<1> QED BY <1>1, <1>2 DEF StuckInv

(* Until it acts, the agent stops at the fifth poll in a row that told      *)
(* nothing new: no other rule of ci-poll-decide.mjs comes first and goes    *)
(* on, and none that sets the count back goes on.                           *)
THEOREM CircuitBreaks == Spec => []BreaksWhenStuck
<1>1. StuckInv => BreaksWhenStuck
  BY DEF StuckInv, EqualIsCounted, BreaksWhenStuck
<1> QED BY <1>1, StuckInvInit, StuckInvStep, PTL DEF Spec

-----------------------------------------------------------------------------
(* The npm package: what is staged, published and launched.                 *)

(* A payload that is the executable of target t in build a.                 *)
Good(a, t, payload) ==
    /\ payload \in Package!Payload /\ payload.target = t /\ payload.artifact = a
    /\ payload.mode = "executable" \/ t.platform = "win32"

Shaped ==
    /\ VERSION \in Package!Versions
    /\ dist \in [version : Package!Versions \cup {None}, archives : [Package!Targets -> Package!Archives]]
    /\ job \in [pc : {"idle", "remove", "copy", "extract", "staged"}, release : BOOLEAN,
                version : Package!Versions \cup {None}, artifact : Package!Versions \cup {None}, n : Nat]
    /\ out \in [manifest : Package!Versions \cup {None},
                payloads : [Package!Targets -> Package!Payload \cup {None}]]
    /\ DOMAIN published = Package!Versions

(* Where the staging stands: a directory is written only after it was       *)
(* removed, and target by target; a release is of the version it names.     *)
Staging ==
    /\ job.pc # "idle" => /\ job.version \in Package!Versions /\ job.artifact \in Package!Versions
                          /\ job.release => job.artifact = job.version
    /\ job.pc \in {"remove", "copy"} => job.n = 1
    /\ job.pc = "copy" => out = Package!EmptyOut
    /\ job.pc = "extract" => job.n \in 1 .. Len(targets)
    /\ job.pc = "staged" => job.n = Len(targets) + 1

(* What the staging under way has written is of its build.                  *)
Written ==
    job.pc \in {"extract", "staged"} =>
        /\ out.manifest = job.version
        /\ \A t \in Package!Targets :
              out.payloads[t] # None => Good(job.artifact, t, out.payloads[t])
        /\ \A k \in 1 .. Len(targets) : k < job.n => out.payloads[targets[k]] # None

(* What is there, from whichever staging, is of one build. *)
OneBuild ==
    \E a \in Package!Versions : \A t \in Package!Targets :
        out.payloads[t] # None => Good(a, t, out.payloads[t])

(* A published package has the binary of its version for every target.      *)
Complete ==
    \A v \in Package!Versions : published[v] # None =>
        \A t \in Package!Targets : Good(v, t, published[v][t])

PackageInv == Shaped /\ Staging /\ Written /\ OneBuild /\ Complete /\ LaunchesOwnBinary

-----------------------------------------------------------------------------
LEMMA TargetList ==
    /\ Len(targets) \in Nat \ {0} /\ DOMAIN targets = 1 .. Len(targets)
    /\ \A k \in 1 .. Len(targets) : targets[k] \in Package!Targets
    /\ \A t \in Package!Targets : \E k \in 1 .. Len(targets) : targets[k] = t
<1>1. /\ Len(targets) \in Nat \ {0} /\ DOMAIN targets = 1 .. Len(targets)
      /\ \A k \in 1 .. Len(targets) : targets[k] \in Package!Targets
  BY PackageAssumption DEF Package!NpmPackageAssumption
<1>2. Package!Targets = {targets[k] : k \in DOMAIN targets}
  BY DEF Package!Targets, Package!ToSet
<1> QED BY <1>1, <1>2

LEMMA EmptyDirectory ==
    /\ Package!EmptyOut \in [manifest : Package!Versions \cup {None},
                             payloads : [Package!Targets -> Package!Payload \cup {None}]]
    /\ \A t \in Package!Targets : Package!EmptyOut.payloads[t] = None
    /\ 1 \in Package!Versions
  BY PackageAssumption DEF Package!EmptyOut, Package!NpmPackageAssumption, Package!Versions

(* The record of no staging. *)
IdleJob(j) ==
    /\ j \in [pc : {"idle", "remove", "copy", "extract", "staged"}, release : BOOLEAN,
              version : Package!Versions \cup {None}, artifact : Package!Versions \cup {None}, n : Nat]
    /\ j.pc = "idle"

LEMMA NoJobIsIdle == IdleJob(Package!NoJob)
<1>1. PICK no \in BOOLEAN : no = FALSE
  OBVIOUS
<1>2. Package!NoJob = [pc |-> "idle", release |-> no, version |-> None, artifact |-> None, n |-> 1]
  BY <1>1 DEF Package!NoJob
<1> QED BY <1>2 DEF IdleJob

LEMMA PackageInit == Package!Init => PackageInv
<1> SUFFICES ASSUME Package!Init PROVE PackageInv
  OBVIOUS
<1>1. VERSION = 1 /\ job = Package!NoJob /\ out = Package!EmptyOut /\ launched = None
  BY DEF Package!Init
<1>2. Shaped
  <2>1. dist \in [version : Package!Versions \cup {None}, archives : [Package!Targets -> Package!Archives]]
    BY DEF Package!Init, Package!Archives
  <2>2. job \in [pc : {"idle", "remove", "copy", "extract", "staged"}, release : BOOLEAN,
                 version : Package!Versions \cup {None}, artifact : Package!Versions \cup {None}, n : Nat]
    BY <1>1, NoJobIsIdle DEF IdleJob
  <2>3. DOMAIN published = Package!Versions
    BY DEF Package!Init
  <2> QED BY <1>1, <2>1, <2>2, <2>3, EmptyDirectory DEF Shaped
<1>3. job.pc = "idle"
  BY <1>1 DEF Package!NoJob
<1>4. Staging /\ Written
  BY <1>3 DEF Staging, Written
<1>5. OneBuild
  BY <1>1, EmptyDirectory DEF OneBuild
<1>6. Complete
  BY DEF Package!Init, Complete
<1>7. LaunchesOwnBinary
  BY <1>1 DEF LaunchesOwnBinary, Package!LaunchesOwnBinary
<1> QED BY <1>2, <1>4, <1>5, <1>6, <1>7 DEF PackageInv

(* The steps that leave the packages alone. *)
LEMMA KeepsPackages ==
    ASSUME PackageInv, UNCHANGED <<published, launched>>
    PROVE  Complete' /\ LaunchesOwnBinary'
  BY DEF PackageInv, Complete, Good, LaunchesOwnBinary, Package!LaunchesOwnBinary

LEMMA BuildStep ==
    ASSUME PackageInv, Package!UpdateProjectVersion \/ Package!Build
    PROVE  PackageInv'
<1>1. UNCHANGED <<job, out, published, launched>>
  BY DEF Package!UpdateProjectVersion, Package!Build
<1>2. VERSION' \in Package!Versions
  BY PackageAssumption
     DEF Package!UpdateProjectVersion, Package!Build, Package!Versions, Package!NpmPackageAssumption,
         PackageInv, Shaped
<1>3. dist' \in [version : Package!Versions \cup {None}, archives : [Package!Targets -> Package!Archives]]
  BY DEF Package!UpdateProjectVersion, Package!Build, PackageInv, Shaped
<1>4. Shaped'
  BY <1>1, <1>2, <1>3 DEF PackageInv, Shaped
<1>5. Staging' /\ Written' /\ OneBuild'
  BY <1>1 DEF PackageInv, Staging, Written, OneBuild
<1> QED BY <1>1, <1>4, <1>5, KeepsPackages DEF PackageInv

LEMMA BeginStep ==
    ASSUME PackageInv, NEW release \in BOOLEAN, Package!Begin(release)
    PROVE  PackageInv'
<1>1. /\ dist.version \in Package!Versions /\ (release => dist.version = VERSION)
      /\ VERSION \in Package!Versions
  BY DEF Package!Begin, PackageInv, Shaped
<1>2. /\ job' = [pc |-> "remove", release |-> release, version |-> VERSION,
                 artifact |-> dist.version, n |-> 1]
      /\ UNCHANGED <<VERSION, dist, out, published, launched>>
  BY DEF Package!Begin
<1>3. Shaped'
  <2>1. job' \in [pc : {"idle", "remove", "copy", "extract", "staged"}, release : BOOLEAN,
                  version : Package!Versions \cup {None}, artifact : Package!Versions \cup {None}, n : Nat]
    BY <1>1, <1>2
  <2> QED BY <1>2, <2>1 DEF PackageInv, Shaped
<1>4. Staging' /\ Written' /\ OneBuild'
  BY <1>1, <1>2 DEF PackageInv, Staging, Written, OneBuild
<1> QED BY <1>2, <1>3, <1>4, KeepsPackages DEF PackageInv

LEMMA RemoveStep ==
    ASSUME PackageInv, Package!RemoveOut
    PROVE  PackageInv'
<1>1. /\ job.pc = "remove" /\ job' = [job EXCEPT !.pc = "copy"] /\ out' = Package!EmptyOut
      /\ UNCHANGED <<VERSION, dist, published, launched>>
  BY DEF Package!RemoveOut
<1>2. /\ job'.pc = "copy" /\ job'.release = job.release /\ job'.version = job.version
      /\ job'.artifact = job.artifact /\ job'.n = job.n
  BY <1>1 DEF PackageInv, Shaped
<1>3. Shaped'
  <2>1. job' \in [pc : {"idle", "remove", "copy", "extract", "staged"}, release : BOOLEAN,
                  version : Package!Versions \cup {None}, artifact : Package!Versions \cup {None}, n : Nat]
    BY <1>1 DEF PackageInv, Shaped
  <2> QED BY <1>1, <2>1, EmptyDirectory DEF PackageInv, Shaped
<1>4. Staging' /\ Written'
  BY <1>1, <1>2 DEF PackageInv, Staging, Written
<1>5. OneBuild'
  BY <1>1, EmptyDirectory DEF OneBuild
<1> QED BY <1>1, <1>3, <1>4, <1>5, KeepsPackages DEF PackageInv

LEMMA CopyStep ==
    ASSUME PackageInv, Package!CopyPublishFiles
    PROVE  PackageInv'
<1>1. /\ job.pc = "copy" /\ job' = [job EXCEPT !.pc = "extract"]
      /\ out' = [out EXCEPT !.manifest = job.version]
      /\ UNCHANGED <<VERSION, dist, published, launched>>
  BY DEF Package!CopyPublishFiles
<1>2. /\ job'.pc = "extract" /\ job'.release = job.release /\ job'.version = job.version
      /\ job'.artifact = job.artifact /\ job'.n = job.n /\ job.n = 1
  BY <1>1 DEF PackageInv, Shaped, Staging
<1>3. out'.manifest = job.version /\ out'.payloads = out.payloads
  BY <1>1 DEF PackageInv, Shaped
<1>4. \A t \in Package!Targets : out'.payloads[t] = None
  BY <1>1, <1>3, EmptyDirectory DEF PackageInv, Staging
<1>5. job.version \in Package!Versions
  BY <1>1 DEF PackageInv, Staging
<1>6. Shaped'
  <2>1. job' \in [pc : {"idle", "remove", "copy", "extract", "staged"}, release : BOOLEAN,
                  version : Package!Versions \cup {None}, artifact : Package!Versions \cup {None}, n : Nat]
    BY <1>1 DEF PackageInv, Shaped
  <2>2. out' \in [manifest : Package!Versions \cup {None},
                  payloads : [Package!Targets -> Package!Payload \cup {None}]]
    BY <1>1, <1>5 DEF PackageInv, Shaped
  <2> QED BY <1>1, <2>1, <2>2 DEF PackageInv, Shaped
<1>7. Staging'
  BY <1>1, <1>2, TargetList DEF PackageInv, Staging
<1>8. Written'
  BY <1>2, <1>3, <1>4, TargetList DEF Written
<1>9. OneBuild'
  BY <1>4, EmptyDirectory DEF OneBuild
<1> QED BY <1>1, <1>6, <1>7, <1>8, <1>9, KeepsPackages DEF PackageInv

LEMMA WriteStep ==
    ASSUME PackageInv, Package!WritePayload
    PROVE  PackageInv'
<1> PICK t : t = targets[job.n]
  OBVIOUS
<1> PICK payload :
        payload = [target |-> t, artifact |-> job.artifact, content |-> dist.archives[t],
                   mode |-> IF t.platform = "win32" THEN "plain" ELSE "executable"]
  OBVIOUS
<1>1. /\ job.pc = "extract" /\ dist.archives[t] = "binary"
      /\ out' = [out EXCEPT !.payloads[t] = payload]
      /\ job' = [job EXCEPT !.n = @ + 1, !.pc = IF job.n = Len(targets) THEN "staged" ELSE @]
      /\ UNCHANGED <<VERSION, dist, published, launched>>
  BY DEF Package!WritePayload, Package!ExtractExecutable, Package!AssertExecutable
<1>2. /\ job.n \in 1 .. Len(targets) /\ t \in Package!Targets
      /\ job.artifact \in Package!Versions /\ job.version \in Package!Versions
  BY <1>1, TargetList DEF PackageInv, Staging
<1>3. Good(job.artifact, t, payload)
  <2>1. payload.mode \in {"plain", "executable"} /\ (payload.mode = "executable" \/ t.platform = "win32")
    OBVIOUS
  <2>2. payload \in Package!Payload
    BY <1>1, <1>2 DEF Package!Payload
  <2> QED BY <2>1, <2>2 DEF Good
<1>4. /\ job'.pc = IF job.n = Len(targets) THEN "staged" ELSE "extract"
      /\ job'.release = job.release /\ job'.version = job.version
      /\ job'.artifact = job.artifact /\ job'.n = job.n + 1
  BY <1>1 DEF PackageInv, Shaped
<1>5. /\ out'.manifest = out.manifest
      /\ out'.payloads = [out.payloads EXCEPT ![t] = payload]
  BY <1>1 DEF PackageInv, Shaped
<1>6. \A s \in Package!Targets : out'.payloads[s] = IF s = t THEN payload ELSE out.payloads[s]
  BY <1>5 DEF PackageInv, Shaped
<1>7. payload # None
  BY <1>3, PackageAssumption DEF Good, Package!NpmPackageAssumption
<1>8. Shaped'
  <2>1. job' \in [pc : {"idle", "remove", "copy", "extract", "staged"}, release : BOOLEAN,
                  version : Package!Versions \cup {None}, artifact : Package!Versions \cup {None}, n : Nat]
    <3>1. job.n + 1 \in Nat
      BY <1>2, TargetList
    <3>2. (IF job.n = Len(targets) THEN "staged" ELSE job.pc) \in {"idle", "remove", "copy", "extract", "staged"}
      BY <1>1
    <3> QED BY <1>1, <3>1, <3>2 DEF PackageInv, Shaped
  <2>2. out' \in [manifest : Package!Versions \cup {None},
                  payloads : [Package!Targets -> Package!Payload \cup {None}]]
    BY <1>1, <1>3 DEF PackageInv, Shaped, Good
  <2> QED BY <1>1, <2>1, <2>2 DEF PackageInv, Shaped
<1>9. Staging'
  <2>1. job'.pc \in {"extract", "staged"} /\ (job'.pc = "staged" <=> job.n = Len(targets))
    BY <1>4
  <2>2. job'.pc = "extract" => job'.n \in 1 .. Len(targets)
    BY <1>2, <1>4, <2>1, TargetList
  <2>3. job'.release => job'.artifact = job'.version
    BY <1>1, <1>4 DEF PackageInv, Staging
  <2> QED BY <1>2, <1>4, <2>1, <2>2, <2>3 DEF Staging
<1>10. /\ out'.manifest = job'.version
       /\ \A s \in Package!Targets :
             out'.payloads[s] # None => Good(job'.artifact, s, out'.payloads[s])
       /\ \A k \in 1 .. Len(targets) : k < job'.n => out'.payloads[targets[k]] # None
  <2>1. Written /\ job.pc = "extract"
    BY <1>1 DEF PackageInv
  <2>2. out'.manifest = job'.version
    BY <1>4, <1>5, <2>1 DEF Written
  <2>3. \A s \in Package!Targets : out'.payloads[s] # None => Good(job'.artifact, s, out'.payloads[s])
    BY <1>3, <1>4, <1>6, <2>1 DEF Written
  <2>4. ASSUME NEW k \in 1 .. Len(targets), k < job'.n PROVE out'.payloads[targets[k]] # None
    <3>1. CASE k = job.n
      BY <1>2, <1>6, <1>7, <3>1
    <3>2. CASE k # job.n
      <4>1. k < job.n
        BY <1>2, <1>4, <2>4, <3>2, TargetList
      <4> QED BY <1>6, <1>7, <2>1, <4>1, TargetList DEF Written
    <3> QED BY <3>1, <3>2
  <2> QED BY <2>2, <2>3, <2>4
<1>11. Written' /\ OneBuild'
  BY <1>2, <1>4, <1>10 DEF Written, OneBuild
<1> QED BY <1>1, <1>8, <1>9, <1>11, KeepsPackages DEF PackageInv

LEMMA FailStep ==
    ASSUME PackageInv, Package!Fail
    PROVE  PackageInv'
<1>1. job' = Package!NoJob /\ UNCHANGED <<VERSION, dist, out, published, launched>>
  BY DEF Package!Fail
<1>2. IdleJob(job')
  BY <1>1, NoJobIsIdle
<1>3. Shaped'
  BY <1>1, <1>2 DEF PackageInv, Shaped, IdleJob
<1>4. Staging' /\ Written'
  BY <1>2 DEF Staging, Written, IdleJob
<1>5. OneBuild'
  BY <1>1 DEF PackageInv, OneBuild
<1> QED BY <1>1, <1>3, <1>4, <1>5, KeepsPackages DEF PackageInv

(* A release publishes what it staged: every target, of the tag's build.    *)
LEMMA PublishStep ==
    ASSUME PackageInv, Package!Publish
    PROVE  PackageInv'
<1>1. /\ job.pc = "staged" /\ job.release
      /\ published' = [published EXCEPT ![out.manifest] = out.payloads]
      /\ job' = Package!NoJob
      /\ UNCHANGED <<VERSION, dist, out, launched>>
  BY DEF Package!Publish
<1>2. /\ out.manifest = job.version /\ job.version \in Package!Versions
      /\ job.artifact = job.version /\ job.n = Len(targets) + 1
  BY <1>1 DEF PackageInv, Staging, Written
<1>3. \A t \in Package!Targets : Good(job.version, t, out.payloads[t])
  <2> SUFFICES ASSUME NEW t \in Package!Targets PROVE Good(job.version, t, out.payloads[t])
    OBVIOUS
  <2>1. PICK k \in 1 .. Len(targets) : targets[k] = t
    BY TargetList
  <2>2. k < job.n
    BY <1>2, TargetList
  <2>3. out.payloads[t] # None
    BY <1>1, <2>1, <2>2 DEF PackageInv, Written
  <2> QED BY <1>1, <1>2, <2>3 DEF PackageInv, Written
<1>4. /\ DOMAIN published' = Package!Versions
      /\ \A v \in Package!Versions :
            published'[v] = IF v = job.version THEN out.payloads ELSE published[v]
  BY <1>1, <1>2 DEF PackageInv, Shaped
<1>5. IdleJob(job')
  BY <1>1, NoJobIsIdle
<1>6. Shaped'
  BY <1>1, <1>4, <1>5 DEF PackageInv, Shaped, IdleJob
<1>7. Staging' /\ Written'
  BY <1>5 DEF Staging, Written, IdleJob
<1>8. OneBuild'
  BY <1>1 DEF PackageInv, OneBuild
<1>9. Complete'
  <2> SUFFICES ASSUME NEW v \in Package!Versions, published'[v] # None,
                      NEW t \in Package!Targets
               PROVE  Good(v, t, published'[v][t])
    BY DEF Complete, Good
  <2>1. CASE v = job.version
    BY <1>3, <1>4, <2>1
  <2>2. CASE v # job.version
    BY <1>4, <2>2 DEF PackageInv, Complete
  <2> QED BY <2>1, <2>2
<1>10. LaunchesOwnBinary'
  BY <1>1 DEF PackageInv, LaunchesOwnBinary, Package!LaunchesOwnBinary
<1> QED BY <1>6, <1>7, <1>8, <1>9, <1>10 DEF PackageInv

-----------------------------------------------------------------------------
(* launch.mjs *)

Fits(t, host) == t.platform = host.platform /\ t.arch = host.arch

(* The launcher finds a target of the host's if there is one, and none else.*)
LEMMA TargetFound ==
    ASSUME NEW host
    PROVE  IF \E t \in Package!Targets : Fits(t, host)
           THEN Package!FindTarget(host) \in Package!Targets /\ Fits(Package!FindTarget(host), host)
           ELSE Package!FindTarget(host) = None
<1> DEFINE fits == {n \in DOMAIN targets : targets[n].platform = host.platform /\ targets[n].arch = host.arch}
           Less == OpToRel(<, Nat)
<1>1. Package!FindTarget(host) = Package!FirstTarget(fits)
  BY DEF Package!FindTarget
<1>2. \A n \in fits : n \in 1 .. Len(targets) /\ n \in Nat /\ targets[n] \in Package!Targets /\ Fits(targets[n], host)
  BY TargetList DEF Fits
<1>3. (\E t \in Package!Targets : Fits(t, host)) <=> fits # {}
  <2>1. ASSUME NEW t \in Package!Targets, Fits(t, host) PROVE fits # {}
    BY <2>1, TargetList DEF Fits
  <2>2. ASSUME fits # {} PROVE \E t \in Package!Targets : Fits(t, host)
    BY <1>2, <2>2
  <2> QED BY <2>1, <2>2
<1> HIDE DEF fits
<1>4. CASE fits = {}
  BY <1>1, <1>3, <1>4 DEF Package!FirstTarget
<1>5. CASE fits # {}
  <2>1. fits \subseteq Nat
    BY <1>2
  <2>2. PICK n \in fits : \A k \in fits : ~(<<k, n>> \in Less)
    <3>1. IsWellFoundedOn(Less, Nat)
      BY NatLessThanWellFounded
    <3> HIDE DEF Less
    <3> QED BY <1>5, <2>1, <3>1, WFMin
  <2>3. ASSUME NEW k \in fits PROVE n <= k
    <3>1. k \in Nat /\ n \in Nat
      BY <2>1
    <3>2. k < n => <<k, n>> \in Less
      BY <3>1 DEF OpToRel
    <3> HIDE DEF Less
    <3>3. ~(k < n)
      BY <2>2, <3>2
    <3> QED BY <3>1, <3>3
  <2> DEFINE first == CHOOSE x \in fits : \A k \in fits : x <= k
  <2>4. first \in fits
    BY <2>2, <2>3
  <2>5. Package!FirstTarget(fits) = targets[first]
    BY <1>5 DEF Package!FirstTarget
  <2> HIDE DEF first
  <2> QED BY <1>1, <1>2, <1>3, <1>5, <2>4, <2>5
<1> QED BY <1>4, <1>5

LEMMA LaunchStep ==
    ASSUME PackageInv, NEW host \in Hosts, NEW version \in Package!Versions,
           Package!LaunchMindctl(host, version)
    PROVE  PackageInv'
<1> DEFINE target == Package!FindTarget(host)
           payload == IF target = None THEN None ELSE published[version][target]
<1>1. /\ published[version] # None
      /\ UNCHANGED <<VERSION, dist, job, out, published>>
  BY DEF Package!LaunchMindctl
<1>2. PICK result \in Package!Spawned(payload) :
          launched' = [host |-> host, version |-> version, ran |-> result.ran, code |-> result.code]
  BY DEF Package!LaunchMindctl
<1>3. /\ launched'.host = host /\ launched'.version = version
      /\ launched'.ran = result.ran /\ launched'.code = result.code
  BY <1>2
<1>4. None \notin Package!Targets /\ None \notin Package!Payload
  BY PackageAssumption DEF Package!NpmPackageAssumption
<1>5. LaunchesOwnBinary'
  <2>1. CASE \E t \in Package!Targets : Fits(t, host)
    <3>1. target \in Package!Targets /\ Fits(target, host)
      BY <2>1, TargetFound
    <3>2. Good(version, target, payload)
      BY <1>1, <1>4, <3>1 DEF PackageInv, Complete
    <3> HIDE DEF target, payload
    <3>3. /\ payload # None /\ payload.target = target /\ payload.artifact = version
          /\ payload.content = "binary"
          /\ payload.mode = "executable" \/ payload.target.platform = "win32"
      BY <1>4, <3>2 DEF Good, Package!Payload
    <3>4. result.ran = payload
      BY <1>2, <3>3 DEF Package!Spawned
    <3>5. /\ launched'.ran # None /\ launched'.ran.artifact = launched'.version
          /\ launched'.ran.content = "binary"
          /\ launched'.ran.target.platform = launched'.host.platform
          /\ launched'.ran.target.arch = launched'.host.arch
      BY <1>3, <3>1, <3>3, <3>4 DEF Fits
    <3>6. \E t \in Package!Targets : t.platform = launched'.host.platform /\ t.arch = launched'.host.arch
      BY <1>3, <2>1 DEF Fits
    <3> QED BY <3>5, <3>6 DEF LaunchesOwnBinary, Package!LaunchesOwnBinary, Package!Targets
  <2>2. CASE ~\E t \in Package!Targets : Fits(t, host)
    <3>1. payload = None
      BY <2>2, TargetFound
    <3>2. result.ran = None /\ result.code = 1
      BY <1>2, <3>1 DEF Package!Spawned
    <3>3. ~\E t \in Package!Targets : t.platform = launched'.host.platform /\ t.arch = launched'.host.arch
      BY <1>3, <2>2 DEF Fits
    <3> QED BY <1>3, <3>2, <3>3 DEF LaunchesOwnBinary, Package!LaunchesOwnBinary, Package!Targets
  <2> QED BY <2>1, <2>2
<1>6. Shaped' /\ Staging' /\ Written' /\ OneBuild' /\ Complete'
  BY <1>1 DEF PackageInv, Shaped, Staging, Written, OneBuild, Complete, Good
<1> QED BY <1>5, <1>6 DEF PackageInv

-----------------------------------------------------------------------------
LEMMA PackageInvStep == PackageInv /\ [Package!Next]_(packageVars) => PackageInv'
<1> SUFFICES ASSUME PackageInv, [Package!Next]_(packageVars) PROVE PackageInv'
  OBVIOUS
<1>1. CASE Package!UpdateProjectVersion \/ Package!Build
  BY <1>1, BuildStep
<1>2. CASE \E release \in BOOLEAN : Package!Begin(release)
  BY <1>2, BeginStep
<1>3. CASE Package!RemoveOut
  BY <1>3, RemoveStep
<1>4. CASE Package!CopyPublishFiles
  BY <1>4, CopyStep
<1>5. CASE Package!WritePayload
  BY <1>5, WriteStep
<1>6. CASE Package!Fail
  BY <1>6, FailStep
<1>7. CASE Package!Publish
  BY <1>7, PublishStep
<1>8. CASE \E host \in Hosts, version \in Package!Versions : Package!LaunchMindctl(host, version)
  BY <1>8, LaunchStep
<1>9. CASE UNCHANGED packageVars
  <2>1. UNCHANGED <<VERSION, dist, job, out, published, launched>>
    BY <1>9 DEF packageVars
  <2>2. Shaped' /\ Staging' /\ Written' /\ OneBuild'
    BY <2>1 DEF PackageInv, Shaped, Staging, Written, OneBuild
  <2> QED BY <2>1, <2>2, KeepsPackages DEF PackageInv
<1> QED BY <1>1, <1>2, <1>3, <1>4, <1>5, <1>6, <1>7, <1>8, <1>9 DEF Package!Next

LEMMA PackageInvariant == Package!Spec => []PackageInv
<1>1. [Package!Next]_(Package!vars) => [Package!Next]_(packageVars)
  BY DEF Package!vars, packageVars
<1> QED BY <1>1, PackageInit, PackageInvStep, PTL DEF Package!Spec

(* The staged directory never mixes two builds, wherever a staging ended    *)
(* and whatever was staged there before (stagePackage).                     *)
THEOREM StagingsDoNotMix == Package!Spec => []StagedIsOneBuild
<1>1. PackageInv => StagedIsOneBuild
  BY DEF PackageInv, OneBuild, Good, StagedIsOneBuild, Package!StagedIsOneBuild
<1> QED BY <1>1, PackageInvariant, PTL

(* Who installed a published version runs his host's binary of it, whole,   *)
(* and where there is none the launcher fails (stagePackage, launchMindctl).*)
THEOREM LaunchesAreSound == Package!Spec => []LaunchesOwnBinary
<1>1. PackageInv => LaunchesOwnBinary
  BY DEF PackageInv
<1> QED BY <1>1, PackageInvariant, PTL

-----------------------------------------------------------------------------
(* Concatenations. *)

(* The partial concatenations of a sequence of sequences. *)
Flattens(g, seqs, k) == g = [i \in 1 .. k |-> IF i = 1 THEN seqs[i] ELSE g[i - 1] \o seqs[i]]

(* There is a number of the set that none is below. *)
LEMMA LeastNumber ==
    ASSUME NEW S \in SUBSET Nat, S # {}
    PROVE  \E n \in S : \A k \in S : n <= k
<1> DEFINE Less == OpToRel(<, Nat)
<1>1. IsWellFoundedOn(Less, Nat)
  BY NatLessThanWellFounded
<1>2. PICK n \in S : \A k \in S : ~(<<k, n>> \in Less)
  <2> HIDE DEF Less
  <2> QED BY <1>1, WFMin
<1>3. ASSUME NEW k \in S PROVE n <= k
  <2>1. k \in Nat /\ n \in Nat
    OBVIOUS
  <2>2. k < n => <<k, n>> \in Less
    BY <2>1 DEF OpToRel
  <2> HIDE DEF Less
  <2> QED BY <1>2, <2>1, <2>2
<1> QED BY <1>3

LEMMA FlattensExists ==
    ASSUME NEW S, NEW seqs \in Seq(Seq(S)), NEW k \in 0 .. Len(seqs)
    PROVE  \E g \in [1 .. k -> Seq(S)] : Flattens(g, seqs, k)
<1> DEFINE Bad == {n \in 0 .. Len(seqs) : ~\E g \in [1 .. n -> Seq(S)] : Flattens(g, seqs, n)}
<1> SUFFICES ASSUME Bad # {} PROVE FALSE
  OBVIOUS
<1>1. PICK n \in Bad : \A j \in Bad : n <= j
  <2>1. Bad \in SUBSET Nat
    OBVIOUS
  <2> HIDE DEF Bad
  <2> QED BY <2>1, LeastNumber
<1>2. n \in 0 .. Len(seqs) /\ n \in Nat
  OBVIOUS
<1>3. ASSUME NEW i \in 1 .. Len(seqs) PROVE seqs[i] \in Seq(S)
  OBVIOUS
<1>4. CASE n = 0
  <2>1. << >> \in [1 .. 0 -> Seq(S)] /\ Flattens(<< >>, seqs, 0)
    BY DEF Flattens
  <2> QED BY <1>4, <2>1
<1>5. CASE n > 0
  <2>1. PICK g \in [1 .. n - 1 -> Seq(S)] : Flattens(g, seqs, n - 1)
    <3>1. n - 1 \in 0 .. Len(seqs) /\ ~(n <= n - 1)
      BY <1>2, <1>5
    <3>2. n - 1 \notin Bad
      <4> HIDE DEF Bad
      <4> QED BY <1>1, <3>1
    <3> QED BY <3>1, <3>2
  <2> DEFINE last == IF n = 1 THEN seqs[n] ELSE g[n - 1] \o seqs[n]
             h == [i \in 1 .. n |-> IF i = n THEN last ELSE g[i]]
  <2>2. last \in Seq(S)
    <3>1. seqs[n] \in Seq(S)
      BY <1>2, <1>3, <1>5
    <3>2. n # 1 => g[n - 1] \in Seq(S)
      BY <1>2, <1>5, <2>1
    <3> QED BY <3>1, <3>2
  <2>3. h \in [1 .. n -> Seq(S)]
    <3> HIDE DEF last
    <3> QED BY <1>2, <2>1, <2>2
  <2>4. ASSUME NEW i \in 1 .. n
        PROVE  h[i] = IF i = 1 THEN seqs[i] ELSE h[i - 1] \o seqs[i]
    <3>1. CASE i = n
      <4>1. n # 1 => h[n - 1] = g[n - 1]
        BY <1>2
      <4> QED BY <3>1, <4>1
    <3>2. CASE i # n
      <4>1. i \in 1 .. n - 1 /\ h[i] = g[i]
        BY <1>2, <3>2
      <4>2. i # 1 => h[i - 1] = g[i - 1]
        BY <1>2, <4>1
      <4>3. g[i] = IF i = 1 THEN seqs[i] ELSE g[i - 1] \o seqs[i]
        BY <2>1, <4>1 DEF Flattens
      <4> HIDE DEF h
      <4> QED BY <4>1, <4>2, <4>3
    <3> QED BY <3>1, <3>2
  <2>5. Flattens(h, seqs, n)
    <3> HIDE DEF h
    <3> QED BY <2>3, <2>4 DEF Flattens
  <2> HIDE DEF h
  <2> QED BY <2>3, <2>5
<1> QED BY <1>2, <1>4, <1>5

LEMMA FlattensUnique ==
    ASSUME NEW seqs, NEW k \in Nat, NEW g, NEW h, Flattens(g, seqs, k), Flattens(h, seqs, k)
    PROVE  g = h
<1> DEFINE Bad == {i \in 1 .. k : g[i] # h[i]}
<1>0. /\ \A i \in 1 .. k : g[i] = IF i = 1 THEN seqs[i] ELSE g[i - 1] \o seqs[i]
      /\ \A i \in 1 .. k : h[i] = IF i = 1 THEN seqs[i] ELSE h[i - 1] \o seqs[i]
  BY DEF Flattens
<1>1. ASSUME Bad # {} PROVE FALSE
  <2>1. PICK n \in Bad : \A j \in Bad : n <= j
    <3>1. Bad \in SUBSET Nat
      OBVIOUS
    <3> HIDE DEF Bad
    <3> QED BY <1>1, <3>1, LeastNumber
  <2>2. n \in 1 .. k /\ g[n] # h[n]
    OBVIOUS
  <2>3. n # 1 => n - 1 \in 1 .. k /\ n - 1 \notin Bad
    BY <2>1, <2>2
  <2>4. n # 1 => g[n - 1] = h[n - 1]
    BY <2>3
  <2> QED BY <1>0, <2>2, <2>4
<1>2. g = [i \in 1 .. k |-> g[i]] /\ h = [i \in 1 .. k |-> h[i]]
  BY DEF Flattens
<1>3. \A i \in 1 .. k : g[i] = h[i]
  BY <1>1
<1> QED BY <1>2, <1>3

(* Workspace!FlattenSeq is the last of the partial concatenations. *)
LEMMA FlattenIs ==
    ASSUME NEW S, NEW seqs \in Seq(Seq(S)), Len(seqs) # 0, NEW g, Flattens(g, seqs, Len(seqs))
    PROVE  Workspace!FlattenSeq(seqs) = g[Len(seqs)]
<1> DEFINE chosen == CHOOSE h : Flattens(h, seqs, Len(seqs))
<1>1. Flattens(chosen, seqs, Len(seqs))
  OBVIOUS
<1>2. chosen = g
  <2> HIDE DEF chosen
  <2> QED BY <1>1, FlattensUnique
<1>3. Workspace!FlattenSeq(seqs) = chosen[Len(seqs)]
  BY DEF Workspace!FlattenSeq, Flattens
<1> QED BY <1>2, <1>3

LEMMA FlattenEmpty == Workspace!FlattenSeq(<< >>) = << >>
  BY DEF Workspace!FlattenSeq

LEMMA FlattenType ==
    ASSUME NEW S, NEW seqs \in Seq(Seq(S))
    PROVE  Workspace!FlattenSeq(seqs) \in Seq(S)
<1>0. Len(seqs) \in 0 .. Len(seqs)
  OBVIOUS
<1>1. PICK g \in [1 .. Len(seqs) -> Seq(S)] : Flattens(g, seqs, Len(seqs))
  <2>1. \A k \in 0 .. Len(seqs) : \E g \in [1 .. k -> Seq(S)] : Flattens(g, seqs, k)
    BY FlattensExists
  <2> QED BY <1>0, <2>1
<1>2. CASE Len(seqs) = 0
  BY <1>2 DEF Workspace!FlattenSeq
<1>3. CASE Len(seqs) # 0
  <2>1. Len(seqs) \in 1 .. Len(seqs)
    BY <1>3
  <2>2. g[Len(seqs)] \in Seq(S)
    BY <2>1
  <2>3. Workspace!FlattenSeq(seqs) = g[Len(seqs)]
    BY <1>1, <1>3, FlattenIs
  <2> QED BY <2>2, <2>3
<1> QED BY <1>2, <1>3

LEMMA FlattenAppend ==
    ASSUME NEW S, NEW seqs \in Seq(Seq(S)), NEW t \in Seq(S)
    PROVE  Workspace!FlattenSeq(Append(seqs, t)) = Workspace!FlattenSeq(seqs) \o t
<1> DEFINE more == Append(seqs, t)
           n == Len(seqs)
<1>1. more \in Seq(Seq(S)) /\ Len(more) = n + 1 /\ more[n + 1] = t /\ n \in Nat
      /\ \A i \in 1 .. n : more[i] = seqs[i]
  OBVIOUS
<1> HIDE DEF more
<1>2. PICK g \in [1 .. Len(more) -> Seq(S)] : Flattens(g, more, Len(more))
  <2>1. Len(more) \in 0 .. Len(more)
    BY <1>1
  <2> QED BY <1>1, <2>1, FlattensExists
<1>3. \A i \in 1 .. n + 1 : g[i] = IF i = 1 THEN more[i] ELSE g[i - 1] \o more[i]
  BY <1>1, <1>2 DEF Flattens
<1>4. Workspace!FlattenSeq(more) = g[n + 1]
  BY <1>1, <1>2, FlattenIs
<1>5. CASE n = 0
  <2>1. Workspace!FlattenSeq(seqs) = << >>
    BY <1>5 DEF Workspace!FlattenSeq
  <2>2. g[n + 1] = t
    BY <1>1, <1>3, <1>5
  <2> QED BY <1>4, <2>1, <2>2 DEF more
<1>6. CASE n # 0
  <2> DEFINE h == [i \in 1 .. n |-> g[i]]
  <2>1. ASSUME NEW i \in 1 .. n
        PROVE  h[i] = IF i = 1 THEN seqs[i] ELSE h[i - 1] \o seqs[i]
    <3>1. i \in 1 .. n + 1 /\ more[i] = seqs[i] /\ h[i] = g[i]
      BY <1>1
    <3>2. i # 1 => h[i - 1] = g[i - 1]
      BY <1>1
    <3> HIDE DEF h
    <3> QED BY <1>3, <3>1, <3>2
  <2>2. Flattens(h, seqs, n)
    <3>1. h = [i \in 1 .. n |-> h[i]]
      OBVIOUS
    <3> HIDE DEF h
    <3> QED BY <2>1, <3>1 DEF Flattens
  <2>3. Workspace!FlattenSeq(seqs) = h[n]
    <3> HIDE DEF h
    <3> QED BY <1>6, <2>2, FlattenIs
  <2>4. h[n] = g[n]
    BY <1>1, <1>6
  <2>5. g[n + 1] = g[n] \o t
    <3>1. n + 1 \in 1 .. n + 1 /\ n + 1 # 1 /\ (n + 1) - 1 = n
      BY <1>1, <1>6
    <3>2. g[n + 1] = IF n + 1 = 1 THEN more[n + 1] ELSE g[(n + 1) - 1] \o more[n + 1]
      BY <1>3, <3>1
    <3> HIDE DEF h, n
    <3> QED BY <1>1, <3>1, <3>2
  <2>6. Workspace!FlattenSeq(more) = Workspace!FlattenSeq(seqs) \o t
    <3> HIDE DEF h
    <3> QED BY <1>4, <2>3, <2>4, <2>5
  <2> QED BY <2>6 DEF more
<1> QED BY <1>5, <1>6

-----------------------------------------------------------------------------
(* The workspace's scripts: which programs they run. *)

Runs(script) == Workspace!Commands[script]

(* What the n-th command of a script comes to, under a plan of the others.  *)
PartOf(g, script, n) == IF Runs(script)[n].run \in Workspace!Scripts
                        THEN g[Runs(script)[n].run] ELSE <<Runs(script)[n].run>>
PlanOf(g, script) == Workspace!FlattenSeq([n \in DOMAIN Runs(script) |-> PartOf(g, script, n)])

Part(script, n) == PartOf(Workspace!Plan, script, n)

(* What a script has done before its k-th command. *)
Before(script, k) == Workspace!FlattenSeq([n \in 1 .. k - 1 |-> Part(script, n)])

LEMMA ScriptNames == Workspace!Scripts = {"bootstrap", "build", "typecheck", "lint", "format", "release",
                                          "update", "clean", "nuke"}
  BY DEF Workspace!Scripts, Workspace!Commands

(* The members of a short list. *)
Listed(s, members) == DOMAIN s = 1 .. Len(s) /\ Len(s) \in Nat \ {0} /\ \A n \in DOMAIN s : s[n] \in members

LEMMA ListOfOne == \A a : Listed(<<a>>, {a})
  BY DEF Listed

LEMMA ListOfTwo == \A a, b : Listed(<<a, b>>, {a, b})
  BY DEF Listed

LEMMA ListOfThree == \A a, b, c : Listed(<<a, b, c>>, {a, b, c})
  BY DEF Listed

LEMMA ListOfFour == \A a, b, c, d : Listed(<<a, b, c, d>>, {a, b, c, d})
  BY DEF Listed

LEMMA ListOfFive == \A a, b, c, d, e : Listed(<<a, b, c, d, e>>, {a, b, c, d, e})
  BY DEF Listed

(* Three scripts call another one, and no call leads back. *)
Calls(script, called) ==
    /\ DOMAIN Runs(script) = 1 .. Len(Runs(script)) /\ Len(Runs(script)) \in Nat \ {0}
    /\ \A n \in DOMAIN Runs(script) :
          Runs(script)[n].run \in Workspace!Scripts => Runs(script)[n].run \in called

LEMMA CommandsOf ==
    /\ \A script \in Workspace!Scripts \ {"build", "typecheck", "release"} : Calls(script, {})
    /\ Calls("build", {"bootstrap"}) /\ Calls("typecheck", {"bootstrap"}) /\ Calls("release", {"build"})
<1>0. \A run, budget : Workspace!Command(run, budget).run = run
  BY DEF Workspace!Command
<1>1. /\ Runs("bootstrap") = Workspace!Bootstrap /\ Runs("build") = Workspace!Build
      /\ Runs("typecheck") = Workspace!Typecheck /\ Runs("lint") = Workspace!Lint
      /\ Runs("format") = Workspace!Format /\ Runs("release") = Workspace!Release
      /\ Runs("update") = Workspace!UpdateStorm /\ Runs("clean") = Workspace!Clean
      /\ Runs("nuke") = Workspace!Nuke
  BY DEF Runs, Workspace!Commands
<1>2. Calls("bootstrap", {})
  <2> DEFINE members == {Workspace!Command("nx sync", 2)}
             names == {"nx sync"}
  <2>1. Runs("bootstrap") = <<Workspace!Command("nx sync", 2)>>
    BY <1>1 DEF Workspace!Bootstrap
  <2>2. Listed(Runs("bootstrap"), members)
    BY <2>1, ListOfOne, Zenon
  <2>3. \A command \in members : command.run \in names
    BY <1>0
  <2>4. names \cap Workspace!Scripts \subseteq {}
    BY ScriptNames
  <2> HIDE DEF members, names
  <2> QED BY <2>2, <2>3, <2>4 DEF Listed, Calls
<1>3. Calls("build", {"bootstrap"})
  <2> DEFINE members == {Workspace!Command("bootstrap", 1), Workspace!Command("nx build", 45)}
             names == {"bootstrap", "nx build"}
  <2>1. Runs("build") = <<Workspace!Command("bootstrap", 1), Workspace!Command("nx build", 45)>>
    BY <1>1 DEF Workspace!Build
  <2>2. Listed(Runs("build"), members)
    BY <2>1, ListOfTwo, Zenon
  <2>3. \A command \in members : command.run \in names
    BY <1>0
  <2>4. names \cap Workspace!Scripts \subseteq {"bootstrap"}
    BY ScriptNames
  <2> HIDE DEF members, names
  <2> QED BY <2>2, <2>3, <2>4 DEF Listed, Calls
<1>4. Calls("typecheck", {"bootstrap"})
  <2> DEFINE members == {Workspace!Command("bootstrap", 1), Workspace!Command("nx typecheck", 10)}
             names == {"bootstrap", "nx typecheck"}
  <2>1. Runs("typecheck") = <<Workspace!Command("bootstrap", 1),
                              Workspace!Command("nx typecheck", 10)>>
    BY <1>1 DEF Workspace!Typecheck
  <2>2. Listed(Runs("typecheck"), members)
    BY <2>1, ListOfTwo, Zenon
  <2>3. \A command \in members : command.run \in names
    BY <1>0
  <2>4. names \cap Workspace!Scripts \subseteq {"bootstrap"}
    BY ScriptNames
  <2> HIDE DEF members, names
  <2> QED BY <2>2, <2>3, <2>4 DEF Listed, Calls
<1>5. Calls("lint", {})
  <2> DEFINE members == {Workspace!Command("eslint", 30), Workspace!Command("nx lint", 30),
                        Workspace!Command("storm-lint", 30)}
             names == {"eslint", "nx lint", "storm-lint"}
  <2>1. Runs("lint") = <<Workspace!Command("eslint", 30), Workspace!Command("nx lint", 30),
                         Workspace!Command("storm-lint", 30)>>
    BY <1>1 DEF Workspace!Lint
  <2>2. Listed(Runs("lint"), members)
    BY <2>1, ListOfThree, Zenon
  <2>3. \A command \in members : command.run \in names
    BY <1>0
  <2>4. names \cap Workspace!Scripts \subseteq {}
    BY ScriptNames
  <2> HIDE DEF members, names
  <2> QED BY <2>2, <2>3, <2>4 DEF Listed, Calls
<1>6. Calls("format", {})
  <2> DEFINE members == {Workspace!Command("storm-git readme", 30),
                        Workspace!Command("nx format", 30), Workspace!Command("nx format:write", 30)}
             names == {"storm-git readme", "nx format", "nx format:write"}
  <2>1. Runs("format") = <<Workspace!Command("storm-git readme", 30),
                           Workspace!Command("nx format", 30),
                           Workspace!Command("nx format:write", 30)>>
    BY <1>1 DEF Workspace!Format
  <2>2. Listed(Runs("format"), members)
    BY <2>1, ListOfThree, Zenon
  <2>3. \A command \in members : command.run \in names
    BY <1>0
  <2>4. names \cap Workspace!Scripts \subseteq {}
    BY ScriptNames
  <2> HIDE DEF members, names
  <2> QED BY <2>2, <2>3, <2>4 DEF Listed, Calls
<1>7. Calls("release", {"build"})
  <2> DEFINE members == {Workspace!Command("build", 30), Workspace!Command("storm-git release", 30)}
             names == {"build", "storm-git release"}
  <2>1. Runs("release") = <<Workspace!Command("build", 30),
                            Workspace!Command("storm-git release", 30)>>
    BY <1>1 DEF Workspace!Release
  <2>2. Listed(Runs("release"), members)
    BY <2>1, ListOfTwo, Zenon
  <2>3. \A command \in members : command.run \in names
    BY <1>0
  <2>4. names \cap Workspace!Scripts \subseteq {"build"}
    BY ScriptNames
  <2> HIDE DEF members, names
  <2> QED BY <2>2, <2>3, <2>4 DEF Listed, Calls
<1>8. Calls("update", {})
  <2> DEFINE members == {Workspace!Command("storm-pnpm update", 30),
                        Workspace!Command("pnpm dedupe", 30), Workspace!Command("pnpm update", 30),
                        Workspace!Command("storm-git prepare", 8)}
             names == {"storm-pnpm update", "pnpm dedupe", "pnpm update", "storm-git prepare"}
  <2>1. Runs("update") = <<Workspace!Command("storm-pnpm update", 30),
                           Workspace!Command("pnpm dedupe", 30),
                           Workspace!Command("pnpm update", 30),
                           Workspace!Command("storm-git prepare", 8)>>
    BY <1>1 DEF Workspace!UpdateStorm
  <2>2. Listed(Runs("update"), members)
    BY <2>1, ListOfFour, Zenon
  <2>3. \A command \in members : command.run \in names
    BY <1>0
  <2>4. names \cap Workspace!Scripts \subseteq {}
    BY ScriptNames
  <2> HIDE DEF members, names
  <2> QED BY <2>2, <2>3, <2>4 DEF Listed, Calls
<1>9. Calls("clean", {})
  <2> DEFINE members == {Workspace!Command("nx clear-cache", 5), Workspace!Command("rm cache", 5),
                        Workspace!Command("rm dist", 5)}
             names == {"nx clear-cache", "rm cache", "rm dist"}
  <2>1. Runs("clean") = <<Workspace!Command("nx clear-cache", 5), Workspace!Command("rm cache", 5),
                          Workspace!Command("rm dist", 5)>>
    BY <1>1 DEF Workspace!Clean
  <2>2. Listed(Runs("clean"), members)
    BY <2>1, ListOfThree, Zenon
  <2>3. \A command \in members : command.run \in names
    BY <1>0
  <2>4. names \cap Workspace!Scripts \subseteq {}
    BY ScriptNames
  <2> HIDE DEF members, names
  <2> QED BY <2>2, <2>3, <2>4 DEF Listed, Calls
<1>10. Calls("nuke", {})
  <2> DEFINE members == {Workspace!Command("nx clear-cache", 5), Workspace!Command("rm cache", 5),
                        Workspace!Command("rm packages", 5), Workspace!Command("rm tools", 5),
                        Workspace!Command("rm node_modules", 5)}
             names == {"nx clear-cache", "rm cache", "rm packages", "rm tools", "rm node_modules"}
  <2>1. Runs("nuke") = <<Workspace!Command("nx clear-cache", 5), Workspace!Command("rm cache", 5),
                         Workspace!Command("rm packages", 5), Workspace!Command("rm tools", 5),
                         Workspace!Command("rm node_modules", 5)>>
    BY <1>1 DEF Workspace!Nuke
  <2>2. Listed(Runs("nuke"), members)
    BY <2>1, ListOfFive, Zenon
  <2>3. \A command \in members : command.run \in names
    <3>1. /\ Workspace!Command("nx clear-cache", 5).run = "nx clear-cache"
          /\ Workspace!Command("rm cache", 5).run = "rm cache"
          /\ Workspace!Command("rm packages", 5).run = "rm packages"
          /\ Workspace!Command("rm tools", 5).run = "rm tools"
          /\ Workspace!Command("rm node_modules", 5).run = "rm node_modules"
      BY <1>0
    <3> QED BY <3>1
  <2>4. names \cap Workspace!Scripts \subseteq {}
    BY ScriptNames
  <2> HIDE DEF members, names
  <2> QED BY <2>2, <2>3, <2>4 DEF Listed, Calls
<1> QED BY <1>2, <1>3, <1>4, <1>5, <1>6, <1>7, <1>8, <1>9, <1>10, ScriptNames

LEMMA PlanAgrees ==
    ASSUME NEW script, NEW g, NEW h, NEW called, Calls(script, called), \A c \in called : g[c] = h[c]
    PROVE  PlanOf(g, script) = PlanOf(h, script)
<1>1. \A n \in DOMAIN Runs(script) : PartOf(g, script, n) = PartOf(h, script, n)
  BY DEF Calls, PartOf
<1>2. [n \in DOMAIN Runs(script) |-> PartOf(g, script, n)]
      = [n \in DOMAIN Runs(script) |-> PartOf(h, script, n)]
  BY <1>1
<1> QED BY <1>2 DEF PlanOf

(* The recursion ends: after three rounds the plans repeat. *)
LEMMA PlanIs == Workspace!Plan = [script \in Workspace!Scripts |-> PlanOf(Workspace!Plan, script)]
<1> DEFINE Again(g) == [script \in Workspace!Scripts |-> PlanOf(g, script)]
           one == Again([script \in Workspace!Scripts |-> << >>])
           two == Again(one)
           three == Again(two)
           simple == Workspace!Scripts \ {"build", "typecheck", "release"}
<1>1. ASSUME NEW g, NEW h, NEW script \in simple PROVE Again(g)[script] = Again(h)[script]
  <2>1. PlanOf(g, script) = PlanOf(h, script)
    BY CommandsOf, PlanAgrees
  <2> QED BY <2>1
<1>2. ASSUME NEW g, NEW h, NEW script \in {"build", "typecheck"}, g["bootstrap"] = h["bootstrap"]
      PROVE  Again(g)[script] = Again(h)[script]
  <2>1. PlanOf(g, script) = PlanOf(h, script)
    BY <1>2, CommandsOf, PlanAgrees
  <2> QED BY <2>1, ScriptNames
<1>3. ASSUME NEW g, NEW h, g["build"] = h["build"]
      PROVE  Again(g)["release"] = Again(h)["release"]
  <2>1. PlanOf(g, "release") = PlanOf(h, "release")
    BY <1>3, CommandsOf, PlanAgrees
  <2> QED BY <2>1, ScriptNames
<1>4. "bootstrap" \in simple
  BY ScriptNames
<1> DEFINE four == Again(three)
<1>5. three = [script \in Workspace!Scripts |-> three[script]]
      /\ four = [script \in Workspace!Scripts |-> four[script]]
  OBVIOUS
<1> HIDE DEF Again, simple
<1>6. /\ two["bootstrap"] = one["bootstrap"] /\ three["bootstrap"] = two["bootstrap"]
      /\ \A script \in simple : four[script] = three[script]
  BY <1>1, <1>4
<1>7. /\ three["build"] = two["build"] /\ four["build"] = three["build"]
      /\ four["typecheck"] = three["typecheck"]
  BY <1>2, <1>6
<1>8. four["release"] = three["release"]
  BY <1>3, <1>7
<1>9. four = three
  <2>1. \A script \in Workspace!Scripts : four[script] = three[script]
    BY <1>6, <1>7, <1>8 DEF simple
  <2> HIDE DEF three, four
  <2> QED BY <1>5, <2>1
<1>10. three = [script \in Workspace!Scripts |-> PlanOf(three, script)]
  <2> HIDE DEF three
  <2> QED BY <1>9 DEF Again
<1> DEFINE chosen == CHOOSE g : g = [script \in Workspace!Scripts |-> PlanOf(g, script)]
<1>11. chosen = [script \in Workspace!Scripts |-> PlanOf(chosen, script)]
  <2> HIDE DEF three
  <2> QED BY <1>10
<1>12. Workspace!Plan = chosen
  BY DEF Workspace!Plan, PlanOf, PartOf, Runs
<1> QED BY <1>11, <1>12

Words == UNION {{Runs(script)[n].run : n \in DOMAIN Runs(script)} : script \in Workspace!Scripts}

LEMMA ListsOfCommands ==
    ASSUME NEW script \in Workspace!Scripts
    PROVE  DOMAIN Runs(script) = 1 .. Len(Runs(script)) /\ Len(Runs(script)) \in Nat \ {0}
  BY CommandsOf, ScriptNames DEF Calls

LEMMA PlanFrom ==
    ASSUME NEW script \in Workspace!Scripts, NEW called, Calls(script, called),
           \A c \in called : Workspace!Plan[c] \in Seq(Words)
    PROVE  Workspace!Plan[script] \in Seq(Words)
<1> DEFINE parts == [n \in DOMAIN Runs(script) |-> Part(script, n)]
<1>1. ASSUME NEW n \in DOMAIN Runs(script) PROVE Part(script, n) \in Seq(Words)
  <2>1. Runs(script)[n].run \in Words
    BY DEF Words
  <2> QED BY <2>1 DEF Part, PartOf, Calls
<1>2. parts \in Seq(Seq(Words))
  BY <1>1, ListsOfCommands
<1>3. Workspace!Plan[script] = Workspace!FlattenSeq(parts)
  BY PlanIs DEF PlanOf, Part
<1> HIDE DEF parts
<1> QED BY <1>2, <1>3, FlattenType

LEMMA PlanType ==
    ASSUME NEW script \in Workspace!Scripts
    PROVE  Workspace!Plan[script] \in Seq(Words)
<1>1. ASSUME NEW s \in Workspace!Scripts \ {"build", "typecheck", "release"}
      PROVE  Workspace!Plan[s] \in Seq(Words)
  BY CommandsOf, PlanFrom
<1>2. Workspace!Plan["bootstrap"] \in Seq(Words)
  BY <1>1, ScriptNames
<1>3. ASSUME NEW s \in {"build", "typecheck"}
      PROVE  Workspace!Plan[s] \in Seq(Words)
  <2>1. s \in Workspace!Scripts /\ Calls(s, {"bootstrap"})
    BY CommandsOf, ScriptNames
  <2> QED BY <1>2, <2>1, PlanFrom
<1>4. Workspace!Plan["release"] \in Seq(Words)
  <2>1. "release" \in Workspace!Scripts /\ Calls("release", {"build"})
    BY CommandsOf, ScriptNames
  <2> QED BY <1>3, <2>1, PlanFrom
<1> QED BY <1>1, <1>3, <1>4

LEMMA PartType ==
    ASSUME NEW script \in Workspace!Scripts, NEW n \in DOMAIN Runs(script)
    PROVE  Part(script, n) \in Seq(Words)
<1>1. Runs(script)[n].run \in Words
  BY DEF Words
<1> QED BY <1>1, PlanType DEF Part, PartOf

(* One command after the other makes the plan. *)
LEMMA BeforeIs ==
    ASSUME NEW script \in Workspace!Scripts
    PROVE  /\ Before(script, 1) = << >>
           /\ \A k \in DOMAIN Runs(script) : /\ Before(script, k) \in Seq(Words)
                                             /\ Before(script, k + 1) = Before(script, k) \o Part(script, k)
           /\ Before(script, Len(Runs(script)) + 1) = Workspace!Plan[script]
<1> DEFINE parts(k) == [n \in 1 .. k - 1 |-> Part(script, n)]
<1>1. Before(script, 1) = << >>
  <2>1. parts(1) = << >>
    OBVIOUS
  <2> QED BY <2>1, FlattenEmpty DEF Before
<1>2. ASSUME NEW k \in DOMAIN Runs(script)
      PROVE  /\ Before(script, k) \in Seq(Words)
             /\ Before(script, k + 1) = Before(script, k) \o Part(script, k)
  <2>1. k \in Nat /\ \A n \in 1 .. k : n \in DOMAIN Runs(script)
    BY ListsOfCommands
  <2>2. \A n \in 1 .. k : Part(script, n) \in Seq(Words)
    BY <2>1, PartType
  <2>3. parts(k) \in Seq(Seq(Words))
    BY <2>1, <2>2
  <2>4. parts(k + 1) = Append(parts(k), Part(script, k))
    <3> DEFINE more == Append(parts(k), Part(script, k))
    <3>1. /\ more = [n \in 1 .. k |-> more[n]]
          /\ \A n \in 1 .. k : more[n] = IF n = k THEN Part(script, k) ELSE parts(k)[n]
      BY <2>1, <2>3
    <3>2. (k + 1) - 1 = k
      BY <2>1
    <3>3. \A n \in 1 .. k : n # k => parts(k)[n] = Part(script, n)
      BY <2>1
    <3>4. parts(k + 1) = [n \in 1 .. k |-> Part(script, n)]
      BY <3>2
    <3> HIDE DEF more, parts
    <3> QED BY <3>1, <3>3, <3>4 DEF more
  <2>5. k \in 1 .. k
    BY <2>1, ListsOfCommands
  <2> HIDE DEF parts
  <2>6. Workspace!FlattenSeq(parts(k)) \in Seq(Words)
    BY <2>3, FlattenType
  <2>7. Workspace!FlattenSeq(parts(k + 1)) = Workspace!FlattenSeq(parts(k)) \o Part(script, k)
    BY <2>2, <2>3, <2>4, <2>5, FlattenAppend
  <2> QED BY <2>6, <2>7 DEF parts, Before
<1>3. Before(script, Len(Runs(script)) + 1) = Workspace!Plan[script]
  <2> DEFINE last == Len(Runs(script))
  <2>1. DOMAIN Runs(script) = 1 .. (last + 1) - 1
    BY ListsOfCommands
  <2> HIDE DEF last
  <2>2. Workspace!Plan[script] = Workspace!FlattenSeq([n \in DOMAIN Runs(script) |-> Part(script, n)])
    BY PlanIs DEF PlanOf, Part
  <2>3. Before(script, last + 1) = Workspace!Plan[script]
    BY <2>1, <2>2 DEF Before
  <2> QED BY <2>3 DEF last
<1> QED BY <1>1, <1>2, <1>3

-----------------------------------------------------------------------------
(* The scripts that are under way: each runs the one above it, and what has *)
(* been done is what all of them had done before they called.               *)
Frames == {f \in [script : Workspace!Scripts \ {"clean", "nuke"}, step : Nat \ {0}, since : Int] :
              f.step <= Len(Runs(f.script))}

Running(frame) == Runs(frame.script)[frame.step].run

Linked(frames) ==
    /\ frames \in Seq(Frames)
    /\ frames # << >> => frames[1].script = invoked
    /\ \A n \in 1 .. Len(frames) - 1 : Running(frames[n]) = frames[n + 1].script

Past(frames) == Workspace!FlattenSeq([n \in DOMAIN frames |-> Before(frames[n].script, frames[n].step)])

(* What ended last: a program, a script in the place of a command, or all.  *)
Latest ==
    IF exitCode = None THEN << >>
    ELSE IF stack = << >> THEN Workspace!Plan[invoked]
    ELSE Part(stack[Len(stack)].script, stack[Len(stack)].step)

(* A failure is handed on until nothing runs. *)
ScriptInv ==
    /\ invoked \in Workspace!Scripts /\ minute \in Int /\ exitCode \in {None, 0, 1}
    /\ invoked \notin {"clean", "nuke"} =>
          /\ Linked(stack)
          /\ exitCode = None => stack # << >>
          /\ exitCode # 1 => finished = Past(stack) \o Latest

LEMMA PastIs ==
    ASSUME NEW frames \in Seq(Frames)
    PROVE  /\ Past(<< >>) = << >>
           /\ Past(frames) \in Seq(Words)
           /\ \A f \in Frames : Past(Append(frames, f)) = Past(frames) \o Before(f.script, f.step)
<1> DEFINE parts(fs) == [n \in DOMAIN fs |-> Before(fs[n].script, fs[n].step)]
<1>1. ASSUME NEW f \in Frames PROVE Before(f.script, f.step) \in Seq(Words)
  <2>1. f.script \in Workspace!Scripts /\ f.step \in DOMAIN Runs(f.script)
    BY ListsOfCommands DEF Frames
  <2> QED BY <2>1, BeforeIs
<1>2. Past(<< >>) = << >>
  <2>1. parts(<< >>) = << >>
    OBVIOUS
  <2> QED BY <2>1, FlattenEmpty DEF Past
<1>3. parts(frames) \in Seq(Seq(Words)) /\ Len(parts(frames)) = Len(frames) /\ Len(frames) \in Nat
  <2>1. Len(frames) \in Nat /\ DOMAIN frames = 1 .. Len(frames) /\ \A n \in DOMAIN frames : frames[n] \in Frames
    OBVIOUS
  <2>2. \A n \in 1 .. Len(frames) : Before(frames[n].script, frames[n].step) \in Seq(Words)
    BY <1>1, <2>1
  <2> QED BY <2>1, <2>2
<1>4. Past(frames) \in Seq(Words)
  <2> HIDE DEF parts
  <2>1. Workspace!FlattenSeq(parts(frames)) \in Seq(Words)
    BY <1>3, FlattenType
  <2> QED BY <2>1 DEF Past, parts
<1>5. ASSUME NEW f \in Frames
      PROVE  Past(Append(frames, f)) = Past(frames) \o Before(f.script, f.step)
  <2> DEFINE more == Append(frames, f)
             added == Append(parts(frames), Before(f.script, f.step))
             k == Len(frames)
  <2>1. /\ DOMAIN more = 1 .. k + 1
        /\ \A n \in 1 .. k + 1 : more[n] = IF n = k + 1 THEN f ELSE frames[n]
    BY <1>3
  <2>2. /\ added = [n \in 1 .. k + 1 |-> added[n]]
        /\ \A n \in 1 .. k + 1 : added[n] = IF n = k + 1 THEN Before(f.script, f.step) ELSE parts(frames)[n]
    <3> HIDE DEF parts
    <3> QED BY <1>1, <1>3
  <2>3. \A n \in 1 .. k + 1 : n # k + 1 => parts(frames)[n] = Before(frames[n].script, frames[n].step)
    BY <1>3
  <2>4. parts(more) = [n \in 1 .. k + 1 |-> Before(more[n].script, more[n].step)]
    BY <2>1
  <2>5. \A n \in 1 .. k + 1 : added[n] = Before(more[n].script, more[n].step)
    <3> HIDE DEF more, added, parts, k
    <3> QED BY <2>1, <2>2, <2>3
  <2>6. added = parts(more)
    <3> HIDE DEF more, added, parts, k
    <3> QED BY <2>2, <2>4, <2>5
  <2>7. Workspace!FlattenSeq(added) = Workspace!FlattenSeq(parts(frames)) \o Before(f.script, f.step)
    <3> HIDE DEF parts
    <3> QED BY <1>1, <1>3, FlattenAppend
  <2> HIDE DEF added
  <2> QED BY <2>6, <2>7 DEF Past
<1> QED BY <1>2, <1>4, <1>5

LEMMA TopFrame ==
    ASSUME NEW frames \in Seq(Frames), frames # << >>
    PROVE  LET top == frames[Len(frames)]
               under == SubSeq(frames, 1, Len(frames) - 1)
           IN  /\ top \in Frames /\ under \in Seq(Frames) /\ Len(under) = Len(frames) - 1
               /\ frames = Append(under, top)
               /\ top.script \in Workspace!Scripts \ {"clean", "nuke"}
               /\ top.step \in DOMAIN Runs(top.script)
<1> DEFINE top == frames[Len(frames)]
           under == SubSeq(frames, 1, Len(frames) - 1)
<1>1. Len(frames) \in Nat \ {0} /\ top \in Frames
  OBVIOUS
<1>2. under \in Seq(Frames) /\ Len(under) = Len(frames) - 1
  <2> DEFINE k == Len(frames) - 1
  <2>1. k \in 0 .. Len(frames)
    BY <1>1
  <2> HIDE DEF k
  <2>2. SubSeq(frames, 1, k) \in Seq(Frames) /\ Len(SubSeq(frames, 1, k)) = k
    BY <1>1, <2>1
  <2> QED BY <2>2 DEF k
<1>3. frames = Append(under, top)
  <2> DEFINE k == Len(frames)
  <2>1. /\ Append(under, top) \in Seq(Frames) /\ Len(Append(under, top)) = k
        /\ \A n \in 1 .. k : Append(under, top)[n] = IF n = k THEN top ELSE under[n]
    <3> HIDE DEF top, under
    <3> QED BY <1>1, <1>2
  <2>2. \A n \in 1 .. k : n # k => under[n] = frames[n]
    BY <1>1
  <2> HIDE DEF under
  <2> QED BY <1>1, <2>1, <2>2, SeqEqual
<1>4. top.script \in Workspace!Scripts \ {"clean", "nuke"} /\ top.step \in DOMAIN Runs(top.script)
  <2> HIDE DEF top
  <2> QED BY <1>1, ListsOfCommands DEF Frames
<1> HIDE DEF top, under
<1> QED BY <1>1, <1>2, <1>3, <1>4 DEF top, under

LEMMA LinkedPrefix ==
    ASSUME NEW frames, Linked(frames), NEW k \in 0 .. Len(frames)
    PROVE  Linked(SubSeq(frames, 1, k))
<1> DEFINE under == SubSeq(frames, 1, k)
<1>1. frames \in Seq(Frames) /\ Len(frames) \in Nat
  BY DEF Linked
<1>2. under \in Seq(Frames) /\ Len(under) = k /\ \A n \in 1 .. k : under[n] = frames[n]
  BY <1>1
<1>3. under # << >> => under[1] = frames[1] /\ frames # << >>
  BY <1>1, <1>2
<1>4. \A n \in 1 .. k - 1 : under[n] = frames[n] /\ under[n + 1] = frames[n + 1] /\ n \in 1 .. Len(frames) - 1
  BY <1>1, <1>2
<1> HIDE DEF under
<1>5. Linked(under)
  BY <1>2, <1>3, <1>4 DEF Linked
<1> QED BY <1>5 DEF under

LEMMA LinkedAppend ==
    ASSUME NEW frames, Linked(frames), NEW f \in Frames,
           frames = << >> => f.script = invoked,
           frames # << >> => Running(frames[Len(frames)]) = f.script
    PROVE  Linked(Append(frames, f))
<1> DEFINE more == Append(frames, f)
<1>1. frames \in Seq(Frames) /\ Len(frames) \in Nat /\ (frames = << >> <=> Len(frames) = 0)
  BY DEF Linked
<1>2. /\ more \in Seq(Frames) /\ Len(more) = Len(frames) + 1
      /\ \A n \in 1 .. Len(frames) : more[n] = frames[n]
      /\ more[Len(frames) + 1] = f
  BY <1>1
<1> HIDE DEF more
<1>3. more[1].script = invoked
  BY <1>1, <1>2 DEF Linked
<1>4. ASSUME NEW n \in 1 .. Len(frames) PROVE Running(more[n]) = more[n + 1].script
  <2>1. CASE n = Len(frames)
    <3>1. frames # << >> /\ more[n] = frames[Len(frames)] /\ more[n + 1] = f
      BY <1>1, <1>2, <2>1
    <3> QED BY <3>1
  <2>2. CASE n # Len(frames)
    <3>1. n \in 1 .. Len(frames) - 1 /\ more[n] = frames[n] /\ more[n + 1] = frames[n + 1]
      BY <1>1, <1>2, <2>2
    <3> QED BY <3>1 DEF Linked
  <2> QED BY <2>1, <2>2
<1>5. Linked(more)
  BY <1>1, <1>2, <1>3, <1>4 DEF Linked
<1> QED BY <1>5 DEF more

LEMMA ScriptsNone == None \notin Int
  BY WorkspaceAssumption DEF Workspace!ScriptsAssumption

LEMMA CurrentIs ==
    /\ \A frame : Workspace!Current(frame).run = Running(frame)
    /\ Workspace!Top = stack[Len(stack)]
    /\ Workspace!Front(stack) = SubSeq(stack, 1, Len(stack) - 1)
  BY DEF Workspace!Current, Running, Runs, Workspace!Top, Workspace!Front

(* Of a frame: what it comes to, and that no script calls those that clean. *)
LEMMA RunningOf ==
    ASSUME NEW f \in Frames
    PROVE  /\ Running(f) \in Workspace!Scripts =>
                 /\ Running(f) \notin {"clean", "nuke"}
                 /\ Part(f.script, f.step) = Workspace!Plan[Running(f)]
           /\ Running(f) \notin Workspace!Scripts => Part(f.script, f.step) = <<Running(f)>>
<1>1. f.script \in Workspace!Scripts /\ f.step \in DOMAIN Runs(f.script)
  BY ListsOfCommands DEF Frames
<1>2. Running(f) \in Workspace!Scripts => Running(f) \in {"bootstrap", "build"}
  BY <1>1, CommandsOf, ScriptNames DEF Running, Calls
<1> QED BY <1>2 DEF Part, PartOf, Running

LEMMA ScriptInvInit == Workspace!Init => ScriptInv
<1> SUFFICES ASSUME Workspace!Init PROVE ScriptInv
  OBVIOUS
<1>1. /\ invoked \in Workspace!Scripts /\ stack = <<[script |-> invoked, step |-> 1, since |-> 0]>>
      /\ exitCode = None /\ finished = << >> /\ minute = 0
  BY DEF Workspace!Init
<1>2. ASSUME invoked \notin {"clean", "nuke"}
      PROVE  Linked(stack) /\ stack # << >> /\ finished = Past(stack) \o Latest
  <2> DEFINE f == [script |-> invoked, step |-> 1, since |-> 0]
  <2>1. f \in Frames /\ f.script = invoked /\ f.step = 1
    BY <1>1, <1>2, ListsOfCommands DEF Frames
  <2>2. << >> \in Seq(Frames) /\ Linked(<< >>)
    BY DEF Linked
  <2>3. stack = Append(<< >>, f)
    BY <1>1
  <2> HIDE DEF f
  <2>4. Linked(stack)
    BY <2>1, <2>2, <2>3, LinkedAppend
  <2>5. Past(stack) = << >> \o << >>
    BY <1>1, <2>1, <2>2, <2>3, PastIs, BeforeIs
  <2> QED BY <1>1, <2>4, <2>5 DEF Latest
<1>3. minute \in Int /\ exitCode \in {None, 0, 1}
  BY <1>1
<1> QED BY <1>1, <1>2, <1>3 DEF ScriptInv

(* A script that is called starts with nothing done. *)
LEMMA CallStep ==
    ASSUME ScriptInv, Workspace!Call
    PROVE  ScriptInv'
<1> DEFINE top == stack[Len(stack)]
           f == [script |-> Running(top), step |-> 1, since |-> minute]
<1>1. /\ stack # << >> /\ exitCode = None /\ Running(top) \in Workspace!Scripts
      /\ stack' = Append(stack, f) /\ UNCHANGED <<invoked, exitCode, finished, minute>>
  BY CurrentIs DEF Workspace!Call
<1> SUFFICES ASSUME invoked \notin {"clean", "nuke"}
             PROVE  Linked(stack)' /\ stack' # << >> /\ finished = Past(stack') \o << >>
  BY <1>1, ScriptsNone DEF ScriptInv, Latest
<1>2. Linked(stack) /\ stack \in Seq(Frames) /\ top \in Frames
  BY <1>1, TopFrame DEF ScriptInv, Linked
<1>3. f \in Frames /\ f.script = Running(top) /\ f.step = 1
  <2>1. Running(top) \in Workspace!Scripts \ {"clean", "nuke"}
    BY <1>1, <1>2, RunningOf
  <2> HIDE DEF top
  <2> QED BY <1>1, <2>1, ListsOfCommands DEF ScriptInv, Frames
<1> HIDE DEF f
<1>4. Linked(stack')
  BY <1>1, <1>2, <1>3, LinkedAppend
<1>5. Linked(stack)' /\ stack' # << >>
  BY <1>1, <1>2, <1>4 DEF Linked
<1>6. Past(stack') = Past(stack) \o << >> /\ Past(stack) \in Seq(Words)
  <2>1. Before(f.script, f.step) = << >>
    BY <1>1, <1>3, BeforeIs
  <2>2. Past(Append(stack, f)) = Past(stack) \o Before(f.script, f.step) /\ Past(stack) \in Seq(Words)
    BY <1>2, <1>3, PastIs
  <2> HIDE DEF top
  <2> QED BY <1>1, <2>1, <2>2
<1>7. finished = Past(stack) \o << >>
  BY <1>1, ScriptsNone DEF ScriptInv, Latest
<1> QED BY <1>5, <1>6, <1>7

LEMMA ExitsStep ==
    ASSUME ScriptInv, Workspace!Exits
    PROVE  ScriptInv'
<1> DEFINE top == stack[Len(stack)]
<1>1. /\ stack # << >> /\ exitCode = None /\ Running(top) \notin Workspace!Scripts
      /\ exitCode' \in {0, 1} /\ UNCHANGED <<invoked, stack, minute>>
      /\ exitCode' = 0 => finished' = Append(finished, Running(top))
  BY CurrentIs DEF Workspace!Exits
<1> SUFFICES ASSUME invoked \notin {"clean", "nuke"}, exitCode' = 0
             PROVE  finished' = Past(stack) \o Part(top.script, top.step)
  BY <1>1, ScriptsNone DEF ScriptInv, Latest, Linked
<1>2. stack \in Seq(Frames) /\ top \in Frames
  BY <1>1, TopFrame DEF ScriptInv, Linked
<1>3. Part(top.script, top.step) = <<Running(top)>>
  BY <1>1, <1>2, RunningOf
<1>4. Past(stack) \in Seq(Words) /\ finished = Past(stack) \o << >>
  BY <1>1, <1>2, PastIs, ScriptsNone DEF ScriptInv, Latest
<1>5. Running(top) \in Words
  <2> HIDE DEF top
  <2> QED BY <1>2, ListsOfCommands DEF Words, Running, Frames
<1> HIDE DEF top
<1>6. Append(Past(stack) \o << >>, Running(top)) = Past(stack) \o <<Running(top)>>
  BY <1>4, <1>5
<1> QED BY <1>1, <1>3, <1>4, <1>6

LEMMA ContinueStep ==
    ASSUME ScriptInv, Workspace!Continue
    PROVE  ScriptInv'
<1> DEFINE top == stack[Len(stack)]
           under == SubSeq(stack, 1, Len(stack) - 1)
           next == [top EXCEPT !.step = @ + 1, !.since = minute]
<1>1. /\ stack # << >> /\ exitCode = 0 /\ UNCHANGED <<invoked, finished, minute>>
  BY DEF Workspace!Continue
<1>2. \/ /\ top.step < Len(Runs(top.script)) /\ exitCode' = None
         /\ stack' = Append(under, next)
      \/ ~(top.step < Len(Runs(top.script))) /\ stack' = under /\ exitCode' = 0
  <2>1. /\ Workspace!Top = top /\ Workspace!Front(stack) = under
        /\ Workspace!Commands[top.script] = Runs(top.script)
    BY CurrentIs DEF Runs
  <2>2. CASE Workspace!Top.step < Len(Workspace!Commands[Workspace!Top.script])
    <3> HIDE DEF top, under
    <3> QED BY <2>1, <2>2 DEF Workspace!Continue
  <2>3. CASE ~(Workspace!Top.step < Len(Workspace!Commands[Workspace!Top.script]))
    <3> HIDE DEF top, under
    <3> QED BY <2>1, <2>3 DEF Workspace!Continue
  <2> QED BY <2>2, <2>3
<1> SUFFICES ASSUME invoked \notin {"clean", "nuke"}
             PROVE  /\ Linked(stack') /\ (exitCode' = None => stack' # << >>)
                    /\ finished = Past(stack') \o Latest'
  BY <1>1, <1>2, ScriptsNone DEF ScriptInv, Linked
<1>3. /\ Linked(stack) /\ stack \in Seq(Frames) /\ top \in Frames /\ under \in Seq(Frames)
      /\ Len(under) = Len(stack) - 1 /\ stack = Append(under, top)
      /\ top.script \in Workspace!Scripts /\ top.step \in DOMAIN Runs(top.script)
      /\ Len(stack) \in Nat \ {0}
  BY <1>1, TopFrame DEF ScriptInv, Linked
<1>4. Linked(under)
  <2>1. Len(stack) - 1 \in 0 .. Len(stack)
    BY <1>3
  <2> QED BY <1>3, <2>1, LinkedPrefix
<1>11. under # << >> => Running(under[Len(under)]) = top.script
  <2> SUFFICES ASSUME under # << >> PROVE Running(under[Len(under)]) = top.script
    OBVIOUS
  <2> DEFINE n == Len(stack) - 1
  <2>1. n \in 1 .. Len(stack) - 1 /\ n + 1 = Len(stack)
    <3>1. Len(under) # 0
      <4> HIDE DEF under
      <4> QED BY <1>3
    <3> QED BY <1>3, <3>1
  <2>2. under[n] = stack[n] /\ Len(under) = n
    BY <1>3, <2>1
  <2>3. Running(stack[n]) = stack[n + 1].script
    <3> HIDE DEF n
    <3> QED BY <1>3, <2>1 DEF Linked
  <2> HIDE DEF under
  <2> QED BY <2>1, <2>2, <2>3
<1>5. finished = Past(stack) \o Part(top.script, top.step)
  BY <1>1, ScriptsNone DEF ScriptInv, Latest
<1>6. Past(stack) = Past(under) \o Before(top.script, top.step) /\ Past(under) \in Seq(Words)
  <2> HIDE DEF top, under
  <2> QED BY <1>3, PastIs
<1>7. /\ Before(top.script, top.step) \in Seq(Words) /\ Part(top.script, top.step) \in Seq(Words)
      /\ Before(top.script, top.step + 1) = Before(top.script, top.step) \o Part(top.script, top.step)
  BY <1>3, BeforeIs, PartType
<1>8. finished = Past(under) \o Before(top.script, top.step + 1)
  <2> DEFINE a == Past(under)
             b == Before(top.script, top.step)
             c == Part(top.script, top.step)
  <2> HIDE DEF a, b, c
  <2>1. a \in Seq(Words) /\ b \in Seq(Words) /\ c \in Seq(Words)
    BY <1>6, <1>7 DEF a, b, c
  <2>2. (a \o b) \o c = a \o (b \o c)
    BY <2>1, ConcatAssociative
  <2> HIDE DEF top, under
  <2>3. finished = (a \o b) \o c
    BY <1>5, <1>6 DEF a, b, c
  <2>4. b \o c = Before(top.script, top.step + 1)
    BY <1>7 DEF b, c
  <2> QED BY <2>2, <2>3, <2>4 DEF a
<1>9. CASE top.step < Len(Runs(top.script)) /\ exitCode' = None /\ stack' = Append(under, next)
  <2>1. next \in Frames /\ next.script = top.script /\ next.step = top.step + 1
    <3>1. /\ top.script \in Workspace!Scripts \ {"clean", "nuke"} /\ top.step \in Nat \ {0}
          /\ DOMAIN top = {"script", "step", "since"} /\ top.step + 1 <= Len(Runs(top.script))
      <4>1. Len(Runs(top.script)) \in Nat
        BY <1>3, ListsOfCommands
      <4> HIDE DEF top
      <4> QED BY <1>3, <1>9, <4>1 DEF Frames
    <3>2. next = [script |-> top.script, step |-> top.step + 1, since |-> minute]
      <4>1. PICK a, b, c : top = [script |-> a, step |-> b, since |-> c]
        <5> HIDE DEF top
        <5> QED BY <1>3 DEF Frames
      <4>2. top.script = a /\ top.step = b
        <5> HIDE DEF top
        <5> QED BY <4>1
      <4>3. next = [[script |-> a, step |-> b, since |-> c] EXCEPT !.step = @ + 1, !.since = minute]
        <5> HIDE DEF top
        <5> QED BY <4>1
      <4> HIDE DEF top, next
      <4> QED BY <4>2, <4>3
    <3> HIDE DEF top, next
    <3> QED BY <3>1, <3>2 DEF Frames, ScriptInv
  <2>2. stack' = Append(under, next)
    BY <1>9
  <2>3. Linked(stack')
    <3>1. under = << >> => next.script = invoked
      BY <1>3, <2>1 DEF Linked
    <3>2. under # << >> => Running(under[Len(under)]) = next.script
      BY <1>11, <2>1
    <3> HIDE DEF next, under
    <3> QED BY <1>4, <2>1, <2>2, <3>1, <3>2, LinkedAppend
  <2>4. Past(stack') = Past(under) \o Before(top.script, top.step + 1)
    <3> HIDE DEF next, under, top
    <3> QED BY <1>3, <2>1, <2>2, PastIs
  <2>5. stack' # << >> /\ Latest' = << >>
    BY <1>3, <1>9, <2>2 DEF Latest
  <2>6. Past(stack') \o << >> = Past(stack')
    <3>1. Past(stack') \in Seq(Words)
      BY <2>3, PastIs DEF Linked
    <3> QED BY <3>1
  <2> QED BY <1>8, <2>3, <2>4, <2>5, <2>6
<1>10. CASE ~(top.step < Len(Runs(top.script))) /\ stack' = under /\ exitCode' = 0
  <2>1. Before(top.script, top.step + 1) = Workspace!Plan[top.script]
    <3>1. top.step = Len(Runs(top.script))
      <4> HIDE DEF top
      <4> QED BY <1>3, <1>10, ListsOfCommands
    <3> QED BY <1>3, <3>1, BeforeIs
  <2>2. Latest' = Workspace!Plan[top.script]
    <3>1. CASE under = << >>
      <4>1. top.script = invoked
        BY <1>3, <3>1 DEF Linked
      <4> HIDE DEF top, under
      <4> QED BY <1>1, <1>10, <3>1, <4>1, ScriptsNone DEF Latest
    <3>2. CASE under # << >>
      <4> DEFINE caller == under[Len(under)]
      <4>1. caller \in Frames
        BY <1>3, <3>2
      <4>2. Running(caller) = top.script
        BY <1>11, <3>2
      <4>3. Latest' = Part(caller.script, caller.step)
        <5> HIDE DEF top, under
        <5> QED BY <1>1, <1>10, <3>2, ScriptsNone DEF Latest
      <4> HIDE DEF caller, top
      <4> QED BY <1>3, <4>1, <4>2, <4>3, RunningOf
    <3> QED BY <3>1, <3>2
  <2>3. finished = Past(under) \o Workspace!Plan[top.script]
    BY <1>8, <2>1
  <2>4. stack' = under /\ exitCode' # None
    BY <1>10, ScriptsNone
  <2> HIDE DEF top, under
  <2> QED BY <1>4, <2>2, <2>3, <2>4
<1> QED BY <1>2, <1>9, <1>10

LEMMA FailedStep ==
    ASSUME ScriptInv, Workspace!Catch \/ Workspace!BudgetOver \/ Workspace!NoArguments
    PROVE  ScriptInv'
<1>1. CASE Workspace!Catch
  <2>1. /\ stack # << >> /\ exitCode = 1 /\ exitCode' = Workspace!CatchCode(stack[Len(stack)].script)
        /\ stack' = SubSeq(stack, 1, Len(stack) - 1) /\ UNCHANGED <<invoked, finished, minute>>
    BY <1>1, CurrentIs, ScriptsNone DEF Workspace!Catch, ScriptInv
  <2>2. ASSUME invoked \notin {"clean", "nuke"} PROVE exitCode' = 1 /\ Linked(stack')
    <3>1. /\ Linked(stack) /\ stack[Len(stack)].script \notin {"clean", "nuke"}
          /\ Len(stack) - 1 \in 0 .. Len(stack)
      BY <2>1, <2>2, TopFrame DEF ScriptInv, Linked
    <3> QED BY <2>1, <3>1, LinkedPrefix DEF Workspace!CatchCode
  <2>3. exitCode' \in {0, 1}
    BY <2>1 DEF Workspace!CatchCode
  <2> QED BY <2>1, <2>2, <2>3, ScriptsNone DEF ScriptInv, Linked
<1>2. CASE Workspace!BudgetOver
  <2>1. PICK n \in DOMAIN stack : /\ stack' = SubSeq(stack, 1, n) /\ exitCode' = 1
                                  /\ UNCHANGED <<invoked, finished, minute>>
    BY <1>2 DEF Workspace!BudgetOver
  <2>2. ASSUME invoked \notin {"clean", "nuke"} PROVE Linked(stack')
    <3>1. Linked(stack) /\ n \in 0 .. Len(stack)
      BY <2>2 DEF ScriptInv, Linked
    <3> QED BY <2>1, <3>1, LinkedPrefix
  <2> QED BY <2>1, <2>2, ScriptsNone DEF ScriptInv, Linked
<1>3. CASE Workspace!NoArguments
  <2>1. stack' = << >> /\ exitCode' = 1 /\ UNCHANGED <<invoked, finished, minute>>
    BY <1>3 DEF Workspace!NoArguments, Workspace!CatchCode
  <2>2. Linked(stack)'
    BY <2>1 DEF Linked
  <2> QED BY <2>1, <2>2, ScriptsNone DEF ScriptInv
<1> QED BY <1>1, <1>2, <1>3

LEMMA ScriptInvStep == ScriptInv /\ [Workspace!Next]_(scriptVars) => ScriptInv'
<1> SUFFICES ASSUME ScriptInv, [Workspace!Next]_(scriptVars) PROVE ScriptInv'
  OBVIOUS
<1>1. CASE Workspace!Tick \/ UNCHANGED scriptVars
  <2>1. UNCHANGED <<invoked, stack, exitCode, finished>> /\ minute' \in Int
    BY <1>1 DEF Workspace!Tick, scriptVars, ScriptInv
  <2> QED BY <2>1 DEF ScriptInv, Linked, Latest
<1> QED BY <1>1, CallStep, ExitsStep, ContinueStep, FailedStep DEF Workspace!Next

(* A script of the workspace that ends with 0 has run every program of its  *)
(* plan, in order, through the scripts it called (tools/scripts).           *)
THEOREM ScriptsComplete == Workspace!Spec => []SuccessIsComplete
<1>1. ScriptInv => SuccessIsComplete
  <2> SUFFICES ASSUME ScriptInv, stack = << >>, exitCode = 0, invoked \notin {"clean", "nuke"}
               PROVE  finished = Workspace!Plan[invoked]
    BY DEF SuccessIsComplete, Workspace!SuccessIsComplete
  <2>1. finished = << >> \o Workspace!Plan[invoked]
    <3>1. << >> \in Seq(Frames)
      OBVIOUS
    <3> QED BY <3>1, PastIs, ScriptsNone DEF ScriptInv, Latest
  <2>2. Workspace!Plan[invoked] \in Seq(Words)
    BY PlanType DEF ScriptInv
  <2> QED BY <2>1, <2>2
<1>2. [Workspace!Next]_(Workspace!vars) => [Workspace!Next]_(scriptVars)
  BY DEF Workspace!vars, scriptVars
<1> QED BY <1>1, <1>2, ScriptInvInit, ScriptInvStep, PTL DEF Workspace!Spec
=============================================================================
