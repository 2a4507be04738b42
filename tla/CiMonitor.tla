------------------------------- MODULE CiMonitor -------------------------------
(***************************************************************************)
(* The CI monitor (.github/skills/monitor-ci): an agent polls the state of *)
(* a branch's CI attempt, has ci-poll-decide.mjs decide what to do, keeps  *)
(* its counters with ci-state-update.mjs, and acts: it has a fix applied,  *)
(* pushes one, or asks for a rerun, and waits for the next attempt.        *)
(*                                                                         *)
(* Both scripts are stateless: the agent hands their output back to them.  *)
(* The agent's loop (SKILL.md, references/fix-flows.md) is the caller;     *)
(* where it may choose, it chooses anything.  CI, people who push, and     *)
(* garbled answers are the environment.                                    *)
(***************************************************************************)
EXTENDS Integers, Sequences, FiniteSets, FiniteSetsExt

CONSTANTS
    Reports,                \* what CI may report of an attempt
    E2E,                    \* the tasks whose target is an e2e target
    Timeout, NewCipeTimeout,\* --timeout, --new-cipe-timeout in seconds
    LocalAttempts,          \* --local-verify-attempts
    MaxCycles,              \* --max-cycles
    AutoFix,                \* --auto-fix-workflow
    MaxPolls,               \* bound on the polls of a phase, reached only by a fault
    MaxErrors, MaxPushes,   \* bounds on garbled answers and on commits and attempts
    None

ASSUME CiMonitorAssumption ==
    /\ {LocalAttempts, MaxCycles, MaxPolls, MaxErrors} \subseteq Nat /\ MaxPushes \in Nat \ {0}

VARIABLES
    ci,             \* the branch's latest attempt: url, sha, report
    head, due,      \* the last commit pushed; whether an attempt is to start
    m,              \* what the agent tracks
    errors,         \* garbled answers so far
    history         \* actions taken, attempts acted on, equal polls

vars == <<ci, head, due, m, errors, history>>

-----------------------------------------------------------------------------
(* ci-poll-decide.mjs: decides from the tracked state t and the answer i *)

IsNewCipe(t, i) ==
    \/ t.lastUrl # None /\ i.url # t.lastUrl
    \/ t.expectedSha # None /\ i.sha = t.expectedSha

Lower(class) ==
    CASE class = "ENVIRONMENT_STATE" -> "environment_state"
      [] class = "FLAKY_TASK" -> "flaky_task"
      [] OTHER -> class

(* A field that was unknown before has not changed; a class in capitals is  *)
(* kept as it came, and compared with the lower-case one.                   *)
HasStateChanged(t, i) ==
    \/ \E field \in {"cipe", "sh", "verification"} :
          t.prev[field] # None /\ i.report[field] # t.prev[field]
    \/ t.prev.class # None /\ Lower(i.report.class) # t.prev.class

(* mutant: an attempt that has not succeeded yet makes progress *)
NoProgressCount_Unfinished(t, i) ==
    IF t.wait THEN (IF IsNewCipe(t, i) THEN 0 ELSE t.noProgress)
    ELSE IF IsNewCipe(t, i) \/ i.report.cipe # "SUCCEEDED" THEN 0 ELSE t.noProgress + 1

NoProgressCount(t, i) ==
    IF t.wait THEN (IF IsNewCipe(t, i) THEN 0 ELSE t.noProgress)
    ELSE IF IsNewCipe(t, i) \/ HasStateChanged(t, i) THEN 0 ELSE t.noProgress + 1

Backoff(count) == <<60, 90, 120>>[Min({count, 2}) + 1]

(* mutant: a phase is measured by its progress *)
IsTimedOut_ByProgress(t) == Timeout > 0 /\ t.noProgress * Backoff(t.noProgress \div 2) >= Timeout

IsTimedOut(t) ==
    Timeout > 0 /\ t.polls * Backoff(t.polls \div 2) >= Timeout

IsWaitTimedOut(t) == NewCipeTimeout > 0 /\ t.polls * 30 >= NewCipeTimeout

Unverified(r) == r.failed \ r.verified
NeedsLocalVerify(r) == Unverified(r) \ E2E # {}

Rule(holds, action, code) == [holds |-> holds, action |-> action, code |-> code]

ClassifyWait(t, i) ==
    IF IsNewCipe(t, i) THEN Rule(TRUE, "poll", "new_cipe_detected")
    ELSE IF IsWaitTimedOut(t) THEN Rule(TRUE, "done", "no_new_cipe")
    ELSE Rule(TRUE, "wait", "waiting_for_cipe")

Guards(t, noProgress) == <<
    Rule(IsTimedOut(t), "done", "polling_timeout"),
    Rule(noProgress >= 5, "done", "circuit_breaker") >>

AttemptRules(t, r) == <<
    Rule(r.cipe = "SUCCEEDED", "done", "ci_success"),
    Rule(r.cipe = "CANCELED", "done", "cipe_canceled"),
    Rule(r.cipe = "TIMED_OUT", "done", "cipe_timed_out"),
    Rule(r.cipe = "FAILED" /\ r.failed = {} /\ r.sh = None, "done", "cipe_no_tasks"),
    Rule(Lower(r.class) = "environment_state" /\ t.envReruns >= 2, "done", "environment_rerun_cap"),
    Rule(Lower(r.class) = "environment_state", "done", "environment_issue"),
    Rule(r.skipped = "THROTTLED", "done", "self_healing_throttled"),
    Rule(r.cipe \in {"IN_PROGRESS", "NOT_STARTED"}, "poll", "ci_running"),
    Rule(r.sh \in {"IN_PROGRESS", "NOT_STARTED"} /\ r.skipped = None, "poll", "sh_running"),
    Rule(Lower(r.class) = "flaky_task", "poll", "flaky_rerun"),
    Rule(r.user = "APPLIED_AUTOMATICALLY", "poll", "fix_auto_applied") >>

FixRules(r) ==
    LET verified == r.verification \notin {"FAILED", "NOT_EXECUTABLE"}
        fixed == r.sh = "COMPLETED"
    IN  << Rule(r.auto = "skipped", "done", "fix_auto_apply_skipped"),
           Rule(r.auto = "could" /\ r.verification \in {"NOT_STARTED", "IN_PROGRESS"},
                "poll", "verification_pending"),
           Rule(r.auto = "could" /\ r.verification = "COMPLETED", "done", "fix_auto_applying"),
           Rule(fixed /\ (~verified \/ (r.auto = None /\ r.verification = None)),
                "done", "fix_needs_review"),
           Rule(fixed /\ ~NeedsLocalVerify(r), "done", "fix_apply_ready"),
           Rule(fixed, "done", "fix_needs_local_verify"),
           Rule(r.sh = "FAILED", "done", "fix_failed"),
           Rule(r.cipe = "FAILED" /\ (~r.enabled \/ r.sh = "NOT_EXECUTABLE"), "done", "no_fix"),
           Rule(TRUE, "poll", "fallback") >>

(* Unless it waits for a new attempt, the first rule that holds decides.    *)
Decides(rules) == \E n \in DOMAIN rules : rules[n].holds
FirstOf(rules) ==
    rules[CHOOSE n \in DOMAIN rules : rules[n].holds /\ \A k \in 1 .. n - 1 : ~rules[k].holds]

Classify(t, i, noProgress) ==
    IF t.wait THEN ClassifyWait(t, i)
    ELSE IF Decides(Guards(t, noProgress)) THEN FirstOf(Guards(t, noProgress))
    ELSE IF Decides(AttemptRules(t, i.report)) THEN FirstOf(AttemptRules(t, i.report))
    ELSE FirstOf(FixRules(i.report))

ResetProgressCodes == {"ci_success", "fix_auto_applying", "fix_auto_apply_skipped",
                       "fix_needs_review", "fix_apply_ready", "fix_needs_local_verify"}

BuildOutput(decision, noProgress) ==
    [action |-> decision.action, code |-> decision.code,
     noProgress |-> IF decision.code \in ResetProgressCodes THEN 0 ELSE noProgress]

-----------------------------------------------------------------------------
(* ci-state-update.mjs *)

GateLocalFix(t) == t.localFixes < LocalAttempts
GateEnvRerun(t) == t.envReruns < 2

ByUrl == {"fix-auto-applying", "apply-mcp", "env-rerun"}
Pushes == {"apply-local-push", "reject-fix-push", "local-fix-push", "auto-fix-push", "empty-commit-push"}

(* mutant: goes on polling the attempt it acted on *)
PostAction_NoWait(t, action, sha) ==
    [t EXCEPT !.pc = "poll", !.wait = FALSE, !.polls = 0,
              !.lastUrl = IF action \in ByUrl THEN t.url ELSE None,
              !.expectedSha = IF action \in Pushes THEN sha ELSE None,
              !.agent = action # "fix-auto-applying"]

PostAction(t, action, sha) ==
    [t EXCEPT !.pc = "poll", !.wait = TRUE, !.polls = 0,
              !.lastUrl = IF action \in ByUrl THEN t.url ELSE None,
              !.expectedSha = IF action \in Pushes THEN sha ELSE None,
              !.agent = action # "fix-auto-applying"]

(* mutant: what the agent began stays marked *)
CycleCheck_KeepsMark(t, code) ==
    [t EXCEPT !.cycles = IF t.agent THEN @ + 1 ELSE @,
              !.envReruns = IF code = "environment_issue" THEN @ ELSE 0]

CycleCheck(t, code) ==
    [t EXCEPT !.cycles = IF t.agent THEN @ + 1 ELSE @, !.agent = FALSE,
              !.envReruns = IF code = "environment_issue" THEN @ ELSE 0]

ApproachingLimit(t) == t.cycles >= MaxCycles - 2

-----------------------------------------------------------------------------
(* The agent's loop *)

Unknown == [cipe |-> None, sh |-> None, verification |-> None, class |-> None]

Init ==
    /\ ci \in [url : {1}, sha : {1}, report : Reports] /\ head = 1 /\ due = FALSE /\ errors = 0
    /\ m = [pc |-> "poll", code |-> None, wait |-> FALSE, polls |-> 0, noProgress |-> 0,
            localFixes |-> 0, envReruns |-> 0, cycles |-> 0, agent |-> FALSE, retried |-> FALSE,
            lastUrl |-> None, expectedSha |-> None, prev |-> Unknown, url |-> None]
    /\ history = [actions |-> 0, acted |-> {}, equal |-> 0]

(* In wait mode the agent asks for the status of the attempt alone. *)
Seen(t, r) ==
    IF t.wait THEN [Unknown EXCEPT !.cipe = r.cipe]
    ELSE [cipe |-> r.cipe, sh |-> r.sh, verification |-> r.verification, class |-> r.class]

(* After a new attempt was detected the local and the rerun budget are new. *)
Tracked(t, i, output) ==
    LET new == output.code = "new_cipe_detected"
    IN  [t EXCEPT !.pc = IF output.action = "done" THEN "done" ELSE "poll", !.code = output.code,
                  !.wait = @ /\ ~new, !.polls = @ + 1, !.noProgress = output.noProgress,
                  !.localFixes = IF new THEN 0 ELSE @, !.envReruns = IF new THEN 0 ELSE @,
                  !.prev = Seen(t, i.report), !.url = i.url]

Poll ==
    /\ m.pc = "poll" /\ m.polls < MaxPolls
    /\ \E noProgress \in {NoProgressCount(m, ci)} : \E decision \in {Classify(m, ci, noProgress)} :
          m' = Tracked(m, ci, BuildOutput(decision, noProgress))
    /\ history' = [history EXCEPT !.equal =
           IF ~m.wait /\ Seen(m, ci.report) = m.prev THEN @ + 1 ELSE 0]
    /\ UNCHANGED <<ci, head, due, errors>>

(* The answer is no JSON: an error, which is handled like any code, by      *)
(* polling on.                                                              *)
Garbled ==
    /\ m.pc = "poll" /\ m.polls < MaxPolls /\ errors < MaxErrors
    /\ errors' = errors + 1
    /\ m' = CycleCheck([m EXCEPT !.polls = @ + 1, !.noProgress = @ + 1, !.prev = Unknown,
                                 !.code = "error"], "error")
    /\ history' = [history EXCEPT !.equal = 0]
    /\ UNCHANGED <<ci, head, due>>

(* The actions the agent may take on a code; "local" needs the local budget.*)
Flow(t, code) ==
    CASE code = "fix_auto_applying" -> {"fix-auto-applying"}
      [] code \in {"fix_auto_apply_skipped", "fix_apply_ready"} -> {"apply-mcp"}
      [] code = "fix_needs_local_verify" -> {"apply-mcp", "apply-local-push"}
      [] code = "fix_needs_review" ->
             {"apply-mcp", "apply-local-push"} \cup IF GateLocalFix(t) THEN {"reject-fix-push"} ELSE {}
      [] code \in {"fix_failed", "no_fix"} -> IF GateLocalFix(t) THEN {"local-fix-push"} ELSE {}
      [] code = "environment_issue" -> IF GateEnvRerun(t) THEN {"env-rerun"} ELSE {}
      [] code = "self_healing_throttled" ->
             {"empty-commit-push"} \cup IF GateLocalFix(t) THEN {"local-fix-push"} ELSE {}
      [] code = "no_new_cipe" -> IF AutoFix THEN {"auto-fix-push"} ELSE {}
      [] code = "cipe_no_tasks" -> IF t.retried THEN {} ELSE {"empty-commit-push"}
      [] OTHER -> {}

(* The codes after which the agent may only report and leave, or chooses to:*)
(* the user declines, a local fix fails, the limit of cycles is near, or a  *)
(* rejected fix is denied the first or the second part of the local budget. *)
MayLeave(t, code) ==
    \/ Flow(t, code) = {} \/ ApproachingLimit(t)
    \/ code = "fix_needs_review" /\ t.localFixes + 1 >= LocalAttempts
    \/ code \in {"fix_auto_apply_skipped", "fix_failed", "no_fix", "no_new_cipe"}

(* A local fix takes one of its budget, or two where the flow of a rejected *)
(* fix asks again; an enhanced fix takes as many as it needs.               *)
Charged(t, action) ==
    LET left == LocalAttempts - t.localFixes
        used == CASE action = "local-fix-push" -> {1}
                  [] action = "reject-fix-push" -> {1, 2} \cap 0 .. left
                  [] action = "apply-local-push" -> 0 .. left
                  [] OTHER -> {0}
    IN  {[t EXCEPT !.localFixes = @ + n, !.envReruns = IF action = "env-rerun" THEN @ + 1 ELSE @,
                   !.retried = (t.code = "cipe_no_tasks")] : n \in used}

Act ==
    /\ m.pc = "done"
    /\ \E checked \in {CycleCheck(m, m.code)} : \E action \in Flow(checked, m.code) :
          /\ checked.cycles < MaxCycles /\ (action \in Pushes => head < MaxPushes)
          /\ head' = IF action \in Pushes THEN head + 1 ELSE head
          /\ \E t \in Charged(checked, action) : m' = PostAction(t, action, head')
          /\ history' = [history EXCEPT !.actions = IF action # "fix-auto-applying" THEN @ + 1 ELSE @,
                                        !.acted = @ \cup {m.url}, !.equal = 0]
    /\ due' = TRUE
    /\ UNCHANGED <<ci, errors>>

Leave ==
    /\ m.pc = "done"
    /\ \E checked \in {CycleCheck(m, m.code)} :
          /\ MayLeave(checked, m.code) \/ checked.cycles = MaxCycles \/ head = MaxPushes
          /\ m' = [checked EXCEPT !.pc = "left"]
    /\ UNCHANGED <<ci, head, due, errors, history>>

-----------------------------------------------------------------------------
(* The environment *)

Progress == \E r \in Reports :
    /\ ci' = [ci EXCEPT !.report = r] /\ r # ci.report
    /\ UNCHANGED <<head, due, m, errors, history>>

(* A new attempt: of what was pushed, applied or run again. *)
Spawn ==
    /\ due /\ ci.url < MaxPushes
    /\ \E r \in Reports : ci' = [url |-> ci.url + 1, sha |-> head, report |-> r]
    /\ due' = FALSE
    /\ UNCHANGED <<head, m, errors, history>>

HumanPush ==
    /\ head < MaxPushes /\ head' = head + 1 /\ due' = TRUE
    /\ UNCHANGED <<ci, m, errors, history>>

Next == Poll \/ Garbled \/ Act \/ Leave \/ Progress \/ Spawn \/ HumanPush

(* The agent goes on; CI does as it likes. *)
Fairness == WF_vars(Poll) /\ WF_vars(Act \/ Leave)

Spec == Init /\ [][Next]_vars /\ Fairness

-----------------------------------------------------------------------------
(* Properties *)

TypeOK ==
    /\ ci \in [url : 1 .. MaxPushes, sha : 1 .. MaxPushes, report : Reports]
    /\ head \in 1 .. MaxPushes /\ due \in BOOLEAN /\ errors \in 0 .. MaxErrors
    /\ m.pc \in {"poll", "done", "left"} /\ m.wait \in BOOLEAN /\ m.agent \in BOOLEAN
    /\ m.polls \in 0 .. MaxPolls /\ m.cycles \in 0 .. MaxCycles
    /\ m.localFixes \in 0 .. LocalAttempts /\ m.envReruns \in 0 .. 2
    /\ m.lastUrl # None => m.expectedSha = None

(* Every action of the agent is counted against --max-cycles once, and no   *)
(* one else's: it is marked until the next code is handled, whatever errors *)
(* and new attempts come in between (postAction, cycleCheck).               *)
CyclesAreCounted == m.cycles + (IF m.agent THEN 1 ELSE 0) = history.actions

(* The agent does not act twice on one attempt: after an action it waits    *)
(* for the next attempt, and only where none came does it try again.        *)
ActsOncePerAttempt == [][
    history'.actions > history.actions /\ m.code # "no_new_cipe" => m.url \notin history.acted]_vars

(* "No progress after 5 consecutive polls. Stopping." (circuit_breaker):    *)
(* until the agent first acts, and as long as no failure is classified,     *)
(* it does not go on after five polls in a row that told nothing new.       *)
BreaksWhenStuck ==
    history.acted = {} /\ m.pc = "poll" /\ m.prev.class = None => history.equal < 5

(* --timeout and --new-cipe-timeout end every phase of polling, also when   *)
(* CI reports something else each time: the agent acts again or leaves.     *)
EveryPhaseEnds == m.pc = "poll" /\ m.polls > 0 ~> m.pc = "left" \/ m.polls = 0
=============================================================================
