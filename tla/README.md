# A formal model of mindctl

mindctl is a gateway that routes LLM requests. A request that names no model is
classified and routed to a model by policy; one that names a model is served by
one account of a pool. The gateway keeps conversations, routing sessions and
provider attempts in SQLite, streams answers while it may still retry, and
supervises a compression process. A web page shows what it did; scripts build,
stage and publish it, and help an agent to watch its CI.

This directory holds TLA+ modules translated from the Go and JavaScript source, TLC
configurations that check them on small instances, and proofs that TLAPS checks
for every instance. `PROJECT.json` lists the runs, the mutants that each
property must catch, the source lines each definition stands for, and the
hazards the properties are aimed at.

## The system

| Component | State | Operations | What makes it correct |
|---|---|---|---|
| Routing store (`internal/storage/sqlite/repository.go`) | conversations, routing sessions, responses, attempts, savings | `CreateTurn`, `BeginProviderAttempt`, `CommitConversationResult`, `FailProviderAttempt`, `RaiseConversationFloor`, `RecordAttemptSavings`, `DeleteExpiredSessions` | pins and floors only rise; a session is never behind its conversations; one answer per response |
| Transcript half of the same tables | transcript items, request contexts, request archive | the inserts of the same transactions, `DeleteExpiredContent` | a continued conversation replays what it delivered; retention never leaves half an exchange |
| Conversation service (`internal/conversation`) | none | wraps the store; new random IDs; the timestamp of a turn | a continuation stays in its conversation and under its owner |
| Executor (`internal/executor`) | one goroutine per request | classify, decide, attempt, fail over, escalate, commit, record savings | the answer is stored before the caller is told it is complete; no retry after output reached the caller; every attempt ends |
| Routing policy (`internal/router`) | none | `Decide`, floors, eligibility, cost | the decision respects pin, floor and bounds; the cheapest eligible model of its tier |
| Account conductor (`internal/accounts/conductor.go`) | pool, cursor, bindings, cooldowns | `Select`, `HasEligible`, `ReportSuccess`, `ReportFailure`, `ResetCooldown`, `ReplaceAccounts` | fair rotation; bindings are not stolen; reported accounts rest |
| Account pool (`internal/accounts/pool.go`) | secrets, time of the last reload | reload on change, `SetEnabled` | a change of the directory is seen; no account without its secret |
| Forwarder, websocket proxy (`internal/forward`) | one goroutine per call | selection, upstream call, reports | fails over without repeating an account |
| Headroom (`internal/headroom`) | a child process | `Start`, `watch`, `Compress`, `Close` | a published process is ready; `Close` ends it and every waiter |
| Retention (`internal/app/retention.go`) | last cycle's outcome | one sweep per tick | a failed sweep is reported and retried |
| OAuth logins (`internal/oauth`) | pending logins | `Begin`, `Finish`, `wait`, cancel | a login ends once |
| Authentication (`internal/api/auth.go`, `idp.go`) | introspection cache | `Verify` | no answer outlives its token |
| HTTP API (`internal/api`) | stream writers | decode, encode, events | well-formed event sequences |
| Providers (`internal/provider`) | none | calls and streams | outcomes are classified for retries |
| Home, plugins, discovery, configuration, encryption, savings, tracing | little or none | | see `PROJECT.json` |
| Dashboard (`internal/api/dashboard/app.js`) | the page's memory, the tab's session storage | sign in and out, single sign-on, load, select, draw | the stored token is the one in use; what is drawn counts each attempt once |
| CI monitor (`.github/skills/monitor-ci`) | counters that an agent hands back | decide on a CI attempt, count cycles and budgets | acts once per attempt, and not without end |
| npm package (`packages/npm`, `tools/release`) | a directory, the registry | version, stage, publish, launch | a host runs its own binary of the version installed |
| Build and release scripts (`tools/scripts`) | processes | run commands and one another | who succeeds has done everything |
| Command line and harness installers (`cmd/mindctl`) | settings files of other tools | on, off, uninstall | uninstall restores what was there |

Requests run as concurrent goroutines. They share the SQLite file (one writer at
a time), the conductor (one mutex), the pool's directory and the headroom
process. The hard parts are what happens *between* their transactions and
locked calls: concurrent responses of one conversation, concurrent
conversations of one session, clients that go away, streams that break after
output, failure reports that arrive late, a sweep or a reload at any moment, and
a process that stops between two transactions.

## Modules

| Module | Stands for |
|---|---|
| `RoutingStore` | the routing half of the repository, as the conversation service calls it |
| `MCRoutingStore` | its instances for TLC |
| `RoutingStoreProofs` | its theorems |
| `Conductor` | the account selector, its callers left free |
| `MCConductor` | pools and requests of its instances |
| `ConductorProofs` | its theorems |
| `Execution` | what streaming and other requests share; instantiates `RoutingStore` and `Conductor` |
| `StreamExecutor` | streaming requests |
| `Executor` | requests that are not streamed |
| `ExecutionProofs` | what their theorems share: the theory of the store and of the selector carried over to the instances of `Execution`, and what each transaction does to the rows of its own request and of the others |
| `StreamExecutorProofs`, `ExecutorProofs` | their theorems |
| `MCStreamExecutor`, `MCExecutor` | catalogs and pools of their instances |
| `Gateway`, `MCGateway` | both kinds of request at once, and their instance |
| `GatewayProofs` | its theorems |
| `DashboardSession` | the web page: signing in, calls and their answers |
| `DashboardPanels` | the usage report and what the page draws of it |
| `DashboardProofs` | the theorems of the two |
| `MCDashboard` | the instance of the two |
| `CiMonitor` | the scripts of the CI monitor, and the agent that calls them |
| `NpmPackage` | versions, staging, publishing and launching |
| `Scripts` | the workspace's scripts |
| `MCTools` | the instance of the last three components |
| `ToolsProofs` | the theorems of the last three components |

`StreamExecutor` and `Executor` extend `Execution`. Every write of the database is
an action of `RoutingStore` inside theirs, every call of the selector one of
`Conductor`: the actions themselves are shared, not restated. `Gateway`
extends `StreamExecutor` and instantiates `Executor` over the same store and selector.

Operators named `X_Y` after an operator `X` are mutants of it: the same
operation with one plausible mistake. No specification uses them; they show
that the properties can fail.

### RoutingStore

`db.go` runs every transaction under `BEGIN IMMEDIATE`, so each is one action. A
transaction that returns an error rolls back and is no step; a client that goes
away or a process that dies is a step never taken. State and code correspond
row by row:

| Variable | Table | Notes |
|---|---|---|
| `conversations` | `conversations` | pin and floor; `client = None` is no row, `key = None` is a NULL session key |
| `sessions` | `routing_sessions` | `live = FALSE` is no row; `usage` is the model observed, its token counts are left out |
| `responses` | `responses` | `explicit` is the `explicit_model` column |
| `attempts` | `provider_attempts` | `tier = -1` only where there is no row |
| `saved` | `attempt_savings` | which attempts have a row |
| `now` | the wall clock | assumed not to run backwards |

A pin is a model and a tier, and the NULL pin has tier -1, which makes SQL's
`pin_tier IS NULL OR excluded.pin_tier >= pin_tier` a comparison. `CreateTurn`
is a request without `previous_response_id` and `ContinueTurn` one with it. The
decisions of the executor are left free: any model and tier may be attempted,
and the store accepts what its checks accept. One caller's rule is kept, because
the store relies on it: only `executor/stream.go` raises a floor, one tier above
an attempt of the response that did not succeed.

`RecentTimes` is the one place where time does not come from the transaction:
`Start` and the sweep take their timestamp before they wait for the write lock.
The model lets it be up to `MaxLag` old, and assumes that this is no longer than
`SessionTTL`: waiting for the lock is bounded by SQLite's busy timeout, the
sessions' idle time is minutes or hours.

What is checked and why it could fail:

- `SessionCoversConversations`, `SessionCoversAnswers`: concurrent conversations
  write back to one session in any order, while the sweep deletes it and late
  commits recreate it. A live session must be as strong as every conversation
  and answer of its present life.
- `SessionRatchet`, `ConversationRatchet`: no step lowers a pin or floor, and a
  session is only given up after being idle *longer than* `idle_ttl`. Seeding,
  write-back and sweep compare times taken at different moments.
- `AnswersWithinPin`: of two responses of one conversation the weaker may commit
  last; it must then be refused.
- `CompletedByOneAttempt`, `OutcomesStand`: retries leave started attempts
  behind, and commits and failure reports arrive late; none may answer a
  response twice or rewrite an outcome.
- `UsageNeedsPin`: a session that starts afresh keeps no token usage to predict
  a provider cache from.
- `PinWithinFloor`: the executor raises a pin to its floor (`turnPin`), never the
  other way round.

### Conductor

Every exported method of the conductor holds one mutex and is one action.
Callers are free: any request of `Requests` may be selected for at any time, and
any account reported for any session, which covers the executor, the streams,
the forwarder, the websocket proxy and the management API at once. Settings are
constants, already normalised. Account IDs are numbers, for the order of the
pool; prefixes and excluded models become the set of models an account serves.
`expire` and the deletion of ended cooldowns are part of `Select` and
`HasEligible`, as in the code, so an expired binding that nothing has reaped can
still be extended by `ReportSuccess`. The conductor reads the clock more than
once per call; the model takes these readings to fall in one tick.

A selection is a relation, `Returns(req, result)`, with three cases in the order of
`candidate` (`Refuse`, `Stick`, `Rotate`); `Select` keeps the result in `outcome`, and a
request takes it from the same relation into its own variables. `failed` and `tally` are history:
no guard reads them.

- `FairShare`: while the same accounts are eligible, the strategy takes each its
  share (its weight, or once) before any of them once more. The one cursor is
  shared by requests with different eligible accounts and survives reloads.
- `RestsAfterFailure`: an account that was reported is left alone for at least
  the shortest cooldown. Reports overwrite each other, so a quota report can
  end an authentication cooldown early; more than this does not hold.
- `BindingsAreKept`: a live binding has to be released before another account
  takes the session, and is never shortened.

### Execution, StreamExecutor and Executor

A request is a goroutine. Its local variables are a record, `stream[r]` or
`request[r]`, and `pc` names the place where it stands. Each transaction, each
locked call of the selector, and each exchange with the upstream or the caller
is an action of its own, because other requests, a reload or the clock run in
between.

| Code | Actions |
|---|---|
| `Stream`: `streamDecision`, candidates | `Start`, `Decide` (`Candidates`, `Fallbacks`) |
| selection, `waitCooldown` | `SelectAccount`, `WaitCooldown`, `NoCandidate`, `Unusable` |
| one attempt, `drainStream` | `BeginAttempt`, `Drain`, `Abandon` |
| success | `CommitResult`, `RecordSavings`, `Complete` |
| failure | `Report`, `Settle`, then `RaiseFloor` and `TerminalError` after output, or `RetryAccount` and `RetryModel` (`Additional`) before it |
| `Execute`, `executeDecision` | `Start`, `Decide`, `BeginAttempt`, `Call`, `FailAttempt`, `CommitResult`, `RecordSavings`, `Answer` |
| `executeNamed` | `SelectAccount`, `WaitCooldown`, `NoMoreRounds`, `Unusable`, `Report` |

What is left free, and therefore any behaviour of it is covered:

- The policy and the classifier choose any model at or above the floor they are
  given, rank the others in any order, or find nothing.
- The upstream answers, shows output, ends or breaks with any class of error in
  `Breaks`. Errors are told apart by how the code treats them (`FailureClass`,
  `RetryableStreamError`). `"unexpected"` is a redirect, or a success whose body is no
  answer: retryable by its kind and permanent by its status, so a stream goes on to
  another account and `Execute` returns. `"other"` is every error that is not a
  provider's.
- A caller in `Impatient` hangs up at any time. A transaction on the request's own
  context may then fail with `"canceled"`; `persistenceContext` detaches those that
  a stream must not lose, and only those still succeed. A write to a caller who is
  gone fails with `"canceled"` or `"other"`: the latter counts as transient and
  cools the account.
- With `StorageFails` any transaction may fail and roll back; with `ReloadFails` a
  selection may fail on an unreadable directory.

Events are abstracted to `emitted`: whether any was visible. Session idleness is
left to `RoutingStore`, so the store's clock stands still. `MaxAttempts` is a bound:
a request that reached it would stand still, and `RequestsEnd` shows that none does. The
clock only ticks while something cools or is bound. `told`, `lost`, `answered` and
`calls` are history.

What is checked and why it could fail:

- `NoRetryAfterOutput`: output, failure and retry are steps of several attempts and
  accounts; `emitted` must outlive each attempt.
- `CompletionIsStored`, `CallerLearnsTheEnd`: the completion event is held back
  until the commit, and the caller may leave or the storage fail at every point
  between. The store credits its *latest started* attempt, and an earlier attempt
  whose failure could not be recorded is still started.
- `AttemptsSettled`: of every way out of `Stream`, after a hang-up too, none leaves an
  attempt behind as started unless the storage refused the record. It is about the
  record, and not about the error that `Stream` returns. For `Execute` this does not
  hold: it records with the request's context, and leaves an attempt started whose
  failure, or whose answer, could not be stored.
- `BrokenStreamsEscalate`: another request of the conversation may have decided on a
  weak model before the floor rose; only the store's check can stop it.
- `FallbacksAreAllowed`: retries on an account, retries on a model and escalation
  share one list that grows while it is walked.
- `OutputIsStored`: an answer is returned exactly when it is stored, and credited to the
  attempt that gave it although attempts before it may still count as started.
  It does not say that such an attempt is ever settled, and nothing in the code does.
- `CallsWithinRetryLimit`: rounds only count where an account was found, and a wait
  starts a pass afresh, forgetting which accounts were tried.

`Gateway` serves every request by one of the two, as the API's handlers do.

- `RequestsEnd` is checked of it: a wait for a cooldown has no limit of its own, and
  streams and plain requests cool accounts for each other.

### DashboardSession and DashboardPanels

The page is one thread, but other handlers run at every `await`. A call of `api()`
is an element of the bag `calls`, with the function that goes on when the answer
comes, and with what that function remembers: the token the request carried, and
the range it began with. All other state is read when the function goes on.

| Code | Actions |
|---|---|
| submit of the login form, sign-out, 401 | `LogIn`, `LoggedIn`, `ClickSignOut`, `Unauthorized` |
| `startSignIn`, `location.assign`, the issuer, `finishSignIn` | `StartSignIn`, `Assign`, `Leave`, `ComeBack`, `Redeemed` |
| `route` and the loaders | `Startup`, `SelectTab`, `SelectRange`, `ClickAction`, `Refresh` |
| an answer | `ModelsLoaded`, `UsageLoaded`, `TableLoaded`, `Failed` |
| `UsageReport`, `loadUsage` | `Serve`, `Arrive` (`Rows`, `Report`) |
| `renderUsage`, `ResizeObserver` | `Arrive`, `SelectMetric`, `Resize` (`Kpis`, `ByModel`, `ByAccount`, `Recent`, `Chart`) |

The identity provider is external: it redirects back with a code or an error of the
flow the browser came with, or the viewer goes back or reloads (`Reload`).

What is checked and why it could fail:

- `StoredTokenIsCurrent`: a login uses its token at once and stores it when an answer
  comes; a 401 of another call, a sign-out, a second login or a redeemed code may
  have come first.
- `LastSignInWins`: two sign-ons store their request and leave the page in two steps
  each, with an `await` before.
- `ReportCatchesUp`: reports of other ranges may arrive late, and the last one to
  arrive is drawn; the timer has to put it right.
- `TablesCountAttempts`: the storage groups attempts by bucket, provider, model,
  account and status, and the client groups the rows again, by less.
- `ChartCountsAttempts`: server and client align buckets to the viewer's offset each
  for itself, at different times, and the client skips a row whose bucket it does
  not draw. The report is drawn again long after it was made. `Offset` is a constant: a
  viewer whose clocks are changed between the two is not modelled.

### CiMonitor

Both scripts keep no state: an agent hands their output back to them. `m` is what
the agent tracks, `Poll` is a run of `ci-poll-decide.mjs` (`Classify` is its decision
table: the first rule that holds decides), `PostAction`, `CycleCheck` and the gates are
`ci-state-update.mjs`. The agent's part (`Act`, `Leave`, `Flow`, `Charged`) is modelled
from the skill's instructions, and free wherever these leave a choice; CI and people
who push are free altogether. `history` is read by no guard.

- `CyclesAreCounted`: an action is counted when the *next* code is handled, which may be
  an error, or the code of an attempt that a person began.
- `ActsOncePerAttempt`: after an action the attempt acted on is still the latest one.
- `BreaksWhenStuck`, `EveryPhaseEnds`: CI may report the same for ever, or something new
  each time. `BreaksWhenStuck` is narrower than what `SKILL.md` says; see Findings.

### NpmPackage and Scripts

`NpmPackage` takes what `goreleaser` builds as input: any version, and for every target
an archive that is missing, lacks the executable, holds an empty one, or holds one.
`RemoveOut`, `CopyPublishFiles` and `WritePayload` are the steps of `stagePackage`, and
`Fail` ends a staging between any two of them. To write a binary and to make it
executable is one step: no property looks at the mode.

- `StagedIsOneBuild`: a staging begins in the directory an earlier one left.
- `LaunchesOwnBinary` spans version, build, staging, registry and launcher.

`Scripts` has a stack of running scripts, each at one of its commands, and the exit
code of what ended last. `BudgetOver` kills everything a command started.

- `SuccessIsComplete`: a script that fails or is killed at any depth must not let an
  outer one succeed; the inner budgets are longer than the outer ones.

## Runs

| Run | Instance | Shows |
|---|---|---|
| `store` | one client and session key, two conversations, two responses, two attempts, tiers 0 to 2, `SessionTTL` 1, `MaxLag` 1, time 0 to 3 | all ten properties of `RoutingStore` |
| `explicit` | the same with time 0 to 1 | a violation: see Findings |
| `rotation` | three accounts of two models in two pools, round robin, time 0 to 2 | `FairShare`, `RestsAfterFailure` |
| `affinity` | two accounts of weights 2 and 1 in two pools, a session and its subagent, weighted round robin with a cursor up to 4, `rebind_on: quota`, time 0 to 2 | `TypeOK`, `BindingsAreKept`, `FairShare` for weights |
| `retry` | accounts of two providers, one without retries, one disabled | a violation: see Findings |
| `stream_automatic` | two automatic streams of one conversation, a weak, a strong and an explicit-only model, three attempts, hang-ups, failing storage | six safety properties of `StreamExecutor` |
| `stream_escalation` | two streams, automatic or for a model, escalation allowed or not, one caller who may hang up, an account that comes and goes | `FallbacksAreAllowed` |
| `execute` | two requests, automatic or of one session, one caller who may hang up, an account with a retry and one without that comes and goes, two rounds | `OutputIsStored`, `CallsWithinRetryLimit`, `TypeOK` |
| `gateway` | two requests for a model, each a stream or plain, over two accounts, time 0 to 4 | `RequestsEnd` |
| `release` | two requests of a session for a model | a violation: see Findings |
| `dashboard` | two tokens, two sign-ons, two ranges, two calls at once, one failed call; two attempts of four kinds within three ticks | `StoredTokenIsCurrent`, `LastSignInWins`, `ReportCatchesUp`, `TypeOK`; `TablesCountAttempts`, `ChartCountsAttempts` |
| `tools` | two commits, thirteen reports of CI, one garbled answer; three targets, four hosts, two versions, two stagings; every script for 65 minutes | the properties of `CiMonitor`, `NpmPackage` and `Scripts` |

`dashboard` and `tools` each check modules that share no state. The variable `aspect`
says which one a behavior moves; the others keep their initial state.

**Why the bounds are enough.** The properties of the store relate at most two
conversations of one session, two attempts, and a session with one of them.
Three tiers give a pin below, at and above another. Time 3 with `SessionTTL` 1
lets a session idle, be swept, begin again and receive a late commit of its
earlier life. The proofs remove these bounds. For the conductor, three accounts
are the fewest of which two can be passed over; `MaxCursor` 4 is beyond one
turn of the largest total weight. Deadlock is checked in the runs of these two:
reports and resets are always possible. It is not in those of the executors,
where every request comes to its end and nothing is left to do; that they do end
is `RequestsEnd`.

For the executors, two requests are the fewest that can decide on the same floor,
cool an account for one another, or overtake each other. Three attempts are all
that an automatic stream of two models makes. In `gateway` no bound is reached: if a
request stood still at `MaxAttempts`, or waited for a time after `MaxTime`, `RequestsEnd` would
be violated. To stay small it leaves out hang-ups, refusals, sessions and automatic
requests. With two requests it says that none waits for ever because of another one that
is under way; requests that keep arriving, and could keep the accounts cooling, are
outside it. In `execute` the clock stops at 1
and three attempts are made, enough for a wait and a second round. `MaxRounds` 1
stands for 32.

A pair of tokens, of sign-ons and of calls is what one needs to replace, overtake or
outlive another on the page, and any two ranges behave like the four there are. For
the panels the clock runs through a window and past it; buckets of two ticks and an
offset of one make alignments differ, and `zai` is the provider for which no color is
left. `Timeout` and `NewCipeTimeout` allow the monitor eight and two polls, so
`MaxPolls` is never reached and a phase that did not end would show; five polls
without progress fit in, and `MaxCycles` 3 has a cycle before the
last two, in which the user is asked, and the end of all. The reports of `tools` have every rule of the
decision table hold first, but those that end the monitor, or are answered by the
agent, like another one. 65
minutes are more than `build` and `release` take before a budget ends them.

**Fairness.** The store and the selector alone are checked without. The executors
assume weak fairness of each goroutine's steps, because Go schedules every
runnable goroutine and timers fire; of the clock; and thereby of the upstream,
which answers, fails, or is given up. The last is an assumption about HTTP: the
code sets no deadline of its own for an attempt. Nothing is assumed about hang-ups or
reloads. Requests arrive when they like or not at all, but no more than `Responses` has,
which is two where `RequestsEnd` is checked. The choice between outcomes is never fair:
`RequestsEnd` holds even if every call fails.

The page assumes that `fetch` answers or fails, that a sign-on that began goes on, and
that the timer fires, which browsers do; viewers and tokens are free. As `Refresh` is
bounded by `MaxCalls`, its fairness speaks of a page on which calls come to an end. The
monitor assumes that its agent polls while told to and then acts or leaves; CI need
never do anything. The package and the scripts are checked without fairness.

## Proofs

`RoutingStoreProofs` proves every checked property of the store except the
violated one, for all sets of clients, keys, conversations and responses, every
finite set of attempts, all tiers, idle times and lags. Assumptions
(`RoutingStoreAssumption`): `None` is no value of the sets, the bounds are
natural numbers, and `MaxLag <= SessionTTL` where sessions expire.

The argument is one inductive invariant, `WellFormed /\ RoutingInv`.
`WellFormed` adds `References` to `TypeOK`: responses belong to conversations
that have an owner, and attempts to responses, with a model and a tier.
`RoutingInv` adds two parts to the checked properties. `Clock` says that nothing
recorded lies in the future. `Activity` says that a live session was active no
earlier than anything recorded of it, and that what is recorded of a forgotten
session is older than any timestamp a waiting transaction may still carry; it is
what lets a session be deleted, and started again, without breaking
`SessionCoversAnswers` and `SessionCoversConversations`. These two are proved
together: an answer is covered by its session's pin because its conversation is,
and a commit strengthens both at once. The three transactions that strengthen a
conversation (begin, commit, raise) are shown to be instances of one shape,
`WriteBack`, and the invariant is proved once for the shape and once for each of
the other actions. The outcomes (`CompletedByOneAttempt`, `OutcomesStand`) follow
a second, shorter line: `EveryOutcome` reduces each step to one of five effects
on responses and attempts.

`ConductorProofs` proves `TypeOK`, `BindingsAreKept`, `RestsAfterFailure` and `FairShare`,
for every pool, setting, strategy and request.
`Rested` (a report leaves a cooldown that covers one of the rests, until its time has
passed) and `Timely` (no binding outlasts the TTL) are the strengthenings of the
second and third. `FairShare` needs `ShareInv`, which is `TurnInv` without weights and
`RoundInv` with them:

- Without weights each account of the current turn was
  picked at most once and some were not, and in the order that starts at the cursor those
  that were not come before those that were (`InTurn`). A pick takes the first eligible
  account of that order and moves the cursor behind it, so it can only take one that had
  its turn when all have had it, and then the turn is over; the rest is arithmetic of
  remainders.
- With weights the cursor counts turns, and the remainder by the sum of the weights says
  whose turn it is. A sum of weights is the number of elements of a set (`Turns`: one
  pair of position and number for each unit of weight), so that adding and comparing sums
  is a matter of sets. Each account owns an interval of the turns of a round (`Begins`,
  `Ends`), every turn has one owner (`OneOwner`), and as many steps of the cursor as there
  are turns meet each of them once wherever they begin (`OncePerRound`,
  `EveryTurnComes`). `RoundInv` says that the picks are the turns `Taken` since the round
  began, and that it has not ended. Within a round nobody can have taken more turns than
  it owns, and at the end everybody has taken as many (`RoundIsFair`).

(With fill-first nothing takes turns, and the property says nothing.)
Everything here is proved of `Call`, the step of *any* caller with or without an
outcome, of which `Conductor`'s own actions are cases; that is what lets the executors
use it.

`StreamExecutorProofs` and `ExecutorProofs` prove every safety property that the runs
check of the two executors, but for the violated one, for any number of concurrent
requests, any catalog, accounts, settings and failures. The assumptions are those of
the store and of the selector, finitely many models, a catalog that gives each model a
tier of the scale and a provider, and `None` apart from the values (`ExecutionAssumption`,
`StreamExecutorAssumption`, `ExecutorAssumption`).

The inductive invariants are `StreamInv` and `ExecutorInv`: the store's and the
selector's invariants, the types of the goroutines, and `Held(r, goroutine)`, which says
for every place where a goroutine may stand what the store holds of its request:

| Part | Says | Needed for |
|---|---|---|
| `Numbered` | the attempts of a request in the store are numbered up to the one its goroutine has | every property that speaks of a request's own attempts |
| `Progress` | the status of response and attempt at each place, and where nothing has been shown | `CompletionIsStored`, `OutputIsStored`, `NoRetryAfterOutput` |
| `Settled` | only the attempt in flight is unsettled, unless a record was lost | `AttemptsSettled` |
| `Told` | what the caller was told agrees with the store | `CallerLearnsTheEnd` |
| `Decided` | attempts made and candidates left are all allowed to the first model | `FallbacksAreAllowed` |
| `Raised` | once a stream broke off, the floor of its conversation is above the broken attempt | `BrokenStreamsEscalate` |
| `Equipped`, `Rationed` | which account a request has and has tried, and how often it called each by round | `CallsWithinRetryLimit` |

That a commit credits the attempt that was streamed is not obvious, because the store
takes the *latest started* attempt, and earlier ones may still be started when a record
was lost. `Numbered` and `Progress` give it: while a goroutine is in flight its own
attempt is the last of the numbering. Every action is shown to be one `Stepped(r)`: a
transaction of the store or none, no effect on the rows of other requests
(`OthersUntouched`; floors may rise under them), and `Held` of the new goroutine. That
the invariant of all requests follows is proved once, in `SteppedInv`. A step is proved
from `Here(r)` alone: what is held of its own request, and a store and a selector in
order. Nothing is assumed of who else uses them, which is what lets the two kinds of
request be composed.

`CallsWithinRetryLimit` has the hypothesis `SameLimits`: no reload changes how often an
account may be retried. Without it a reload may lower the limit below the calls that
were already made; `CallsAllowed` is what holds in any case. The pools of the run satisfy
the hypothesis.

Two more families of theorems join the layers. *The executors implement the store*
(`StreamsUseTheStore`, `RequestsUseTheStore`): under any number of goroutines the
store's variables follow the specification of `RoutingStore` step by step, so what is
proved of the store holds of every execution. *The executors are callers of the
selector* (`StreamsUseTheSelector`, `RequestsUseTheSelector`): each step is a `Call` of
the conductor or leaves it alone, and so bindings are kept, reported accounts rest and
turns are shared (`...KeepBindings`, `...LetAccountsRest`, `...TakeTurns`) across all
concurrent requests, not only for the callers that `MCConductor` lists.

`GatewayProofs` proves the same of streams and plain requests *together*. Its inductive
invariant, `GatewayInv`, says of every response that it is `Streamed` (`Held` of its
stream, and no plain request of that number) or `Called` (the converse). The arguments
about the two kinds are not repeated: a step of one kind is `Stepped(r)` as it was
proved for that kind alone, and it leaves every other request, of either kind, with
its promises (`OthersKept`), because `Stepped` only touches what
`OthersUntouched` allows. (`Plain` and `Waiting` are both `Executor`, with its theorems
and without; a good part of the module shows that their operators are the same, since
the prover does not see it.) So all promises hold across the kinds: completions and
outputs are what is stored, attempts are settled, no retry follows output, retry limits
are kept, and the pair implements `RoutingStore` and calls `Conductor`
(`GatewayUsesTheStore`, `GatewayKeepsBindings`, `GatewayLetsAccountsRest`,
`GatewayTakesTurns`). `GatewayFallbacks` speaks of all attempts, and for those of plain
requests rests on another invariant, `OneModel`: no attempt is made before the decision,
and the goroutine keeps its model until it returns (`RequestsKeepTheirModel`: a plain
request never falls back). `GatewayEscalates` says more than its counterpart: after a stream
broke off, the later attempts of *plain requests* are a tier stronger too. Plain
requests keep no promise of that kind themselves, so the proof is of the store: whoever
begins an attempt, it is accepted only above the floor (`BeginsAboveFloor`).

`DashboardProofs` proves `TypeOK`, `StoredTokenIsCurrent` and `LastSignInWins` of the page for any
tokens, sign-ons, ranges, tabs and numbers of calls. `LastSignInWins` is inductive.
`StoredTokenIsCurrent` is not: a login replaces the token in use, so `StoredInv` adds that
nothing is stored while the login form is shown. `TypeOK` is proved through the bag of
calls: an exchange takes one call out and puts well-typed ones in (`SentBag`).

Of the panels it proves `TablesCountAttempts` and `ChartCountsAttempts`, for any attempts,
windows, buckets, offsets and catalogs. The invariant, `PanelsInv`, is short: attempts
are numbered, reports are of attempts in their window, and what is drawn is of the report
in use. The work is in what a drawing shows:

- What is added up are numbers of attempts and tokens, and a sum of numbers of elements is
  the number of all elements where no two cells share one (`SumOfCells`). Rows are cells of
  attempts; grouping the rows again by less joins cells and loses none (`AddedRows`,
  `TotalsCount`), and the bars of a bucket hold what lies in it (`BarHeight`).
- Server and client align buckets by the same remainder (`BucketSpan`), two aligned starts
  are a bucket apart or the same (`AlignedClose`), and so the buckets that are drawn are
  just those in which rows lie (`BucketsAre`).
- A step of the axis is never below what it is asked for (`NiceStepReaches`), and four of
  them reach over the highest bar (`AxisReaches`).
- Providers have different positions, so that no more of them have a color than there
  are slots (`SlotsSuffice`).

The only assumptions are those on the constants of the two modules
(`DashboardSessionAssumption`, `DashboardPanelsAssumption`).

`ToolsProofs` proves of the CI monitor `TypeOK`, `CyclesAreCounted`, `ActsOncePerAttempt` and
`BreaksWhenStuck` for any reports and limits. For the third, `OnceInv` describes each place
of the monitor: while it waits,
what it waits for (another URL than the one acted on, or the commit it pushed) can only
be an attempt younger than all it acted on (`WaitsForNewer`); once it polls for results,
or has one, the attempt it looks at is such a one (`PollsNewer`, `DoneIsNewer`). This rests
on the model's numbering attempts in the order in which they began. For the last,
`EqualIsCounted` ties the count that the agent carries to the polls that really told
nothing new; it holds until the agent first acts, for the reason given under Findings.
That the decisions are those of the table is shown rule by rule: the first rule that
holds is a sound one.

Of the package it proves `StagedIsOneBuild` and `LaunchesOwnBinary` for any targets,
hosts and versions, and any number of stagings. Its invariant follows a job through its
steps: it begins in an empty directory (`Staging`), what it has written is of its own
build and covers the targets before its place (`Written`), whatever an earlier one left
is of one build (`OneBuild`), and so what is published has the binary of its version for
every target (`Complete`). The only assumptions are that there is a target, and that
`None` is no target, version or payload (`NpmPackageAssumption`).

Of the scripts it proves `SuccessIsComplete`, for any times at which commands end, fail or
are killed. `ScriptInv` says that each script under way runs the one above it (`Linked`)
and that, unless what ended last has failed, what was done is what every script of the
stack had to do before the command it is at, followed by what ended last (`Past`,
`Latest`). The plan of a script is then the end of a sequence that grows command by
command (`BeforeIs`).

**Recursion and sums.** The induction theorems of the library cannot be used, but an
induction over numbers can be had without them: a set of counterexamples that is not
empty has a least element (`LeastNumber`), and it contradicts the step. What
`FlattenSeq`, `Ten`, the folds behind the sums and the plans of scripts compute is proved
in this way: first that a function with the recursive equation exists and is the only
one, then that it is what it stands for.

Only model-checked:

- All liveness (`RequestsEnd`, `ReportCatchesUp`, `EveryPhaseEnds`).
  The prover has no rules for fairness and `ENABLED`.
- The violations. They are counterexamples, which TLC finds.

## Findings

- `explicit`: README, Session affinity, says that requests for a specific model
  never read or change session state. That holds for requests that open a
  conversation. One that *continues* a session's conversation with
  `previous_response_id` keeps the conversation's session key, and its commit
  writes the session's pin, floor, usage and activity time.
- `retry`: `UnavailableError` is documented to say that every eligible account
  is cooling down. `soonest` looks at every cooldown there is. A request whose
  accounts were all tried, or are out of retry rounds, is told to wait because
  some account it may not use is cooling, and `executeNamed` and `Stream` wait.

- `release`: `ReportFailure` is documented to cool an account down and release *its*
  session binding. It deletes whatever binding the session has. When a session's
  account has a passing failure, the session is meant to stay with it
  (`rebind_on: quota`), but a quota or authentication failure of the account that
  stood in ends the binding.

Other things were met on the way. In the Go code, `failureClass` calls every error transient that
is neither a provider's nor a cancellation, so an account also cools when a
transaction fails, or when another request has raised the conversation above the
requested model, without any upstream call. The comment that `Execute` performs
exactly one attempt is true of automatic requests only. And `Stream` drops an error of
`writer.Start` once the failed attempt is recorded; the three writers of the API never
return one.

The breaker of the CI monitor does less than its skill says. `SKILL.md` has it end the
monitoring after five consecutive polls without progress (line 117), progress being any
change of the four statuses (line 272), without exception. No run shows it, and
`BreaksWhenStuck` leaves out the two cases in which the code differs:

- After the monitor's first push `isNewCipe` stays true for every poll of the commit
  expected, which clears the count of polls without progress: the breaker no longer
  opens, and only the timeout ends such a phase.
- A class in capitals is kept as it came and compared in lower case, and counts as a
  change each time.

The JavaScript behaves in more ways its properties had to be stated around:

- A rerun for the environment starts a new attempt, and detecting it clears the reruns
  counted, so that the cap of two is not reached.
- On the page, a 401 signs out whichever token is in use, also one newer than the token
  that was refused. A `hashchange` while a code is redeemed shows the login form. A
  report that comes late is drawn under a range selected since, until the next one.
- `release` gives `build` 30 minutes and `build` gives its own commands more; `clean` and
  `nuke` end with 0 when they failed.

## Not modelled

Conversions between wire formats, HTTP, encryption, cost arithmetic in floating
point, configuration and logging keep no state that routing depends on. Of the page,
layout, the formats of numbers and dates, tooltips and the texts of errors are left
out. The skills under `.agents` are bundled copies of other projects' code.
`PROJECT.json` gives the reason for each component.

## Plan

In this order; each module gets runs, mutants and, where marked, theorems.

1. Done: `Execution`, `StreamExecutor`, `Executor`, `Gateway`; `DashboardSession`,
   `DashboardPanels`, `CiMonitor`, `NpmPackage`, `Scripts`.
2. Done: the theorems of the executors, of `Gateway`, of every strategy of the selector, of
   the page and its panels, of the monitor, the package and the scripts. Every safety
   property that the runs find to hold is proved.
3. `SessionMemory`, the abstract ratchet of a session that `RoutingStore`
   implements (`INSTANCE ... WITH`). *Theorem: the step simulation.*
4. `TranscriptStore`: transcripts, request contexts and retention.
5. An instance of `Gateway` with automatic requests and idle sessions: a floor
   without a pin, which a stream honours and `Execute` does not.
6. `Policy`: `Decide` and eligibility against a reference definition over bounded
   inputs.
7. `AccountPool`: reload against concurrent writers of the directory.
8. `HeadroomManager`, `LoginRegistry`, `Introspection`, `Retention`: small state
   machines with liveness.
9. The event writers of the API, the forwarder, `Harness`, app lifecycle.
