--------------------------- MODULE DashboardPanels ---------------------------
(***************************************************************************)
(* What the dashboard shows of the attempts that the storage has:          *)
(* UsageReport groups them into rows for the window, the bucket and the    *)
(* UTC offset the client asks for, and the client (app.js) groups the rows *)
(* again into figures, tables and a chart.  The two compute the buckets    *)
(* independently, at different times: the report is made, arrives later,   *)
(* and is drawn again whenever the metric or the size of the page changes. *)
(*                                                                         *)
(* Money, latency and the classes of tokens are added like the tokens, and *)
(* are left out.  The clocks of client and server agree.                   *)
(***************************************************************************)
EXTENDS Integers, FiniteSets, SequencesExt, FiniteSetsExt

CONSTANTS
    Kinds,          \* what attempts differ in: provider, model, account, status, auto, tokens
    Catalog,        \* the provider of each model of the catalog, in order
    Alphabet,       \* all providers as sort() orders them
    Slots,          \* SERIES_SLOTS, 8
    RANGES,         \* key -> window and bucket
    Offset,         \* the viewer's offset to UTC
    Newest,         \* how many recent attempts a report lists, 100
    Start, MaxTime, \* bounds of the clock
    MaxAttempts,    \* bound on the attempts
    None

(* Windows have buckets, what is counted is not negative, and providers     *)
(* have names.                                                              *)
DashboardPanelsAssumption ==
    /\ \A kind \in Kinds : kind.tokens \in Nat /\ kind.provider \in ToSet(Alphabet)
    /\ {Catalog, Alphabet} \subseteq Seq(STRING)
    /\ \A key \in DOMAIN RANGES : RANGES[key].window \in Nat /\ RANGES[key].bucket \in Nat \ {0}
    /\ {Offset, Start} \subseteq Int /\ {Slots, Newest} \subseteq Nat

VARIABLES
    now, attempts,  \* the clock; the rows of provider_attempts
    range, metric,  \* what the viewer selected
    answer, report, \* the report on its way, and the one in use
    panels          \* what is drawn

vars == <<now, attempts, range, metric, answer, report, panels>>

-----------------------------------------------------------------------------
(* The server *)

SumOf(f) == MapThenSumSet(LAMBDA x : f[x], DOMAIN f)

(* SUM(field); the client adds the rows' in the same way. *)
Added(some, field) == SumOf([x \in some |-> x[field]])

(* mutant: buckets are aligned to UTC *)
BucketOf_UTC(t, bucket) == (t \div bucket) * bucket

(* UsageReport's start of the bucket of t. *)
BucketOf(t, bucket) == ((t + Offset) \div bucket) * bucket - Offset

RowKey(a, bucket) ==
    [bucket |-> BucketOf(a.at, bucket), provider |-> a.provider, model |-> a.model,
     account |-> a.account, status |-> a.status]

Rows(within, bucket) ==
    LET group(k) == {a \in within : RowKey(a, bucket) = k}
    IN  {[key |-> k,
          attempts |-> Cardinality(group(k)),
          auto |-> Cardinality({a \in group(k) : a.auto}),
          tokens |-> Added(group(k), "tokens")] :
             k \in {RowKey(a, bucket) : a \in within}}

(* The newest first. *)
Latest(within) ==
    CHOOSE list \in [1 .. Cardinality(within) -> within] :
        \A i, j \in DOMAIN list : i < j => list[i].id > list[j].id

(* management.usage and UsageReport; "of" is what was reported, for the     *)
(* properties only.                                                         *)
Report(key) ==
    LET within == {a \in attempts : a.at >= now - RANGES[key].window}
    IN  [range |-> key, of |-> within, rows |-> Rows(within, RANGES[key].bucket),
         recent |-> SubSeq(Latest(within), 1, Min({Newest, Cardinality(within)}))]

-----------------------------------------------------------------------------
(* Colors *)

(* The catalog's providers in their order, then the others by name: the     *)
(* order is the set of providers, of which each has its position.           *)
Position(p) ==
    LET index(list) == Min({i \in DOMAIN list : list[i] = p})
    IN  IF p \in ToSet(Catalog) THEN index(Catalog) ELSE Len(Catalog) + index(Alphabet)

ProviderOrder(extra) == ToSet(Catalog) \cup extra

(* Past the slots, providers fold into "other". *)
SeriesKey(p, order) ==
    IF p \in order /\ Cardinality({q \in order : Position(q) < Position(p)}) < Slots THEN p ELSE "other"

-----------------------------------------------------------------------------
(* Tables and figures *)

(* mutant: an attempt in flight counts as a failure *)
Totals_InFlight(rows) ==
    LET succeeded == Added({r \in rows : r.key.status = "succeeded"}, "attempts")
        all == Added(rows, "attempts")
    IN  [attempts |-> all, auto |-> Added(rows, "auto"), succeeded |-> succeeded,
         failed |-> all - succeeded, tokens |-> Added(rows, "tokens"),
         providers |-> {r.key.provider : r \in rows}]

(* blank and add, over rows *)
Totals(rows) ==
    LET by(status) == Added({r \in rows : r.key.status = status}, "attempts")
    IN  [attempts |-> Added(rows, "attempts"), auto |-> Added(rows, "auto"),
         succeeded |-> by("succeeded"), failed |-> by("failed"), tokens |-> Added(rows, "tokens"),
         providers |-> {r.key.provider : r \in rows}]

(* The totals of the rows with the same key. *)
GroupBy(rows, key) ==
    [id \in {key[r] : r \in rows} |-> Totals({r \in rows : key[r] = id})]

(* mutant: groups by the name of the model alone *)
ByModel_Name(rows) ==
    LET first(r) == CHOOSE q \in rows : q.key.model = r.key.model
    IN  GroupBy(rows, [r \in rows |-> <<first(r).key.provider, r.key.model>>])

ByModel(rows) == GroupBy(rows, [r \in rows |-> <<r.key.provider, r.key.model>>])

ByAccount(rows) == GroupBy(rows, [r \in rows |-> r.key.account])

(* In per mille of the finished attempts; without any there is no rate. *)
Percent(part, whole) == IF whole > 0 THEN (part * 1000) \div whole ELSE None

Kpis(rows) ==
    LET total == Totals(rows)
    IN  [requests |-> total.attempts, auto |-> total.auto, tokens |-> total.tokens,
         failed |-> total.failed,
         success |-> Percent(total.succeeded, total.succeeded + total.failed)]

(* The badge of a status is its name, but for attempts under way. *)
StatusBadge(status) == IF status = "started" THEN "in flight" ELSE status

Recent(list) == [i \in DOMAIN list |-> [id |-> list[i].id, badge |-> StatusBadge(list[i].status)]]

-----------------------------------------------------------------------------
(* The chart *)

(* mutant: the bucket that began just now is left out *)
Buckets_Strict(key) ==
    LET bucket == RANGES[key].bucket
        first == BucketOf(now - RANGES[key].window, bucket)
    IN  {t \in first .. now - 1 : (t - first) % bucket = 0}

(* The client's own alignment, so that empty windows are drawn as well. *)
Buckets(key) ==
    LET bucket == RANGES[key].bucket
        first == ((now - RANGES[key].window + Offset) \div bucket) * bucket - Offset
    IN  {t \in first .. now : (t - first) % bucket = 0}

(* Rows of a bucket that is not drawn are skipped. *)
Bars(rows, key, of, order) ==
    LET series == {SeriesKey(r.key.provider, order) : r \in {q \in rows : q.key.bucket \in Buckets(key)}}
    IN  [start \in Buckets(key) |-> [k \in series |->
            Added({r \in rows : r.key.bucket = start /\ SeriesKey(r.key.provider, order) = k}, of)]]

Height(bar) == SumOf(bar)

Ten[n \in Nat] == IF n = 0 THEN 1 ELSE 10 * Ten[n - 1]

(* The least of 1, 2, 5 and 10 times a power of ten that is not below raw. *)
NiceStep(raw) ==
    LET power == Ten[CHOOSE n \in 0 .. raw : Ten[n] <= raw /\ raw < Ten[n + 1]]
    IN  Min({step \in {power, 2 * power, 5 * power, 10 * power} : step >= raw})

(* In hundredths: a step for about four grid lines, up to the highest bar. *)
Axis(bars) ==
    LET highest == Max({Height(bars[t]) : t \in DOMAIN bars} \cup {0})
        step == NiceStep(IF highest = 0 THEN 100 ELSE highest * 25)
    IN  [step |-> step, top |-> Max({step, ((highest * 100 + step - 1) \div step) * step})]

Chart(rows, key, of, order) ==
    LET bars == Bars(rows, key, of, order)
    IN  [range |-> key, metric |-> of, bars |-> bars, axis |-> Axis(bars)]

-----------------------------------------------------------------------------
Order(rep) == ProviderOrder({r.key.provider : r \in rep.rows})

RenderUsage(rep) ==
    [kpis |-> Kpis(rep.rows), byModel |-> ByModel(rep.rows), byAccount |-> ByAccount(rep.rows),
     recent |-> Recent(rep.recent), chart |-> Chart(rep.rows, range', metric', Order(rep))]

Init ==
    /\ now = Start /\ attempts = {}
    /\ range \in DOMAIN RANGES /\ metric = "attempts"
    /\ answer = None /\ report = None /\ panels = None

Begin(kind) ==
    /\ Cardinality(attempts) < MaxAttempts
    /\ attempts' = attempts \cup
           {[provider |-> kind.provider, model |-> kind.model, account |-> kind.account, status |-> kind.status,
             auto |-> kind.auto, tokens |-> kind.tokens, id |-> Cardinality(attempts) + 1, at |-> now]}
    /\ UNCHANGED <<now, range, metric, answer, report, panels>>

Tick ==
    /\ now < MaxTime /\ now' = now + 1
    /\ UNCHANGED <<attempts, range, metric, answer, report, panels>>

(* The report of the range that was selected when loadUsage began. *)
Serve ==
    /\ answer = None /\ answer' = Report(range)
    /\ UNCHANGED <<now, attempts, range, metric, report, panels>>

Arrive ==
    /\ answer # None /\ answer' = None /\ report' = answer
    /\ UNCHANGED <<now, attempts, range, metric>>
    /\ panels' = RenderUsage(answer)

(* The report of another range is still to come. *)
SelectRange(key) ==
    /\ range' = key /\ key # range
    /\ UNCHANGED <<now, attempts, metric, answer, report, panels>>

SelectMetric(of) ==
    /\ metric' = of /\ of # metric
    /\ UNCHANGED <<now, attempts, range, answer, report>>
    /\ panels' = IF report = None THEN panels ELSE RenderUsage(report)

(* ResizeObserver *)
Resize ==
    /\ report # None
    /\ UNCHANGED <<now, attempts, range, metric, answer, report>>
    /\ panels' = [panels EXCEPT !.chart = Chart(report.rows, range, metric, Order(report))]

Next ==
    \/ \E kind \in Kinds : Begin(kind)
    \/ \E key \in DOMAIN RANGES : SelectRange(key)
    \/ \E of \in {"attempts", "tokens"} : SelectMetric(of)
    \/ Tick \/ Serve \/ Arrive \/ Resize

Spec == Init /\ [][Next]_vars

-----------------------------------------------------------------------------
(* Properties *)

Counts(some) ==
    LET by(status) == Cardinality({a \in some : a.status = status})
    IN  [attempts |-> Cardinality(some), auto |-> Cardinality({a \in some : a.auto}),
         succeeded |-> by("succeeded"), failed |-> by("failed"),
         tokens |-> Added(some, "tokens"),
         providers |-> {a.provider : a \in some}]

(* The figures and both tables count every attempt of the report once, by   *)
(* its own provider, model and account, though the storage grouped them by  *)
(* bucket and status before (UsageReport, groupBy); the recent requests are *)
(* the newest of the same attempts.                                         *)
TablesCountAttempts == panels # None =>
    LET of == report.of
    IN  /\ panels.byModel = [id \in {<<a.provider, a.model>> : a \in of} |->
                                Counts({a \in of : <<a.provider, a.model>> = id})]
        /\ panels.byAccount = [id \in {a.account : a \in of} |->
                                  Counts({a \in of : a.account = id})]
        /\ panels.kpis.requests = Cardinality(of)
        /\ panels.kpis.failed = Counts(of).failed
        /\ \A i \in DOMAIN panels.recent :
              Cardinality({a \in of : a.id > panels.recent[i].id}) = i - 1

(* "Matches the server's bucket alignment" (renderChart): while the report  *)
(* of the selected range is in use, each bar counts the attempts of its own *)
(* bucket, and no attempt is missing but those that have become too old     *)
(* since; the axis reaches over the highest bar in two to five steps; and   *)
(* no more series than there are colors have one of their own.              *)
ChartCountsAttempts == panels # None /\ panels.chart.range = report.range =>
    LET chart == panels.chart
        bucket == RANGES[report.range].bucket
        starts == DOMAIN chart.bars
        weight(some) == IF chart.metric = "attempts" THEN Cardinality(some)
                        ELSE Added(some, "tokens")
    IN  /\ \A t \in starts :
              /\ Height(chart.bars[t]) = weight({a \in report.of : t <= a.at /\ a.at < t + bucket})
              /\ Height(chart.bars[t]) * 100 <= chart.axis.top
              /\ Cardinality(DOMAIN chart.bars[t] \ {"other"}) <= Slots
        /\ \A a \in report.of : a.at >= Min(starts) => \E t \in starts : t <= a.at /\ a.at < t + bucket
        /\ chart.axis.top \div chart.axis.step \in 1 .. 5
=============================================================================
