----------------------------- MODULE MCDashboard -----------------------------
(***************************************************************************)
(* The dashboard's two aspects in one run: the session with its calls, and *)
(* what is drawn of a report.  Drawing takes no part in the session but    *)
(* for the range of the report, so a behavior moves one of the two.        *)
(***************************************************************************)
EXTENDS DashboardSession, TLC

CONSTANTS
    Kinds, Catalog, Alphabet, Slots, RANGES, Offset, Newest, Start, MaxTime, MaxAttempts

VARIABLES
    aspect,
    now, attempts, selected, metric, answer, current, panels

Panels == INSTANCE DashboardPanels WITH range <- selected, report <- current

ASSUME PanelsAssumption == Panels!DashboardPanelsAssumption

panelVars == <<now, attempts, selected, metric, answer, current, panels>>
allVars == <<aspect, vars, panelVars>>

MCInit ==
    /\ Init /\ Panels!Init
    /\ \/ aspect = "session" /\ selected = "day"
       \/ aspect = "panels"

MCNext ==
    /\ UNCHANGED aspect
    /\ \/ aspect = "session" /\ Next /\ UNCHANGED panelVars
       \/ aspect = "panels" /\ Panels!Next /\ UNCHANGED vars

MCFairness ==
    /\ WF_vars(aspect = "session" /\ Answer)
    /\ WF_vars(aspect = "session" /\ \E f \in Flows : Assign(f))
    /\ WF_vars(aspect = "session" /\ Refresh)

MCSpec == MCInit /\ [][MCNext]_allVars /\ MCFairness

-----------------------------------------------------------------------------
(* Models of one name from two providers, a provider outside the catalog,   *)
(* an attempt under way, and a color too few.                               *)
Kind(p, m, a, s, t) == [provider |-> p, model |-> m, account |-> a, status |-> s,
                        auto |-> s # "failed", tokens |-> t]
MCKinds == {Kind("anthropic", "one", "a", "succeeded", 7), Kind("anthropic", "two", "b", "failed", 0),
            Kind("openai", "one", "a", "succeeded", 30), Kind("zai", "one", "a", "started", 0)}
MCCatalog == <<"openai", "anthropic", "openai">>
MCAlphabet == <<"anthropic", "openai", "zai">>

(* Windows of a bucket, which the offset of one shifts where it is wider.   *)
MCRanges == [day |-> [window |-> 1, bucket |-> 1], week |-> [window |-> 2, bucket |-> 2]]

-----------------------------------------------------------------------------
(* The properties of the panels; those of the session are its module's. *)
TablesCountAttempts == Panels!TablesCountAttempts
ChartCountsAttempts == Panels!ChartCountsAttempts
=============================================================================
