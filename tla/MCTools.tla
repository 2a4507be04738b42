-------------------------------- MODULE MCTools --------------------------------
(***************************************************************************)
(* The repository's tools in one run: the CI monitor, the npm package and  *)
(* the workspace's scripts.  They share no state: a behavior moves one.    *)
(***************************************************************************)
EXTENDS CiMonitor, TLC

CONSTANTS
    targets, Hosts, MaxVersion, MaxJobs,
    MaxTime

VARIABLES
    aspect,
    VERSION, dist, commands, job, jobs, out, published, launched,
    invoked, stack, exitCode, finished, minute

Package == INSTANCE NpmPackage
Workspace == INSTANCE Scripts

ASSUME PackageAssumption == Package!NpmPackageAssumption
ASSUME WorkspaceAssumption == Workspace!ScriptsAssumption

packageVars == <<VERSION, dist, commands, job, jobs, out, published, launched>>
scriptVars == <<invoked, stack, exitCode, finished, minute>>
allVars == <<aspect, vars, packageVars, scriptVars>>

(* What a behavior does not move starts in one way only.  Of the extractors *)
(* there are none, the one for tar, or one for each kind of archive: unzip  *)
(* and bsdtar do the same.  Once the agent has left, CI is of no interest.  *)
MCInit ==
    /\ aspect \in {"monitor", "package", "scripts"}
    /\ Init /\ Package!Init /\ Workspace!Init
    /\ aspect # "monitor" => ci.report = CHOOSE r \in Reports : TRUE
    /\ commands \in IF aspect = "package" THEN {{}, {"tar"}, {"tar", "unzip"}} ELSE {{}}
    /\ aspect # "scripts" => invoked = "bootstrap"

MCNext ==
    /\ UNCHANGED aspect
    /\ \/ aspect = "monitor" /\ m.pc # "left" /\ Next /\ UNCHANGED packageVars /\ UNCHANGED scriptVars
       \/ aspect = "package" /\ Package!Next /\ UNCHANGED vars /\ UNCHANGED scriptVars
       \/ aspect = "scripts" /\ Workspace!Next /\ UNCHANGED vars /\ UNCHANGED packageVars

MCFairness ==
    /\ WF_vars(aspect = "monitor" /\ Poll)
    /\ WF_vars(aspect = "monitor" /\ (Act \/ Leave))

MCSpec == MCInit /\ [][MCNext]_allVars /\ MCFairness

-----------------------------------------------------------------------------
(* One attempt of every kind the decision table tells apart, but for those  *)
(* that end the monitor like another (canceled, timed out), and a failed    *)
(* fix, which the agent answers as if there were none.                      *)
Attempt(cipe, sh, verification) ==
    [cipe |-> cipe, sh |-> sh, verification |-> verification, class |-> None, failed |-> {"build"},
     verified |-> {}, skipped |-> None, user |-> None, auto |-> None, enabled |-> TRUE]
Fixed(verification) == Attempt("FAILED", "COMPLETED", verification)
MCReports == {
    Attempt("IN_PROGRESS", None, None),
    Attempt("SUCCEEDED", None, None),
    [Attempt("FAILED", None, None) EXCEPT !.failed = {}],
    Attempt("FAILED", "IN_PROGRESS", None),
    [Attempt("FAILED", None, None) EXCEPT !.class = "ENVIRONMENT_STATE"],
    [Attempt("FAILED", None, None) EXCEPT !.skipped = "THROTTLED"],
    [Attempt("FAILED", None, None) EXCEPT !.enabled = FALSE],
    Fixed(None),
    Fixed("COMPLETED"),
    [Fixed("COMPLETED") EXCEPT !.failed = {"e2e"}],
    [Fixed("COMPLETED") EXCEPT !.auto = "could"],
    [Fixed("NOT_STARTED") EXCEPT !.auto = "could"],
    [Fixed("COMPLETED") EXCEPT !.auto = "skipped"] }

Target(p, a, e) == [platform |-> p, arch |-> a, archiveExtension |-> e]
MCtargets == <<Target("linux", "x64", "tar.gz"), Target("linux", "arm64", "tar.gz"),
               Target("win32", "x64", "zip")>>

(* The hosts of the targets, and one that has none. *)
MCHosts == [platform : {"linux", "win32"}, arch : {"x64", "arm64"}]

-----------------------------------------------------------------------------
(* The properties of the package and the scripts; those of the monitor are  *)
(* its module's.                                                            *)
StagedIsOneBuild == Package!StagedIsOneBuild
LaunchesOwnBinary == Package!LaunchesOwnBinary
SuccessIsComplete == Workspace!SuccessIsComplete
=============================================================================
