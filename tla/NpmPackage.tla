------------------------------ MODULE NpmPackage ------------------------------
(***************************************************************************)
(* The npm package: stage.mjs puts one binary per platform, taken out of   *)
(* the archives of a build, into a directory; the release workflow stages  *)
(* and publishes it under the tag's version; launch.mjs runs the installed *)
(* binary of the host.  A staging may end at any step, and the directories *)
(* it works in may be those of an earlier one.                             *)
(***************************************************************************)
EXTENDS Integers, Sequences, SequencesExt

CONSTANTS
    targets,            \* sequence of [platform, arch, archiveExtension]
    Hosts,              \* set of [platform, arch]
    MaxVersion, MaxJobs,\* bounds
    None

VARIABLES
    VERSION,            \* cmd/mindctl/VERSION
    dist,               \* the last build: version, and the archive of each target
    commands,           \* the extractors installed
    job, jobs,          \* the staging under way, and how many there were
    out,                \* the directory staged into: manifest's version, payloads
    published,          \* version -> what the registry has of it
    launched            \* the last start of an installed package

vars == <<VERSION, dist, commands, job, jobs, out, published, launched>>

Targets == ToSet(targets)
Versions == 1 .. MaxVersion

(* What is written for a target: the file of a build. *)
Payload == [target : Targets, artifact : Versions, content : {"binary"},
            mode : {"plain", "executable"}]

(* There are targets, and no value stands for its absence. *)
NpmPackageAssumption ==
    /\ targets \in Seq(Targets) /\ targets # <<>>
    /\ MaxVersion \in Nat \ {0} /\ MaxJobs \in Nat
    /\ None \notin Targets /\ None \notin Versions /\ None \notin Payload

EmptyOut == [manifest |-> None, payloads |-> [t \in Targets |-> None]]
NoJob == [pc |-> "idle", release |-> FALSE, version |-> None, artifact |-> None, n |-> 1]

(* An archive may be missing, lack the executable, or hold an empty one.    *)
Archives == {"missing", "bare", "empty", "binary"}

Init ==
    /\ VERSION = 1 /\ jobs = 0 /\ launched = None
    /\ dist = [version |-> None, archives |-> [t \in Targets |-> "missing"]]
    /\ commands \in SUBSET {"tar", "unzip", "bsdtar"}
    /\ job = NoJob /\ out = EmptyOut /\ published = [v \in Versions |-> None]

-----------------------------------------------------------------------------
(* The build and the release, outside src's JavaScript but for the version. *)

(* tools/release/go-version-actions.cjs: nx release writes the next version.*)
UpdateProjectVersion ==
    /\ VERSION < MaxVersion /\ VERSION' = VERSION + 1
    /\ UNCHANGED <<dist, commands, job, jobs, out, published, launched>>

(* goreleaser release --clean, for a tag or as a snapshot. *)
Build ==
    /\ job.pc = "idle" /\ jobs < MaxJobs
    /\ dist' \in [version : Versions, archives : [Targets -> Archives]]
    /\ UNCHANGED <<VERSION, commands, job, jobs, out, published, launched>>

-----------------------------------------------------------------------------
(* stage.mjs *)

Extractors(t) == IF t.archiveExtension = "zip" THEN <<"unzip", "bsdtar">> ELSE <<"tar">>

(* mutant: an empty member is an executable *)
AssertExecutable_Any(content) == content # "bare"

AssertExecutable(content) == content = "binary"

ExtractExecutable(t) ==
    /\ \E command \in ToSet(Extractors(t)) : command \in commands
    /\ AssertExecutable(dist.archives[t])

(* For the release the tag is the version of the package and of the build,  *)
(* and the one of the VERSION file; a snapshot keeps the build's.           *)
Begin(release) ==
    /\ job.pc = "idle" /\ jobs < MaxJobs /\ jobs' = jobs + 1
    /\ dist.version # None /\ (release => dist.version = VERSION)
    /\ \A t \in Targets : dist.archives[t] # "missing"
    /\ job' = [pc |-> "remove", release |-> release, version |-> VERSION,
               artifact |-> dist.version, n |-> 1]
    /\ UNCHANGED <<VERSION, dist, commands, out, published, launched>>

(* mutant: stages over what is there *)
RemoveOut_Keeps ==
    /\ job.pc = "remove" /\ job' = [job EXCEPT !.pc = "copy"]
    /\ UNCHANGED <<VERSION, dist, commands, jobs, out, published, launched>>

RemoveOut ==
    /\ job.pc = "remove" /\ job' = [job EXCEPT !.pc = "copy"]
    /\ out' = EmptyOut
    /\ UNCHANGED <<VERSION, dist, commands, jobs, published, launched>>

CopyPublishFiles ==
    /\ job.pc = "copy" /\ job' = [job EXCEPT !.pc = "extract"]
    /\ out' = [out EXCEPT !.manifest = job.version]
    /\ UNCHANGED <<VERSION, dist, commands, jobs, published, launched>>

(* A payload that is not for Windows is made executable. *)
WritePayload ==
    LET t == targets[job.n]
    IN  /\ job.pc = "extract" /\ ExtractExecutable(t)
        /\ out' = [out EXCEPT !.payloads[t] =
               [target |-> t, artifact |-> job.artifact, content |-> dist.archives[t],
                mode |-> IF t.platform = "win32" THEN "plain" ELSE "executable"]]
        /\ job' = [job EXCEPT !.n = @ + 1, !.pc = IF job.n = Len(targets) THEN "staged" ELSE @]
        /\ UNCHANGED <<VERSION, dist, commands, jobs, published, launched>>

(* The staging throws, is killed, or the job with it: what is staged stays. *)
Fail ==
    /\ job.pc \in {"remove", "copy", "extract", "staged"} /\ job' = NoJob
    /\ UNCHANGED <<VERSION, dist, commands, jobs, out, published, launched>>

(* npm publish: a version is published once. *)
Publish ==
    /\ job.pc = "staged" /\ job.release /\ published[out.manifest] = None
    /\ published' = [published EXCEPT ![out.manifest] = out.payloads]
    /\ job' = NoJob
    /\ UNCHANGED <<VERSION, dist, commands, jobs, out, launched>>

-----------------------------------------------------------------------------
(* launch.mjs *)

(* The first of a set of positions, if there is one. *)
FirstTarget(fits) == IF fits = {} THEN None ELSE targets[CHOOSE n \in fits : \A k \in fits : n <= k]

(* mutant: any binary of the platform *)
FindTarget_Platform(host) == FirstTarget({n \in DOMAIN targets : targets[n].platform = host.platform})

FindTarget(host) ==
    FirstTarget({n \in DOMAIN targets :
        targets[n].platform = host.platform /\ targets[n].arch = host.arch})

(* A file the host can execute runs, and ends with a code or by a signal,   *)
(* which counts as failed; another cannot be run.                           *)
Spawned(payload) ==
    IF payload # None /\ (payload.mode = "executable" \/ payload.target.platform = "win32")
    THEN [ran : {payload}, code : {0, 1}] ELSE [ran : {None}, code : {1}]

LaunchMindctl(host, version) ==
    /\ published[version] # None
    /\ \E result \in IF FindTarget(host) = None THEN Spawned(None)
                      ELSE Spawned(published[version][FindTarget(host)]) :
          launched' = [host |-> host, version |-> version, ran |-> result.ran, code |-> result.code]
    /\ UNCHANGED <<VERSION, dist, commands, job, jobs, out, published>>

Next ==
    \/ UpdateProjectVersion \/ Build
    \/ \E release \in BOOLEAN : Begin(release)
    \/ RemoveOut \/ CopyPublishFiles \/ WritePayload \/ Fail \/ Publish
    \/ \E host \in Hosts, version \in Versions : LaunchMindctl(host, version)

Spec == Init /\ [][Next]_vars

-----------------------------------------------------------------------------
(* Properties *)

(* The staged directory never mixes two builds, wherever a staging ended and*)
(* whatever was staged there before (stagePackage, stage.mjs:119-132).      *)
StagedIsOneBuild ==
    \A s, t \in Targets : out.payloads[s] # None /\ out.payloads[t] # None =>
        out.payloads[s].artifact = out.payloads[t].artifact

(* Who installed a published version on a supported host runs the host's own*)
(* binary, built as that version, and not an empty file; on another host    *)
(* nothing runs and the launcher fails (stagePackage, launchMindctl).       *)
LaunchesOwnBinary ==
    launched # None =>
        IF \E t \in Targets : t.platform = launched.host.platform /\ t.arch = launched.host.arch
        THEN /\ launched.ran # None /\ launched.ran.artifact = launched.version
             /\ launched.ran.content = "binary"
             /\ launched.ran.target.platform = launched.host.platform
             /\ launched.ran.target.arch = launched.host.arch
        ELSE launched.ran = None /\ launched.code = 1
=============================================================================
