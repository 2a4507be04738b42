-------------------------------- MODULE Scripts --------------------------------
(***************************************************************************)
(* The workspace's scripts (tools/scripts): each runs commands one after   *)
(* the other, some of them other scripts, every command with a budget of   *)
(* minutes after which its processes are killed.  A command that fails     *)
(* ends the script, which tells by its exit code.                          *)
(***************************************************************************)
EXTENDS Integers, Sequences, SequencesExt

CONSTANTS
    MaxTime,        \* bound on the minutes of a run
    None

(* No value stands for the exit code of what still runs. *)
ScriptsAssumption == None \notin Int

VARIABLES
    invoked,        \* the script that was called
    stack,          \* the running scripts, outermost first: script, step, since
    exitCode,       \* of the script or command that ended last, None while one runs
    finished,       \* the commands that ended well, in order
    minute

vars == <<invoked, stack, exitCode, finished, minute>>

Command(run, budget) == [run |-> run, budget |-> budget]

(* The commands of each script, with their budgets in minutes. *)
Bootstrap == <<Command("nx sync", 2)>>
Build == <<Command("bootstrap", 1), Command("nx build", 45)>>
Typecheck == <<Command("bootstrap", 1), Command("nx typecheck", 10)>>
Lint == <<Command("eslint", 30), Command("nx lint", 30), Command("storm-lint", 30)>>
Format == <<Command("storm-git readme", 30), Command("nx format", 30),
            Command("nx format:write", 30)>>
Release == <<Command("build", 30), Command("storm-git release", 30)>>
UpdateStorm == <<Command("storm-pnpm update", 30), Command("pnpm dedupe", 30),
                 Command("pnpm update", 30), Command("storm-git prepare", 8)>>
Clean == <<Command("nx clear-cache", 5), Command("rm cache", 5), Command("rm dist", 5)>>
Nuke == <<Command("nx clear-cache", 5), Command("rm cache", 5), Command("rm packages", 5),
          Command("rm tools", 5), Command("rm node_modules", 5)>>

Commands == [bootstrap |-> Bootstrap, build |-> Build, typecheck |-> Typecheck, lint |-> Lint,
             format |-> Format, release |-> Release, update |-> UpdateStorm, clean |-> Clean,
             nuke |-> Nuke]

Scripts == DOMAIN Commands

Top == stack[Len(stack)]
Current(frame) == Commands[frame.script][frame.step]

(* mutant: a failure is printed only *)
CatchCode_Printed(script) == 0

(* Where a script ends that catches a failure: cleaning only prints it.     *)
CatchCode(script) == IF script \in {"clean", "nuke"} THEN 0 ELSE 1

Init ==
    /\ invoked \in Scripts /\ stack = <<[script |-> invoked, step |-> 1, since |-> 0]>>
    /\ exitCode = None /\ finished = <<>> /\ minute = 0

-----------------------------------------------------------------------------

(* The releaser needs --base or --head. *)
NoArguments ==
    /\ invoked = "release" /\ minute = 0 /\ stack # <<>> /\ Top.script = "release" /\ Top.step = 1
    /\ exitCode = None
    /\ stack' = <<>> /\ exitCode' = CatchCode("release")
    /\ UNCHANGED <<invoked, finished, minute>>

(* The command is a script: pnpm starts it. *)
Call ==
    /\ stack # <<>> /\ exitCode = None /\ Current(Top).run \in Scripts
    /\ stack' = Append(stack, [script |-> Current(Top).run, step |-> 1, since |-> minute])
    /\ UNCHANGED <<invoked, exitCode, finished, minute>>

(* Another program ends, well or not. *)
Exits ==
    /\ stack # <<>> /\ exitCode = None /\ Current(Top).run \notin Scripts
    /\ exitCode' \in {0, 1}
    /\ finished' = IF exitCode' = 0 THEN Append(finished, Current(Top).run) ELSE finished
    /\ UNCHANGED <<invoked, stack, minute>>

(* The script goes on to the next command; after the last it exits.         *)
Continue ==
    /\ stack # <<>> /\ exitCode = 0
    /\ IF Top.step < Len(Commands[Top.script])
       THEN /\ stack' = Append(Front(stack), [Top EXCEPT !.step = @ + 1, !.since = minute])
            /\ exitCode' = None
       ELSE stack' = Front(stack) /\ exitCode' = 0
    /\ UNCHANGED <<invoked, finished, minute>>

(* A command that fails makes the script throw and catch. *)
Catch ==
    /\ stack # <<>> /\ exitCode \in Int \ {0}
    /\ exitCode' = CatchCode(Top.script) /\ stack' = Front(stack)
    /\ UNCHANGED <<invoked, finished, minute>>

Late(frame) == minute - frame.since >= Current(frame).budget

(* The budget of a running command is over: all it started is killed, and   *)
(* the script it belongs to sees it fail.                                   *)
BudgetOver == \E n \in DOMAIN stack :
    /\ exitCode = None /\ Late(stack[n])
    /\ stack' = SubSeq(stack, 1, n) /\ exitCode' = 1
    /\ UNCHANGED <<invoked, finished, minute>>

(* Time passes while no budget is over and no script has something to do.   *)
Tick ==
    /\ stack # <<>> /\ exitCode = None /\ Current(Top).run \notin Scripts
    /\ \A n \in DOMAIN stack : ~Late(stack[n])
    /\ minute < MaxTime /\ minute' = minute + 1
    /\ UNCHANGED <<invoked, stack, exitCode, finished>>

Next == NoArguments \/ Call \/ Exits \/ Continue \/ Catch \/ BudgetOver \/ Tick

Spec == Init /\ [][Next]_vars

-----------------------------------------------------------------------------
(* Properties *)

(* The programs a script runs, those of the scripts it calls in their place.*)
Plan[script \in Scripts] ==
    FlattenSeq([n \in DOMAIN Commands[script] |->
        LET run == Commands[script][n].run
        IN  IF run \in Scripts THEN Plan[run] ELSE <<run>>])

(* A script that ends with 0 has done all it says, in order, through every  *)
(* script it called, whatever failed or was killed on the way: nothing is   *)
(* released that was not bootstrapped and built in the same run.  The two   *)
(* scripts that clean promise no such thing (clean.mjs:65, nuke.mjs:97).    *)
SuccessIsComplete ==
    stack = <<>> /\ exitCode = 0 /\ invoked \notin {"clean", "nuke"} => finished = Plan[invoked]
=============================================================================
