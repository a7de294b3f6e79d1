-------------------------------- MODULE Main --------------------------------
(***************************************************************************)
(* The program from its arguments to its exit code (main.cpp): the command *)
(* line (CommandLine), then the file, the solver and the answer, with the  *)
(* signal handler at any moment between.  What the reader and the solver   *)
(* do inside is the subject of Lexer, Parser and ZigZag; here they give    *)
(* any of their results.                                                   *)
(***************************************************************************)
EXTENDS CommandLine

CONSTANTS MaxModels      \* a bound: solutions that enumeration finds

ASSUME ModelsAssumption == MaxModels \in Nat \ {0}

VARIABLES
    phase,      \* what main does next
    free,       \* the formula has free variables
    ps,         \* the solver exists
    count,      \* solve_all: the solutions found; solve: 1 or 0
    printed,    \* the answers of the lines "s cnf" on the output
    signalled   \* the handler has run

main_vars == <<phase, free, ps, count, printed, signalled>>
all_vars == <<vars, main_vars>>

ExitFailure == 1
ErrorInFile == 100

MainInit ==
    /\ Init
    /\ phase = "open" /\ free = FALSE /\ ps = FALSE
    /\ count = 0 /\ printed = {} /\ signalled = FALSE

ReadArguments ==
    /\ Next
    /\ UNCHANGED main_vars

At(p) == status = "running" /\ phase = p
Goto(p) == phase' = p /\ UNCHANGED <<status, code>>
Leave(c) == Exit(c) /\ UNCHANGED phase
MainStep == UNCHANGED <<option, argv, args, positional_only, results, missing, options, signalled>>

(* The file, or standard input, can be opened or not. *)
OpenFile ==
    /\ At("open")
    /\ Goto("parse") \/ Leave(ExitFailure)
    /\ UNCHANGED <<free, ps, count, printed>> /\ MainStep

(* Plausible mistake: the check on free variables is forgotten.            *)
ParseFileUnchecked ==
    /\ At("parse")
    /\ \/ Leave(ErrorInFile) /\ UNCHANGED free
       \/ free' \in BOOLEAN /\ Goto("solver")
    /\ UNCHANGED <<ps, count, printed>> /\ MainStep

(* parse ends with a formula or with an error in the file.  Free variables *)
(* are for enumeration only.                                               *)
ParseFile ==
    /\ At("parse")
    /\ \/ Leave(ErrorInFile) /\ UNCHANGED free
       \/ /\ free' \in BOOLEAN
          /\ IF ~ options.enumerate /\ free' THEN Leave(ExitFailure) ELSE Goto("solver")
    /\ UNCHANGED <<ps, count, printed>> /\ MainStep

MakeSolver ==
    /\ At("solver")
    /\ ps' = TRUE
    /\ Goto("solve")
    /\ UNCHANGED <<free, count, printed>> /\ MainStep

Solve ==
    /\ At("solve")
    /\ count' \in 0 .. (IF options.enumerate THEN MaxModels ELSE 1)
    /\ Goto("report")
    /\ UNCHANGED <<free, ps, printed>> /\ MainStep

Report ==
    /\ At("report")
    /\ printed' = printed \cup {count > 0}
    /\ Goto("exit")
    /\ UNCHANGED <<free, ps, count>> /\ MainStep

Finish ==
    /\ At("exit")
    /\ Leave(IF count > 0 THEN 10 ELSE 20)
    /\ UNCHANGED <<free, ps, count, printed>> /\ MainStep

(* SIG_handler, for signals from outside and for a failed assertion, which *)
(* raises SIGABRT: it prints what it can and exits with 0.                 *)
SignalHandler ==
    /\ status # "exited"
    /\ Exit(0)
    /\ signalled' = TRUE
    /\ UNCHANGED <<option, argv, args, positional_only, results, missing, options,
                   phase, free, ps, count, printed>>

Exited == status = "exited" /\ UNCHANGED all_vars

Work ==
    ReadArguments \/ OpenFile \/ ParseFile \/ MakeSolver \/ Solve \/ Report \/ Finish

MainNext == Work \/ SignalHandler \/ Exited

MainSpec == MainInit /\ [][MainNext]_all_vars

(* One thread that goes on as long as it can; the solver comes to an end   *)
(* (ZigZag).  No signal need ever come.                                    *)
FairMainSpec == MainSpec /\ WF_all_vars(Work)
=============================================================================
