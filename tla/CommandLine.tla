---------------------------- MODULE CommandLine ----------------------------
(***************************************************************************)
(* How the program reads its command line: CLI11 with the options that     *)
(* main declares (Declarations).                                           *)
(***************************************************************************)
EXTENDS Declarations

CONSTANTS
    Args,      \* the arguments that command lines are made of
    MaxArgs    \* a bound: arguments on a command line

-----------------------------------------------------------------------------
VARIABLES
    option,           \* the options of the application, by the variable they set
    argv,             \* the command line; never changes
    args,             \* the arguments still to read, the next one first
    positional_only,  \* a "--" was read
    results,          \* the values every option was given
    missing,          \* the arguments no option took, with their class
    options,          \* the variables of the program
    status,           \* "parsing", "running" (main goes on) or "exited"
    code              \* the exit code

vars == <<option, argv, args, positional_only, results, missing, options, status, code>>

Options == DOMAIN option
Switches == {o \in Options : option[o].run_callback_for_default /\ ItemsExpected(option[o]) = 0}
Negated(o) == option[o].fnames
ShortNames(o) == option[o].snames
LongNames(o) == option[o].lnames

(* check_name and get_option_no_throw: the options of a name that is given *)
(* with its dashes.                                                        *)
CheckName(opt, name) ==
    CASE DoubleDashed(name) -> SubSeq(name, 3, Len(name)) \in opt.lnames
      [] ~ DoubleDashed(name) /\ Len(name) > 1 /\ name[1] = "-" -> Tail(name) \in opt.snames
      [] OTHER -> name \in opt.pname
Called(name) == {o \in Options : CheckName(option[o], name)}

Digits == {"0", "1", "3"}

(* split_short and split_long: whether the argument is one, its name and   *)
(* what comes after the name.                                              *)
IsShort(s) == Len(s) > 1 /\ s[1] = "-" /\ ValidFirst(s[2])
IsLong(s) == Len(s) > 2 /\ s[1] = "-" /\ s[2] = "-" /\ ValidFirst(s[3])
ShortName(s) == <<s[2]>>
Rest(s) == SubSeq(s, 3, Len(s))
Before(s) == CHOOSE k \in 2 .. Len(s) :
                /\ \A i \in 3 .. k : s[i] # "="
                /\ k < Len(s) => s[k + 1] = "="
LongName(s) == SubSeq(s, 3, Before(s))
Value(s) == SubSeq(s, Before(s) + 2, Len(s))

(* _recognize. A digit after the dash is a negative number, not a name,    *)
(* unless there is an option of that name.                                 *)
Recognize(s) ==
    CASE s = <<"-", "-">> -> "POSITIONAL_MARK"
      [] IsLong(s) -> "LONG"
      [] IsShort(s) /\ (s[2] \in Digits => Called(<<"-", s[2]>>) # {}) -> "SHORT"
      [] OTHER -> "NONE"

-----------------------------------------------------------------------------
(* to_flag_value: the number a flag's value stands for; no number at all;  *)
(* a number that 64 bits cannot hold, which stoll throws out_of_range for. *)
Numbers ==
    [v \in {<<"true">>, <<"1">>} |-> 1] @@ [v \in {<<"false">>, <<"0">>, <<"-">>, <<"-", "1">>} |-> -1]
        @@ (<<"3">> :> 3) @@ (<<"-", "3">> :> -3) @@ (<<"0", "0">> :> 0)
TooBig(v) == v \in {<<"huge">>, <<"-", "huge">>}
FlagValue(v) == Numbers[v]
Invalid(v) == v \notin DOMAIN Numbers /\ ~ TooBig(v)
NumberString(n) ==
    CASE n = 0 -> <<"0">> [] n = 3 -> <<"3">> [] n = -3 -> <<"-", "3">>

(* get_flag_value: no value and {} are the name's own; a negated name      *)
(* turns any other value round.                                            *)
EmptyValue(v) == v \in {<<>>, <<"{}">>}
GetFlagValue(o, name, v) ==
    CASE EmptyValue(v) -> IF name \in Negated(o) THEN <<"false">> ELSE <<"true">>
      [] ~ EmptyValue(v) /\ (name \notin Negated(o) \/ Invalid(v)) -> v
      [] ~ EmptyValue(v) /\ name \in Negated(o) /\ ~ Invalid(v) ->
            CASE FlagValue(v) = 1 -> <<"false">>
              [] FlagValue(v) = -1 -> <<"true">>
              [] FlagValue(v) \notin {1, -1} -> NumberString(- FlagValue(v))

(* The callbacks of add_option and add_flag: conversion to the variable.   *)
Convertible(o, res) ==
    /\ o \in Switches => ~ Invalid(res[1])
    /\ o = "verbose" => \A i \in DOMAIN res : ~ Invalid(res[i])
BoolOf(v) == IF TooBig(v) THEN v[1] # "-" ELSE FlagValue(v) > 0
Sum(res) == FoldLeft(LAMBDA n, v : n + FlagValue(v), 0, res)
Convert(o, res) ==
    CASE o \in Switches -> BoolOf(res[1])
      [] o = "verbose" -> Sum(res)
      [] o \notin Switches \cup {"verbose"} -> res[1]

(* _reduce_results. *)
Reduce(o, res) ==
    LET trim_size == Max({ItemsExpected(option[o]), 1})
    IN  CASE option[o].multi_option_policy \in {"TakeAll", "Throw"} -> res
          [] option[o].multi_option_policy = "TakeLast" ->
                SubSeq(res, Max({Len(res) - trim_size + 1, 1}), Len(res))

(* default_val runs the callback on the default, except for a counter,     *)
(* which add_flag has set to zero.                                         *)
Default(o) ==
    IF option[o].run_callback_for_default THEN Convert(o, Reduce(o, <<option[o].default_str>>)) ELSE 0

-----------------------------------------------------------------------------
Success == 0
ConversionError == 104
RequiredError == 106
ExtrasError == 109
InvalidError == 111

(* _validate: two positionals that take all there is, neither required. *)
Unlimited == 2 ^ 29
Greedy == {o \in Options : ItemsExpected(option[o]) >= Unlimited /\ ShortNames(o) \cup LongNames(o) = {}}
Infeasible == Cardinality(Greedy) > 1 /\ Cardinality({o \in Greedy : ~ option[o].required}) > 1

(* The table that the declarations have filled, by variable. *)
TableOf(declared) ==
    [o \in {opt.variable : opt \in Range(declared)} |->
        CHOOSE opt \in Range(declared) : opt.variable = o]

Init ==
    /\ option = TableOf(App.options)
    /\ argv \in SeqOf(Args, MaxArgs)
    /\ args = argv
    /\ positional_only = FALSE
    /\ results = [o \in Options |-> <<>>]
    /\ missing = <<>>
    /\ options = [o \in Options \ {"help"} |-> Default(o)]
    /\ status = IF App.threw \/ Infeasible THEN "exited" ELSE "parsing"
    /\ code = IF ~ App.threw /\ Infeasible THEN InvalidError ELSE 0

Exit(c) == status' = "exited" /\ code' = c

Classifier == IF positional_only THEN "NONE" ELSE Recognize(Head(args))
Reading(class) == status = "parsing" /\ args # <<>> /\ Classifier = class

(* The option of that name, if there is one. *)
Taking(class, name) ==
    {o \in Options : name \in (IF class = "LONG" THEN LongNames(o) ELSE ShortNames(o))}

AddResult(o, v) == results' = [results EXCEPT ![o] = Append(@, v)]
MoveToMissing(class, s) == missing' = Append(missing, <<class, s>>)

(* Everything after "--" is positional. *)
PositionalMark ==
    /\ Reading("POSITIONAL_MARK")
    /\ args' = Tail(args)
    /\ positional_only' = TRUE
    /\ MoveToMissing("POSITIONAL_MARK", Head(args))
    /\ UNCHANGED <<option, argv, results, options, status, code>>

(* Plausible mistake: an argument of no option stays where it is.          *)
UnknownStays(class, s) == UNCHANGED <<args, results, missing>>

(* _parse_arg, an option not found: the whole argument is left over. *)
Unknown(class, s) ==
    /\ MoveToMissing(class, s)
    /\ args' = Tail(args)
    /\ UNCHANGED results

(* _parse_arg for a long name. The value of a negated name is converted at *)
(* once; a number out of range is not caught anywhere: terminate raises    *)
(* SIGABRT, and the handler of main exits with 0.                          *)
ParseLong ==
    /\ Reading("LONG")
    /\ LET s == Head(args)
           taking == Taking("LONG", LongName(s))
       IN  \/ /\ taking = {}
              /\ Unknown("LONG", s)
              /\ UNCHANGED <<status, code>>
           \/ \E o \in taking :
                IF LongName(s) \in Negated(o) /\ TooBig(Value(s))
                THEN /\ Exit(0)
                     /\ args' = Tail(args)
                     /\ UNCHANGED <<results, missing>>
                ELSE /\ AddResult(o, GetFlagValue(o, LongName(s), Value(s)))
                     /\ args' = Tail(args)
                     /\ UNCHANGED <<missing, status, code>>
    /\ UNCHANGED <<option, argv, positional_only, options>>

(* Plausible mistake: what follows the letter is dropped.                  *)
PushRestNever(s) == Tail(args)

(* What follows the letter is an argument again, behind a dash of its own. *)
PushRest(s) == IF Rest(s) = <<>> THEN Tail(args) ELSE <<<<"-">> \o Rest(s)>> \o Tail(args)

(* _parse_arg for a short name: a flag takes no value. *)
ParseShort ==
    /\ Reading("SHORT")
    /\ LET s == Head(args)
           taking == Taking("SHORT", ShortName(s))
       IN  \/ /\ taking = {}
              /\ Unknown("SHORT", s)
           \/ \E o \in taking :
                /\ AddResult(o, GetFlagValue(o, ShortName(s), <<>>))
                /\ args' = PushRest(s)
                /\ UNCHANGED missing
    /\ UNCHANGED <<option, argv, positional_only, options, status, code>>

(* _parse_positional: the first positional is the file name. *)
ParsePositional ==
    /\ Reading("NONE")
    /\ args' = Tail(args)
    /\ LET free == {o \in Options : option[o].pname # {} /\ Len(results[o]) < ItemsExpected(option[o])}
       IN  \/ /\ free = {}
              /\ MoveToMissing("NONE", Head(args)) /\ UNCHANGED results
           \/ \E o \in free : AddResult(o, Head(args)) /\ UNCHANGED missing
    /\ UNCHANGED <<option, argv, positional_only, options, status, code>>

Given == {o \in Options : results[o] # <<>>}

(* Plausible mistake: the mark is left over as well.                       *)
LeftOverWithMark == missing # <<>>

(* remaining_size: the mark is nothing to complain about. *)
LeftOver == \E i \in DOMAIN missing : missing[i][1] # "POSITIONAL_MARK"

(* The callbacks of the options that were given; the first that fails ends *)
(* the program, so that it does not matter which of the others have run.   *)
CallbackFails == \E o \in Given : ~ Convertible(o, Reduce(o, results[o]))
Callbacks ==
    options' = [o \in DOMAIN options |->
        IF o \in Given THEN Convert(o, Reduce(o, results[o])) ELSE options[o]]
CallForHelp == "help" \in Given

(* _process_requirements. *)
Unmet == \E o \in Options : option[o].required /\ results[o] = <<>>

(* _process and _process_extras: the callbacks first, then a call for      *)
(* help, then what is required and what was left over.                     *)
Process ==
    /\ status = "parsing" /\ args = <<>>
    /\ \/ CallbackFails /\ Exit(ConversionError) /\ UNCHANGED options
       \/ ~ CallbackFails /\ Callbacks /\ CallForHelp /\ Exit(Success)
       \/ /\ ~ CallbackFails /\ Callbacks /\ ~ CallForHelp /\ (Unmet \/ LeftOver)
          /\ Exit(IF Unmet THEN RequiredError ELSE ExtrasError)
       \/ /\ ~ CallbackFails /\ Callbacks /\ ~ CallForHelp /\ ~ Unmet /\ ~ LeftOver
          /\ status' = "running" /\ UNCHANGED code
    /\ UNCHANGED <<option, argv, args, positional_only, results, missing>>

Next == PositionalMark \/ ParseLong \/ ParseShort \/ ParsePositional \/ Process

Spec == Init /\ [][Next]_vars
=============================================================================
