---------------------------- MODULE Declarations ----------------------------
(***************************************************************************)
(* The options that main declares, and the table CLI11 makes of the        *)
(* declarations before it reads anything.  There are no subcommands, no    *)
(* configuration file, no environment names, no validators and no {value}  *)
(* after a name, so the parts of CLI11 that serve them are not here.       *)
(*                                                                         *)
(* A string is a sequence of symbols: "-", "=", "!", ",", the space and    *)
(* the digits are symbols of their own, and so is any run of other         *)
(* characters that the code never takes apart.                             *)
(***************************************************************************)
EXTENDS Integers, FiniteSets, SequencesExt

(* The calls in their order.  The constructor of App makes the first; each *)
(* of the others binds a variable, whose type chooses the overload.        *)
Switch(variable, letter, negation, default) ==
    [call |-> "add_flag", variable |-> variable, type |-> "bool", default |-> default,
     names |-> <<"-", letter, ",", " ", "!", "-", "-", negation>>]
Declarations ==
    << [call |-> "set_help_flag", variable |-> "help", type |-> "none", default |-> <<>>,
        names |-> <<"-", "h", ",", "-", "-", "help">>],
       [call |-> "add_option", variable |-> "file_name", type |-> "string", default |-> <<"-">>,
        names |-> <<"file_name">>],
       Switch("aig", "a", "no-a", <<"0">>),
       Switch("simplify", "s", "no-s", <<"1">>),
       Switch("unit", "u", "no-u", <<"1">>),
       Switch("flatten", "f", "no-f", <<"0">>),
       Switch("luby_restart", "l", "no-l", <<"0">>),
       Switch("polarities", "p", "no-p", <<"0">>),
       Switch("simple_cut", "c", "no-c", <<"0">>),
       Switch("full", "e", "no-e", <<"1">>),
       [call |-> "add_flag", variable |-> "enumerate", type |-> "bool", default |-> <<"0">>,
        names |-> <<"-", "X", ",", " ", "-", "-", "enumerate">>],
       [call |-> "add_flag", variable |-> "verbose", type |-> "int", default |-> <<"0">>,
        names |-> <<"-", "v">>] >>

-----------------------------------------------------------------------------
(* trim_copy and split_names: the names between the commas. *)
Trim(s) ==
    LET solid == {i \in DOMAIN s : s[i] # " "}
    IN  IF solid = {} THEN <<>> ELSE SubSeq(s, Min(solid), Max(solid))
SplitNames(s) ==
    LET bounds == {i \in 0 .. Len(s) + 1 : i \in DOMAIN s => s[i] = ","}
        after(i) == Min({j \in bounds : j > i})
    IN  {Trim(SubSeq(s, i + 1, after(i) - 1)) : i \in bounds \ {Len(s) + 1}}

(* get_default_flag_values: a name after "!" says the opposite. *)
Bare(name) == SubSeq(name, Min({i \in DOMAIN name : name[i] \notin {"-", "!"}}), Len(name))
FalseNames(s) == {Bare(n) : n \in {m \in SplitNames(s) : m # <<>> /\ m[1] = "!"}}
WithoutMarks(s) == SelectSeq(s, LAMBDA c : c # "!")

(* get_names: one dash makes a short name, two a long one, none a          *)
(* positional.                                                             *)
ValidFirst(c) == c \notin {"-", "=", "!", ",", " "}
ValidLater(c) == ValidFirst(c) \/ c = "-"
ValidName(n) == n # <<>> /\ ValidFirst(n[1]) /\ \A i \in 2 .. Len(n) : ValidLater(n[i])
Dashed(n) == Len(n) > 1 /\ n[1] = "-" /\ n[2] # "-"
DoubleDashed(n) == Len(n) > 2 /\ n[1] = "-" /\ n[2] = "-"
Plain(s) == {n \in SplitNames(s) : n # <<>> /\ ~ Dashed(n) /\ ~ DoubleDashed(n)}
BadNames(s) ==
    \/ \E n \in SplitNames(s) :
        \/ Dashed(n) /\ ~ (Len(n) = 2 /\ ValidFirst(n[2]))
        \/ DoubleDashed(n) /\ ~ ValidName(SubSeq(n, 3, Len(n)))
        \/ n \in {<<"-">>, <<"-", "-">>}
    \/ Cardinality(Plain(s)) > 1

-----------------------------------------------------------------------------
(* OptionBase: what the defaults of the application copy to a new option.  *)
DefaultsOfOption == [required |-> FALSE, multi_option_policy |-> "Throw"]

(* The constructor of Option, with the values its members start with. *)
NewOption(variable, s) ==
    [ variable |-> variable,
      snames |-> {Tail(n) : n \in {m \in SplitNames(s) : Dashed(m)}},
      lnames |-> {SubSeq(n, 3, Len(n)) : n \in {m \in SplitNames(s) : DoubleDashed(m)}},
      pname |-> Plain(s),
      fnames |-> {},
      default_str |-> <<>>,
      type_size |-> 1,
      expected |-> 1,
      flag_like |-> FALSE,
      run_callback_for_default |-> FALSE ] @@ DefaultsOfOption

(* The setters that declarations call. *)
Expected(opt, n) == [opt EXCEPT !.expected = n, !.flag_like = (n = 0)]
TypeSize(opt, n) == [opt EXCEPT !.type_size = n, !.required = @ /\ n # 0]
Policy(opt, p) == [opt EXCEPT !.multi_option_policy = p]
RunCallbackForDefault(opt) == [opt EXCEPT !.run_callback_for_default = TRUE]

(* get_items_expected_min and get_items_expected_max. *)
ItemsExpected(opt) == opt.type_size * opt.expected

(* _add_flag_internal. *)
Flag(variable, s) ==
    LET opt == [NewOption(variable, WithoutMarks(s)) EXCEPT !.fnames = FalseNames(s)]
    IN  [Expected(Policy(opt, "TakeLast"), 0) EXCEPT !.required = FALSE]

(* set_help_flag; add_flag for a counter and for a switch. *)
HelpFlag(d) == Flag(d.variable, d.names)
CountFlag(d) == Policy(Flag(d.variable, d.names), "TakeAll")
SwitchFlag(d) == RunCallbackForDefault(Flag(d.variable, d.names))

(* add_option for a string; the overload for every declaration. *)
OptionFor(d) ==
    CASE d.call = "add_option" ->
            RunCallbackForDefault(Expected(TypeSize(NewOption(d.variable, d.names), 1), 1))
      [] d.call = "add_flag" /\ d.type = "bool" -> SwitchFlag(d)
      [] d.call = "add_flag" /\ d.type = "int" -> CountFlag(d)
      [] d.call = "set_help_flag" -> HelpFlag(d)

(* matching_name: two options that answer to one name; a positional name   *)
(* does not count.                                                         *)
Matching(opt1, opt2) ==
    \/ opt1.snames \cap opt2.snames # {}
    \/ opt1.lnames \cap opt2.lnames # {}

(* A declaration that the library throws at: names that are none, a name   *)
(* that is taken, a flag with a positional name.                           *)
Refused(options, d) ==
    \/ BadNames(IF d.call = "add_option" THEN d.names ELSE WithoutMarks(d.names))
    \/ \E i \in DOMAIN options : Matching(options[i], OptionFor(d))
    \/ d.call # "add_option" /\ OptionFor(d).pname # {}

(* add_option, then default_val. Nothing catches what a declaration        *)
(* throws, so none comes after one that is refused.                        *)
Add(app, d) ==
    IF app.threw \/ Refused(app.options, d)
    THEN [app EXCEPT !.threw = TRUE]
    ELSE [app EXCEPT !.options = Append(@, [OptionFor(d) EXCEPT !.default_str = d.default])]

App == FoldLeft(Add, [options |-> <<>>, threw |-> FALSE], Declarations)
=============================================================================
