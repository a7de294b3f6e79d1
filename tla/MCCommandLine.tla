--------------------------- MODULE MCCommandLine ---------------------------
(* Command lines for CommandLine, and a reading of them that is not a      *)
(* parser: every argument taken apart by itself, then the options looked   *)
(* up among all the parts.                                                 *)
EXTENDS Main

Arguments ==
    { <<"-", "a">>, <<"-", "v", "X", "a">>, <<"-", "a", "q", "h">>,
      <<"-", "s", "1">>, <<"-", "a", "=", "0">>, <<"-", "a", "-">>, <<"-", "X", "-", "no-a">>,
      <<"-", "-", "no-a">>, <<"-", "-", "no-a", "=", "false">>,
      <<"-", "-", "no-a", "=", "3">>, <<"-", "-", "no-a", "=", "0", "0">>,
      <<"-", "-", "no-a", "=", "junk">>, <<"-", "-", "no-a", "=", "huge">>,
      <<"-", "-", "enumerate", "=", "junk">>, <<"-", "-", "enumerate", "=", "-", "huge">>,
      <<"-", "-", "enumerate", "=">>, <<"-", "-", "v">>,
      <<"-", "-", "enumerate", "=", "{}">>, <<"-", "-", "no-a", "=", "{}">>,
      <<"-", "-", "help", "=", "0">>, <<"-", "-">>, <<"-">>, <<>>, <<"file">> }

-----------------------------------------------------------------------------
IsLetter(c) == \E o \in Options : <<c>> \in ShortNames(o)

(* A cluster of short names as one part each, and what follows the last    *)
(* letter that is a name; any other argument is one part.                  *)
Letters(s) ==
    CHOOSE k \in 0 .. Len(s) - 1 :
        /\ \A i \in 2 .. k + 1 : IsLetter(s[i])
        /\ k + 2 <= Len(s) => ~ IsLetter(s[k + 2])
Parts(s) ==
    IF ~ IsShort(s) THEN <<s>>
    ELSE LET k == Letters(s)
             rest == SubSeq(s, k + 2, Len(s))
         IN  [i \in 1 .. k |-> <<"-", s[i + 1]>>] \o (IF rest = <<>> THEN <<>> ELSE <<<<"-">> \o rest>>)

(* The argument that ends the options. *)
Mark == LET marks == {i \in DOMAIN argv : Last(Parts(argv[i])) = <<"-", "-">>}
        IN  IF marks = {} THEN Len(argv) + 1 ELSE Min(marks)

AllParts == FlattenSeq([i \in DOMAIN argv |-> IF i <= Mark THEN Parts(argv[i]) ELSE <<>>])
IsWord(s) == ~ IsLong(s) /\ s # <<"-", "-">> /\ (IsShort(s) => s[2] \in Digits)
Words == SelectSeq(AllParts, IsWord) \o SubSeq(argv, Mark + 1, Len(argv))

Says(s, o) ==
    \/ IsShort(s) /\ ShortName(s) \in ShortNames(o)
    \/ IsLong(s) /\ LongName(s) \in LongNames(o)
Said(o) == SelectSeq(AllParts, LAMBDA s : Says(s, o))

Reversed(s) == IsLong(s) /\ \E o \in Options : LongName(s) \in Negated(o)
ValueOf(s) == IF IsLong(s) THEN Value(s) ELSE <<>>
(* A number means true when it is positive; after a negated name, when it  *)
(* is negative.  No value, or {}, is the number one.                       *)
Means(s) ==
    LET n == IF ValueOf(s) \in {<<>>, <<"{}">>} THEN 1 ELSE FlagValue(ValueOf(s))
    IN  IF TooBig(ValueOf(s)) THEN ValueOf(s)[1] # "-" ELSE IF Reversed(s) THEN n < 0 ELSE n > 0

(* When the program runs, its options are what the command line says: the  *)
(* last switch of an option counts, however the switches are bundled and   *)
(* wherever they stand before "--", an option nobody mentions keeps its    *)
(* default, and the only word is the file (main.cpp:57-98).                *)
OptionsAsSaid ==
    status = "running" /\ phase = "open" =>
        /\ \A o \in Switches :
            options[o] = IF Said(o) = <<>> THEN o \in {"simplify", "unit", "full"} ELSE Means(Last(Said(o)))
        /\ options.verbose = Len(Said("verbose"))
        /\ options.file_name = IF Words = <<>> THEN <<"-">> ELSE Words[1]

(* The outcome is the one the command line calls for.  A value that is     *)
(* none matters only where it is the last word on its option and comes     *)
(* before a call for help, which comes before words or names nobody knows; *)
(* a value too big for a negated name ends the program as if it had        *)
(* succeeded, whatever else is said.                                       *)
Crashes == \E s \in Range(AllParts) : Reversed(s) /\ TooBig(ValueOf(s))
BadValue ==
    \E o \in Switches :
        LET v == ValueOf(Last(Said(o)))
        IN  Said(o) # <<>> /\ v \notin {<<>>, <<"{}">>} /\ Invalid(v)
Strangers ==
    \E s \in Range(AllParts) :
        ~ IsWord(s) /\ s # <<"-", "-">> /\ \A o \in Options : ~ Says(s, o)
Codes ==
    CASE Crashes -> {0}
      [] ~ Crashes /\ BadValue -> {ConversionError}
      [] ~ Crashes /\ ~ BadValue /\ Said("help") # <<>> -> {Success}
      [] ~ Crashes /\ ~ BadValue /\ Said("help") = <<>> ->
            IF Strangers \/ Len(Words) > 1 THEN {ExtrasError}
            ELSE {ExitFailure, ErrorInFile, 10, 20}
OutcomeAsSaid == status = "exited" /\ ~ signalled => code \in Codes

(* The exit code can be trusted: 10 and 20 are for an answer that was      *)
(* printed and is the one the solver found, for a file whose free          *)
(* variables, if it has any, were asked to be enumerated; a signal, which  *)
(* may come after the answer, and a failed assertion leave with 0, as help *)
(* does (main.cpp:109-153).                                                *)
ExitCodeTells ==
    status = "exited" =>
        /\ code \in {10, 20} <=> phase = "exit" /\ ~ signalled
        /\ code \in {10, 20} =>
            /\ printed = {code = 10} /\ printed = {count > 0}
            /\ free => Said("enumerate") # <<>> /\ Means(Last(Said("enumerate")))

(* The program comes to an end: reading the command line does, because an  *)
(* argument that is put back is shorter, and then main does.               *)
Termination == <>(status = "exited")
=============================================================================
