-------------------------------- MODULE Lexer --------------------------------
(***************************************************************************)
(* QCIRParser (qcir_parser.cpp) on the characters of a file: a parser by   *)
(* recursive descent that looks at one character, the one under the cursor *)
(* of the StreamBuffer, and calls back with what it has read.              *)
(*                                                                         *)
(* todo is what the functions of the parser that are being executed have   *)
(* still to do.  A function is what it does when it meets a character: a   *)
(* sequence of further calls.  Only the last ones, match_char and the like,*)
(* move the cursor.  Keywords are spelled with their first two letters.    *)
(***************************************************************************)
EXTENDS StreamBuffer, SequencesExt

CONSTANTS
    Texts,     \* the files to read, sequences of bytes
    NDEBUG     \* the build has no assertions (configure without -g)

ASSUME TextsAssumption == Texts \subseteq Seq(Byte)
ASSUME BuildAssumption == NDEBUG \in BOOLEAN

NewLine == {"CR", "LF"}
Blank   == {" "}
Letter  == {"e", "x", "f", "o", "r", "a", "n", "i", "t", "u", "q", "c"}
Capital == [E |-> "e", F |-> "f", O |-> "o", A |-> "a", X |-> "x", I |-> "i", Q |-> "q"]

(* The characters the parser looks for.  None of them is -1, and a byte is *)
(* read as itself unless it is read as -1.                                 *)
Characters ==
    NewLine \cup Blank \cup Letter \cup DOMAIN Capital \cup {"#", "(", ")", ",", "=", "-", "1", "g"}
ASSUME CharactersAssumption ==
    /\ EOF \notin Characters
    /\ \A b \in Byte : Promoted[b] \in {b, EOF}

VARIABLES
    todo,      \* the calls still to be made
    d_varbuf,  \* the name being read
    sign,      \* lit: was there a minus sign
    nls,       \* skip: the lines it has left behind
    d_ln,      \* the line, for error messages
    calls,     \* the callbacks so far
    status     \* "reading", "closed" (cb_file_closed was called), "error"

lexer_vars == <<todo, d_varbuf, sign, nls, d_ln, calls, status>>
vars == <<buffer_vars, lexer_vars>>

-----------------------------------------------------------------------------
Lower(c) == IF c \in DOMAIN Capital THEN Capital[c] ELSE c
IsVarChar(c) == c \in Letter \cup DOMAIN Capital \cup {"1"}

Word ==
    [qcir |-> <<"q", "c">>, exists |-> <<"e", "x">>, forall |-> <<"f", "o">>,
     free |-> <<"f", "r">>, output |-> <<"o", "u">>, and |-> <<"a", "n">>,
     or |-> <<"o", "r">>, xor |-> <<"x", "o">>, ite |-> <<"i", "t">>]

(* The calls a function can be waiting for. *)
Do(f)         == <<f>>
Char(c)       == <<"match_char", c>>
Letters(w)    == <<"match_letters", w>>
CallBack(f)   == <<"cb", f, "">>
Report(f, x)  == <<"cb", f, x>>
CharToken(c)  == <<Do("skip"), Char(c)>>                      \* match_char_token
MatchString(w) == <<Do("skip"), Letters(Word[w])>>            \* match_string

-----------------------------------------------------------------------------
(* The functions: what each of them does at character c. *)
FormatId(c) == IF c = "#" THEN <<Char("#"), Do("header_or_comment")>> ELSE <<>>
HeaderOrComment(c) ==
    IF c = "Q"
    THEN <<Letters(Word.qcir), Do("optional_g"), Letters(<<"1", "1">>), Do("skip_line")>>
    ELSE <<Do("skip_line"), Do("format_id")>>
OptionalG(c) == IF Lower(c) = "g" THEN <<Do("next_char")>> ELSE <<>>
SkipLine(c) ==
    IF c \in NewLine \cup {EOF} THEN <<Do("nlchar")>> ELSE <<Do("next_char"), Do("skip_line")>>

(* qblock_prefix and qblock_quant: only the first block may be free.       *)
NextBlock(first) == <<Do("skip"), <<"qblock_quant", first>>>>
Block(letters, quant) ==
    <<Do("skip"), letters, Report("quant", quant), Do("var_list"), CallBack("quant_closed")>>
        \o NextBlock(FALSE)
QBlockQuant(c, first) ==
    CASE Lower(c) = "e" -> Block(Letters(Word.exists), "exists")
      [] Lower(c) = "f" /\ first -> <<Do("next_char"), Do("free_or_forall")>>
      [] Lower(c) = "f" /\ ~ first -> Block(Letters(Word.forall), "forall")
      [] Lower(c) \notin {"e", "f"} -> <<>>
FreeOrForall(c) ==
    LET quant == IF Lower(c) = "r" THEN "free" ELSE "forall"
    IN  Block(Letters(Tail(Word[quant])), quant)

VarList == CharToken("(") \o <<Do("skip"), Do("vars")>>
Vars(c) ==
    IF c = ")" THEN CharToken(")") \o <<Do("nltoken")>>
    ELSE <<Do("var"), CallBack("var"), Do("skip"), Do("comma"), Do("skip"), Do("vars")>>
Comma(c) == IF c = ")" THEN <<>> ELSE CharToken(",")

OutputStmt ==
    MatchString("output") \o CharToken("(") \o <<Do("lit"), CallBack("output")>>
        \o CharToken(")") \o <<Do("nltoken")>>

Gates(c) ==
    IF c = EOF THEN <<CallBack("file_closed")>>
    ELSE <<Do("gate_stmt"), Do("nltoken"), Do("skip"), Do("gates")>>
GateStmt == <<Do("var"), CallBack("gate")>> \o CharToken("=") \o <<Do("skip"), Do("gate_type")>>
GateType(c) ==
    LET gates == {g \in {"and", "or", "xor", "ite"} : Word[g][1] = Lower(c)}
    IN  IF gates = {} THEN <<Do("err")>>
        ELSE LET g == CHOOSE g \in gates : TRUE
             IN  MatchString(g) \o <<Report("type", g)>> \o CharToken("(") \o <<Do("args")>>
Args(c) ==
    IF c = ")" THEN CharToken(")") \o <<CallBack("gate_closed")>>
    ELSE <<Do("lit"), CallBack("arg"), Do("skip"), Do("optional_comma"), Do("args")>>
OptionalComma(c) == IF c = "," THEN CharToken(",") \o <<Do("skip")>> ELSE <<>>

VarChars(c) == IF IsVarChar(c) THEN <<Do("var_char"), Do("var_chars")>> ELSE <<>>

(* skip passes over blanks, and over comments with the ends of their lines.*)
Skipping(c) ==
    CASE c \in Blank -> <<Do("next_char"), Do("skipping")>>
      [] c = "#" -> <<Do("next_char"), Do("comment")>>
      [] c \notin Blank \cup {"#"} -> <<>>
\* plausible mistake: the end of the file does not end a comment
CommentUnbounded(c) ==
    IF c \in NewLine THEN <<Do("nlchar"), Do("line_skipped"), Do("skipping")>>
    ELSE <<Do("next_char"), Do("comment")>>
Comment(c) ==
    CASE c = EOF -> <<>>
      [] c \in NewLine -> <<Do("nlchar"), Do("line_skipped"), Do("skipping")>>
      [] c \notin NewLine \cup {EOF} -> <<Do("next_char"), Do("comment")>>

\* plausible mistake: whatever follows on the line is passed over
NlTokenEndSloppy(c) == IF nls > 0 \/ c = EOF THEN <<>> ELSE <<Do("skip_line")>>
NlTokenEnd(c) ==
    CASE nls > 0 \/ c = EOF -> <<>>
      [] nls = 0 /\ c \in NewLine -> <<Do("nlchar")>>
      [] nls = 0 /\ c \notin NewLine \cup {EOF} -> <<Do("err")>>
(* nlchar asserts that there is the end of a line.  There is none when     *)
(* skip_line has come to the end of the file: the assertion stops the      *)
(* program, and a build without assertions counts a line all the same.     *)
NlChar(c) ==
    CASE c = "LF" -> <<Do("next_char"), Do("line_read")>>
      [] c = "CR" -> <<Do("next_char"), Do("after_cr"), Do("line_read")>>
      [] c \notin NewLine /\ ~ NDEBUG -> <<Do("err")>>
      [] c \notin NewLine /\ NDEBUG -> <<Do("line_read")>>
\* plausible mistake: CR LF is the end of two lines
AfterCrTwice(c) == IF c = "LF" THEN <<Do("nlchar")>> ELSE <<>>
AfterCr(c) == IF c = "LF" THEN <<Do("next_char")>> ELSE <<>>

(* What call f, with its argument x, does at character c.                  *)
Calls(f, x, c) ==
    CASE f = "qcir_file" -> <<Do("format_id")>> \o NextBlock(TRUE)
                                \o <<Do("output_stmt"), Do("skip"), Do("gates")>>
      [] f = "format_id" -> FormatId(c)
      [] f = "header_or_comment" -> HeaderOrComment(c)
      [] f = "optional_g" -> OptionalG(c)
      [] f = "skip_line" -> SkipLine(c)
      [] f = "qblock_quant" -> QBlockQuant(c, x)
      [] f = "free_or_forall" -> FreeOrForall(c)
      [] f = "var_list" -> VarList
      [] f = "vars" -> Vars(c)
      [] f = "comma" -> Comma(c)
      [] f = "output_stmt" -> OutputStmt
      [] f = "gates" -> Gates(c)
      [] f = "gate_stmt" -> GateStmt
      [] f = "gate_type" -> GateType(c)
      [] f = "args" -> Args(c)
      [] f = "optional_comma" -> OptionalComma(c)
      [] f = "lit" -> <<Do("skip"), Do("sign"), Do("var")>>
      [] f = "var" -> <<Do("skip"), Do("var_start")>>
      [] f = "var_chars" -> VarChars(c)
      [] f = "skipping" -> Skipping(c)
      [] f = "comment" -> Comment(c)
      [] f = "nltoken" -> <<Do("skip"), Do("nltoken_end")>>
      [] f = "nltoken_end" -> NlTokenEnd(c)
      [] f = "nlchar" -> NlChar(c)
      [] f = "after_cr" -> AfterCr(c)

Moving == {"match_char", "match_letters", "next_char", "sign", "var_char"}
Marking == {"skip", "var_start", "line_skipped", "line_read", "cb", "err"}

-----------------------------------------------------------------------------
Init ==
    /\ file \in Texts
    /\ pos = 0
    /\ \E n \in IF Len(file) = 0 THEN {0} ELSE 1 .. Smaller(Chunk, Len(file)) :
        given = n /\ buf = SubSeq(file, 1, n)
    /\ todo = <<Do("qcir_file")>>
    /\ d_varbuf = <<>> /\ sign = FALSE /\ nls = 0 /\ d_ln = 1
    /\ calls = <<>>
    /\ status = "reading"

Running(f) == status = "reading" /\ todo # <<>> /\ Head(todo)[1] = f
Argument == IF Len(Head(todo)) > 1 THEN Head(todo)[2] ELSE ""
Then(next) == todo' = next \o Tail(todo)

(* err() prints where it is and exits. *)
Error ==
    /\ status' = "error"
    /\ UNCHANGED <<buffer_vars, todo, d_varbuf, sign, nls, d_ln, calls>>

Call ==
    /\ status = "reading" /\ todo # <<>>
    /\ Head(todo)[1] \notin Moving \cup Marking
    /\ Then(Calls(Head(todo)[1], Argument, Current))
    /\ UNCHANGED <<buffer_vars, d_varbuf, sign, nls, d_ln, calls, status>>

MatchChar ==
    /\ Running("match_char")
    /\ IF Current # Argument THEN Error
       ELSE /\ Advance /\ Then(<<>>)
            /\ UNCHANGED <<d_varbuf, sign, nls, d_ln, calls, status>>

(* match_string, after its skip: upper case counts as lower case.          *)
MatchLetters ==
    /\ Running("match_letters")
    /\ IF Lower(Current) # Head(Argument) THEN Error
       ELSE /\ Advance
            /\ Then(IF Len(Argument) > 1 THEN <<Letters(Tail(Argument))>> ELSE <<>>)
            /\ UNCHANGED <<d_varbuf, sign, nls, d_ln, calls, status>>

NextChar ==
    /\ Running("next_char")
    /\ Advance /\ Then(<<>>)
    /\ UNCHANGED <<d_varbuf, sign, nls, d_ln, calls, status>>

(* lit *)
Sign ==
    /\ Running("sign")
    /\ sign' = (Current = "-")
    /\ IF Current = "-" THEN Advance ELSE UNCHANGED buffer_vars
    /\ Then(<<>>)
    /\ UNCHANGED <<d_varbuf, nls, d_ln, calls, status>>

(* var: a name has at least one character.                                 *)
VarStart ==
    /\ Running("var_start")
    /\ IF ~ IsVarChar(Current) THEN Error
       ELSE /\ d_varbuf' = <<>>
            /\ Then(<<Do("var_chars")>>)
            /\ UNCHANGED <<buffer_vars, sign, nls, d_ln, calls, status>>
VarChar ==
    /\ Running("var_char")
    /\ d_varbuf' = Append(d_varbuf, Current)
    /\ Advance /\ Then(<<>>)
    /\ UNCHANGED <<sign, nls, d_ln, calls, status>>

Skip ==
    /\ Running("skip")
    /\ nls' = 0
    /\ Then(<<Do("skipping")>>)
    /\ UNCHANGED <<buffer_vars, d_varbuf, sign, d_ln, calls, status>>
LineSkipped ==
    /\ Running("line_skipped")
    /\ nls' = nls + 1
    /\ Then(<<>>)
    /\ UNCHANGED <<buffer_vars, d_varbuf, sign, d_ln, calls, status>>
LineRead ==
    /\ Running("line_read")
    /\ d_ln' = d_ln + 1
    /\ Then(<<>>)
    /\ UNCHANGED <<buffer_vars, d_varbuf, sign, nls, calls, status>>

(* A callback, with the characters it was told about: a keyword stands for *)
(* its type.                                                               *)
\* plausible mistake: the sign of a literal is forgotten
SaidUnsigned(f, x) ==
    CASE f \in {"quant", "type"} -> Word[x]
      [] f \in {"var", "gate", "output", "arg"} -> d_varbuf
      [] f \in {"quant_closed", "gate_closed", "file_closed"} -> <<>>
Said(f, x) ==
    CASE f \in {"quant", "type"} -> Word[x]
      [] f \in {"var", "gate"} -> d_varbuf
      [] f \in {"output", "arg"} -> (IF sign THEN <<"-">> ELSE <<>>) \o d_varbuf
      [] f \in {"quant_closed", "gate_closed", "file_closed"} -> <<>>
Callback ==
    /\ Running("cb")
    /\ LET f == Head(todo)[2]
       IN  /\ calls' = Append(calls, <<f, Said(f, Head(todo)[3])>>)
           /\ status' = IF f = "file_closed" THEN "closed" ELSE status
    /\ Then(<<>>)
    /\ UNCHANGED <<buffer_vars, d_varbuf, sign, nls, d_ln>>

Err == Running("err") /\ Error

Finished == status # "reading" /\ UNCHANGED vars

Next ==
    \/ Call \/ MatchChar \/ MatchLetters \/ NextChar \/ Sign \/ VarStart \/ VarChar
    \/ Skip \/ LineSkipped \/ LineRead \/ Callback \/ Err \/ Finished

(* One thread, and gzread returns. *)
Fairness == WF_vars(Next)
Spec == Init /\ [][Next]_vars
FairSpec == Spec /\ Fairness

-----------------------------------------------------------------------------
(* Nothing in a file is passed over in silence: when a file is accepted,   *)
(* what was called back is the whole of its text, but for blanks, comments,*)
(* ends of lines and commas (which the parser takes as it finds them).     *)
(* Not so when a byte reads as EOF: the file seems to end there.           *)
Commented(text, i) ==
    \E j \in 1 .. i : text[j] = "#" /\ \A k \in j .. i : text[k] \notin NewLine
StrippedTo(text) ==
    LET upto[n \in 0 .. Len(text)] ==
            IF n = 0 THEN <<>>
            ELSE IF Commented(text, n) \/ text[n] \in NewLine \cup Blank \cup {","} THEN upto[n - 1]
            ELSE Append(upto[n - 1], Lower(text[n]))
    IN  upto
Stripped(text) == StrippedTo(text)[Len(text)]
Unparsed(call) ==
    CASE call[1] \in {"quant", "type"} -> call[2] \o <<"(">>
      [] call[1] = "output" -> Word.output \o <<"(">> \o call[2] \o <<")">>
      [] call[1] = "gate" -> call[2] \o <<"=">>
      [] call[1] \in {"quant_closed", "gate_closed"} -> <<")">>
      [] call[1] \in {"var", "arg", "file_closed"} -> call[2]
NothingLost ==
    status = "closed" /\ (\A i \in DOMAIN file : Promoted[file[i]] # EOF) =>
        Stripped(file) = Stripped(FlattenSeq([i \in DOMAIN calls |-> Unparsed(calls[i])]))

(* An error message names the line the parser is in, whatever ends lines   *)
(* (LF, CR or both) and wherever they were left behind.  There is one      *)
(* exception: in a build without assertions the line is one too high when  *)
(* the file ends in a comment before it has said anything.                 *)
LinesBefore(n) ==
    Cardinality({i \in 1 .. n :
        file[i] \in NewLine /\ ~ (file[i] = "LF" /\ i > 1 /\ file[i - 1] = "CR")})
OnlyComment == NDEBUG /\ calls = <<>> /\ Current = EOF /\ Commented(file, Passed)
InNlChar == todo # <<>> /\ Head(todo)[1] \in {"after_cr", "line_read"}
LineRight ==
    ~ InNlChar /\ ~ (todo # <<>> /\ Tail(todo) # <<>> /\ Head(Tail(todo)) = Do("line_read"))
        => \/ d_ln = 1 + LinesBefore(Passed)
           \/ OnlyComment /\ d_ln = 2 + LinesBefore(Passed)

(* Whatever the file, the parser comes to its end or to an error.          *)
Termination == <>(status # "reading")
=============================================================================
