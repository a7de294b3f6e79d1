------------------------------ MODULE MCLexer ------------------------------
(***************************************************************************)
(* Small files for Lexer: well-formed ones in every layout, files with one *)
(* character changed, and files that break off.                            *)
(***************************************************************************)
EXTENDS Lexer

MCByte ==
    {"#", "Q", "1", "(", ")", ",", "=", "-", " ", "LF", "CR", "byte255"}
        \cup Letter \cup DOMAIN Capital
MCPromoted == [b \in MCByte |-> IF b = "byte255" THEN "EOF" ELSE b]

-----------------------------------------------------------------------------
(* A part of a file: its tokens, and the callbacks that tell what it says. *)
Part(tokens, told) == [tokens |-> tokens, told |-> told]
Plus(p, q) == Part(p.tokens \o q.tokens, p.told \o q.told)

Eol == <<"LF">>
One == <<"1">>
Two == <<"1", "e">>
Tokens(l) == IF l[1] THEN <<<<"-">>, l[2]>> ELSE <<l[2]>>     \* of a literal [sign, name]
Spelled(l) == FlattenSeq(Tokens(l))
List(ls) ==
    <<<<"(">>>> \o FlattenSeq([i \in DOMAIN ls |->
        Tokens(ls[i]) \o IF i < Len(ls) THEN <<<<",">>>> ELSE <<>>]) \o <<<<")">>>>
Pos(n) == <<FALSE, n>>
Neg(n) == <<TRUE, n>>

Nothing == Part(<<>>, <<>>)
Header == Part(<<<<"#", "Q", "c", "1", "1">>, Eol>>, <<>>)
Quant(q, ns) ==
    Part(<<Word[q]>> \o List([i \in DOMAIN ns |-> Pos(ns[i])]) \o <<Eol>>,
         <<<<"quant", Word[q]>>>> \o [i \in DOMAIN ns |-> <<"var", ns[i]>>]
            \o <<<<"quant_closed", <<>>>>>>)
Out(l) == Part(<<Word.output>> \o List(<<l>>) \o <<Eol>>, <<<<"output", Spelled(l)>>>>)
Gate(n, g, ls) ==
    Part(<<n, <<"=">>, Word[g]>> \o List(ls) \o <<Eol>>,
         <<<<"gate", n>>, <<"type", Word[g]>>>>
            \o [i \in DOMAIN ls |-> <<"arg", Spelled(ls[i])>>] \o <<<<"gate_closed", <<>>>>>>)

Blocks ==
    {Nothing, Quant("free", <<One>>), Plus(Quant("exists", <<>>), Quant("forall", <<One, Two>>)),
     Plus(Quant("forall", <<Two>>), Plus(Quant("exists", <<One>>), Quant("forall", <<>>)))}
GateLists ==
    {Nothing, Gate(Two, "and", <<>>), Gate(One, "or", <<Pos(Two), Neg(One)>>),
     Plus(Gate(Two, "xor", <<Pos(One), Pos(One)>>),
          Gate(One, "ite", <<Neg(Two), Pos(One), Pos(Two)>>))}
Plain ==
    {Plus(h, Plus(p, Plus(Out(l), g))) :
        h \in {Nothing, Header}, p \in Blocks, l \in {Pos(One), Neg(Two)}, g \in GateLists}
Rich ==
    Plus(Header, Plus(Quant("forall", <<One, Two>>),
        Plus(Out(Neg(Two)), Plus(Gate(Two, "or", <<Pos(One), Neg(Two)>>), Gate(One, "and", <<>>)))))

-----------------------------------------------------------------------------
(* Layouts: another end of the lines, capitals, no end of the last line,   *)
(* and a blank or a comment between two tokens.  A comment with its line's *)
(* end is not put where a line ends: the parser takes no blank lines.  Nor *)
(* does it take anything between the parentheses of a gate of no operands. *)
Upper(c) == IF \E k \in DOMAIN Capital : Capital[k] = c
            THEN CHOOSE k \in DOMAIN Capital : Capital[k] = c ELSE c
Capitals(tokens) ==
    [i \in DOMAIN tokens |->
        IF tokens[i] \in {Word[w] : w \in DOMAIN Word}
        THEN [j \in DOMAIN tokens[i] |-> Upper(tokens[i][j])] ELSE tokens[i]]
WithEol(tokens, eol) == [i \in DOMAIN tokens |-> IF tokens[i] = Eol THEN eol ELSE tokens[i]]

InNoOperands(tokens, i) ==
    i \in 4 .. Len(tokens) /\ tokens[i] = <<")">> /\ tokens[i - 1] = <<"(">> /\ tokens[i - 3] = <<"=">>
Fitting(tokens, i) ==
    IF InNoOperands(tokens, i) THEN {}
    ELSE {<<" ">>} \cup IF i > Len(tokens) THEN {<<"#", "1">>, <<"#", "e", " ", "#", "LF">>}
                        ELSE IF tokens[i] = Eol THEN {<<"#", "1">>}
                        ELSE {<<"#", "e", " ", "#", "LF">>}
Inserted(tokens) ==
    {tokens} \cup UNION {{InsertAt(tokens, i, x) : x \in Fitting(tokens, i)} :
                            i \in 1 .. Len(tokens) + 1}
EndOfLine == {<<"LF">>, <<"CR">>, <<"CR", "LF">>}
LineEnds(text, eol) == FlattenSeq([i \in DOMAIN text |-> IF text[i] = "LF" THEN eol ELSE <<text[i]>>])
LayoutsOf(part) ==
    {LineEnds(FlattenSeq(t), eol) :
        t \in UNION {{u, Front(u), Capitals(u)} : u \in Inserted(part.tokens)}, eol \in EndOfLine}

Changes == {"1", "e", "f", "#", "(", ")", ",", "=", "-", " ", "LF", "CR", "byte255"}
Changed(text) ==
    {ReplaceAt(text, i, c) : i \in DOMAIN text, c \in Changes}
        \cup {RemoveAt(text, i) : i \in DOMAIN text}

WellFormed == [p \in Plain \cup {Rich} |->
                IF p = Rich THEN LayoutsOf(p) ELSE {FlattenSeq(p.tokens)}]
Unfinished(text) == {SubSeq(text, 1, n) : n \in 0 .. Len(text) - 1}
MCTexts ==
    UNION {WellFormed[p] : p \in DOMAIN WellFormed}
        \cup Changed(FlattenSeq(Rich.tokens)) \cup Unfinished(FlattenSeq(Rich.tokens))

(* A well-formed file is read without an error and to exactly what it      *)
(* says, in every layout (qcir_parser.cpp).                                *)
ReadsWellFormed ==
    status # "reading" =>
        \A p \in DOMAIN WellFormed :
            file \in WellFormed[p] =>
                status = "closed" /\ calls = Append(p.told, <<"file_closed", <<>>>>)
=============================================================================
