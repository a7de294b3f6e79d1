----------------------------- MODULE LexerProofs -----------------------------
(***************************************************************************)
(* The buffer shows the reader the whole file, byte after byte, for every  *)
(* file, every chunk size and every way gzread cuts the file up; and the   *)
(* reader passes over nothing and counts the lines, whatever the file is.  *)
(*                                                                         *)
(* What a function of the parser is for is said by the place it is called  *)
(* at and the one it leaves (Ok).  The invariant is that the calls still to*)
(* be made lead from where the parser is to the end of a text it has told  *)
(* all of; a step replaces a call by calls that lead the same way, or moves*)
(* the cursor to where the call is said to lead.  A step that counts a line*)
(* twice leaves this course; the calls of the header show that only an     *)
(* error follows.                                                          *)
(***************************************************************************)
EXTENDS Lexer, SequenceTheorems, FiniteSetTheorems, WellFoundedInduction, TLAPS

(* buf is the last part of what gzread handed out, and the cursor is in it *)
(* unless the file is at its end: what every refill re-establishes.        *)
Window ==
    /\ file \in Seq(Byte)
    /\ given \in 0 .. Len(file)
    /\ buf \in Seq(Byte) /\ size <= given
    /\ \A i \in 1 .. size : buf[i] = file[given - size + i]
    /\ pos \in Nat
    /\ pos < size \/ (pos = 0 /\ size = 0 /\ given = Len(file))

-----------------------------------------------------------------------------
(* What a call of gzread leaves in the buffer, when g bytes were given     *)
(* before and n are given now.                                             *)
LEMMA Refill ==
    ASSUME file \in Seq(Byte), NEW g \in 0 .. Len(file),
           NEW n \in IF g = Len(file) THEN {0} ELSE 1 .. Smaller(Chunk, Len(file) - g)
    PROVE  /\ n \in Nat /\ g + n \in 0 .. Len(file)
           /\ n = 0 => g = Len(file)
           /\ SubSeq(file, g + 1, g + n) \in Seq(Byte)
           /\ Len(SubSeq(file, g + 1, g + n)) = n
           /\ \A i \in 1 .. n : SubSeq(file, g + 1, g + n)[i] = file[g + i]
<1>1. Len(file) \in Nat
  BY LenProperties
<1>2. n \in Nat /\ g + n \in 0 .. Len(file) /\ (n = 0 => g = Len(file))
  BY <1>1, ChunkAssumption DEF Smaller
<1>3. \A i \in g + 1 .. g + n : file[i] \in Byte
  BY <1>1, <1>2, ElementOfSeq
<1>4. /\ SubSeq(file, g + 1, g + n) \in Seq(Byte)
      /\ Len(SubSeq(file, g + 1, g + n))
            = IF g + 1 <= g + n THEN g + n - (g + 1) + 1 ELSE 0
      /\ \A i \in 1 .. g + n - (g + 1) + 1 :
            SubSeq(file, g + 1, g + n)[i] = file[g + 1 + i - 1]
  <2>1. g + 1 \in Int /\ g + n \in Int
    BY <1>1, <1>2
  <2>. QED  BY <1>3, <2>1, SubSeqProperties
<1>5. Len(SubSeq(file, g + 1, g + n)) = n
  BY <1>1, <1>2, <1>4
<1>6. ASSUME NEW i \in 1 .. n
      PROVE  SubSeq(file, g + 1, g + n)[i] = file[g + i]
  <2>1. i \in 1 .. g + n - (g + 1) + 1 /\ g + 1 + i - 1 = g + i
    BY <1>1, <1>2
  <2>. QED  BY <1>4, <2>1
<1>. QED  BY <1>2, <1>4, <1>5, <1>6

LEMMA WindowAtStart == BufferInit => Window
<1>. SUFFICES ASSUME BufferInit PROVE Window
  OBVIOUS
<1>0. file \in Seq(Byte) /\ pos = 0 /\ Len(file) \in Nat
  BY LenProperties DEF BufferInit
<1>1. PICK n \in IF Len(file) = 0 THEN {0} ELSE 1 .. Smaller(Chunk, Len(file)) :
        given = n /\ buf = SubSeq(file, 1, n)
  BY DEF BufferInit
<1>2. n \in IF 0 = Len(file) THEN {0} ELSE 1 .. Smaller(Chunk, Len(file) - 0)
  BY <1>0, <1>1
<1>3. /\ n \in Nat /\ 0 + n \in 0 .. Len(file) /\ (n = 0 => 0 = Len(file))
      /\ SubSeq(file, 0 + 1, 0 + n) \in Seq(Byte)
      /\ Len(SubSeq(file, 0 + 1, 0 + n)) = n
      /\ \A i \in 1 .. n : SubSeq(file, 0 + 1, 0 + n)[i] = file[0 + i]
  BY <1>0, <1>2, Refill
<1>4. buf = SubSeq(file, 0 + 1, 0 + n)
  BY <1>1, <1>3
<1>. QED  BY <1>0, <1>1, <1>3, <1>4 DEF Window, size

LEMMA WindowStep == Window /\ [Advance]_buffer_vars => Window'
<1>. SUFFICES ASSUME Window, [Advance]_buffer_vars PROVE Window'
  OBVIOUS
<1>0. size \in Nat /\ Len(file) \in Nat
  BY LenProperties DEF Window, size
<1>1. CASE UNCHANGED buffer_vars
  BY <1>1 DEF Window, size, buffer_vars
<1>2. CASE Advance /\ pos + 1 < size
  BY <1>0, <1>2 DEF Window, size, Advance, AssureLookahead
<1>3. CASE Advance /\ pos + 1 >= size
  <2>1. pos' = 0 /\ file' = file
    BY <1>3 DEF Advance, AssureLookahead
  <2>2. PICK n \in GzCounts :
          buf' = SubSeq(file, given + 1, given + n) /\ given' = given + n
    BY <1>3 DEF Advance, AssureLookahead, GzRead
  <2>3. /\ n \in Nat /\ given + n \in 0 .. Len(file) /\ (n = 0 => given = Len(file))
        /\ SubSeq(file, given + 1, given + n) \in Seq(Byte)
        /\ Len(SubSeq(file, given + 1, given + n)) = n
        /\ \A i \in 1 .. n : SubSeq(file, given + 1, given + n)[i] = file[given + i]
    BY <2>2, Refill DEF GzCounts, Window
  <2>4. size' = n
    BY <2>2, <2>3 DEF size
  <2>. QED  BY <1>0, <2>1, <2>2, <2>3, <2>4 DEF Window, size
<1>. QED  BY <1>0, <1>1, <1>2, <1>3 DEF Advance, Window

LEMMA WindowTransparent == Window => Transparent
<1>. SUFFICES ASSUME Window PROVE Transparent
  OBVIOUS
<1>0. size \in Nat /\ Len(file) \in Nat
  BY LenProperties DEF Window, size
<1>1. CASE pos < size
  <2>1. /\ Passed \in 0 .. Len(file) /\ Passed < Len(file)
        /\ pos + 1 \in 1 .. size /\ given - size + (pos + 1) = Passed + 1
    BY <1>0, <1>1 DEF Window, Passed
  <2>2. buf[pos + 1] = file[Passed + 1]
    BY <2>1 DEF Window
  <2>. QED  BY <1>0, <1>1, <2>1, <2>2 DEF Transparent, Current, Abstract!Seen, Window
<1>2. CASE ~ pos < size
  <2>1. pos = 0 /\ size = 0 /\ given = Len(file) /\ Passed = Len(file)
    BY <1>0, <1>2 DEF Window, Passed
  <2>. QED  BY <1>0, <1>2, <2>1 DEF Transparent, Current, Abstract!Seen
<1>. QED  BY <1>1, <1>2

-----------------------------------------------------------------------------
(* StreamBuffer::operator* returns the byte the reader has come to, or EOF *)
(* after the last one, wherever gzread cut the file.                       *)
THEOREM ReaderSeesFile == BufferSpec => []Transparent
<1>1. BufferSpec => []Window
  BY WindowAtStart, WindowStep, PTL DEF BufferSpec
<1>. QED  BY <1>1, WindowTransparent, PTL

(* Every call of StreamBuffer::operator++ is a step of the cursor, or      *)
(* leaves it at the end of the file.                                       *)
LEMMA AdvanceSteps == Window /\ [Advance]_buffer_vars => [Abstract!Step]_<<file, Passed>>
<1>. SUFFICES ASSUME Window, [Advance]_buffer_vars
              PROVE  [Abstract!Step]_<<file, Passed>>
  OBVIOUS
<1>0. size \in Nat /\ Len(file) \in Nat
  BY LenProperties DEF Window, size
<1>1. CASE UNCHANGED buffer_vars
  BY <1>1 DEF buffer_vars, Passed, size
<1>2. CASE Advance /\ pos + 1 < size
  <2>1. pos' = pos + 1 /\ given' = given /\ buf' = buf /\ file' = file
    BY <1>0, <1>2 DEF Advance, AssureLookahead, Window
  <2>2. size' = size /\ pos < size
    BY <1>0, <1>2, <2>1 DEF size, Window
  <2>3. Passed' = Passed + 1 /\ Passed < Len(file)
    BY <1>0, <2>1, <2>2 DEF Passed, Window
  <2>. QED  BY <2>1, <2>3 DEF Abstract!Step
<1>3. CASE Advance /\ pos + 1 >= size
  <2>1. pos' = 0 /\ file' = file
    BY <1>3 DEF Advance, AssureLookahead
  <2>2. PICK n \in GzCounts :
          buf' = SubSeq(file, given + 1, given + n) /\ given' = given + n
    BY <1>3 DEF Advance, AssureLookahead, GzRead
  <2>3. n \in Nat /\ Len(SubSeq(file, given + 1, given + n)) = n
    BY <2>2, Refill DEF GzCounts, Window
  <2>4. Passed' = given
    BY <2>1, <2>2, <2>3 DEF Passed, size, Window
  <2>5. CASE pos < size
    <3>1. Passed = given - 1 /\ Passed < Len(file) /\ given = Passed + 1
      BY <1>0, <1>3, <2>5 DEF Passed, Window
    <3>. QED  BY <2>1, <2>4, <3>1 DEF Abstract!Step
  <2>6. CASE ~ pos < size
    <3>1. Passed = Len(file) /\ given = Passed
      BY <1>0, <2>6 DEF Passed, Window
    <3>. QED  BY <1>0, <2>1, <2>4, <3>1 DEF Abstract!Step
  <2>. QED  BY <2>5, <2>6
<1>. QED  BY <1>0, <1>1, <1>2, <1>3 DEF Advance, Window

(* The buffer implements the cursor that walks through the file once.      *)
THEOREM BufferIsCursor == BufferSpec => ImplementsCursor
<1>1. BufferInit => Abstract!CursorInit
  <2>. SUFFICES ASSUME BufferInit PROVE Abstract!CursorInit
    OBVIOUS
  <2>1. PICK n \in IF Len(file) = 0 THEN {0} ELSE 1 .. Smaller(Chunk, Len(file)) :
          given = n /\ buf = SubSeq(file, 1, n)
    BY DEF BufferInit
  <2>2. Window
    BY WindowAtStart
  <2>3. file \in Seq(Byte) /\ pos = 0 /\ Len(file) \in Nat
    BY LenProperties DEF BufferInit
  <2>4. n \in IF 0 = Len(file) THEN {0} ELSE 1 .. Smaller(Chunk, Len(file) - 0)
    BY <2>1, <2>3
  <2>5. n \in Nat /\ Len(SubSeq(file, 0 + 1, 0 + n)) = n
    BY <2>3, <2>4, Refill
  <2>6. Len(buf) = n
    BY <2>1, <2>5
  <2>. QED  BY <2>1, <2>3, <2>5, <2>6 DEF Abstract!CursorInit, Passed, size
<1>2. BufferSpec => []Window
  BY WindowAtStart, WindowStep, PTL DEF BufferSpec
<1>. QED
  BY <1>1, <1>2, AdvanceSteps, PTL DEF BufferSpec, ImplementsCursor, Abstract!CursorSpec

-----------------------------------------------------------------------------
(* What has been read and told of, in lower case.                          *)
Symbol == Byte \cup Characters
Solid == Characters \ (NewLine \cup Blank \cup {",", "#"})
Lowered(s) == [i \in 1 .. Len(s) |-> Lower(s[i])]

(* Sequences of them.                                                      *)
LEMMA SymbolSeqs ==
  /\ <<>> \in Seq(Symbol)
  /\ \A s \in Seq(Symbol) : s \o <<>> = s /\ <<>> \o s = s
  /\ \A s, t \in Seq(Symbol) : s \o t \in Seq(Symbol)
  /\ \A s, t, u \in Seq(Symbol) : (s \o t) \o u = s \o (t \o u)
  /\ \A c \in Symbol : <<c>> \in Seq(Symbol)
  /\ \A s \in Seq(Symbol), c \in Symbol : Append(s, c) \in Seq(Symbol) /\ Append(s, c) = s \o <<c>>
  /\ \A s, t \in Seq(Symbol), c \in Symbol : Append(s \o t, c) = s \o Append(t, c)
<1>1. \A s, t, u \in Seq(Symbol) : (s \o t) \o u = s \o (t \o u)
  BY ConcatAssociative
<1>2. <<>> \in Seq(Symbol)
  BY EmptySeq
<1>3. \A s \in Seq(Symbol) : s \o <<>> = s /\ <<>> \o s = s
  BY ConcatEmptySeq
<1>4. \A s, t \in Seq(Symbol) : s \o t \in Seq(Symbol)
  BY ConcatProperties
<1>5. \A c \in Symbol : <<c>> \in Seq(Symbol)
  OBVIOUS
<1>6. \A s \in Seq(Symbol), c \in Symbol : Append(s, c) \in Seq(Symbol) /\ Append(s, c) = s \o <<c>>
  BY AppendProperties, AppendIsConcat
<1>7. ASSUME NEW s \in Seq(Symbol), NEW t \in Seq(Symbol), NEW c \in Symbol
      PROVE  Append(s \o t, c) = s \o Append(t, c)
  <2>1. s \o t \in Seq(Symbol) /\ <<c>> \in Seq(Symbol)
    BY <1>4, <1>5
  <2>2. Append(s \o t, c) = (s \o t) \o <<c>> /\ Append(t, c) = t \o <<c>>
    BY <1>6, <2>1
  <2>3. (s \o t) \o <<c>> = s \o (t \o <<c>>)
    BY <1>1, <2>1
  <2>. QED  BY <2>2, <2>3
<1>. QED  BY <1>1, <1>2, <1>3, <1>4, <1>5, <1>6, <1>7, Zenon

LEMMA LowerRight ==
  /\ \A c \in Symbol : Lower(c) \in Symbol
  /\ \A c \in Solid : Lower(c) \in Solid /\ c \in Symbol
  /\ \A c : Lower(c) \in Letter \cup {"1", "(", ")", "=", "-"} => c \in Solid
<1>1. \A c \in DOMAIN Capital : Capital[c] \in Letter
  BY DEF Capital, Letter
<1>2. \A c \in Letter : c \notin NewLine \cup Blank \cup {",", "#"}
  BY DEF Letter, NewLine, Blank
<1>3. \A c \in DOMAIN Capital : c \notin NewLine \cup Blank \cup {",", "#"}
  BY DEF Capital, NewLine, Blank
<1>4. \A c \in {"1", "(", ")", "=", "-"} : c \notin NewLine \cup Blank \cup {",", "#"}
  BY DEF NewLine, Blank
<1>. QED  BY <1>1, <1>2, <1>3, <1>4 DEF Symbol, Solid, Characters, Lower

LEMMA LoweredRight ==
  /\ Lowered(<<>>) = <<>>
  /\ \A s \in Seq(Symbol) : Lowered(s) \in Seq(Symbol) /\ Len(Lowered(s)) = Len(s)
  /\ \A s, t \in Seq(Symbol) : Lowered(s \o t) = Lowered(s) \o Lowered(t)
  /\ \A s \in Seq(Symbol), c \in Symbol : Lowered(Append(s, c)) = Append(Lowered(s), Lower(c))
<1>1. Lowered(<<>>) = <<>>
  BY EmptySeq DEF Lowered
<1>2. ASSUME NEW s \in Seq(Symbol)
      PROVE  /\ Lowered(s) \in Seq(Symbol) /\ Len(Lowered(s)) = Len(s)
             /\ \A i \in 1 .. Len(s) : Lowered(s)[i] = Lower(s[i])
  <2>1. Len(s) \in Nat /\ \A i \in 1 .. Len(s) : Lower(s[i]) \in Symbol
    BY LenProperties, ElementOfSeq, LowerRight
  <2>2. Lowered(s) \in [1 .. Len(s) -> Symbol]
    BY <2>1 DEF Lowered
  <2>3. Lowered(s) \in Seq(Symbol)
    BY <2>1, <2>2, SeqDef
  <2>. QED  BY <2>1, <2>2, <2>3, LenProperties DEF Lowered
<1>3. ASSUME NEW s \in Seq(Symbol), NEW t \in Seq(Symbol)
      PROVE  Lowered(s \o t) = Lowered(s) \o Lowered(t)
  <2>1. s \o t \in Seq(Symbol) /\ Len(s \o t) = Len(s) + Len(t) /\ Len(s) \in Nat /\ Len(t) \in Nat
    BY ConcatProperties, LenProperties
  <2>2. /\ Lowered(s) \o Lowered(t) \in Seq(Symbol)
        /\ Len(Lowered(s) \o Lowered(t)) = Len(s) + Len(t)
        /\ \A i \in 1 .. Len(s) + Len(t) : (Lowered(s) \o Lowered(t))[i]
                = IF i <= Len(s) THEN Lowered(s)[i] ELSE Lowered(t)[i - Len(s)]
    <3>1. /\ Lowered(s) \in Seq(Symbol) /\ Len(Lowered(s)) = Len(s)
          /\ Lowered(t) \in Seq(Symbol) /\ Len(Lowered(t)) = Len(t)
      BY <1>2
    <3> DEFINE a == Lowered(s)
               b == Lowered(t)
    <3>. HIDE DEF a, b
    <3>2. /\ a \o b \in Seq(Symbol) /\ Len(a \o b) = Len(a) + Len(b)
          /\ \A i \in 1 .. Len(a) + Len(b) :
                (a \o b)[i] = IF i <= Len(a) THEN a[i] ELSE b[i - Len(a)]
      BY <3>1, ConcatProperties DEF a, b
    <3>. QED  BY <3>1, <3>2 DEF a, b
  <2>3. ASSUME NEW i \in 1 .. Len(s) + Len(t)
        PROVE  Lowered(s \o t)[i] = (Lowered(s) \o Lowered(t))[i]
    <3>1. (s \o t)[i] = IF i <= Len(s) THEN s[i] ELSE t[i - Len(s)]
      BY ConcatProperties
    <3>2. i <= Len(s) => i \in 1 .. Len(s)
      BY <2>1
    <3>3. ~ i <= Len(s) => i - Len(s) \in 1 .. Len(t)
      BY <2>1
    <3>4. Lowered(s \o t)[i] = Lower((s \o t)[i])
      BY <1>2, <2>1
    <3>. QED  BY <1>2, <2>2, <3>1, <3>2, <3>3, <3>4
  <2>4. Lowered(s \o t) \in Seq(Symbol) /\ Len(Lowered(s \o t)) = Len(s) + Len(t)
    BY <1>2, <2>1
  <2>. HIDE DEF Lowered
  <2> DEFINE a == Lowered(s \o t)
             b == Lowered(s) \o Lowered(t)
  <2>5. a \in Seq(Symbol) /\ b \in Seq(Symbol) /\ Len(a) = Len(b) /\ \A i \in 1 .. Len(a) : a[i] = b[i]
    BY <2>2, <2>3, <2>4
  <2>. HIDE DEF a, b
  <2>6. a = b
    BY <2>5, SeqEqual
  <2>. QED  BY <2>6 DEF a, b
<1>4. ASSUME NEW s \in Seq(Symbol), NEW c \in Symbol
      PROVE  Lowered(Append(s, c)) = Append(Lowered(s), Lower(c))
  <2>1. <<c>> \in Seq(Symbol) /\ Append(s, c) = s \o <<c>>
    BY SymbolSeqs
  <2>2. Lowered(<<c>>) = <<Lower(c)>>
    BY <1>2, <2>1 DEF Lowered
  <2>3. Append(Lowered(s), Lower(c)) = Lowered(s) \o <<Lower(c)>>
    BY <1>2, LowerRight, AppendIsConcat
  <2>. QED  BY <1>3, <2>1, <2>2, <2>3
<1>. QED  BY <1>1, <1>2, <1>3, <1>4

(* Functions defined by recursion over 0 .. n exist.                       *)
LEMMA NatMin ==
  ASSUME NEW S \in SUBSET Nat, S # {}
  PROVE  \E n \in S : \A m \in S : n <= m
<1>1. IsWellFoundedOn(OpToRel(<, Nat), Nat)
  BY NatLessThanWellFounded
<1>2. PICK x \in S : \A y \in S : ~ (<<y, x>> \in OpToRel(<, Nat))
  BY <1>1, WFMin
<1>3. \A y \in Nat : y < x => <<y, x>> \in OpToRel(<, Nat)
  BY <1>2 DEF OpToRel
<1>4. \A y \in S : y \in Nat /\ x \in Nat
  BY <1>2
<1>5. ASSUME NEW y \in S PROVE x <= y
  <2>1. ~ (y < x)
    BY <1>2, <1>3, <1>4
  <2>. QED  BY <1>4, <2>1
<1>. QED  BY <1>2, <1>5

Iterates(f, b, g, n) == f[0] = b /\ \A i \in 1 .. n : f[i] = g[<<i, f[i - 1]>>]

LEMMA IteratesExist ==
  ASSUME NEW V, NEW b \in V, NEW N \in Nat, NEW g \in [(1 .. N) \X V -> V]
  PROVE  \E f \in [0 .. N -> V] : Iterates(f, b, g, N)
<1> DEFINE bad == {n \in 0 .. N : ~ \E f \in [0 .. n -> V] : Iterates(f, b, g, n)}
<1>0. N \in 0 .. N
  OBVIOUS
<1>. SUFFICES ASSUME bad # {} PROVE FALSE
  BY <1>0
<1>1. PICK n \in bad : \A m \in bad : n <= m
  <2>1. bad \in SUBSET Nat
    OBVIOUS
  <2>. HIDE DEF bad
  <2>. QED  BY <2>1, NatMin
<1>2. n \in 0 .. N
  BY <1>1
<1>3. CASE n = 0
  <2>1. [i \in 0 .. 0 |-> b] \in [0 .. 0 -> V] /\ Iterates([i \in 0 .. 0 |-> b], b, g, 0)
    BY DEF Iterates
  <2>. QED  BY <1>1, <1>3, <2>1
<1>4. CASE n # 0
  <2>1. n - 1 \in 0 .. N /\ ~ n <= n - 1
    BY <1>2, <1>4
  <2>2. n - 1 \notin bad
    BY <1>1, <2>1
  <2>3. PICK f \in [0 .. n - 1 -> V] : Iterates(f, b, g, n - 1)
    BY <2>1, <2>2
  <2> DEFINE h == [i \in 0 .. n |-> IF i = n THEN g[<<n, f[n - 1]>>] ELSE f[i]]
  <2>4. f[n - 1] \in V /\ g[<<n, f[n - 1]>>] \in V
    BY <1>2, <1>4, <2>1, <2>3
  <2>5. \A i \in 0 .. n : i # n => i \in 0 .. n - 1
    BY <1>2
  <2>6. h \in [0 .. n -> V]
    BY <2>3, <2>4, <2>5
  <2>7. h[0] = b
    BY <1>2, <1>4, <2>3 DEF Iterates
  <2>8. ASSUME NEW i \in 1 .. n PROVE h[i] = g[<<i, h[i - 1]>>]
    <3>1. i - 1 \in 0 .. n /\ i - 1 # n /\ i \in 0 .. n /\ (i # n => i \in 1 .. n - 1)
      BY <1>2
    <3>2. h[i - 1] = f[i - 1]
      BY <3>1
    <3>3. CASE i = n
      <4>1. h[i] = g[<<n, f[n - 1]>>]
        BY <3>1, <3>3
      <4>. HIDE DEF h
      <4>. QED  BY <3>2, <3>3, <4>1
    <3>4. CASE i # n
      <4>1. h[i] = f[i]
        BY <3>1, <3>4
      <4>. HIDE DEF h
      <4>. QED  BY <2>3, <3>1, <3>2, <3>4, <4>1 DEF Iterates
    <3>. QED  BY <3>3, <3>4
  <2>. HIDE DEF h
  <2>9. Iterates(h, b, g, n)
    BY <2>7, <2>8 DEF Iterates
  <2>. QED  BY <1>1, <2>6, <2>9
<1>. QED  BY <1>3, <1>4

(* The text without what is stripped, character by character.              *)
LEMMA StrippedToEqs ==
  ASSUME NEW text \in Seq(Symbol)
  PROVE  /\ StrippedTo(text)[0] = <<>>
         /\ \A n \in 0 .. Len(text) : StrippedTo(text)[n] \in Seq(Symbol)
         /\ \A n \in 1 .. Len(text) : StrippedTo(text)[n] =
                IF Commented(text, n) \/ text[n] \in NewLine \cup Blank \cup {","}
                THEN StrippedTo(text)[n - 1]
                ELSE Append(StrippedTo(text)[n - 1], Lower(text[n]))
<1> DEFINE N == Len(text)
           Gone(n) == Commented(text, n) \/ text[n] \in NewLine \cup Blank \cup {","}
           g == [x \in (1 .. N) \X Seq(Symbol) |->
                    IF Gone(x[1]) THEN x[2] ELSE Append(x[2], Lower(text[x[1]]))]
           F(f) == [n \in 0 .. N |-> IF n = 0 THEN <<>> ELSE IF Gone(n) THEN f[n - 1]
                                     ELSE Append(f[n - 1], Lower(text[n]))]
<1>0. N \in Nat /\ <<>> \in Seq(Symbol)
  BY LenProperties, EmptySeq
<1>1. ASSUME NEW n \in 1 .. N, NEW s \in Seq(Symbol)
      PROVE  Append(s, Lower(text[n])) \in Seq(Symbol)
  BY <1>0, ElementOfSeq, LowerRight, AppendProperties
<1>2. g \in [(1 .. N) \X Seq(Symbol) -> Seq(Symbol)]
  <2>. SUFFICES ASSUME NEW x \in (1 .. N) \X Seq(Symbol)
                PROVE  (IF Gone(x[1]) THEN x[2] ELSE Append(x[2], Lower(text[x[1]]))) \in Seq(Symbol)
    OBVIOUS
  <2>1. x[1] \in 1 .. N /\ x[2] \in Seq(Symbol)
    OBVIOUS
  <2>. QED  BY <1>1, <2>1
<1>3. \A n \in 1 .. N, s \in Seq(Symbol) :
        g[<<n, s>>] = IF Gone(n) THEN s ELSE Append(s, Lower(text[n]))
  OBVIOUS
<1>4. PICK f \in [0 .. N -> Seq(Symbol)] : Iterates(f, <<>>, g, N)
  <2>. HIDE DEF g, N
  <2>. QED  BY <1>0, <1>2, IteratesExist
<1>5. f[0] = <<>> /\ \A n \in 1 .. N : f[n] = IF Gone(n) THEN f[n - 1] ELSE Append(f[n - 1], Lower(text[n]))
  <2>1. \A n \in 1 .. N : n - 1 \in 0 .. N
    BY <1>0
  <2>2. \A n \in 1 .. N : f[n - 1] \in Seq(Symbol)
    BY <2>1
  <2>. HIDE DEF g, N, Gone
  <2>. QED  BY <1>3, <1>4, <2>2 DEF Iterates
<1>6. f = F(f)
  <2>1. f = [n \in 0 .. N |-> f[n]]
    OBVIOUS
  <2>2. \A n \in 0 .. N : n # 0 => n \in 1 .. N
    BY <1>0
  <2>3. \A n \in 0 .. N : f[n] = IF n = 0 THEN <<>> ELSE IF Gone(n) THEN f[n - 1]
                                 ELSE Append(f[n - 1], Lower(text[n]))
    <3>. HIDE DEF g, N, Gone
    <3>. QED  BY <1>5, <2>2
  <2>. HIDE DEF g, Gone, N
  <2>. QED  BY <2>1, <2>3
<1>7. StrippedTo(text) = CHOOSE h : h = F(h)
  BY DEF StrippedTo
<1>8. StrippedTo(text) = F(StrippedTo(text))
  <2>. HIDE DEF g, F
  <2>. QED  BY <1>6, <1>7
<1> DEFINE h == StrippedTo(text)
<1>9. \A n \in 0 .. N : h[n] = IF n = 0 THEN <<>> ELSE IF Gone(n) THEN h[n - 1]
                                 ELSE Append(h[n - 1], Lower(text[n]))
  <2>. HIDE DEF g, Gone, N, h
  <2>. QED  BY <1>8 DEF h
<1>10. h[0] = <<>> /\ \A n \in 1 .. N : n - 1 \in 0 .. N /\
            h[n] = IF Gone(n) THEN h[n - 1] ELSE Append(h[n - 1], Lower(text[n]))
  <2>. HIDE DEF g, Gone, h
  <2>. QED  BY <1>0, <1>9
<1>11. \A n \in 0 .. N : h[n] \in Seq(Symbol)
  <2> DEFINE bad == {n \in 0 .. N : h[n] \notin Seq(Symbol)}
  <2>. SUFFICES ASSUME bad # {} PROVE FALSE
    OBVIOUS
  <2>1. PICK n \in bad : \A m \in bad : n <= m
    <3>1. bad \in SUBSET Nat
      OBVIOUS
    <3>. HIDE DEF bad
    <3>. QED  BY <3>1, NatMin
  <2>2. n \in 0 .. N /\ h[n] \notin Seq(Symbol) /\ n # 0
    <3>. HIDE DEF g, Gone, h
    <3>. QED  BY <1>0, <1>10, <2>1
  <2>3. n \in 1 .. N /\ n - 1 \in 0 .. N /\ ~ n <= n - 1
    BY <1>0, <2>2
  <2>4. h[n - 1] \in Seq(Symbol)
    BY <2>1, <2>3
  <2>. HIDE DEF g, Gone, h, N
  <2>. QED  BY <1>1, <1>10, <2>2, <2>3, <2>4
<1>. QED  BY <1>10, <1>11

(* A sequence of sequences, flattened from the left.                       *)
Joins(f, ss, n) == f[0] = <<>> /\ \A i \in 1 .. n : f[i] = f[i - 1] \o ss[i]

LEMMA JoinsExist ==
  ASSUME NEW S, NEW ss \in Seq(Seq(S))
  PROVE  \E f \in [0 .. Len(ss) -> Seq(S)] : Joins(f, ss, Len(ss))
<1> DEFINE N == Len(ss)
           g == [x \in (1 .. N) \X Seq(S) |-> x[2] \o ss[x[1]]]
<1>0. N \in Nat /\ <<>> \in Seq(S)
  BY LenProperties, EmptySeq
<1>1. \A i \in 1 .. N, s \in Seq(S) : s \o ss[i] \in Seq(S)
  BY <1>0, ElementOfSeq, ConcatProperties
<1>2. g \in [(1 .. N) \X Seq(S) -> Seq(S)]
  <2>. SUFFICES ASSUME NEW x \in (1 .. N) \X Seq(S) PROVE x[2] \o ss[x[1]] \in Seq(S)
    OBVIOUS
  <2>1. x[1] \in 1 .. N /\ x[2] \in Seq(S)
    OBVIOUS
  <2>. QED  BY <1>1, <2>1
<1>3. \A i \in 1 .. N, s \in Seq(S) : g[<<i, s>>] = s \o ss[i]
  OBVIOUS
<1>4. PICK f \in [0 .. N -> Seq(S)] : Iterates(f, <<>>, g, N)
  <2>. HIDE DEF g, N
  <2>. QED  BY <1>0, <1>2, IteratesExist
<1>5. \A i \in 1 .. N : f[i - 1] \in Seq(S)
  <2>1. \A i \in 1 .. N : i - 1 \in 0 .. N
    BY <1>0
  <2>. QED  BY <2>1
<1>. HIDE DEF g, N
<1>6. Joins(f, ss, N)
  BY <1>3, <1>4, <1>5 DEF Iterates, Joins
<1>. QED  BY <1>6 DEF N

LEMMA FlattenSeqIs ==
  ASSUME NEW S, NEW ss \in Seq(Seq(S)), NEW f \in [0 .. Len(ss) -> Seq(S)], Joins(f, ss, Len(ss))
  PROVE  FlattenSeq(ss) = f[Len(ss)]
<1> DEFINE N == Len(ss)
           F(h) == [i \in 1 .. N |-> IF i = 1 THEN ss[i] ELSE h[i - 1] \o ss[i]]
           fixed == [i \in 1 .. N |-> f[i]]
<1>0. N \in Nat
  BY LenProperties
<1>1. CASE N = 0
  <2>1. ss = <<>>
    BY <1>1, EmptySeq
  <2>. QED  BY <1>1, <2>1 DEF FlattenSeq, Joins
<1>2. CASE N # 0
  <2>1. fixed = F(fixed)
    <3>1. \A i \in 1 .. N : (i = 1 => i - 1 = 0) /\ (i # 1 => i - 1 \in 1 .. N)
      BY <1>0
    <3>2. \A i \in 1 .. N : ss[i] \in Seq(S) /\ <<>> \o ss[i] = ss[i]
      BY <1>0, ElementOfSeq, ConcatEmptySeq
    <3>3. \A i \in 1 .. N : f[i] = IF i = 1 THEN ss[i] ELSE f[i - 1] \o ss[i]
      <4>1. f[0] = <<>> /\ \A i \in 1 .. N : f[i] = f[i - 1] \o ss[i]
        BY DEF Joins
      <4>. HIDE DEF N
      <4>. QED  BY <3>1, <3>2, <4>1
    <3>4. \A i \in 1 .. N : i # 1 => fixed[i - 1] = f[i - 1]
      BY <3>1
    <3>5. \A i \in 1 .. N : f[i] = IF i = 1 THEN ss[i] ELSE fixed[i - 1] \o ss[i]
      <4>. HIDE DEF fixed, N
      <4>. QED  BY <3>3, <3>4
    <3>. HIDE DEF N
    <3>6. fixed = [i \in 1 .. N |-> IF i = 1 THEN ss[i] ELSE fixed[i - 1] \o ss[i]]
      <4>1. fixed = [i \in 1 .. N |-> f[i]]
        OBVIOUS
      <4>. HIDE DEF fixed
      <4>. QED  BY <3>5, <4>1
    <3>. QED  BY <3>6
  <2> DEFINE h == CHOOSE h : h = F(h)
  <2>2. h = F(h)
    <3>. HIDE DEF F, fixed
    <3>. QED  BY <2>1
  <2>3. FlattenSeq(ss) = h[N]
    BY <1>2 DEF FlattenSeq
  <2>. HIDE DEF h
  <2>4. \A i \in 1 .. N : h[i] = IF i = 1 THEN ss[i] ELSE h[i - 1] \o ss[i]
    <3>. HIDE DEF N
    <3>. QED  BY <2>2
  <2>5. \A i \in 1 .. N : h[i] = f[i]
    <3> DEFINE bad == {i \in 1 .. N : h[i] # f[i]}
    <3>. SUFFICES ASSUME bad # {} PROVE FALSE
      OBVIOUS
    <3>1. PICK i \in bad : \A m \in bad : i <= m
      <4>1. bad \in SUBSET Nat
        OBVIOUS
      <4>. HIDE DEF bad
      <4>. QED  BY <4>1, NatMin
    <3>2. i \in 1 .. N /\ h[i] # f[i]
      BY <3>1
    <3>3. i # 1 => i - 1 \in 1 .. N /\ ~ i <= i - 1
      BY <1>0, <3>2
    <3>4. i # 1 => h[i - 1] = f[i - 1]
      BY <3>1, <3>3
    <3>5. fixed[i] = f[i] /\ (i # 1 => fixed[i - 1] = f[i - 1])
      BY <3>2, <3>3
    <3>6. fixed[i] = IF i = 1 THEN ss[i] ELSE fixed[i - 1] \o ss[i]
      <4>. HIDE DEF fixed, N
      <4>. QED  BY <2>1, <3>2
    <3>. HIDE DEF fixed, N, bad
    <3>. QED  BY <2>4, <3>2, <3>4, <3>5, <3>6
  <2>6. N \in 1 .. N
    BY <1>0, <1>2
  <2>. QED  BY <2>3, <2>5, <2>6
<1>. QED  BY <1>1, <1>2

LEMMA FlattenSeqRight ==
  ASSUME NEW S, NEW ss \in Seq(Seq(S)), NEW x \in Seq(S)
  PROVE  /\ FlattenSeq(<<>>) = <<>>
         /\ FlattenSeq(ss) \in Seq(S)
         /\ FlattenSeq(Append(ss, x)) = FlattenSeq(ss) \o x
<1> DEFINE t == Append(ss, x)
           n == Len(ss)
<1>1. t \in Seq(Seq(S)) /\ Len(t) = n + 1 /\ n \in Nat /\ t[n + 1] = x /\ \A i \in 1 .. n : t[i] = ss[i]
  BY AppendProperties, LenProperties
<1>. HIDE DEF t
<1>2. PICK f \in [0 .. Len(t) -> Seq(S)] : Joins(f, t, Len(t))
  BY <1>1, JoinsExist
<1>3. FlattenSeq(t) = f[n + 1]
  BY <1>1, <1>2, FlattenSeqIs
<1> DEFINE e == [i \in 0 .. n |-> f[i]]
<1>4. e \in [0 .. n -> Seq(S)]
  BY <1>1
<1>5. e[n] = f[n] /\ e[0] = f[0] /\ \A i \in 1 .. n : e[i] = f[i] /\ e[i - 1] = f[i - 1]
  BY <1>1
<1>. HIDE DEF e
<1>6. Joins(e, ss, n)
  <2>. HIDE DEF n
  <2>1. \A i \in 1 .. n : i \in 1 .. Len(t)
    BY <1>1
  <2>. QED  BY <1>1, <1>2, <1>5, <2>1 DEF Joins
<1>7. FlattenSeq(ss) = e[n]
  BY <1>4, <1>6, FlattenSeqIs
<1>8. f[n + 1] = f[n] \o x
  <2>1. n + 1 \in 1 .. Len(t) /\ n + 1 - 1 = n
    BY <1>1
  <2> DEFINE m == n + 1
  <2>. HIDE DEF m, n
  <2>2. f[m] = f[m - 1] \o t[m]
    BY <1>2, <2>1 DEF Joins, m
  <2>. QED  BY <1>1, <2>1, <2>2 DEF m
<1>9. FlattenSeq(<<>>) = <<>>
  BY EmptySeq DEF FlattenSeq
<1>10. e[n] \in Seq(S)
  BY <1>1, <1>4
<1>. QED  BY <1>3, <1>5, <1>7, <1>8, <1>9, <1>10 DEF t

(* Where nothing is stripped, the text in lower case is left.              *)
LEMMA SeqWider ==
  ASSUME NEW S, NEW R, S \subseteq R, NEW s \in Seq(S)
  PROVE  s \in Seq(R)
<1>1. s \in [1 .. Len(s) -> S] /\ Len(s) \in Nat
  BY LenProperties
<1>2. s \in [1 .. Len(s) -> R]
  BY <1>1
<1>. QED  BY <1>1, <1>2, SeqDef

LEMMA SolidIsSymbol ==
  Solid \subseteq Symbol /\ \A s \in Seq(Solid) : s \in Seq(Symbol)
BY LowerRight, SeqWider

LEMMA StrippedSolid ==
  ASSUME NEW s \in Seq(Solid)
  PROVE  Stripped(s) = Lowered(s)
<1> DEFINE N == Len(s)
           low(n) == [i \in 1 .. n |-> Lower(s[i])]
           h == StrippedTo(s)
<1>0. s \in Seq(Symbol) /\ N \in Nat
  BY SolidIsSymbol, LenProperties
<1>1. \A i \in 1 .. N : s[i] \in Solid /\ Lower(s[i]) \in Symbol
  BY <1>0, ElementOfSeq, LowerRight
<1>2. ASSUME NEW n \in 0 .. N
      PROVE  low(n) \in Seq(Symbol) /\ Len(low(n)) = n /\ \A i \in 1 .. n : low(n)[i] = Lower(s[i])
  <2>1. \A i \in 1 .. n : Lower(s[i]) \in Symbol
    BY <1>0, <1>1
  <2>2. low(n) \in [1 .. n -> Symbol] /\ n \in Nat
    BY <1>0, <2>1
  <2>3. low(n) \in Seq(Symbol)
    BY <2>2, SeqDef
  <2>. QED  BY <2>2, <2>3, LenProperties
<1>3. ASSUME NEW n \in 1 .. N PROVE h[n] = Append(h[n - 1], Lower(s[n]))
  <2>1. ~ Commented(s, n)
    <3>1. \A j \in 1 .. n : s[j] \in Solid
      BY <1>0, <1>1
    <3>. QED  BY <3>1 DEF Commented, Solid
  <2>2. s[n] \notin NewLine \cup Blank \cup {","}
    BY <1>1 DEF Solid
  <2>. QED  BY <1>0, <2>1, <2>2, StrippedToEqs
<1>4. ASSUME NEW n \in 1 .. N PROVE low(n) = Append(low(n - 1), Lower(s[n]))
  <2>0. n - 1 \in 0 .. N /\ n \in 0 .. N /\ Lower(s[n]) \in Symbol
    BY <1>0, <1>1
  <2> DEFINE a == low(n)
             b == low(n - 1)
             c == Lower(s[n])
  <2>1. a \in Seq(Symbol) /\ Len(a) = n /\ \A i \in 1 .. n : a[i] = Lower(s[i])
    BY <1>2, <2>0
  <2>2. b \in Seq(Symbol) /\ Len(b) = n - 1 /\ \A i \in 1 .. n - 1 : b[i] = Lower(s[i])
    BY <1>2, <2>0
  <2>3. c \in Symbol /\ c = Lower(s[n])
    BY <2>0
  <2>. HIDE DEF a, b, c, low
  <2>4. /\ Append(b, c) \in Seq(Symbol) /\ Len(Append(b, c)) = Len(b) + 1
        /\ \A i \in 1 .. Len(b) : Append(b, c)[i] = b[i]
        /\ Append(b, c)[Len(b) + 1] = c
    BY <2>2, <2>3, AppendProperties
  <2>5. Len(Append(b, c)) = n /\ \A i \in 1 .. n : a[i] = Append(b, c)[i]
    <3>1. \A i \in 1 .. n : i \in 1 .. n - 1 \/ i = n
      BY <1>0
    <3>2. Len(b) + 1 = n
      BY <1>0, <2>2
    <3>. QED  BY <2>1, <2>2, <2>3, <2>4, <3>1, <3>2
  <2>6. a = Append(b, c)
    BY <2>1, <2>4, <2>5, SeqEqual
  <2>. QED  BY <2>6 DEF a, b, c
<1>5. h[0] = low(0)
  <2>1. low(0) = <<>>
    BY <1>0, <1>2, EmptySeq
  <2>. HIDE DEF low
  <2>. QED  BY <1>0, <2>1, StrippedToEqs
<1> DEFINE bad == {n \in 0 .. N : h[n] # low(n)}
<1>6. bad = {}
  <2>. SUFFICES ASSUME bad # {} PROVE FALSE
    OBVIOUS
  <2>1. PICK n \in bad : \A m \in bad : n <= m
    <3>1. bad \in SUBSET Nat
      OBVIOUS
    <3>. HIDE DEF bad
    <3>. QED  BY <3>1, NatMin
  <2>. HIDE DEF low, h
  <2>2. n \in 0 .. N /\ h[n] # low(n) /\ n # 0
    BY <1>5, <2>1
  <2>3. n \in 1 .. N /\ n - 1 \in 0 .. N /\ ~ n <= n - 1
    BY <1>0, <2>2
  <2>4. h[n - 1] = low(n - 1)
    BY <2>1, <2>3
  <2>. HIDE DEF bad
  <2>. QED  BY <1>3, <1>4, <2>2, <2>3, <2>4
<1>7. h[N] = low(N)
  <2>1. N \in 0 .. N
    BY <1>0
  <2>. HIDE DEF low, h
  <2>. QED  BY <1>6, <2>1
<1>. QED  BY <1>7 DEF Stripped, Lowered

(* How comments and lines go on with the next character.                   *)
LEMMA CommentedStep ==
  ASSUME NEW text, NEW n \in Nat
  PROVE  Commented(text, n + 1)
            <=> text[n + 1] \notin NewLine /\ (Commented(text, n) \/ text[n + 1] = "#")
<1>1. ASSUME Commented(text, n + 1)
      PROVE  text[n + 1] \notin NewLine /\ (Commented(text, n) \/ text[n + 1] = "#")
  <2>1. PICK j \in 1 .. n + 1 : text[j] = "#" /\ \A k \in j .. n + 1 : text[k] \notin NewLine
    BY <1>1 DEF Commented
  <2>2. n + 1 \in j .. n + 1
    OBVIOUS
  <2>3. CASE j = n + 1
    BY <2>1, <2>2, <2>3
  <2>4. CASE j # n + 1
    <3>1. j \in 1 .. n /\ \A k \in j .. n : k \in j .. n + 1
      BY <2>4
    <3>. QED  BY <2>1, <2>2, <3>1 DEF Commented
  <2>. QED  BY <2>3, <2>4
<1>2. ASSUME text[n + 1] \notin NewLine, Commented(text, n)
      PROVE  Commented(text, n + 1)
  <2>1. PICK j \in 1 .. n : text[j] = "#" /\ \A k \in j .. n : text[k] \notin NewLine
    BY <1>2 DEF Commented
  <2>2. j \in 1 .. n + 1 /\ \A k \in j .. n + 1 : k \in j .. n \/ k = n + 1
    OBVIOUS
  <2>. QED  BY <1>2, <2>1, <2>2 DEF Commented
<1>3. ASSUME text[n + 1] \notin NewLine, text[n + 1] = "#"
      PROVE  Commented(text, n + 1)
  <2>1. n + 1 \in 1 .. n + 1 /\ \A k \in n + 1 .. n + 1 : k = n + 1
    OBVIOUS
  <2>. QED  BY <1>3, <2>1 DEF Commented
<1>. QED  BY <1>1, <1>2, <1>3

LineStarts(i) == file[i] \in NewLine /\ ~ (file[i] = "LF" /\ i > 1 /\ file[i - 1] = "CR")

LEMMA LinesStep ==
  ASSUME NEW n \in Nat
  PROVE  /\ LinesBefore(0) = 0
         /\ LinesBefore(n) \in Nat
         /\ LinesBefore(n + 1) = LinesBefore(n) + IF LineStarts(n + 1) THEN 1 ELSE 0
<1> DEFINE S(k) == {i \in 1 .. k : LineStarts(i)}
<1>1. \A k : LinesBefore(k) = Cardinality(S(k))
  BY DEF LinesBefore, LineStarts
<1>2. S(0) = {} /\ S(n + 1) = S(n) \cup IF LineStarts(n + 1) THEN {n + 1} ELSE {}
  OBVIOUS
<1>3. IsFiniteSet(S(n))
  <2>1. IsFiniteSet(1 .. n) /\ S(n) \subseteq 1 .. n
    BY FS_Interval
  <2>. HIDE DEF S
  <2>. QED  BY <2>1, FS_Subset
<1>4. n + 1 \notin S(n)
  OBVIOUS
<1>. HIDE DEF S
<1>5. Cardinality(S(n)) \in Nat
  BY <1>3, FS_CardinalityType
<1>6. CASE LineStarts(n + 1)
  BY <1>1, <1>2, <1>3, <1>4, <1>5, <1>6, FS_AddElement, FS_EmptySet
<1>7. CASE ~ LineStarts(n + 1)
  BY <1>1, <1>2, <1>5, <1>7, FS_EmptySet
<1>. QED  BY <1>6, <1>7

-----------------------------------------------------------------------------
(* What the parser has seen and what it has told of it, up to what is      *)
(* stripped.                                                               *)
Came == StrippedTo(file)[Passed]
Told == Lowered(FlattenSeq([i \in DOMAIN calls |-> Unparsed(calls[i])]))

(* Between two calls the parser is at a place: how far what it has told of *)
(* is from what it has seen, whether it is in a comment, whether it is in  *)
(* the middle of the end of a line, and which characters can be under the  *)
(* cursor.  It may be ahead by a word, owe a character it has told of, or  *)
(* have read a sign or a name it is yet to tell of.                        *)
Gap(ahead, owed, read) == [ahead |-> ahead, owed |-> owed, read |-> read]
Ahead(w) == Gap(w, <<>>, "none")
Owes(c)  == Gap(<<>>, <<c>>, "none")
Even     == Ahead(<<>>)
Place(gap, mode, line, see) ==
    [gap |-> gap, mode |-> mode, line |-> line, see |-> see]
Anything == Symbol \cup {EOF}
At(gap) == Place(gap, "text", "right", Anything)
In(gap) == Place(gap, "remark", "right", Anything)

SignText == IF sign THEN <<"-">> ELSE <<>>
Pending(read) ==
    CASE read = "none" -> <<>>
      [] read = "sign" -> SignText
      [] read = "name" -> d_varbuf
      [] read = "signed" -> SignText \o d_varbuf
GapHolds(gap) ==
    /\ gap.ahead \in Seq(Solid) /\ gap.owed \in Seq(Solid)
    /\ gap.read \in {"none", "sign", "name", "signed"}
    /\ Came \o gap.owed = (Told \o gap.ahead) \o Lowered(Pending(gap.read))
CommentHolds(mode) ==
    \/ mode = "remark" /\ Commented(file, Passed)
    \/ mode = "text" /\ (~ Commented(file, Passed) \/ Current = EOF)
AfterCR == Passed >= 1 /\ file[Passed] = "CR"
LineHolds(line) ==
    \/ line = "right" /\ d_ln = 1 + LinesBefore(Passed) /\ ~ (AfterCR /\ Current = "LF")
    \/ line = "pending" /\ d_ln = LinesBefore(Passed) /\ ~ (AfterCR /\ Current = "LF")
    \/ line = "cr" /\ d_ln = LinesBefore(Passed) /\ AfterCR
Meaning(p) ==
    GapHolds(p.gap) /\ CommentHolds(p.mode) /\ LineHolds(p.line) /\ Current \in p.see

(* Where a call can be made, and where it leads.                           *)
Text(p)   == p.mode = "text" /\ p.line = "right"
Remark(p) == p.mode = "remark" /\ p.line = "right"
Naming(read) == IF read = "none" THEN "name" ELSE "signed"

FunctionOk(a, p, q) ==
    \/ /\ \/ \E f \in {"qcir_file", "format_id", "comma", "output_stmt", "gates", "gate_stmt",
                       "gate_type", "args", "optional_comma"} : a = Do(f)
          \/ \E b \in BOOLEAN : a = <<"qblock_quant", b>>
       /\ Text(p) /\ p.gap = Even /\ q = At(Even)
    \/ a \in {Do("header_or_comment"), Do("skip_line")} /\ Remark(p) /\ p.gap = Even /\ q = At(Even)
    \/ a = Do("optional_g") /\ Remark(p) /\ q = In(p.gap)
    \/ a = Do("free_or_forall") /\ Text(p) /\ p.gap = Ahead(<<"f">>) /\ q = At(Even)
    \/ a = Do("var_list") /\ Text(p) /\ p.gap = Owes("(") /\ q = At(Ahead(<<")">>))
    \/ a = Do("vars") /\ Text(p) /\ p.gap = Even /\ q = At(Ahead(<<")">>))
    \/ a = Do("err") /\ p.line = "right"
NameOk(a, p, q) ==
    \/ /\ a = Do("lit") /\ Text(p) /\ p.gap = Ahead(p.gap.ahead)
       /\ q = At(Gap(p.gap.ahead, <<>>, "signed"))
    \/ /\ a = Do("sign") /\ Text(p) /\ p.gap = Ahead(p.gap.ahead)
       /\ q = At(Gap(p.gap.ahead, <<>>, "sign"))
    \/ /\ a \in {Do("var"), Do("var_start")} /\ Text(p)
       /\ \E read \in {"none", "sign"} :
            /\ p.gap = Gap(p.gap.ahead, <<>>, read)
            /\ q = At(Gap(p.gap.ahead, <<>>, Naming(read)))
    \/ /\ a \in {Do("var_chars"), Do("var_char")} /\ Text(p)
       /\ \E read \in {"name", "signed"} : p.gap = Gap(p.gap.ahead, <<>>, read)
       /\ (a = Do("var_char") => \A c \in p.see : IsVarChar(c))
       /\ q = At(p.gap)
SpaceOk(a, p, q) ==
    \/ /\ a \in {Do("skip"), Do("skipping"), Do("nltoken"), Do("nltoken_end"), Do("line_skipped")}
       /\ Text(p) /\ q = At(p.gap)
    \/ a = Do("comment") /\ Remark(p) /\ q = At(p.gap)
    \/ a = Do("nlchar") /\ p.line = "right" /\ q = At(p.gap)
    \/ a = Do("after_cr") /\ p.mode = "text" /\ p.line = "cr" /\ q = Place(p.gap, "text", "pending", Anything)
    \/ a = Do("line_read") /\ p.mode = "text" /\ p.line = "pending" /\ q = At(p.gap)
NextCharOk(a, p, q) ==
    /\ a = Do("next_char")
    /\ \/ p.see = {"LF"} /\ p.line = "right" /\ q = Place(p.gap, "text", "pending", Anything)
       \/ p.see = {"LF"} /\ p.line = "cr" /\ p.mode = "text" /\ q = Place(p.gap, "text", "pending", Anything)
       \/ p.see = {"CR"} /\ p.line = "right" /\ q = Place(p.gap, "text", "cr", Anything)
       \/ p.see = {" "} /\ Text(p) /\ q = At(p.gap)
       \/ p.see = {"#"} /\ Text(p) /\ q = In(p.gap)
       \/ Remark(p) /\ p.see \cap (NewLine \cup {EOF}) = {} /\ q = In(p.gap)
       \/ /\ Text(p) /\ p.gap = Even
          /\ \A c \in p.see : Lower(c) = "f"
          /\ q = At(Ahead(<<"f">>))
MatchOk(a, p, q) ==
    \/ \E c \in {"(", ")", "="} :
        /\ a = Char(c) /\ Text(p)
        /\ \/ p.gap = Ahead(p.gap.ahead) /\ q = At(Ahead(Append(p.gap.ahead, c)))
           \/ p.gap = Owes(c) /\ q = At(Even)
    \/ a = Char("#") /\ Text(p) /\ q = In(p.gap)
    \/ a = Char(",") /\ Text(p) /\ q = At(p.gap)
    \/ \E w \in Seq(Letter \cup {"1"}) :
        /\ a = Letters(w) /\ Len(w) >= 1
        /\ \/ Text(p) /\ p.gap = Ahead(p.gap.ahead) /\ q = At(Ahead(p.gap.ahead \o w))
           \/ Remark(p) /\ q = In(p.gap)
CallbackOk(a, p, q) ==
    /\ Text(p)
    /\ \/ \E t \in {"exists", "forall", "free"} :
            a = Report("quant", t) /\ p.gap = Ahead(Word[t]) /\ q = At(Owes("("))
       \/ \E t \in {"and", "or", "xor", "ite"} :
            a = Report("type", t) /\ p.gap = Ahead(Word[t]) /\ q = At(Owes("("))
       \/ a = CallBack("var") /\ p.gap = Gap(<<>>, <<>>, "name") /\ q = At(Even)
       \/ a = CallBack("gate") /\ p.gap = Gap(<<>>, <<>>, "name") /\ q = At(Owes("="))
       \/ a = CallBack("arg") /\ p.gap = Gap(<<>>, <<>>, "signed") /\ q = At(Even)
       \/ a = CallBack("output") /\ p.gap = Gap(<<"o", "u", "(">>, <<>>, "signed") /\ q = At(Owes(")"))
       \/ /\ a \in {CallBack("quant_closed"), CallBack("gate_closed")}
          /\ p.gap = Ahead(<<")">>) /\ q = At(Even)
       \/ a = CallBack("file_closed") /\ p.gap = Even /\ p.see = {EOF} /\ q = At(Even)
Ok(a, p, q) ==
    \/ FunctionOk(a, p, q) \/ NameOk(a, p, q) \/ SpaceOk(a, p, q)
    \/ NextCharOk(a, p, q) \/ MatchOk(a, p, q) \/ CallbackOk(a, p, q)

(* The calls s lead from place p to place q.                               *)
Chain(s, G, p, q) ==
    /\ G[0] = p /\ G[Len(s)] = q
    /\ \A i \in 1 .. Len(s) : Ok(s[i], G[i - 1], G[i])
Leads(s, p, q) == (\E S : s \in Seq(S)) /\ \E G : Chain(s, G, p, q)

(* Where the parser is, and that the calls still to be made lead from there*)
(* to the end of a text it has told all of.                                *)
Reports == {"quant", "type", "var", "gate", "output", "arg", "quant_closed", "gate_closed",
            "file_closed"} \X Seq(Solid)
Types ==
    /\ Window
    /\ d_varbuf \in Seq(Solid) /\ sign \in BOOLEAN /\ nls \in Nat
    /\ calls \in Seq(Reports)
Fits(s, q) == \E p : Meaning(p) /\ Leads(s, p, q)
OnCourse == Fits(todo, At(Even))
LexerInv ==
    /\ Types /\ OnCourse
    /\ status = "closed" => Came = Told /\ Current = EOF

(* The one step off this course: without assertions, nlchar counts a line  *)
(* that does not end.                                                      *)
Overcounts == NDEBUG /\ Head(todo) = Do("nlchar") /\ Current \notin NewLine

-----------------------------------------------------------------------------
LEMMA LeadsEmpty == \A p, q : Leads(<<>>, p, q) <=> p = q
<1>1. ASSUME NEW p PROVE Leads(<<>>, p, p)
  <2>1. Chain(<<>>, [i \in {0} |-> p], p, p)
    BY EmptySeq DEF Chain
  <2>. QED  BY <2>1, EmptySeq DEF Leads
<1>2. ASSUME NEW p, NEW q, Leads(<<>>, p, q) PROVE p = q
  BY <1>2, EmptySeq DEF Leads, Chain
<1>. QED  BY <1>1, <1>2

LEMMA LeadsOne ==
  ASSUME NEW a, NEW p, NEW q, Ok(a, p, q)
  PROVE  Leads(<<a>>, p, q)
<1> DEFINE G == [i \in 0 .. 1 |-> IF i = 0 THEN p ELSE q]
<1>1. <<a>> \in Seq({a}) /\ Len(<<a>>) = 1 /\ <<a>>[1] = a
  OBVIOUS
<1>2. G[0] = p /\ G[1] = q
  OBVIOUS
<1>. HIDE DEF G
<1>3. Chain(<<a>>, G, p, q)
  <2>1. \A i \in 1 .. 1 : i = 1 /\ i - 1 = 0
    OBVIOUS
  <2>. QED  BY <1>1, <1>2, <2>1 DEF Chain
<1>. QED  BY <1>1, <1>3 DEF Leads

LEMMA LeadsOn ==
  ASSUME NEW s, NEW t, NEW p, NEW q, NEW r, Leads(s, p, q), Leads(t, q, r)
  PROVE  Leads(s \o t, p, r)
<1>0. PICK S, T : s \in Seq(S) /\ t \in Seq(T)
  BY DEF Leads
<1>1. s \in Seq(S \cup T) /\ t \in Seq(S \cup T)
  BY <1>0, SeqWider
<1>2. PICK G : Chain(s, G, p, q)
  BY DEF Leads
<1>3. PICK H : Chain(t, H, q, r)
  BY DEF Leads
<1> DEFINE m == Len(s)
           n == Len(t)
           K == [i \in 0 .. m + n |-> IF i <= m THEN G[i] ELSE H[i - m]]
           u == s \o t
<1>4. /\ u \in Seq(S \cup T) /\ Len(u) = m + n /\ m \in Nat /\ n \in Nat
      /\ \A i \in 1 .. m + n : u[i] = IF i <= m THEN s[i] ELSE t[i - m]
  BY <1>1, ConcatProperties, LenProperties
<1>5. \A i \in 0 .. m : K[i] = G[i]
  BY <1>4
<1>6. \A i \in m .. m + n : K[i] = H[i - m]
  <2>1. \A i \in m .. m + n : i \in 0 .. m + n /\ (i <= m => i = m /\ i - m = 0)
    BY <1>4
  <2>2. G[m] = H[0]
    BY <1>2, <1>3 DEF Chain
  <2>. QED  BY <2>1, <2>2
<1>. HIDE DEF K, u
<1>7. K[0] = p /\ K[m + n] = r
  <2>1. 0 \in 0 .. m /\ m + n \in m .. m + n /\ (m + n) - m = n
    BY <1>4
  <2>. HIDE DEF m, n
  <2>2. K[0] = G[0] /\ K[m + n] = H[(m + n) - m]
    BY <1>5, <1>6, <2>1
  <2>3. H[(m + n) - m] = H[n]
    BY <2>1
  <2>. QED  BY <1>2, <1>3, <2>2, <2>3 DEF Chain, m, n
<1>8. ASSUME NEW i \in 1 .. m + n PROVE Ok(u[i], K[i - 1], K[i])
  <2>1. CASE i <= m
    <3>1. i \in 1 .. m /\ i \in 0 .. m /\ i - 1 \in 0 .. m
      BY <1>4, <2>1
    <3>2. K[i] = G[i] /\ K[i - 1] = G[i - 1] /\ u[i] = s[i]
      BY <1>4, <1>5, <2>1, <3>1
    <3>3. Ok(s[i], G[i - 1], G[i])
      BY <1>2, <3>1 DEF Chain
    <3>. QED  BY <3>2, <3>3
  <2>2. CASE ~ i <= m
    <3>1. /\ i - m \in 1 .. n /\ i \in m .. m + n /\ i - 1 \in m .. m + n
          /\ (i - 1) - m = (i - m) - 1
      BY <1>4, <2>2
    <3>. HIDE DEF m, n
    <3> DEFINE j == i - m
    <3>2. K[i] = H[j] /\ K[i - 1] = H[j - 1] /\ u[i] = t[j]
      BY <1>4, <1>6, <2>2, <3>1
    <3>3. Ok(t[j], H[j - 1], H[j])
      BY <1>3, <3>1 DEF Chain, m, n
    <3>. QED  BY <3>2, <3>3
  <2>. QED  BY <2>1, <2>2
<1>9. Chain(u, K, p, r)
  BY <1>4, <1>7, <1>8 DEF Chain
<1>. QED  BY <1>4, <1>9 DEF Leads, u

LEMMA LeadsHead ==
  ASSUME NEW s, NEW p, NEW q, Leads(s, p, q), s # <<>>
  PROVE  \E r : Ok(Head(s), p, r) /\ Leads(Tail(s), r, q)
<1>0. PICK S : s \in Seq(S)
  BY DEF Leads
<1>1. PICK G : Chain(s, G, p, q)
  BY DEF Leads
<1> DEFINE n == Len(s)
           t == Tail(s)
           H == [i \in 0 .. n - 1 |-> G[i + 1]]
<1>2. /\ n \in Nat \ {0} /\ t \in Seq(S) /\ Len(t) = n - 1 /\ Head(s) = s[1]
      /\ \A i \in 1 .. n - 1 : t[i] = s[i + 1]
  BY <1>0, EmptySeq, LenProperties, HeadTailProperties
<1>3. \A i \in 0 .. n - 1 : H[i] = G[i + 1]
  OBVIOUS
<1>. HIDE DEF H, t
<1>4. Ok(Head(s), p, G[1])
  <2>1. 1 \in 1 .. Len(s) /\ 1 - 1 = 0
    BY <1>2
  <2>. QED  BY <1>1, <1>2, <2>1 DEF Chain
<1>5. H[0] = G[1] /\ H[n - 1] = q
  <2>1. 0 \in 0 .. n - 1 /\ n - 1 \in 0 .. n - 1 /\ (n - 1) + 1 = n
    BY <1>2
  <2>2. H[0] = G[0 + 1] /\ H[n - 1] = G[(n - 1) + 1]
    BY <1>3, <2>1
  <2>. QED  BY <1>1, <2>1, <2>2 DEF Chain
<1>6. ASSUME NEW i \in 1 .. n - 1 PROVE Ok(t[i], H[i - 1], H[i])
  <2>1. /\ i - 1 \in 0 .. n - 1 /\ i \in 0 .. n - 1 /\ i + 1 \in 1 .. n
        /\ (i + 1) - 1 = i /\ (i - 1) + 1 = i
    BY <1>2
  <2>. HIDE DEF n
  <2>2. H[i - 1] = G[(i - 1) + 1] /\ H[i] = G[i + 1] /\ t[i] = s[i + 1]
    BY <1>2, <1>3, <2>1
  <2> DEFINE j == i + 1
  <2>3. Ok(s[j], G[j - 1], G[j])
    BY <1>1, <2>1 DEF Chain, n
  <2>4. j - 1 = i /\ H[i - 1] = G[i]
    BY <2>1, <2>2
  <2>. QED  BY <2>2, <2>3, <2>4
<1>7. Chain(t, H, G[1], q)
  BY <1>2, <1>5, <1>6 DEF Chain
<1>. QED  BY <1>2, <1>4, <1>7 DEF Leads, t

LEMMA TupleOfTwo == \A a, b : <<a>> \o <<b>> = <<a, b>>
<1>. SUFFICES ASSUME NEW a, NEW b PROVE <<a>> \o <<b>> = <<a, b>>
  OBVIOUS
<1>1. <<a>> \in Seq({a, b}) /\ <<a, b>> = Append(<<a>>, b)
  OBVIOUS
<1>. QED  BY <1>1, AppendIsConcat

LEMMA TupleOfThree == \A a, b, c : Append(<<a, b>>, c) = <<a, b, c>>
<1>. SUFFICES ASSUME NEW a, NEW b, NEW c PROVE Append(<<a, b>>, c) = <<a, b, c>>
  OBVIOUS
<1>1. <<a, b>> \in Seq({a, b, c}) /\ <<a, b, c>> = <<a, b>> \o <<c>>
  OBVIOUS
<1>. QED  BY <1>1, AppendIsConcat

LEMMA LeadsTwo ==
  ASSUME NEW a, NEW b, NEW p, NEW q, NEW r, Ok(a, p, q), Ok(b, q, r)
  PROVE  Leads(<<a, b>>, p, r)
<1>1. Leads(<<a>>, p, q) /\ Leads(<<b>>, q, r)
  BY LeadsOne
<1>2. <<a, b>> = <<a>> \o <<b>>
  BY TupleOfTwo
<1>. QED  BY <1>1, <1>2, LeadsOn

LEMMA LeadsThree ==
  ASSUME NEW a, NEW b, NEW c, NEW p, NEW q, NEW r, NEW s, Ok(a, p, q), Ok(b, q, r), Ok(c, r, s)
  PROVE  Leads(<<a, b, c>>, p, s)
<1>1. Leads(<<a, b>>, p, r) /\ Leads(<<c>>, r, s)
  BY LeadsOne, LeadsTwo
<1>2. <<a, b, c>> = <<a, b>> \o <<c>>
  OBVIOUS
<1>. QED  BY <1>1, <1>2, LeadsOn

LEMMA LeadsFour ==
  ASSUME NEW a, NEW b, NEW c, NEW d, NEW p, NEW q, NEW r, NEW s, NEW t,
         Ok(a, p, q), Ok(b, q, r), Ok(c, r, s), Ok(d, s, t)
  PROVE  Leads(<<a, b, c, d>>, p, t)
<1>1. Leads(<<a, b>>, p, r) /\ Leads(<<c, d>>, r, t)
  BY LeadsTwo
<1>2. <<a, b, c, d>> = <<a, b>> \o <<c, d>>
  OBVIOUS
<1>. QED  BY <1>1, <1>2, LeadsOn

LEMMA TupleOfFive == \A a, b, c, d, e : <<a, b, c, d, e>> = <<a, b, c>> \o <<d, e>>
  OBVIOUS
LEMMA TupleOfSix == \A a, b, c, d, e, f : <<a, b, c, d, e, f>> = <<a, b, c>> \o <<d, e, f>>
  OBVIOUS

-----------------------------------------------------------------------------
(* What is under the cursor, and what moving it does.                      *)
LEMMA Sees ==
  ASSUME Window
  PROVE  /\ Passed \in 0 .. Len(file) /\ Len(file) \in Nat /\ file \in Seq(Symbol)
         /\ Current \in Anything
         /\ Current # EOF => Passed < Len(file) /\ file[Passed + 1] = Current
         /\ Current = EOF /\ (\A i \in DOMAIN file : Promoted[file[i]] # EOF) => Passed = Len(file)
<1>1. Transparent /\ file \in Seq(Byte) /\ Len(file) \in Nat
  BY WindowTransparent, LenProperties DEF Window
<1>2. Passed \in 0 .. Len(file)
        /\ Current = IF Passed < Len(file) THEN Promoted[file[Passed + 1]] ELSE EOF
  BY <1>1 DEF Transparent, Abstract!Seen
<1>3. file \in Seq(Symbol)
  <2>1. Byte \subseteq Symbol
    BY DEF Symbol
  <2>. QED  BY <1>1, <2>1, SeqWider
<1>4. CASE Passed < Len(file)
  <2>1. Passed + 1 \in 1 .. Len(file)
    BY <1>1, <1>2, <1>4
  <2>2. file[Passed + 1] \in Byte
    BY <1>1, <2>1, ElementOfSeq
  <2>3. Current \in {file[Passed + 1], EOF}
    BY <1>2, <1>4, <2>2, CharactersAssumption
  <2>4. Passed + 1 \in DOMAIN file
    BY <1>1, <2>1, LenProperties
  <2>. QED  BY <1>1, <1>2, <1>3, <1>4, <2>2, <2>3, <2>4 DEF Anything, Symbol
<1>5. CASE ~ Passed < Len(file)
  BY <1>1, <1>2, <1>3, <1>5 DEF Anything
<1>. QED  BY <1>4, <1>5

LEMMA SeesAny == Window => Current \in Anything
BY Sees

LEMMA CameRight ==
  ASSUME Window
  PROVE  Came \in Seq(Symbol)
BY Sees, StrippedToEqs DEF Came

Moves == Window /\ Advance /\ Current # EOF

LEMMA MovesRight ==
  ASSUME Moves
  PROVE  /\ Window' /\ file' = file /\ Passed' = Passed + 1
         /\ Passed \in Nat /\ file[Passed + 1] = Current /\ Current \in Symbol
         /\ (Current \in Anything)'
         /\ Commented(file, Passed)'
                <=> Current \notin NewLine /\ (Commented(file, Passed) \/ Current = "#")
         /\ Came' = IF Commented(file, Passed)' \/ Current \in NewLine \cup Blank \cup {","}
                    THEN Came ELSE Append(Came, Lower(Current))
         /\ AfterCR' <=> Current = "CR"
         /\ LinesBefore(Passed) \in Nat
         /\ LinesBefore(Passed)' = LinesBefore(Passed)
                + IF Current = "CR" \/ (Current = "LF" /\ ~ AfterCR) THEN 1 ELSE 0
<1>1. Window /\ Advance /\ Current # EOF
  BY DEF Moves
<1>2. /\ Passed \in 0 .. Len(file) /\ Len(file) \in Nat /\ file \in Seq(Symbol)
      /\ Passed < Len(file) /\ file[Passed + 1] = Current /\ Current \in Symbol
  BY <1>1, Sees DEF Anything
<1>3. Window'
  BY <1>1, WindowStep
<1>4. file' = file /\ Passed' = Passed + 1
  <2>1. [Abstract!Step]_<<file, Passed>>
    BY <1>1, AdvanceSteps
  <2>2. file' = file
    BY <1>1 DEF Advance
  <2>3. Passed' # Passed
    <3>. SUFFICES ASSUME Passed' = Passed PROVE FALSE
      OBVIOUS
    <3>0. size \in Nat /\ Len(file) \in Nat
      BY <1>1, LenProperties DEF Window, size
    <3>1. CASE pos + 1 < size
      BY <1>1, <3>0, <3>1 DEF Advance, AssureLookahead, Passed, size, Window
    <3>2. CASE ~ pos + 1 < size
      <4>1. pos' = 0
        BY <1>1, <3>0, <3>2 DEF Advance, AssureLookahead, Window
      <4>2. PICK n \in GzCounts :
              buf' = SubSeq(file, given + 1, given + n) /\ given' = given + n
        BY <1>1, <3>0, <3>2 DEF Advance, AssureLookahead, GzRead, Window
      <4>3. n \in Nat /\ Len(SubSeq(file, given + 1, given + n)) = n
        BY <1>1, <4>2, Refill DEF GzCounts, Window
      <4>4. Passed' = given
        BY <1>1, <4>1, <4>2, <4>3 DEF Passed, size, Window
      <4>. QED  BY <1>1, <1>2, <3>0, <4>4 DEF Passed, Window
    <3>. QED  BY <3>1, <3>2
  <2>. QED  BY <1>2, <2>1, <2>2, <2>3 DEF Abstract!Step
<1>5. (Current \in Anything)'
  BY <1>3, SeesAny, PTL
<1>6. Commented(file, Passed)'
            <=> Current \notin NewLine /\ (Commented(file, Passed) \/ Current = "#")
  <2>0. Passed \in Nat
    BY <1>2
  <2>1. Commented(file, Passed)' <=> Commented(file, Passed + 1)
    BY <1>4 DEF Commented
  <2>2. Commented(file, Passed + 1) <=> file[Passed + 1] \notin NewLine
            /\ (Commented(file, Passed) \/ file[Passed + 1] = "#")
    BY <2>0, CommentedStep
  <2>. QED  BY <1>2, <2>1, <2>2
<1>7. Came' = IF Commented(file, Passed)' \/ Current \in NewLine \cup Blank \cup {","}
              THEN Came ELSE Append(Came, Lower(Current))
  <2>1. Commented(file, Passed)' = Commented(file, Passed + 1)
    BY <1>4 DEF Commented
  <2>2. Came' = StrippedTo(file)[Passed + 1]
    BY <1>4 DEF Came, StrippedTo, Commented
  <2>3. Passed + 1 \in 1 .. Len(file) /\ Passed + 1 - 1 = Passed
    BY <1>2
  <2> DEFINE n == Passed + 1
  <2>. HIDE DEF n
  <2>4. StrippedTo(file)[n] = IF Commented(file, n) \/ file[n] \in NewLine \cup Blank \cup {","}
                THEN StrippedTo(file)[n - 1]
                ELSE Append(StrippedTo(file)[n - 1], Lower(file[n]))
    BY <1>2, <2>3, StrippedToEqs DEF n
  <2>5. n - 1 = Passed
    BY <1>2 DEF n
  <2>6. StrippedTo(file)[n - 1] = Came
    BY <2>5 DEF Came
  <2>7. Came' = StrippedTo(file)[n] /\ file[n] = Current /\ Commented(file, Passed)' = Commented(file, n)
    BY <1>2, <2>1, <2>2 DEF n
  <2>. QED  BY <2>4, <2>6, <2>7
<1>8. AfterCR' <=> Current = "CR"
  BY <1>2, <1>4 DEF AfterCR
<1>9. /\ LinesBefore(Passed) \in Nat
      /\ LinesBefore(Passed)' = LinesBefore(Passed)
            + IF Current = "CR" \/ (Current = "LF" /\ ~ AfterCR) THEN 1 ELSE 0
  <2>1. LinesBefore(Passed)' = LinesBefore(Passed + 1)
    BY <1>4 DEF LinesBefore
  <2>0. Passed \in Nat
    BY <1>2
  <2>2. /\ LinesBefore(Passed) \in Nat
        /\ LinesBefore(Passed + 1) = LinesBefore(Passed) + IF LineStarts(Passed + 1) THEN 1 ELSE 0
    BY <2>0, LinesStep
  <2>3. LineStarts(Passed + 1) <=> Current = "CR" \/ (Current = "LF" /\ ~ AfterCR)
    <3>1. (Passed + 1) - 1 = Passed /\ (Passed + 1 > 1 <=> Passed >= 1)
      BY <1>2
    <3>. QED  BY <1>2, <3>1 DEF LineStarts, AfterCR, NewLine
  <2>. QED  BY <2>1, <2>2, <2>3
<1>10. Passed \in Nat
  BY <1>2
<1>. QED  BY <1>2, <1>3, <1>4, <1>5, <1>6, <1>7, <1>8, <1>9, <1>10

LEMMA CommentMoves ==
  ASSUME Moves
  PROVE  /\ Current \in NewLine => CommentHolds("text")'
         /\ Current = "#" => CommentHolds("remark")'
         /\ CommentHolds("remark") /\ Current \notin NewLine => CommentHolds("remark")'
         /\ CommentHolds("text") /\ Current \notin NewLine \cup {"#"} => CommentHolds("text")'
<1>1. "#" \notin NewLine /\ Current # EOF /\ "text" # "remark"
  BY DEF NewLine, Moves
<1>. QED  BY <1>1, MovesRight DEF CommentHolds

LEMMA LineMoves ==
  ASSUME Moves, d_ln' = d_ln
  PROVE  /\ LineHolds("right") /\ Current \notin NewLine => LineHolds("right")'
         /\ Current = "LF" /\ (LineHolds("right") \/ LineHolds("cr")) => LineHolds("pending")'
         /\ Current = "CR" /\ LineHolds("right") => LineHolds("cr")'
<1>0. /\ LineHolds("right")' <=> d_ln' = 1 + LinesBefore(Passed)' /\ ~ (AfterCR' /\ Current' = "LF")
      /\ LineHolds("pending")' <=> d_ln' = LinesBefore(Passed)' /\ ~ (AfterCR' /\ Current' = "LF")
      /\ LineHolds("cr")' <=> d_ln' = LinesBefore(Passed)' /\ AfterCR'
  BY DEF LineHolds
<1>1. /\ LineHolds("right") <=> d_ln = 1 + LinesBefore(Passed) /\ ~ (AfterCR /\ Current = "LF")
      /\ LineHolds("cr") <=> d_ln = LinesBefore(Passed) /\ AfterCR
  BY DEF LineHolds
<1>2. /\ AfterCR' <=> Current = "CR"
      /\ LinesBefore(Passed) \in Nat
      /\ LinesBefore(Passed)' = LinesBefore(Passed)
            + IF Current = "CR" \/ (Current = "LF" /\ ~ AfterCR) THEN 1 ELSE 0
  BY MovesRight
<1>3. /\ Current \notin NewLine <=> Current # "CR" /\ Current # "LF"
      /\ "CR" # "LF"
  BY DEF NewLine
<1>4. LineHolds("right") /\ Current \notin NewLine => LineHolds("right")'
  BY <1>0, <1>1, <1>2, <1>3
<1>5. Current = "LF" /\ (LineHolds("right") \/ LineHolds("cr")) => LineHolds("pending")'
  BY <1>0, <1>1, <1>2, <1>3
<1>6. Current = "CR" /\ LineHolds("right") => LineHolds("cr")'
  BY <1>0, <1>1, <1>2, <1>3
<1>. QED  BY <1>4, <1>5, <1>6

-----------------------------------------------------------------------------
(* How the gap between what was seen and what was told goes on.            *)
LEMMA UnparsedRight ==
  ASSUME NEW call \in Reports
  PROVE  Unparsed(call) \in Seq(Solid)
<1>1. call[2] \in Seq(Solid)
  BY DEF Reports
<1>2. /\ <<"(">> \in Seq(Solid) /\ <<")">> \in Seq(Solid) /\ <<"=">> \in Seq(Solid)
      /\ Word.output \o <<"(">> \in Seq(Solid)
  <2>1. {"(", ")", "=", "o", "u"} \subseteq Solid
    BY DEF Solid, Characters, NewLine, Blank, Letter
  <2>2. Word.output = <<"o", "u">>
    BY DEF Word
  <2>. QED  BY <2>1, <2>2, ConcatProperties
<1>3. /\ call[2] \o <<"(">> \in Seq(Solid) /\ call[2] \o <<"=">> \in Seq(Solid)
      /\ (Word.output \o <<"(">>) \o call[2] \in Seq(Solid)
      /\ ((Word.output \o <<"(">>) \o call[2]) \o <<")">> \in Seq(Solid)
  BY <1>1, <1>2, ConcatProperties
<1>4. call[1] \in {"quant", "type", "var", "gate", "output", "arg", "quant_closed", "gate_closed",
                   "file_closed"}
  BY DEF Reports
<1>. QED  BY <1>1, <1>2, <1>3, <1>4 DEF Unparsed

Parts(s) == [i \in DOMAIN s |-> Unparsed(s[i])]

LEMMA PartsRight ==
  /\ Parts(<<>>) = <<>>
  /\ \A s \in Seq(Reports) : Parts(s) \in Seq(Seq(Solid))
  /\ \A s \in Seq(Reports), c \in Reports : Parts(Append(s, c)) = Append(Parts(s), Unparsed(c))
<1>1. Parts(<<>>) = <<>>
  BY EmptySeq DEF Parts
<1>2. ASSUME NEW s \in Seq(Reports)
      PROVE  /\ Parts(s) \in Seq(Seq(Solid)) /\ Len(Parts(s)) = Len(s) /\ Len(s) \in Nat
             /\ \A i \in 1 .. Len(s) : Parts(s)[i] = Unparsed(s[i])
  <2>1. DOMAIN s = 1 .. Len(s) /\ Len(s) \in Nat /\ \A i \in 1 .. Len(s) : s[i] \in Reports
    BY LenProperties, ElementOfSeq
  <2>2. Parts(s) \in [1 .. Len(s) -> Seq(Solid)]
    BY <2>1, UnparsedRight DEF Parts
  <2>3. Parts(s) \in Seq(Seq(Solid))
    BY <2>1, <2>2, SeqDef
  <2>. QED  BY <2>1, <2>2, <2>3, LenProperties DEF Parts
<1>3. ASSUME NEW s \in Seq(Reports), NEW c \in Reports
      PROVE  Parts(Append(s, c)) = Append(Parts(s), Unparsed(c))
  <2> DEFINE t == Append(s, c)
             a == Parts(t)
             b == Parts(s)
             u == Unparsed(c)
  <2>1. /\ t \in Seq(Reports) /\ Len(t) = Len(s) + 1 /\ t[Len(s) + 1] = c
        /\ \A i \in 1 .. Len(s) : t[i] = s[i]
    BY AppendProperties
  <2>2. b \in Seq(Seq(Solid)) /\ u \in Seq(Solid) /\ a \in Seq(Seq(Solid))
    BY <1>2, <2>1, UnparsedRight
  <2>3. Len(b) = Len(s) /\ Len(s) \in Nat /\ Len(a) = Len(s) + 1
    BY <1>2, <2>1
  <2>4. /\ \A i \in 1 .. Len(s) : b[i] = Unparsed(s[i])
        /\ \A i \in 1 .. Len(s) + 1 : a[i] = Unparsed(t[i])
    BY <1>2, <2>1
  <2>. HIDE DEF a, b, u, t
  <2>5. /\ Append(b, u) \in Seq(Seq(Solid)) /\ Len(Append(b, u)) = Len(s) + 1
        /\ Append(b, u)[Len(s) + 1] = u
        /\ \A i \in 1 .. Len(s) : Append(b, u)[i] = b[i]
    BY <2>2, <2>3, AppendProperties
  <2>6. \A i \in 1 .. Len(s) + 1 : a[i] = Append(b, u)[i]
    <3>1. \A i \in 1 .. Len(s) + 1 : i \in 1 .. Len(s) \/ i = Len(s) + 1
      BY <2>3
    <3>. QED  BY <2>1, <2>3, <2>4, <2>5, <3>1 DEF u
  <2>7. a = Append(b, u)
    BY <2>2, <2>3, <2>5, <2>6, SeqEqual
  <2>. QED  BY <2>7 DEF a, b, u, t
<1>. QED  BY <1>1, <1>2, <1>3

LEMMA ToldRight ==
  ASSUME calls \in Seq(Reports)
  PROVE  /\ FlattenSeq(Parts(calls)) \in Seq(Solid)
         /\ Told = Lowered(FlattenSeq(Parts(calls)))
         /\ Told \in Seq(Symbol)
<1>1. <<>> \in Seq(Solid)
  BY EmptySeq
<1>2. FlattenSeq(Parts(calls)) \in Seq(Solid)
  BY <1>1, PartsRight, FlattenSeqRight
<1>3. Told = Lowered(FlattenSeq(Parts(calls)))
  BY DEF Told, Parts
<1>. QED  BY <1>2, <1>3, SolidIsSymbol, LoweredRight

LEMMA ToldStep ==
  ASSUME calls \in Seq(Reports), NEW c \in Reports, calls' = Append(calls, c)
  PROVE  calls' \in Seq(Reports) /\ Told' = Told \o Lowered(Unparsed(c))
<1>1. calls' \in Seq(Reports)
  BY AppendProperties
<1>2. Told' = Lowered(FlattenSeq(Parts(calls')))
  BY DEF Told, Parts
<1>3. FlattenSeq(Parts(calls')) = FlattenSeq(Parts(calls)) \o Unparsed(c)
  BY PartsRight, UnparsedRight, FlattenSeqRight
<1>4. FlattenSeq(Parts(calls)) \in Seq(Symbol) /\ Unparsed(c) \in Seq(Symbol)
  BY ToldRight, UnparsedRight, SolidIsSymbol
<1>. QED  BY <1>1, <1>2, <1>3, <1>4, ToldRight, LoweredRight

GapForms ==
    /\ Came \in Seq(Symbol) /\ Told \in Seq(Symbol) /\ d_varbuf \in Seq(Symbol)
    /\ SignText \in Seq(Symbol)
    /\ \A w \in Seq(Solid) :
        /\ GapHolds(Ahead(w)) <=> Came = Told \o w
        /\ GapHolds(Gap(w, <<>>, "sign")) <=> Came = (Told \o w) \o Lowered(SignText)
        /\ GapHolds(Gap(w, <<>>, "name")) <=> Came = (Told \o w) \o Lowered(d_varbuf)
        /\ GapHolds(Gap(w, <<>>, "signed")) <=> Came = (Told \o w) \o Lowered(SignText \o d_varbuf)
    /\ \A c \in Solid : GapHolds(Owes(c)) <=> Came \o <<c>> = Told

LEMMA GapEqs == Types => GapForms
<1>. SUFFICES ASSUME Types PROVE GapForms
  OBVIOUS
<1>1. Came \in Seq(Symbol) /\ Told \in Seq(Symbol) /\ d_varbuf \in Seq(Symbol)
  BY CameRight, ToldRight, SolidIsSymbol DEF Types
<1>2. SignText \in Seq(Symbol)
  <2>1. "-" \in Symbol
    BY DEF Symbol, Characters
  <2>. QED  BY <2>1, EmptySeq DEF SignText
<1>3. <<>> \in Seq(Solid) /\ Lowered(<<>>) = <<>>
  BY EmptySeq, LoweredRight
<1>4. \A s \in Seq(Symbol) : s \o <<>> = s /\ <<>> \o s = s
  BY ConcatEmptySeq
<1>5. ASSUME NEW w \in Seq(Solid)
      PROVE  /\ GapHolds(Ahead(w)) <=> Came = Told \o w
             /\ GapHolds(Gap(w, <<>>, "sign")) <=> Came = (Told \o w) \o Lowered(SignText)
             /\ GapHolds(Gap(w, <<>>, "name")) <=> Came = (Told \o w) \o Lowered(d_varbuf)
             /\ GapHolds(Gap(w, <<>>, "signed"))
                    <=> Came = (Told \o w) \o Lowered(SignText \o d_varbuf)
  <2>1. ASSUME NEW read \in {"none", "sign", "name", "signed"}
        PROVE  GapHolds(Gap(w, <<>>, read)) <=> Came = (Told \o w) \o Lowered(Pending(read))
    <3> DEFINE g == Gap(w, <<>>, read)
    <3>1. g.ahead = w /\ g.owed = <<>> /\ g.read = read
      BY DEF Gap
    <3>. HIDE DEF g
    <3>2. Came \o <<>> = Came
      BY <1>1, <1>4
    <3>. QED  BY <1>3, <3>1, <3>2 DEF GapHolds, g
  <2>2. Told \o w \in Seq(Symbol)
    BY <1>1, SolidIsSymbol, ConcatProperties
  <2>3. /\ Pending("none") = <<>> /\ Pending("sign") = SignText /\ Pending("name") = d_varbuf
        /\ Pending("signed") = SignText \o d_varbuf
    BY DEF Pending
  <2>4. (Told \o w) \o Lowered(Pending("none")) = Told \o w
    BY <1>3, <1>4, <2>2, <2>3
  <2>. QED  BY <2>1, <2>3, <2>4 DEF Ahead
<1>6. ASSUME NEW c \in Solid
      PROVE  GapHolds(Owes(c)) <=> Came \o <<c>> = Told
  <2> DEFINE g == Owes(c)
  <2>1. g.ahead = <<>> /\ g.owed = <<c>> /\ g.read = "none"
    BY DEF Owes, Gap
  <2>. HIDE DEF g
  <2>2. (Told \o <<>>) \o Lowered(Pending("none")) = Told
    BY <1>1, <1>3, <1>4 DEF Pending
  <2>3. <<c>> \in Seq(Solid)
    OBVIOUS
  <2>. QED  BY <1>3, <2>1, <2>2, <2>3 DEF GapHolds, g
<1>. QED  BY <1>1, <1>2, <1>5, <1>6 DEF GapForms

LEMMA GapStill ==
  ASSUME NEW gap, GapHolds(gap), Came' = Came, UNCHANGED <<calls, sign, d_varbuf>>
  PROVE  GapHolds(gap)'
<1>1. Told' = Told
  BY DEF Told
<1>2. Pending(gap.read)' = Pending(gap.read)
  BY DEF Pending, SignText
<1>. QED  BY <1>1, <1>2 DEF GapHolds

LEMMA GapGrows ==
  ASSUME Types, Types', NEW c \in Solid, Came' = Append(Came, c), calls' = calls
  PROVE  /\ \A w \in Seq(Solid) : GapHolds(Ahead(w)) => GapHolds(Ahead(Append(w, c)))'
         /\ GapHolds(Owes(c)) => GapHolds(Even)'
<1>1. Told' = Told
  BY DEF Told
<1>2. GapForms /\ GapForms'
  BY GapEqs, PTL
<1>4. c \in Symbol /\ <<>> \in Seq(Solid)
  BY SolidIsSymbol, EmptySeq
<1>5. ASSUME NEW w \in Seq(Solid), GapHolds(Ahead(w)) PROVE GapHolds(Ahead(Append(w, c)))'
  <2>1. Came = Told \o w
    BY <1>2, <1>5 DEF GapForms
  <2>2. Append(Told \o w, c) = Told \o Append(w, c)
    <3>1. Told \in Seq(Symbol) /\ w \in Seq(Symbol)
      BY <1>2, SolidIsSymbol DEF GapForms
    <3>. QED  BY <1>4, <3>1, SymbolSeqs
  <2>3. Append(w, c) \in Seq(Solid)
    BY AppendProperties
  <2>4. Came' = Told' \o Append(w, c)
    BY <1>1, <2>1, <2>2
  <2>. QED  BY <1>2, <2>3, <2>4 DEF GapForms
<1>6. ASSUME GapHolds(Owes(c)) PROVE GapHolds(Even)'
  <2>1. Came \o <<c>> = Told
    BY <1>2, <1>6 DEF GapForms
  <2>2. Append(Came, c) = Told /\ Told = Told \o <<>>
    BY <1>2, <1>4, <2>1, SymbolSeqs DEF GapForms
  <2>3. Came' = Told' \o <<>>
    BY <1>1, <2>2
  <2>. QED  BY <1>2, <1>4, <2>3 DEF Even, GapForms
<1>. QED  BY <1>5, <1>6

LEMMA GapSigned ==
  ASSUME Types, Types', calls' = calls,
         \/ Came' = Append(Came, "-") /\ SignText' = <<"-">>
         \/ Came' = Came /\ SignText' = <<>>
  PROVE  \A w \in Seq(Solid) : GapHolds(Ahead(w)) => GapHolds(Gap(w, <<>>, "sign"))'
<1>1. Told' = Told
  BY DEF Told
<1>2. GapForms /\ GapForms'
  BY GapEqs, PTL
<1>3. "-" \in Symbol /\ Lowered(<<>>) = <<>> /\ Lowered(<<"-">>) = <<"-">>
  <2>1. "-" \in Symbol
    BY DEF Symbol, Characters
  <2>2. Lower("-") = "-"
    BY DEF Lower, Capital
  <2>3. Lowered(<<>>) = <<>> /\ Lowered(Append(<<>>, "-")) = Append(Lowered(<<>>), Lower("-"))
    BY <2>1, LoweredRight, SymbolSeqs
  <2>4. Append(<<>>, "-") = <<"-">>
    OBVIOUS
  <2>. QED  BY <2>1, <2>2, <2>3, <2>4
<1>. SUFFICES ASSUME NEW w \in Seq(Solid), GapHolds(Ahead(w))
              PROVE  GapHolds(Gap(w, <<>>, "sign"))'
  OBVIOUS
<1>4. Came = Told \o w /\ Came \in Seq(Symbol)
  BY <1>2 DEF GapForms
<1>5. Came' = Came \o Lowered(SignText')
  <2>1. Append(Came, "-") = Came \o <<"-">> /\ Came = Came \o <<>>
    BY <1>3, <1>4, SymbolSeqs
  <2>. QED  BY <1>3, <2>1
<1>. QED  BY <1>1, <1>2, <1>4, <1>5 DEF GapForms

LEMMA GapNamed ==
  ASSUME Types, Types', UNCHANGED <<calls, sign>>, Came' = Came, d_varbuf' = <<>>
  PROVE  \A w \in Seq(Solid) :
            /\ GapHolds(Ahead(w)) => GapHolds(Gap(w, <<>>, "name"))'
            /\ GapHolds(Gap(w, <<>>, "sign")) => GapHolds(Gap(w, <<>>, "signed"))'
<1>1. Told' = Told /\ SignText' = SignText
  BY DEF Told, SignText
<1>2. GapForms /\ GapForms'
  BY GapEqs, PTL
<1>. SUFFICES ASSUME NEW w \in Seq(Solid)
              PROVE  /\ GapHolds(Ahead(w)) => GapHolds(Gap(w, <<>>, "name"))'
                     /\ GapHolds(Gap(w, <<>>, "sign")) => GapHolds(Gap(w, <<>>, "signed"))'
  OBVIOUS
<1>3. Told \o w \in Seq(Symbol) /\ SignText \in Seq(Symbol)
  BY <1>2, SolidIsSymbol, SymbolSeqs DEF GapForms
<1>4. Lowered(d_varbuf') = <<>> /\ (Told \o w) \o <<>> = Told \o w /\ SignText \o d_varbuf' = SignText
  BY <1>3, LoweredRight, SymbolSeqs
<1>5. ASSUME GapHolds(Ahead(w)) PROVE GapHolds(Gap(w, <<>>, "name"))'
  <2>1. Came = Told \o w
    BY <1>2, <1>5 DEF GapForms
  <2>2. Came' = (Told' \o w) \o Lowered(d_varbuf')
    BY <1>1, <1>4, <2>1
  <2>. QED  BY <1>2, <2>2 DEF GapForms
<1>6. ASSUME GapHolds(Gap(w, <<>>, "sign")) PROVE GapHolds(Gap(w, <<>>, "signed"))'
  <2>1. Came = (Told \o w) \o Lowered(SignText)
    BY <1>2, <1>6 DEF GapForms
  <2>2. Came' = (Told' \o w) \o Lowered(SignText' \o d_varbuf')
    BY <1>1, <1>4, <2>1
  <2>. QED  BY <1>2, <2>2 DEF GapForms
<1>. QED  BY <1>5, <1>6

LEMMA GapSpelled ==
  ASSUME Types, Types', UNCHANGED <<calls, sign>>, NEW c \in Symbol,
         Came' = Append(Came, Lower(c)), d_varbuf' = Append(d_varbuf, c)
  PROVE  \A w \in Seq(Solid), read \in {"name", "signed"} :
            GapHolds(Gap(w, <<>>, read)) => GapHolds(Gap(w, <<>>, read))'
<1>1. Told' = Told /\ SignText' = SignText
  BY DEF Told, SignText
<1>2. GapForms /\ GapForms'
  BY GapEqs, PTL
<1>. SUFFICES ASSUME NEW w \in Seq(Solid)
              PROVE  /\ GapHolds(Gap(w, <<>>, "name")) => GapHolds(Gap(w, <<>>, "name"))'
                     /\ GapHolds(Gap(w, <<>>, "signed")) => GapHolds(Gap(w, <<>>, "signed"))'
  OBVIOUS
<1> DEFINE p == Told \o w
           l == Lower(c)
<1>3. /\ p \in Seq(Symbol) /\ SignText \in Seq(Symbol) /\ d_varbuf \in Seq(Symbol)
      /\ l \in Symbol
  BY <1>2, SolidIsSymbol, SymbolSeqs, LowerRight DEF GapForms
<1>4. ASSUME NEW s \in Seq(Symbol), Came = p \o Lowered(s)
      PROVE  Came' = p \o Lowered(Append(s, c))
  <2>1. Lowered(Append(s, c)) = Append(Lowered(s), l) /\ Lowered(s) \in Seq(Symbol)
    BY LoweredRight
  <2>. HIDE DEF p, l
  <2>2. Append(p \o Lowered(s), l) = p \o Append(Lowered(s), l)
    BY <1>3, <2>1, SymbolSeqs
  <2>. QED  BY <1>4, <2>1, <2>2 DEF l
<1>5. ASSUME GapHolds(Gap(w, <<>>, "name")) PROVE GapHolds(Gap(w, <<>>, "name"))'
  <2>1. Came = p \o Lowered(d_varbuf)
    BY <1>2, <1>5 DEF GapForms
  <2>2. Came' = (Told' \o w) \o Lowered(d_varbuf')
    BY <1>1, <1>3, <1>4, <2>1
  <2>. QED  BY <1>2, <2>2 DEF GapForms
<1>6. ASSUME GapHolds(Gap(w, <<>>, "signed")) PROVE GapHolds(Gap(w, <<>>, "signed"))'
  <2>1. Came = p \o Lowered(SignText \o d_varbuf)
    BY <1>2, <1>6 DEF GapForms
  <2>2. SignText \o d_varbuf \in Seq(Symbol) /\ Append(SignText \o d_varbuf, c) = SignText \o d_varbuf'
    BY <1>3, SymbolSeqs
  <2>3. Came' = p \o Lowered(SignText \o d_varbuf')
    BY <1>4, <2>1, <2>2
  <2>4. Came' = (Told' \o w) \o Lowered(SignText' \o d_varbuf')
    BY <1>1, <2>3
  <2>. QED  BY <1>2, <2>4 DEF GapForms
<1>. QED  BY <1>5, <1>6

LEMMA GapTold ==
  ASSUME Types, Types', NEW call \in Reports, calls' = Append(calls, call), Came' = Came
  PROVE  /\ Came = Told \o Lowered(Unparsed(call)) => GapHolds(Even)'
         /\ \A c \in Solid :
                Came \o <<c>> = Told \o Lowered(Unparsed(call)) => GapHolds(Owes(c))'
<1>1. Told' = Told \o Lowered(Unparsed(call))
  BY ToldStep DEF Types
<1>2. GapForms /\ GapForms'
  BY GapEqs, PTL
<1>3. Told' \o <<>> = Told' /\ <<>> \in Seq(Solid)
  BY <1>2, SymbolSeqs, EmptySeq DEF GapForms
<1>4. ASSUME Came = Told \o Lowered(Unparsed(call)) PROVE GapHolds(Even)'
  <2>1. Came' = Told' \o <<>>
    BY <1>1, <1>3, <1>4
  <2>. QED  BY <1>2, <1>3, <2>1 DEF Even, GapForms
<1>5. ASSUME NEW c \in Solid, Came \o <<c>> = Told \o Lowered(Unparsed(call)) PROVE GapHolds(Owes(c))'
  <2>1. Came' \o <<c>> = Told'
    BY <1>1, <1>5
  <2>. QED  BY <1>2, <2>1 DEF GapForms
<1>. QED  BY <1>4, <1>5

-----------------------------------------------------------------------------
(* Where each call leads, in text and with nothing known of the character  *)
(* under the cursor.                                                       *)
LEMMA AtFields ==
  \A g : /\ At(g).gap = g /\ At(g).mode = "text" /\ At(g).line = "right" /\ At(g).see = Anything
         /\ In(g).gap = g /\ In(g).mode = "remark" /\ In(g).line = "right" /\ In(g).see = Anything
         /\ Text(At(g)) /\ Remark(In(g))
BY DEF At, In, Place, Text, Remark

LEMMA GapFields ==
  /\ \A w : Ahead(w).ahead = w /\ Ahead(w) = Ahead(Ahead(w).ahead)
  /\ \A w, r : Gap(w, <<>>, r).ahead = w
  /\ Even = Ahead(<<>>)
BY DEF Ahead, Gap, Even

LEMMA FunctionLeads ==
  /\ \A f \in {"qcir_file", "format_id", "comma", "output_stmt", "gates", "gate_stmt",
               "gate_type", "args", "optional_comma"} : Ok(Do(f), At(Even), At(Even))
  /\ \A b \in BOOLEAN : Ok(<<"qblock_quant", b>>, At(Even), At(Even))
  /\ Ok(Do("header_or_comment"), In(Even), At(Even))
  /\ Ok(Do("skip_line"), In(Even), At(Even))
  /\ Ok(Do("optional_g"), In(Even), In(Even))
  /\ Ok(Do("var_list"), At(Owes("(")), At(Ahead(<<")">>)))
  /\ Ok(Do("vars"), At(Even), At(Ahead(<<")">>)))
<1>1. \A f \in {"qcir_file", "format_id", "comma", "output_stmt", "gates", "gate_stmt",
               "gate_type", "args", "optional_comma"} : FunctionOk(Do(f), At(Even), At(Even))
  BY AtFields DEF FunctionOk
<1>2. \A b \in BOOLEAN : FunctionOk(<<"qblock_quant", b>>, At(Even), At(Even))
  BY AtFields DEF FunctionOk
<1>3. FunctionOk(Do("header_or_comment"), In(Even), At(Even))
  BY AtFields DEF FunctionOk
<1>4. FunctionOk(Do("skip_line"), In(Even), At(Even))
  BY AtFields DEF FunctionOk
<1>5. FunctionOk(Do("optional_g"), In(Even), In(Even))
  BY AtFields DEF FunctionOk
<1>6. FunctionOk(Do("var_list"), At(Owes("(")), At(Ahead(<<")">>)))
  BY AtFields DEF FunctionOk
<1>7. FunctionOk(Do("vars"), At(Even), At(Ahead(<<")">>)))
  BY AtFields DEF FunctionOk
<1>. QED  BY <1>1, <1>2, <1>3, <1>4, <1>5, <1>6, <1>7 DEF Ok

LEMMA NameLeads ==
  \A w : /\ Ok(Do("lit"), At(Ahead(w)), At(Gap(w, <<>>, "signed")))
         /\ Ok(Do("sign"), At(Ahead(w)), At(Gap(w, <<>>, "sign")))
         /\ Ok(Do("var"), At(Ahead(w)), At(Gap(w, <<>>, "name")))
         /\ Ok(Do("var"), At(Gap(w, <<>>, "sign")), At(Gap(w, <<>>, "signed")))
         /\ Ok(Do("var_start"), At(Ahead(w)), At(Gap(w, <<>>, "name")))
         /\ Ok(Do("var_start"), At(Gap(w, <<>>, "sign")), At(Gap(w, <<>>, "signed")))
         /\ \A r \in {"name", "signed"} :
                Ok(Do("var_chars"), At(Gap(w, <<>>, r)), At(Gap(w, <<>>, r)))
<1>. SUFFICES ASSUME NEW w
              PROVE  /\ NameOk(Do("lit"), At(Ahead(w)), At(Gap(w, <<>>, "signed")))
                     /\ NameOk(Do("sign"), At(Ahead(w)), At(Gap(w, <<>>, "sign")))
                     /\ \A f \in {"var", "var_start"} :
                            /\ NameOk(Do(f), At(Ahead(w)), At(Gap(w, <<>>, "name")))
                            /\ NameOk(Do(f), At(Gap(w, <<>>, "sign")), At(Gap(w, <<>>, "signed")))
                     /\ \A r \in {"name", "signed"} :
                            NameOk(Do("var_chars"), At(Gap(w, <<>>, r)), At(Gap(w, <<>>, r)))
  BY DEF Ok
<1>1. /\ NameOk(Do("lit"), At(Ahead(w)), At(Gap(w, <<>>, "signed")))
      /\ NameOk(Do("sign"), At(Ahead(w)), At(Gap(w, <<>>, "sign")))
  BY AtFields, GapFields DEF NameOk
<1>2. \A f \in {"var", "var_start"} : NameOk(Do(f), At(Ahead(w)), At(Gap(w, <<>>, "name")))
  <2>1. Ahead(w) = Gap(Ahead(w).ahead, <<>>, "none") /\ Naming("none") = "name"
    BY DEF Ahead, Gap, Naming
  <2>. QED  BY <2>1, AtFields, GapFields DEF NameOk
<1>3. \A f \in {"var", "var_start"} :
        NameOk(Do(f), At(Gap(w, <<>>, "sign")), At(Gap(w, <<>>, "signed")))
  <2>1. Naming("sign") = "signed"
    BY DEF Naming
  <2>. QED  BY <2>1, AtFields, GapFields DEF NameOk
<1>4. ASSUME NEW r \in {"name", "signed"}
      PROVE  NameOk(Do("var_chars"), At(Gap(w, <<>>, r)), At(Gap(w, <<>>, r)))
  <2>1. Do("var_chars") # Do("var_char")
    BY DEF Do
  <2>. QED  BY <2>1, AtFields, GapFields DEF NameOk
<1>. QED  BY <1>1, <1>2, <1>3, <1>4

LEMMA SpaceLeads ==
  \A g : /\ Ok(Do("skip"), At(g), At(g)) /\ Ok(Do("skipping"), At(g), At(g))
         /\ Ok(Do("nltoken"), At(g), At(g)) /\ Ok(Do("nltoken_end"), At(g), At(g))
         /\ Ok(Do("line_skipped"), At(g), At(g))
         /\ Ok(Do("comment"), In(g), At(g))
         /\ Ok(Do("after_cr"), Place(g, "text", "cr", Anything), Place(g, "text", "pending", Anything))
         /\ Ok(Do("line_read"), Place(g, "text", "pending", Anything), At(g))
<1>. SUFFICES ASSUME NEW g
              PROVE  /\ SpaceOk(Do("skip"), At(g), At(g)) /\ SpaceOk(Do("skipping"), At(g), At(g))
                     /\ SpaceOk(Do("nltoken"), At(g), At(g)) /\ SpaceOk(Do("nltoken_end"), At(g), At(g))
                     /\ SpaceOk(Do("line_skipped"), At(g), At(g))
                     /\ SpaceOk(Do("comment"), In(g), At(g))
                     /\ SpaceOk(Do("after_cr"), Place(g, "text", "cr", Anything),
                                Place(g, "text", "pending", Anything))
                     /\ SpaceOk(Do("line_read"), Place(g, "text", "pending", Anything), At(g))
  BY DEF Ok
<1>1. /\ SpaceOk(Do("skip"), At(g), At(g)) /\ SpaceOk(Do("skipping"), At(g), At(g))
      /\ SpaceOk(Do("nltoken"), At(g), At(g)) /\ SpaceOk(Do("nltoken_end"), At(g), At(g))
      /\ SpaceOk(Do("line_skipped"), At(g), At(g))
      /\ SpaceOk(Do("comment"), In(g), At(g))
  BY AtFields DEF SpaceOk
<1>2. /\ SpaceOk(Do("after_cr"), Place(g, "text", "cr", Anything), Place(g, "text", "pending", Anything))
      /\ SpaceOk(Do("line_read"), Place(g, "text", "pending", Anything), At(g))
  BY DEF SpaceOk, Place
<1>. QED  BY <1>1, <1>2

LEMMA MatchLeads ==
  /\ \A c \in {"(", ")", "="} :
        /\ Leads(CharToken(c), At(Owes(c)), At(Even))
        /\ \A w : Leads(CharToken(c), At(Ahead(w)), At(Ahead(Append(w, c))))
  /\ Leads(CharToken(","), At(Even), At(Even))
<1>1. \A c \in {"(", ")", "="} :
        /\ Ok(Char(c), At(Owes(c)), At(Even))
        /\ \A w : Ok(Char(c), At(Ahead(w)), At(Ahead(Append(w, c))))
  <2>. SUFFICES ASSUME NEW c \in {"(", ")", "="}, NEW w
                PROVE  /\ MatchOk(Char(c), At(Owes(c)), At(Even))
                       /\ MatchOk(Char(c), At(Ahead(w)), At(Ahead(Append(w, c))))
    BY DEF Ok
  <2>1. At(Owes(c)).gap = Owes(c) /\ Text(At(Owes(c)))
    BY AtFields
  <2>2. /\ At(Ahead(w)).gap = Ahead(w) /\ Text(At(Ahead(w))) /\ Ahead(w).ahead = w
    BY AtFields, GapFields
  <2>3. MatchOk(Char(c), At(Owes(c)), At(Even))
    BY <2>1 DEF MatchOk
  <2>4. MatchOk(Char(c), At(Ahead(w)), At(Ahead(Append(w, c))))
    <3> DEFINE p == At(Ahead(w))
    <3>1. Text(p) /\ p.gap = Ahead(p.gap.ahead) /\ p.gap.ahead = w
      BY <2>2
    <3>. HIDE DEF p
    <3>2. MatchOk(Char(c), p, At(Ahead(Append(p.gap.ahead, c))))
      BY <3>1, Zenon DEF MatchOk
    <3>. QED  BY <3>1, <3>2 DEF p
  <2>. QED  BY <2>3, <2>4
<1>2. Ok(Char(","), At(Even), At(Even))
  BY AtFields DEF MatchOk, Ok
<1>3. \A g, h, a : Ok(a, At(g), At(h)) => Leads(<<Do("skip"), a>>, At(g), At(h))
  BY SpaceLeads, LeadsTwo
<1>. QED  BY <1>1, <1>2, <1>3 DEF CharToken

LEMMA LettersLead ==
  ASSUME NEW w \in Seq(Letter \cup {"1"}), Len(w) >= 1
  PROVE  /\ \A v : Ok(Letters(w), At(Ahead(v)), At(Ahead(v \o w)))
         /\ \A g : Ok(Letters(w), In(g), In(g))
<1>1. /\ \A v : MatchOk(Letters(w), At(Ahead(v)), At(Ahead(v \o w)))
      /\ \A g : MatchOk(Letters(w), In(g), In(g))
  <2>1. ASSUME NEW p, Text(p), p.gap = Ahead(p.gap.ahead)
        PROVE  MatchOk(Letters(w), p, At(Ahead(p.gap.ahead \o w)))
    BY <2>1, Zenon DEF MatchOk
  <2>2. ASSUME NEW p, Remark(p)
        PROVE  MatchOk(Letters(w), p, In(p.gap))
    BY <2>2, Zenon DEF MatchOk
  <2>3. ASSUME NEW v PROVE MatchOk(Letters(w), At(Ahead(v)), At(Ahead(v \o w)))
    <3> DEFINE p == At(Ahead(v))
    <3>1. Text(p) /\ p.gap = Ahead(p.gap.ahead) /\ p.gap.ahead = v
      BY AtFields, GapFields
    <3>. HIDE DEF p
    <3>2. MatchOk(Letters(w), p, At(Ahead(p.gap.ahead \o w)))
      BY <2>1, <3>1
    <3>. QED  BY <3>1, <3>2 DEF p
  <2>4. ASSUME NEW g PROVE MatchOk(Letters(w), In(g), In(g))
    <3> DEFINE p == In(g)
    <3>1. Remark(p) /\ p.gap = g
      BY AtFields
    <3>. HIDE DEF p
    <3>2. MatchOk(Letters(w), p, In(p.gap))
      BY <2>2, <3>1
    <3>. QED  BY <3>1, <3>2 DEF p
  <2>. QED  BY <2>3, <2>4
<1>. QED  BY <1>1 DEF Ok

LEMMA CallbackLeads ==
  /\ \A t \in {"exists", "forall", "free"} : Ok(Report("quant", t), At(Ahead(Word[t])), At(Owes("(")))
  /\ \A t \in {"and", "or", "xor", "ite"} : Ok(Report("type", t), At(Ahead(Word[t])), At(Owes("(")))
  /\ Ok(CallBack("var"), At(Gap(<<>>, <<>>, "name")), At(Even))
  /\ Ok(CallBack("gate"), At(Gap(<<>>, <<>>, "name")), At(Owes("=")))
  /\ Ok(CallBack("arg"), At(Gap(<<>>, <<>>, "signed")), At(Even))
  /\ Ok(CallBack("output"), At(Gap(<<"o", "u", "(">>, <<>>, "signed")), At(Owes(")")))
  /\ Ok(CallBack("quant_closed"), At(Ahead(<<")">>)), At(Even))
  /\ Ok(CallBack("gate_closed"), At(Ahead(<<")">>)), At(Even))
  /\ Ok(CallBack("file_closed"), Place(Even, "text", "right", {EOF}), At(Even))
<1>1. \A t \in {"exists", "forall", "free"} :
        CallbackOk(Report("quant", t), At(Ahead(Word[t])), At(Owes("(")))
  BY AtFields DEF CallbackOk
<1>2. \A t \in {"and", "or", "xor", "ite"} :
        CallbackOk(Report("type", t), At(Ahead(Word[t])), At(Owes("(")))
  BY AtFields DEF CallbackOk
<1>3. /\ CallbackOk(CallBack("var"), At(Gap(<<>>, <<>>, "name")), At(Even))
      /\ CallbackOk(CallBack("gate"), At(Gap(<<>>, <<>>, "name")), At(Owes("=")))
  BY AtFields DEF CallbackOk
<1>4. CallbackOk(CallBack("arg"), At(Gap(<<>>, <<>>, "signed")), At(Even))
  BY AtFields DEF CallbackOk
<1>5. CallbackOk(CallBack("output"), At(Gap(<<"o", "u", "(">>, <<>>, "signed")), At(Owes(")")))
  BY AtFields DEF CallbackOk
<1>6. /\ CallbackOk(CallBack("quant_closed"), At(Ahead(<<")">>)), At(Even))
      /\ CallbackOk(CallBack("gate_closed"), At(Ahead(<<")">>)), At(Even))
  BY AtFields DEF CallbackOk
<1>7. CallbackOk(CallBack("file_closed"), Place(Even, "text", "right", {EOF}), At(Even))
  BY DEF CallbackOk, Place, Text
<1>. QED  BY <1>1, <1>2, <1>3, <1>4, <1>5, <1>6, <1>7 DEF Ok

LEMMA ErrLeads == \A g, q : Leads(<<Do("err")>>, At(g), q)
<1>1. \A g, q : FunctionOk(Do("err"), At(g), q)
  BY AtFields DEF FunctionOk
<1>. QED  BY <1>1, LeadsOne DEF Ok

(* The functions that do the same at every character.                      *)
LEMMA VarLeads == \A w : Leads(<<Do("skip"), Do("var_start")>>, At(Ahead(w)), At(Gap(w, <<>>, "name")))
                /\ Leads(<<Do("skip"), Do("var_start")>>, At(Gap(w, <<>>, "sign")),
                         At(Gap(w, <<>>, "signed")))
  BY SpaceLeads, NameLeads, LeadsTwo

LEMMA LitLeads == \A w : Leads(<<Do("skip"), Do("sign"), Do("var")>>, At(Ahead(w)),
                               At(Gap(w, <<>>, "signed")))
  BY SpaceLeads, NameLeads, LeadsThree

LEMMA NlTokenLeads == \A g : Leads(<<Do("skip"), Do("nltoken_end")>>, At(g), At(g))
  BY SpaceLeads, LeadsTwo

LEMMA NextBlockLeads == \A b \in BOOLEAN : Leads(NextBlock(b), At(Even), At(Even))
  BY SpaceLeads, FunctionLeads, LeadsTwo DEF NextBlock

LEMMA BlockLeads ==
  ASSUME NEW t \in {"exists", "forall", "free"}, NEW v, NEW w \in Seq(Letter \cup {"1"}),
         Len(w) >= 1, v \o w = Word[t]
  PROVE  Leads(Block(Letters(w), t), At(Ahead(v)), At(Even))
<1>1. Leads(<<Do("skip"), Letters(w), Report("quant", t)>>, At(Ahead(v)), At(Owes("(")))
  <2>1. Ok(Letters(w), At(Ahead(v)), At(Ahead(v \o w)))
    BY LettersLead
  <2>. QED  BY <2>1, SpaceLeads, CallbackLeads, LeadsThree
<1>2. Leads(<<Do("var_list"), CallBack("quant_closed")>>, At(Owes("(")), At(Even))
  BY FunctionLeads, CallbackLeads, LeadsTwo
<1>3. Leads(<<Do("skip"), Letters(w), Report("quant", t), Do("var_list"), CallBack("quant_closed")>>,
            At(Ahead(v)), At(Even))
  <2>1. <<Do("skip"), Letters(w), Report("quant", t), Do("var_list"), CallBack("quant_closed")>>
            = <<Do("skip"), Letters(w), Report("quant", t)>>
                \o <<Do("var_list"), CallBack("quant_closed")>>
    BY TupleOfFive
  <2>. QED  BY <1>1, <1>2, <2>1, LeadsOn
<1>. QED  BY <1>3, NextBlockLeads, LeadsOn DEF Block

LEMMA QcirFileLeads ==
  Leads(<<Do("format_id")>> \o NextBlock(TRUE) \o <<Do("output_stmt"), Do("skip"), Do("gates")>>,
        At(Even), At(Even))
<1>1. Leads(<<Do("format_id")>>, At(Even), At(Even))
  BY FunctionLeads, LeadsOne
<1>2. Leads(<<Do("output_stmt"), Do("skip"), Do("gates")>>, At(Even), At(Even))
  BY FunctionLeads, SpaceLeads, LeadsThree
<1>. QED  BY <1>1, <1>2, NextBlockLeads, LeadsOn

LEMMA VarListLeads == Leads(VarList, At(Owes("(")), At(Ahead(<<")">>)))
<1>1. Leads(<<Do("skip"), Do("vars")>>, At(Even), At(Ahead(<<")">>)))
  BY FunctionLeads, SpaceLeads, LeadsTwo
<1>. QED  BY <1>1, MatchLeads, LeadsOn DEF VarList

LEMMA CloseLeads == Leads(CharToken(")"), At(Even), At(Ahead(<<")">>)))
<1>1. Append(<<>>, ")") = <<")">>
  OBVIOUS
<1>. QED  BY <1>1, MatchLeads, GapFields

LEMMA VarsLeads == \A c : Leads(Vars(c), At(Even), At(Ahead(<<")">>)))
<1>1. Leads(CharToken(")") \o <<Do("nltoken")>>, At(Even), At(Ahead(<<")">>)))
  BY CloseLeads, SpaceLeads, LeadsOne, LeadsOn
<1>2. Leads(<<Do("var"), CallBack("var"), Do("skip"), Do("comma"), Do("skip"), Do("vars")>>,
            At(Even), At(Ahead(<<")">>)))
  <2>1. Leads(<<Do("var"), CallBack("var"), Do("skip")>>, At(Even), At(Even))
    BY NameLeads, CallbackLeads, SpaceLeads, GapFields, LeadsThree
  <2>2. Leads(<<Do("comma"), Do("skip"), Do("vars")>>, At(Even), At(Ahead(<<")">>)))
    BY FunctionLeads, SpaceLeads, LeadsThree
  <2>3. <<Do("var"), CallBack("var"), Do("skip"), Do("comma"), Do("skip"), Do("vars")>>
            = <<Do("var"), CallBack("var"), Do("skip")>> \o <<Do("comma"), Do("skip"), Do("vars")>>
    BY TupleOfSix
  <2>. QED  BY <2>1, <2>2, <2>3, LeadsOn
<1>. QED  BY <1>1, <1>2 DEF Vars

LEMMA CommaLeads == \A c : Leads(Comma(c), At(Even), At(Even))
  BY MatchLeads, LeadsEmpty DEF Comma

LEMMA WordLetters ==
  ASSUME NEW t \in DOMAIN Word
  PROVE  Word[t] \in Seq(Letter \cup {"1"}) /\ Len(Word[t]) = 2 /\ Word[t] \in Seq(Solid)
<1>1. \A x, y \in Letter : /\ <<x, y>> \in Seq(Letter \cup {"1"}) /\ Len(<<x, y>>) = 2
                          /\ <<x, y>> \in Seq(Letter)
  OBVIOUS
<1>2. \E x, y \in Letter : Word[t] = <<x, y>>
  BY DEF Word, Letter
<1>3. Letter \subseteq Solid
  BY DEF Letter, Solid, Characters, NewLine, Blank
<1>4. Word[t] \in Seq(Letter \cup {"1"}) /\ Len(Word[t]) = 2 /\ Word[t] \in Seq(Letter)
  BY <1>1, <1>2
<1>. QED  BY <1>3, <1>4, SeqWider

LEMMA StringLeads ==
  ASSUME NEW t \in DOMAIN Word
  PROVE  Leads(MatchString(t), At(Even), At(Ahead(Word[t])))
<1>1. <<>> \o Word[t] = Word[t]
  BY WordLetters, ConcatEmptySeq
<1>2. Ok(Letters(Word[t]), At(Even), At(Ahead(<<>> \o Word[t])))
  <2> DEFINE w == Word[t]
  <2>1. w \in Seq(Letter \cup {"1"}) /\ Len(w) = 2
    BY WordLetters
  <2>. HIDE DEF w
  <2>2. \A v : Ok(Letters(w), At(Ahead(v)), At(Ahead(v \o w)))
    BY <2>1, LettersLead
  <2>3. Ok(Letters(w), At(Ahead(<<>>)), At(Ahead(<<>> \o w)))
    BY <2>2, Zenon
  <2>. QED  BY <2>3, GapFields DEF w
<1>. QED  BY <1>1, <1>2, SpaceLeads, LeadsTwo DEF MatchString

LEMMA OutputLeads == Leads(OutputStmt, At(Even), At(Even))
<1>1. Leads(MatchString("output"), At(Even), At(Ahead(<<"o", "u">>)))
  <2>1. "output" \in DOMAIN Word /\ Word["output"] = <<"o", "u">>
    BY DEF Word
  <2>. QED  BY <2>1, StringLeads
<1>2. Leads(CharToken("("), At(Ahead(<<"o", "u">>)), At(Ahead(<<"o", "u", "(">>)))
  <2>1. Append(<<"o", "u">>, "(") = <<"o", "u", "(">>
    BY TupleOfThree
  <2>2. \A w : Leads(CharToken("("), At(Ahead(w)), At(Ahead(Append(w, "("))))
    BY MatchLeads
  <2>3. Leads(CharToken("("), At(Ahead(<<"o", "u">>)), At(Ahead(Append(<<"o", "u">>, "("))))
    BY <2>2, Zenon
  <2>. QED  BY <2>1, <2>3
<1>3. Leads(<<Do("lit"), CallBack("output")>>, At(Ahead(<<"o", "u", "(">>)), At(Owes(")")))
  BY NameLeads, CallbackLeads, LeadsTwo
<1>4. Leads(CharToken(")"), At(Owes(")")), At(Even))
  BY MatchLeads
<1>5. Leads(<<Do("nltoken")>>, At(Even), At(Even))
  BY SpaceLeads, LeadsOne
<1>. QED  BY <1>1, <1>2, <1>3, <1>4, <1>5, LeadsOn DEF OutputStmt

LEMMA GateStmtLeads == Leads(GateStmt, At(Even), At(Even))
<1>1. Leads(<<Do("var"), CallBack("gate")>>, At(Even), At(Owes("=")))
  BY NameLeads, CallbackLeads, GapFields, LeadsTwo
<1>2. Leads(CharToken("="), At(Owes("=")), At(Even))
  BY MatchLeads
<1>3. Leads(<<Do("skip"), Do("gate_type")>>, At(Even), At(Even))
  BY SpaceLeads, FunctionLeads, LeadsTwo
<1>. QED  BY <1>1, <1>2, <1>3, LeadsOn DEF GateStmt

LEMMA GateTypeLeads == \A c : Leads(GateType(c), At(Even), At(Even))
<1>. SUFFICES ASSUME NEW c PROVE Leads(GateType(c), At(Even), At(Even))
  OBVIOUS
<1> DEFINE gates == {g \in {"and", "or", "xor", "ite"} : Word[g][1] = Lower(c)}
           g == CHOOSE g \in gates : TRUE
<1>1. CASE gates = {}
  BY <1>1, ErrLeads DEF GateType
<1>2. CASE gates # {}
  <2>1. g \in gates
    BY <1>2
  <2>2. g \in {"and", "or", "xor", "ite"}
    BY <2>1
  <2>3. GateType(c) = MatchString(g) \o <<Report("type", g)>> \o CharToken("(") \o <<Do("args")>>
    BY <1>2 DEF GateType
  <2>. HIDE DEF gates, g
  <2>4. g \in DOMAIN Word
    BY <2>2 DEF Word
  <2>5. Leads(MatchString(g), At(Even), At(Ahead(Word[g])))
    BY <2>4, StringLeads
  <2>6. Leads(<<Report("type", g)>>, At(Ahead(Word[g])), At(Owes("(")))
    BY <2>2, CallbackLeads, LeadsOne
  <2>7. Leads(CharToken("("), At(Owes("(")), At(Even))
    BY MatchLeads
  <2>8. Leads(<<Do("args")>>, At(Even), At(Even))
    BY FunctionLeads, LeadsOne
  <2>. QED  BY <2>3, <2>5, <2>6, <2>7, <2>8, LeadsOn
<1>. QED  BY <1>1, <1>2

LEMMA ArgsLeads == \A c : Leads(Args(c), At(Even), At(Even))
<1>1. Leads(CharToken(")") \o <<CallBack("gate_closed")>>, At(Even), At(Even))
  BY CloseLeads, CallbackLeads, LeadsOne, LeadsOn
<1>2. Leads(<<Do("lit"), CallBack("arg"), Do("skip"), Do("optional_comma"), Do("args")>>,
            At(Even), At(Even))
  <2>1. Leads(<<Do("lit"), CallBack("arg"), Do("skip")>>, At(Even), At(Even))
    BY NameLeads, CallbackLeads, SpaceLeads, GapFields, LeadsThree
  <2>2. Leads(<<Do("optional_comma"), Do("args")>>, At(Even), At(Even))
    BY FunctionLeads, LeadsTwo
  <2>3. <<Do("lit"), CallBack("arg"), Do("skip"), Do("optional_comma"), Do("args")>>
            = <<Do("lit"), CallBack("arg"), Do("skip")>> \o <<Do("optional_comma"), Do("args")>>
    BY TupleOfFive
  <2>. QED  BY <2>1, <2>2, <2>3, LeadsOn
<1>. QED  BY <1>1, <1>2 DEF Args

LEMMA OptionalCommaLeads == \A c : Leads(OptionalComma(c), At(Even), At(Even))
  BY MatchLeads, SpaceLeads, LeadsOne, LeadsOn, LeadsEmpty DEF OptionalComma

LEMMA FreeOrForallLeads == \A c : Leads(FreeOrForall(c), At(Ahead(<<"f">>)), At(Even))
<1>1. /\ <<"r">> \in Seq(Letter \cup {"1"}) /\ Len(<<"r">>) = 1
      /\ <<"o">> \in Seq(Letter \cup {"1"}) /\ Len(<<"o">>) = 1
  BY DEF Letter
<1>2. /\ Word["free"] = <<"f", "r">> /\ Word["forall"] = <<"f", "o">>
      /\ Tail(Word["free"]) = <<"r">> /\ Tail(Word["forall"]) = <<"o">>
  BY DEF Word
<1>3. <<"f">> \o <<"r">> = <<"f", "r">> /\ <<"f">> \o <<"o">> = <<"f", "o">>
  BY TupleOfTwo
<1> DEFINE v == <<"f">>
           r == <<"r">>
           o == <<"o">>
           ends == /\ Leads(Block(Letters(r), "free"), At(Ahead(v)), At(Even))
                   /\ Leads(Block(Letters(o), "forall"), At(Ahead(v)), At(Even))
<1>4. ends
  <2>1. r \in Seq(Letter \cup {"1"}) /\ Len(r) >= 1 /\ v \o r = Word["free"]
    BY <1>1, <1>2, <1>3
  <2>2. o \in Seq(Letter \cup {"1"}) /\ Len(o) >= 1 /\ v \o o = Word["forall"]
    BY <1>1, <1>2, <1>3
  <2>. HIDE DEF v, r, o
  <2>. QED  BY <2>1, <2>2, BlockLeads
<1>. QED  BY <1>2, <1>4 DEF FreeOrForall

LEMMA HeaderLeads == \A c : Leads(HeaderOrComment(c), In(Even), At(Even))
<1>1. /\ Word.qcir \in Seq(Letter \cup {"1"}) /\ Len(Word.qcir) = 2
      /\ <<"1", "1">> \in Seq(Letter \cup {"1"}) /\ Len(<<"1", "1">>) = 2
  BY DEF Word, Letter
<1>2. Ok(Letters(Word.qcir), In(Even), In(Even)) /\ Ok(Letters(<<"1", "1">>), In(Even), In(Even))
  <2> DEFINE v == Word.qcir
             w == <<"1", "1">>
  <2>1. v \in Seq(Letter \cup {"1"}) /\ Len(v) >= 1 /\ w \in Seq(Letter \cup {"1"}) /\ Len(w) >= 1
    BY <1>1
  <2>. HIDE DEF v, w
  <2>2. Ok(Letters(v), In(Even), In(Even)) /\ Ok(Letters(w), In(Even), In(Even))
    BY <2>1, LettersLead
  <2>. QED  BY <2>2 DEF v, w
<1>3. Leads(<<Letters(Word.qcir), Do("optional_g"), Letters(<<"1", "1">>), Do("skip_line")>>,
            In(Even), At(Even))
  BY <1>2, FunctionLeads, LeadsFour
<1>4. Leads(<<Do("skip_line"), Do("format_id")>>, In(Even), At(Even))
  BY FunctionLeads, LeadsTwo
<1>. QED  BY <1>3, <1>4 DEF HeaderOrComment

LEMMA FormatIdLeads == \A c : Leads(FormatId(c), At(Even), At(Even))
<1>1. Ok(Char("#"), At(Even), In(Even))
  BY AtFields DEF MatchOk, Ok
<1>2. Leads(<<Char("#"), Do("header_or_comment")>>, At(Even), At(Even))
  BY <1>1, FunctionLeads, LeadsTwo
<1>. QED  BY <1>2, LeadsEmpty DEF FormatId

(* The functions that look at the character under the cursor.              *)
LEMMA MeaningOf ==
  \A g, m, l, s : Meaning(Place(g, m, l, s))
                    <=> GapHolds(g) /\ CommentHolds(m) /\ LineHolds(l) /\ Current \in s
BY DEF Meaning, Place

LEMMA MeaningAt ==
  ASSUME Types, NEW p, Meaning(p), p.line = "right"
  PROVE  /\ Current \in Anything
         /\ p.mode = "text" => Meaning(At(p.gap)) /\ Meaning(Place(p.gap, "text", "right", {Current}))
         /\ p.mode = "remark" =>
                /\ Meaning(In(p.gap)) /\ Meaning(Place(p.gap, "remark", "right", {Current}))
                /\ Current = EOF => Meaning(At(p.gap))
<1>1. Current \in Anything
  BY SeesAny DEF Types
<1>2. GapHolds(p.gap) /\ CommentHolds(p.mode) /\ LineHolds("right")
  BY DEF Meaning
<1>3. CommentHolds("remark") /\ Current = EOF => CommentHolds("text")
  BY DEF CommentHolds
<1>. QED  BY <1>1, <1>2, <1>3, MeaningOf DEF At, In

LEMMA FitsLeads ==
  ASSUME NEW p, NEW q, NEW s, Meaning(p), Leads(s, p, q)
  PROVE  Fits(s, q)
BY DEF Fits

LEMMA NextLeads ==
  /\ \A g, c : c \notin NewLine \cup {EOF} =>
        Ok(Do("next_char"), Place(g, "remark", "right", {c}), In(g))
  /\ \A g : /\ Ok(Do("next_char"), Place(g, "text", "right", {" "}), At(g))
            /\ Ok(Do("next_char"), Place(g, "text", "right", {"#"}), In(g))
            /\ Ok(Do("next_char"), Place(g, "text", "cr", {"LF"}), Place(g, "text", "pending", Anything))
            /\ \A m \in {"text", "remark"} :
                /\ Ok(Do("next_char"), Place(g, m, "right", {"LF"}), Place(g, "text", "pending", Anything))
                /\ Ok(Do("next_char"), Place(g, m, "right", {"CR"}), Place(g, "text", "cr", Anything))
  /\ \A c : Lower(c) = "f" =>
        Ok(Do("next_char"), Place(Even, "text", "right", {c}), At(Ahead(<<"f">>)))
<1>0. \A g, m, l, s : /\ Place(g, m, l, s).gap = g /\ Place(g, m, l, s).mode = m
                      /\ Place(g, m, l, s).line = l /\ Place(g, m, l, s).see = s
  BY DEF Place
<1>1. ASSUME NEW p
      PROVE  /\ Remark(p) /\ p.see \cap (NewLine \cup {EOF}) = {} => Ok(Do("next_char"), p, In(p.gap))
             /\ p.see = {" "} /\ Text(p) => Ok(Do("next_char"), p, At(p.gap))
             /\ p.see = {"#"} /\ Text(p) => Ok(Do("next_char"), p, In(p.gap))
             /\ p.see = {"LF"} /\ p.line = "cr" /\ p.mode = "text"
                    => Ok(Do("next_char"), p, Place(p.gap, "text", "pending", Anything))
             /\ p.see = {"LF"} /\ p.line = "right"
                    => Ok(Do("next_char"), p, Place(p.gap, "text", "pending", Anything))
             /\ p.see = {"CR"} /\ p.line = "right"
                    => Ok(Do("next_char"), p, Place(p.gap, "text", "cr", Anything))
             /\ Text(p) /\ p.gap = Even /\ (\A c \in p.see : Lower(c) = "f")
                    => Ok(Do("next_char"), p, At(Ahead(<<"f">>)))
  BY Zenon DEF NextCharOk, Ok
<1>2. \A c : c \notin NewLine \cup {EOF} => {c} \cap (NewLine \cup {EOF}) = {}
  OBVIOUS
<1>3. \A g, s : /\ Text(Place(g, "text", "right", s)) /\ Remark(Place(g, "remark", "right", s))
  BY <1>0 DEF Text, Remark
<1>4. \A g, c : c \notin NewLine \cup {EOF} =>
        Ok(Do("next_char"), Place(g, "remark", "right", {c}), In(g))
  <2>. SUFFICES ASSUME NEW g, NEW c, c \notin NewLine \cup {EOF}
                PROVE  Ok(Do("next_char"), Place(g, "remark", "right", {c}), In(g))
    OBVIOUS
  <2> DEFINE p == Place(g, "remark", "right", {c})
  <2>1. p.gap = g /\ p.see \cap (NewLine \cup {EOF}) = {} /\ Remark(p)
    BY <1>0, <1>2, <1>3
  <2>. HIDE DEF p
  <2>2. Ok(Do("next_char"), p, In(p.gap))
    BY <1>1, <2>1
  <2>. QED  BY <2>1, <2>2 DEF p
<1>5. \A g : /\ Ok(Do("next_char"), Place(g, "text", "right", {" "}), At(g))
             /\ Ok(Do("next_char"), Place(g, "text", "right", {"#"}), In(g))
  <2>. SUFFICES ASSUME NEW g
                PROVE  /\ Ok(Do("next_char"), Place(g, "text", "right", {" "}), At(g))
                       /\ Ok(Do("next_char"), Place(g, "text", "right", {"#"}), In(g))
    OBVIOUS
  <2> DEFINE p(c) == Place(g, "text", "right", {c})
  <2>1. \A c : p(c).gap = g /\ p(c).see = {c} /\ Text(p(c))
    BY <1>0, <1>3
  <2>. HIDE DEF p
  <2>2. Ok(Do("next_char"), p(" "), At(p(" ").gap)) /\ Ok(Do("next_char"), p("#"), In(p("#").gap))
    BY <1>1, <2>1
  <2>. QED  BY <2>1, <2>2 DEF p
<1>6. \A g : Ok(Do("next_char"), Place(g, "text", "cr", {"LF"}), Place(g, "text", "pending", Anything))
  <2>. SUFFICES ASSUME NEW g
                PROVE  Ok(Do("next_char"), Place(g, "text", "cr", {"LF"}),
                          Place(g, "text", "pending", Anything))
    OBVIOUS
  <2> DEFINE p == Place(g, "text", "cr", {"LF"})
  <2>1. p.gap = g /\ p.see = {"LF"} /\ p.line = "cr" /\ p.mode = "text"
    BY <1>0
  <2>. HIDE DEF p
  <2>2. Ok(Do("next_char"), p, Place(p.gap, "text", "pending", Anything))
    BY <1>1, <2>1
  <2>. QED  BY <2>1, <2>2 DEF p
<1>7. \A g : \A m \in {"text", "remark"} :
        /\ Ok(Do("next_char"), Place(g, m, "right", {"LF"}), Place(g, "text", "pending", Anything))
        /\ Ok(Do("next_char"), Place(g, m, "right", {"CR"}), Place(g, "text", "cr", Anything))
  <2>. SUFFICES ASSUME NEW g, NEW m
                PROVE  /\ Ok(Do("next_char"), Place(g, m, "right", {"LF"}),
                             Place(g, "text", "pending", Anything))
                       /\ Ok(Do("next_char"), Place(g, m, "right", {"CR"}),
                             Place(g, "text", "cr", Anything))
    OBVIOUS
  <2> DEFINE p(c) == Place(g, m, "right", {c})
  <2>1. \A c : p(c).gap = g /\ p(c).see = {c} /\ p(c).line = "right"
    BY <1>0
  <2>. HIDE DEF p
  <2>2. /\ Ok(Do("next_char"), p("LF"), Place(p("LF").gap, "text", "pending", Anything))
        /\ Ok(Do("next_char"), p("CR"), Place(p("CR").gap, "text", "cr", Anything))
    BY <1>1, <2>1
  <2>. QED  BY <2>1, <2>2 DEF p
<1>8. \A c : Lower(c) = "f" =>
        Ok(Do("next_char"), Place(Even, "text", "right", {c}), At(Ahead(<<"f">>)))
  <2>. SUFFICES ASSUME NEW c, Lower(c) = "f"
                PROVE  Ok(Do("next_char"), Place(Even, "text", "right", {c}), At(Ahead(<<"f">>)))
    OBVIOUS
  <2> DEFINE p == Place(Even, "text", "right", {c})
  <2>1. p.gap = Even /\ p.see = {c} /\ Text(p)
    BY <1>0, <1>3
  <2>. HIDE DEF p
  <2>2. \A d \in p.see : Lower(d) = "f"
    BY <2>1
  <2>3. Ok(Do("next_char"), p, At(Ahead(<<"f">>)))
    BY <1>1, <2>1, <2>2
  <2>. QED  BY <2>3 DEF p
<1>. QED  BY <1>4, <1>5, <1>6, <1>7, <1>8

LEMMA OptionalGFits ==
  ASSUME Types, NEW p, Meaning(p), Remark(p)
  PROVE  Fits(OptionalG(Current), In(p.gap))
<1> DEFINE c == Current
           g == p.gap
<1>1. Meaning(In(g)) /\ Meaning(Place(g, "remark", "right", {c}))
  BY MeaningAt DEF Remark
<1>2. CASE Lower(c) = "g"
  <2>1. c \notin NewLine \cup {EOF}
    <3>1. \A d \in DOMAIN Capital : Capital[d] # "g"
      BY DEF Capital
    <3>2. c = "g"
      BY <1>2, <3>1 DEF Lower
    <3>. QED  BY <3>2, CharactersAssumption DEF NewLine, Characters
  <2>2. Leads(<<Do("next_char")>>, Place(g, "remark", "right", {c}), In(g))
    <3>. HIDE DEF c, g
    <3>. QED  BY <2>1, NextLeads, LeadsOne
  <2>3. OptionalG(Current) = <<Do("next_char")>>
    BY <1>2 DEF OptionalG
  <2>. QED  BY <1>1, <2>2, <2>3, FitsLeads
<1>3. CASE Lower(c) # "g"
  BY <1>1, <1>3, LeadsEmpty, FitsLeads DEF OptionalG
<1>. QED  BY <1>2, <1>3

LEMMA NlCharLeads == \A p : p.line = "right" => Ok(Do("nlchar"), p, At(p.gap))
  BY DEF SpaceOk, Ok

LEMMA SkipLineFits ==
  ASSUME Types, NEW p, Meaning(p), Remark(p), p.gap = Even
  PROVE  Fits(SkipLine(Current), At(Even))
<1>1. Meaning(Place(Even, "remark", "right", {Current}))
  BY MeaningAt DEF Remark
<1>2. CASE Current \in NewLine \cup {EOF}
  <2>1. Leads(<<Do("nlchar")>>, p, At(Even))
    BY NlCharLeads, LeadsOne DEF Remark
  <2>. QED  BY <1>2, <2>1, FitsLeads DEF SkipLine
<1>3. CASE Current \notin NewLine \cup {EOF}
  <2>1. Leads(<<Do("next_char"), Do("skip_line")>>, Place(Even, "remark", "right", {Current}), At(Even))
    BY <1>3, NextLeads, FunctionLeads, LeadsTwo
  <2>. QED  BY <1>1, <1>3, <2>1, FitsLeads DEF SkipLine
<1>. QED  BY <1>2, <1>3

LEMMA QBlockQuantFits ==
  ASSUME Types, NEW p, Meaning(p), Text(p), p.gap = Even, NEW b \in BOOLEAN
  PROVE  Fits(QBlockQuant(Current, b), At(Even))
<1>1. Meaning(At(Even)) /\ Meaning(Place(Even, "text", "right", {Current}))
  BY MeaningAt DEF Text
<1>2. \A t \in {"exists", "forall"} : Leads(Block(Letters(Word[t]), t), At(Even), At(Even))
  <2>. SUFFICES ASSUME NEW t \in {"exists", "forall"}
                PROVE  Leads(Block(Letters(Word[t]), t), At(Even), At(Even))
    OBVIOUS
  <2> DEFINE w == Word[t]
             v == <<>>
  <2>1. t \in DOMAIN Word
    BY DEF Word
  <2>2. w \in Seq(Letter \cup {"1"}) /\ Len(w) >= 1
    <3>1. w \in Seq(Letter \cup {"1"}) /\ Len(w) = 2
      BY <2>1, WordLetters
    <3>. HIDE DEF w
    <3>. QED  BY <3>1
  <2>5. v \o w = w
    <3>. HIDE DEF w
    <3>. QED  BY <2>2, ConcatEmptySeq
  <2>3. w = Word[t] /\ Even = Ahead(v)
    BY GapFields
  <2>. HIDE DEF w, v
  <2>4. Leads(Block(Letters(w), t), At(Ahead(v)), At(Even))
    BY <2>2, <2>3, <2>5, BlockLeads
  <2>. QED  BY <2>3, <2>4
<1>3. CASE Lower(Current) = "e"
  <2>1. QBlockQuant(Current, b) = Block(Letters(Word.exists), "exists")
    BY <1>3 DEF QBlockQuant
  <2>. QED  BY <1>1, <1>2, <2>1, FitsLeads
<1>4. CASE Lower(Current) = "f" /\ ~ b
  <2>1. QBlockQuant(Current, b) = Block(Letters(Word.forall), "forall")
    BY <1>4 DEF QBlockQuant
  <2>. QED  BY <1>1, <1>2, <2>1, FitsLeads
<1>5. CASE Lower(Current) = "f" /\ b
  <2>1. QBlockQuant(Current, b) = <<Do("next_char"), Do("free_or_forall")>>
    BY <1>5 DEF QBlockQuant
  <2>2. Ok(Do("free_or_forall"), At(Ahead(<<"f">>)), At(Even))
    BY AtFields DEF FunctionOk, Ok
  <2>3. Leads(<<Do("next_char"), Do("free_or_forall")>>, Place(Even, "text", "right", {Current}), At(Even))
    BY <1>5, <2>2, NextLeads, LeadsTwo
  <2>. QED  BY <1>1, <2>1, <2>3, FitsLeads
<1>6. CASE Lower(Current) \notin {"e", "f"}
  <2>1. QBlockQuant(Current, b) = <<>>
    BY <1>6 DEF QBlockQuant
  <2>. QED  BY <1>1, <2>1, LeadsEmpty, FitsLeads
<1>. QED  BY <1>3, <1>4, <1>5, <1>6

LEMMA GatesFits ==
  ASSUME Types, NEW p, Meaning(p), Text(p), p.gap = Even
  PROVE  Fits(Gates(Current), At(Even))
<1>1. Meaning(At(Even)) /\ Meaning(Place(Even, "text", "right", {Current}))
  BY MeaningAt DEF Text
<1>2. CASE Current = EOF
  <2>1. Leads(<<CallBack("file_closed")>>, Place(Even, "text", "right", {EOF}), At(Even))
    BY CallbackLeads, LeadsOne
  <2>. QED  BY <1>1, <1>2, <2>1, FitsLeads DEF Gates
<1>3. CASE Current # EOF
  <2>1. Leads(<<Do("gate_stmt"), Do("nltoken"), Do("skip"), Do("gates")>>, At(Even), At(Even))
    BY FunctionLeads, SpaceLeads, LeadsFour
  <2>. QED  BY <1>1, <1>3, <2>1, FitsLeads DEF Gates
<1>. QED  BY <1>2, <1>3

LEMMA VarCharsFits ==
  ASSUME Types, NEW p, Meaning(p), Text(p),
         NEW r \in {"name", "signed"}, NEW w, p.gap = Gap(w, <<>>, r)
  PROVE  Fits(VarChars(Current), At(p.gap))
<1> DEFINE g == p.gap
           c == Current
<1>1. Meaning(At(g)) /\ Meaning(Place(g, "text", "right", {c}))
  BY MeaningAt DEF Text
<1>2. CASE IsVarChar(c)
  <2> DEFINE o == Place(g, "text", "right", {c})
  <2>1. Text(o) /\ o.gap = g /\ o.see = {c}
    BY DEF Text, Place
  <2>2. o.gap = Gap(o.gap.ahead, <<>>, r)
    BY <2>1, GapFields
  <2>. HIDE DEF o
  <2>3. \A d \in o.see : IsVarChar(d)
    BY <1>2, <2>1
  <2>4. Ok(Do("var_char"), o, At(o.gap))
    BY <2>1, <2>2, <2>3, Zenon DEF NameOk, Ok
  <2>5. Ok(Do("var_chars"), At(g), At(g))
    BY NameLeads
  <2>6. Leads(<<Do("var_char"), Do("var_chars")>>, o, At(g))
    BY <2>1, <2>4, <2>5, LeadsTwo
  <2>7. VarChars(Current) = <<Do("var_char"), Do("var_chars")>>
    BY <1>2 DEF VarChars
  <2>. QED  BY <1>1, <2>6, <2>7, FitsLeads DEF o
<1>3. CASE ~ IsVarChar(c)
  BY <1>1, <1>3, LeadsEmpty, FitsLeads DEF VarChars
<1>. QED  BY <1>2, <1>3

LEMMA SkippingFits ==
  ASSUME Types, NEW p, Meaning(p), Text(p)
  PROVE  Fits(Skipping(Current), At(p.gap))
<1> DEFINE g == p.gap
           c == Current
<1>1. Meaning(At(g)) /\ Meaning(Place(g, "text", "right", {c}))
  BY MeaningAt DEF Text
<1>2. CASE c \in Blank
  <2>1. c = " " /\ Skipping(Current) = <<Do("next_char"), Do("skipping")>>
    BY <1>2 DEF Blank, Skipping
  <2>2. Leads(<<Do("next_char"), Do("skipping")>>, Place(g, "text", "right", {" "}), At(g))
    BY NextLeads, SpaceLeads, LeadsTwo
  <2>. QED  BY <1>1, <2>1, <2>2, FitsLeads
<1>3. CASE c = "#"
  <2>1. Skipping(Current) = <<Do("next_char"), Do("comment")>>
    BY <1>3 DEF Blank, Skipping
  <2>2. Leads(<<Do("next_char"), Do("comment")>>, Place(g, "text", "right", {"#"}), At(g))
    BY NextLeads, SpaceLeads, LeadsTwo
  <2>. QED  BY <1>1, <1>3, <2>1, <2>2, FitsLeads
<1>4. CASE c \notin Blank \cup {"#"}
  <2>1. Skipping(Current) = <<>>
    BY <1>4 DEF Skipping
  <2>. QED  BY <1>1, <2>1, LeadsEmpty, FitsLeads
<1>. QED  BY <1>2, <1>3, <1>4

LEMMA CommentFits ==
  ASSUME Types, NEW p, Meaning(p), Remark(p)
  PROVE  Fits(Comment(Current), At(p.gap))
<1> DEFINE g == p.gap
           c == Current
<1>1. /\ Meaning(In(g)) /\ Meaning(Place(g, "remark", "right", {c}))
      /\ c = EOF => Meaning(At(g))
  BY MeaningAt DEF Remark
<1>2. CASE c = EOF
  <2>1. Comment(Current) = <<>>
    <3>1. EOF \notin NewLine
      BY CharactersAssumption DEF Characters
    <3>. QED  BY <1>2, <3>1 DEF Comment
  <2>. QED  BY <1>1, <1>2, <2>1, LeadsEmpty, FitsLeads
<1>3. CASE c # EOF /\ c \in NewLine
  <2>1. Comment(Current) = <<Do("nlchar"), Do("line_skipped"), Do("skipping")>>
    BY <1>3 DEF Comment
  <2>2. Leads(<<Do("nlchar"), Do("line_skipped"), Do("skipping")>>, p, At(g))
    BY NlCharLeads, SpaceLeads, LeadsThree DEF Remark
  <2>. QED  BY <2>1, <2>2, FitsLeads
<1>4. CASE c \notin NewLine \cup {EOF}
  <2>1. Comment(Current) = <<Do("next_char"), Do("comment")>>
    BY <1>4 DEF Comment
  <2>2. Leads(<<Do("next_char"), Do("comment")>>, Place(g, "remark", "right", {c}), At(g))
    BY <1>4, NextLeads, SpaceLeads, LeadsTwo
  <2>. QED  BY <1>1, <2>1, <2>2, FitsLeads
<1>. QED  BY <1>2, <1>3, <1>4

LEMMA NlTokenEndFits ==
  ASSUME Types, NEW p, Meaning(p), Text(p)
  PROVE  Fits(NlTokenEnd(Current), At(p.gap))
<1> DEFINE g == p.gap
           c == Current
<1>0. nls \in Nat
  BY DEF Types
<1>1. Meaning(At(g))
  BY MeaningAt DEF Text
<1>2. CASE nls > 0 \/ c = EOF
  <2>1. NlTokenEnd(Current) = <<>>
    <3>1. EOF \notin NewLine
      BY CharactersAssumption DEF Characters
    <3>. QED  BY <1>0, <1>2, <3>1 DEF NlTokenEnd
  <2>. QED  BY <1>1, <2>1, LeadsEmpty, FitsLeads
<1>3. CASE ~ (nls > 0 \/ c = EOF) /\ c \in NewLine
  <2>1. NlTokenEnd(Current) = <<Do("nlchar")>>
    BY <1>0, <1>3 DEF NlTokenEnd
  <2>2. Leads(<<Do("nlchar")>>, p, At(g))
    BY NlCharLeads, LeadsOne DEF Text
  <2>. QED  BY <2>1, <2>2, FitsLeads
<1>4. CASE ~ (nls > 0 \/ c = EOF) /\ c \notin NewLine
  <2>1. NlTokenEnd(Current) = <<Do("err")>>
    BY <1>0, <1>4 DEF NlTokenEnd
  <2>. QED  BY <1>1, <2>1, ErrLeads, FitsLeads
<1>. QED  BY <1>2, <1>3, <1>4

LEMMA NlCharFits ==
  ASSUME Types, NEW p, Meaning(p), p.line = "right", p.mode \in {"text", "remark"},
         Current \in NewLine \/ ~ NDEBUG
  PROVE  Fits(NlChar(Current), At(p.gap))
<1> DEFINE g == p.gap
           c == Current
           m == p.mode
<1>1. Meaning(Place(g, m, "right", {c}))
  BY MeaningAt
<1>2. CASE c = "LF"
  <2>1. NlChar(Current) = <<Do("next_char"), Do("line_read")>>
    BY <1>2 DEF NlChar, NewLine
  <2>2. Leads(<<Do("next_char"), Do("line_read")>>, Place(g, m, "right", {"LF"}), At(g))
    BY NextLeads, SpaceLeads, LeadsTwo
  <2>. QED  BY <1>1, <1>2, <2>1, <2>2, FitsLeads
<1>3. CASE c = "CR"
  <2>1. NlChar(Current) = <<Do("next_char"), Do("after_cr"), Do("line_read")>>
    BY <1>3 DEF NlChar, NewLine
  <2>2. Leads(<<Do("next_char"), Do("after_cr"), Do("line_read")>>, Place(g, m, "right", {"CR"}), At(g))
    BY NextLeads, SpaceLeads, LeadsThree
  <2>. QED  BY <1>1, <1>3, <2>1, <2>2, FitsLeads
<1>4. CASE c \notin NewLine
  <2>1. NlChar(Current) = <<Do("err")>>
    BY <1>4 DEF NlChar, NewLine
  <2>2. FunctionOk(Do("err"), p, At(g))
    BY DEF FunctionOk
  <2>3. Leads(<<Do("err")>>, p, At(g))
    BY <2>2, LeadsOne DEF Ok
  <2>. QED  BY <2>1, <2>3, FitsLeads
<1>. QED  BY <1>2, <1>3, <1>4 DEF NewLine

LEMMA AfterCrFits ==
  ASSUME Types, NEW p, Meaning(p), p.line = "cr", p.mode = "text"
  PROVE  Fits(AfterCr(Current), Place(p.gap, "text", "pending", Anything))
<1> DEFINE g == p.gap
           c == Current
<1>0. GapHolds(g) /\ CommentHolds("text") /\ LineHolds("cr") /\ c \in Anything
  BY SeesAny DEF Meaning, Types
<1>1. CASE c = "LF"
  <2>1. AfterCr(Current) = <<Do("next_char")>>
    BY <1>1 DEF AfterCr
  <2>2. Leads(<<Do("next_char")>>, Place(g, "text", "cr", {"LF"}), Place(g, "text", "pending", Anything))
    BY NextLeads, LeadsOne
  <2>3. Meaning(Place(g, "text", "cr", {"LF"}))
    BY <1>0, <1>1, MeaningOf
  <2>. QED  BY <2>1, <2>2, <2>3, FitsLeads
<1>2. CASE c # "LF"
  <2>1. AfterCr(Current) = <<>>
    BY <1>2 DEF AfterCr
  <2>2. LineHolds("pending")
    BY <1>0, <1>2 DEF LineHolds
  <2>3. Meaning(Place(g, "text", "pending", Anything))
    BY <1>0, <2>2, MeaningOf
  <2>. QED  BY <2>1, <2>3, LeadsEmpty, FitsLeads
<1>. QED  BY <1>1, <1>2

LEMMA CallsEqs ==
  \A x, c :
    /\ Calls("qcir_file", x, c) = <<Do("format_id")>> \o NextBlock(TRUE)
                                    \o <<Do("output_stmt"), Do("skip"), Do("gates")>>
    /\ Calls("format_id", x, c) = FormatId(c)
    /\ Calls("header_or_comment", x, c) = HeaderOrComment(c)
    /\ Calls("optional_g", x, c) = OptionalG(c)
    /\ Calls("skip_line", x, c) = SkipLine(c)
    /\ Calls("qblock_quant", x, c) = QBlockQuant(c, x)
    /\ Calls("free_or_forall", x, c) = FreeOrForall(c)
    /\ Calls("var_list", x, c) = VarList
    /\ Calls("vars", x, c) = Vars(c)
    /\ Calls("comma", x, c) = Comma(c)
    /\ Calls("output_stmt", x, c) = OutputStmt
    /\ Calls("gates", x, c) = Gates(c)
    /\ Calls("gate_stmt", x, c) = GateStmt
    /\ Calls("gate_type", x, c) = GateType(c)
    /\ Calls("args", x, c) = Args(c)
    /\ Calls("optional_comma", x, c) = OptionalComma(c)
    /\ Calls("lit", x, c) = <<Do("skip"), Do("sign"), Do("var")>>
    /\ Calls("var", x, c) = <<Do("skip"), Do("var_start")>>
    /\ Calls("var_chars", x, c) = VarChars(c)
    /\ Calls("skipping", x, c) = Skipping(c)
    /\ Calls("comment", x, c) = Comment(c)
    /\ Calls("nltoken", x, c) = <<Do("skip"), Do("nltoken_end")>>
    /\ Calls("nltoken_end", x, c) = NlTokenEnd(c)
    /\ Calls("nlchar", x, c) = NlChar(c)
    /\ Calls("after_cr", x, c) = AfterCr(c)
<1>1. \A x, c : Calls("qcir_file", x, c) = <<Do("format_id")>> \o NextBlock(TRUE) \o <<Do("output_stmt"), Do("skip"), Do("gates")>>
  BY DEF Calls
<1>2. \A x, c : Calls("format_id", x, c) = FormatId(c)
  BY DEF Calls
<1>3. \A x, c : Calls("header_or_comment", x, c) = HeaderOrComment(c)
  BY DEF Calls
<1>4. \A x, c : Calls("optional_g", x, c) = OptionalG(c)
  BY DEF Calls
<1>5. \A x, c : Calls("skip_line", x, c) = SkipLine(c)
  BY DEF Calls
<1>6. \A x, c : Calls("qblock_quant", x, c) = QBlockQuant(c, x)
  BY DEF Calls
<1>7. \A x, c : Calls("free_or_forall", x, c) = FreeOrForall(c)
  BY DEF Calls
<1>8. \A x, c : Calls("var_list", x, c) = VarList
  BY DEF Calls
<1>9. \A x, c : Calls("vars", x, c) = Vars(c)
  BY DEF Calls
<1>10. \A x, c : Calls("comma", x, c) = Comma(c)
  BY DEF Calls
<1>11. \A x, c : Calls("output_stmt", x, c) = OutputStmt
  BY DEF Calls
<1>12. \A x, c : Calls("gates", x, c) = Gates(c)
  BY DEF Calls
<1>13. \A x, c : Calls("gate_stmt", x, c) = GateStmt
  BY DEF Calls
<1>14. \A x, c : Calls("gate_type", x, c) = GateType(c)
  BY DEF Calls
<1>15. \A x, c : Calls("args", x, c) = Args(c)
  BY DEF Calls
<1>16. \A x, c : Calls("optional_comma", x, c) = OptionalComma(c)
  BY DEF Calls
<1>17. \A x, c : Calls("lit", x, c) = <<Do("skip"), Do("sign"), Do("var")>>
  BY DEF Calls
<1>18. \A x, c : Calls("var", x, c) = <<Do("skip"), Do("var_start")>>
  BY DEF Calls
<1>19. \A x, c : Calls("var_chars", x, c) = VarChars(c)
  BY DEF Calls
<1>20. \A x, c : Calls("skipping", x, c) = Skipping(c)
  BY DEF Calls
<1>21. \A x, c : Calls("comment", x, c) = Comment(c)
  BY DEF Calls
<1>22. \A x, c : Calls("nltoken", x, c) = <<Do("skip"), Do("nltoken_end")>>
  BY DEF Calls
<1>23. \A x, c : Calls("nltoken_end", x, c) = NlTokenEnd(c)
  BY DEF Calls
<1>24. \A x, c : Calls("nlchar", x, c) = NlChar(c)
  BY DEF Calls
<1>25. \A x, c : Calls("after_cr", x, c) = AfterCr(c)
  BY DEF Calls
<1>. QED  BY <1>1, <1>2, <1>3, <1>4, <1>5, <1>6, <1>7, <1>8, <1>9, <1>10, <1>11, <1>12, <1>13, <1>14, <1>15, <1>16, <1>17, <1>18, <1>19, <1>20, <1>21, <1>22, <1>23, <1>24, <1>25

LEMMA FunctionFits ==
  ASSUME Types, NEW p, Meaning(p), NEW a, NEW q, FunctionOk(a, p, q), a # Do("err"), NEW x,
         Len(a) > 1 => x = a[2]
  PROVE  Fits(Calls(a[1], x, Current), q)
<1> DEFINE c == Current
<1>1. ASSUME NEW f \in {"qcir_file", "format_id", "comma", "output_stmt", "gates", "gate_stmt",
                       "gate_type", "args", "optional_comma"},
             a = Do(f), Text(p), p.gap = Even, q = At(Even)
      PROVE  Fits(Calls(a[1], x, c), q)
  <2>1. a[1] = f /\ Meaning(At(Even))
    BY <1>1, MeaningAt DEF Do, Text
  <2>2. CASE f = "qcir_file"
    BY <1>1, <2>1, <2>2, CallsEqs, QcirFileLeads, FitsLeads
  <2>3. CASE f = "format_id"
    BY <1>1, <2>1, <2>3, CallsEqs, FormatIdLeads, FitsLeads
  <2>4. CASE f = "comma"
    BY <1>1, <2>1, <2>4, CallsEqs, CommaLeads, FitsLeads
  <2>5. CASE f = "output_stmt"
    BY <1>1, <2>1, <2>5, CallsEqs, OutputLeads, FitsLeads
  <2>6. CASE f = "gates"
    BY <1>1, <2>1, <2>6, CallsEqs, GatesFits
  <2>7. CASE f = "gate_stmt"
    BY <1>1, <2>1, <2>7, CallsEqs, GateStmtLeads, FitsLeads
  <2>8. CASE f = "gate_type"
    BY <1>1, <2>1, <2>8, CallsEqs, GateTypeLeads, FitsLeads
  <2>9. CASE f = "args"
    BY <1>1, <2>1, <2>9, CallsEqs, ArgsLeads, FitsLeads
  <2>10. CASE f = "optional_comma"
    BY <1>1, <2>1, <2>10, CallsEqs, OptionalCommaLeads, FitsLeads
  <2>. QED  BY <2>2, <2>3, <2>4, <2>5, <2>6, <2>7, <2>8, <2>9, <2>10
<1>2. ASSUME NEW b \in BOOLEAN, a = <<"qblock_quant", b>>, Text(p), p.gap = Even, q = At(Even)
      PROVE  Fits(Calls(a[1], x, c), q)
  <2>1. a[1] = "qblock_quant" /\ x = b
    BY <1>2
  <2>2. Fits(QBlockQuant(c, b), q)
    BY <1>2, QBlockQuantFits
  <2>3. Calls("qblock_quant", x, c) = QBlockQuant(c, x)
    BY CallsEqs
  <2>. QED  BY <2>1, <2>2, <2>3
<1>3. ASSUME a \in {Do("header_or_comment"), Do("skip_line")}, Remark(p), p.gap = Even, q = At(Even)
      PROVE  Fits(Calls(a[1], x, c), q)
  <2>1. Meaning(In(Even))
    BY <1>3, MeaningAt DEF Remark
  <2>2. CASE a = Do("header_or_comment")
    <3>1. a[1] = "header_or_comment"
      BY <2>2 DEF Do
    <3>. QED  BY <1>3, <2>1, <3>1, CallsEqs, HeaderLeads, FitsLeads
  <2>3. CASE a = Do("skip_line")
    <3>1. a[1] = "skip_line"
      BY <2>3 DEF Do
    <3>. QED  BY <1>3, <3>1, CallsEqs, SkipLineFits
  <2>. QED  BY <1>3, <2>2, <2>3
<1>4. ASSUME a = Do("optional_g"), Remark(p), q = In(p.gap) PROVE Fits(Calls(a[1], x, c), q)
  <2>1. a[1] = "optional_g"
    BY <1>4 DEF Do
  <2>. QED  BY <1>4, <2>1, CallsEqs, OptionalGFits
<1>5. ASSUME a = Do("free_or_forall"), Text(p), p.gap = Ahead(<<"f">>), q = At(Even)
      PROVE  Fits(Calls(a[1], x, c), q)
  <2>1. a[1] = "free_or_forall" /\ Meaning(At(Ahead(<<"f">>)))
    BY <1>5, MeaningAt DEF Do, Text
  <2>. QED  BY <1>5, <2>1, CallsEqs, FreeOrForallLeads, FitsLeads
<1>6. ASSUME a = Do("var_list"), Text(p), p.gap = Owes("("), q = At(Ahead(<<")">>))
      PROVE  Fits(Calls(a[1], x, c), q)
  <2>1. a[1] = "var_list" /\ Meaning(At(Owes("(")))
    BY <1>6, MeaningAt DEF Do, Text
  <2>. QED  BY <1>6, <2>1, CallsEqs, VarListLeads, FitsLeads
<1>7. ASSUME a = Do("vars"), Text(p), p.gap = Even, q = At(Ahead(<<")">>))
      PROVE  Fits(Calls(a[1], x, c), q)
  <2>1. a[1] = "vars" /\ Meaning(At(Even))
    BY <1>7, MeaningAt DEF Do, Text
  <2>. QED  BY <1>7, <2>1, CallsEqs, VarsLeads, FitsLeads
<1>. QED  BY <1>1, <1>2, <1>3, <1>4, <1>5, <1>6, <1>7, Zenon DEF FunctionOk

LEMMA NameFits ==
  ASSUME Types, NEW p, Meaning(p), NEW a, NEW q, NameOk(a, p, q), NEW x,
         a[1] \notin Moving \cup Marking
  PROVE  Fits(Calls(a[1], x, Current), q)
<1> DEFINE c == Current
<1>1. ASSUME a = Do("lit"), Text(p), p.gap = Ahead(p.gap.ahead),
             q = At(Gap(p.gap.ahead, <<>>, "signed"))
      PROVE  Fits(Calls(a[1], x, c), q)
  <2> DEFINE w == p.gap.ahead
  <2>1. a[1] = "lit" /\ Meaning(At(p.gap))
    BY <1>1, MeaningAt DEF Do, Text
  <2>2. Meaning(At(Ahead(w))) /\ q = At(Gap(w, <<>>, "signed"))
    BY <1>1, <2>1
  <2>. HIDE DEF w
  <2>. QED  BY <2>1, <2>2, CallsEqs, LitLeads, FitsLeads
<1>2. ASSUME a \in {Do("var"), Do("var_start")}, Text(p), NEW r \in {"none", "sign"},
             p.gap = Gap(p.gap.ahead, <<>>, r), q = At(Gap(p.gap.ahead, <<>>, Naming(r)))
      PROVE  Fits(Calls(a[1], x, c), q)
  <2> DEFINE w == p.gap.ahead
  <2>1. a[1] = "var" /\ Meaning(At(p.gap))
    BY <1>2, MeaningAt DEF Do, Text, Marking
  <2>2. Meaning(At(Gap(w, <<>>, r))) /\ q = At(Gap(w, <<>>, Naming(r)))
    BY <1>2, <2>1
  <2>. HIDE DEF w
  <2>3. Leads(<<Do("skip"), Do("var_start")>>, At(Gap(w, <<>>, r)), At(Gap(w, <<>>, Naming(r))))
    BY VarLeads DEF Naming, Ahead
  <2>. QED  BY <2>1, <2>2, <2>3, CallsEqs, FitsLeads
<1>3. ASSUME a \in {Do("var_chars"), Do("var_char")}, Text(p), NEW r \in {"name", "signed"},
             p.gap = Gap(p.gap.ahead, <<>>, r), q = At(p.gap)
      PROVE  Fits(Calls(a[1], x, c), q)
  <2>1. a[1] = "var_chars"
    BY <1>3 DEF Do, Moving
  <2>2. Fits(VarChars(c), At(p.gap))
    BY <1>3, VarCharsFits
  <2>. QED  BY <1>3, <2>1, <2>2, CallsEqs
<1>4. a # Do("sign")
  BY DEF Do, Moving
<1>. QED  BY <1>1, <1>2, <1>3, <1>4, Zenon DEF NameOk

LEMMA SpaceFits ==
  ASSUME Types, NEW p, Meaning(p), NEW a, NEW q, SpaceOk(a, p, q), NEW x,
         a[1] \notin Moving \cup Marking,
         a = Do("nlchar") => Current \in NewLine \/ ~ NDEBUG
  PROVE  Fits(Calls(a[1], x, Current), q)
<1> DEFINE c == Current
<1>1. ASSUME a \in {Do("skip"), Do("skipping"), Do("nltoken"), Do("nltoken_end"), Do("line_skipped")},
             Text(p), q = At(p.gap)
      PROVE  Fits(Calls(a[1], x, c), q)
  <2>1. a[1] \in {"skipping", "nltoken", "nltoken_end"}
    BY <1>1 DEF Do, Marking
  <2>2. CASE a[1] = "skipping"
    BY <1>1, <2>2, CallsEqs, SkippingFits
  <2>3. CASE a[1] = "nltoken"
    <3>1. Meaning(At(p.gap))
      BY <1>1, MeaningAt DEF Text
    <3>. QED  BY <1>1, <2>3, <3>1, CallsEqs, NlTokenLeads, FitsLeads
  <2>4. CASE a[1] = "nltoken_end"
    BY <1>1, <2>4, CallsEqs, NlTokenEndFits
  <2>. QED  BY <2>1, <2>2, <2>3, <2>4
<1>2. ASSUME a = Do("comment"), Remark(p), q = At(p.gap) PROVE Fits(Calls(a[1], x, c), q)
  <2>1. a[1] = "comment"
    BY <1>2 DEF Do
  <2>. QED  BY <1>2, <2>1, CallsEqs, CommentFits
<1>3. ASSUME a = Do("nlchar"), p.line = "right", q = At(p.gap) PROVE Fits(Calls(a[1], x, c), q)
  <2>1. a[1] = "nlchar" /\ p.mode \in {"text", "remark"}
    BY <1>3 DEF Do, Meaning, CommentHolds
  <2>. QED  BY <1>3, <2>1, CallsEqs, NlCharFits
<1>4. ASSUME a = Do("after_cr"), p.mode = "text", p.line = "cr", q = Place(p.gap, "text", "pending", Anything)
      PROVE  Fits(Calls(a[1], x, c), q)
  <2>1. a[1] = "after_cr"
    BY <1>4 DEF Do
  <2>. QED  BY <1>4, <2>1, CallsEqs, AfterCrFits
<1>5. a # Do("line_read")
  BY DEF Do, Marking
<1>. QED  BY <1>1, <1>2, <1>3, <1>4, <1>5, Zenon DEF SpaceOk

LEMMA NextCharHead == \A a, p, q : NextCharOk(a, p, q) => a[1] = "next_char"
<1>1. \A a, p, q : NextCharOk(a, p, q) => a = Do("next_char")
  BY Zenon DEF NextCharOk
<1>. QED  BY <1>1 DEF Do

LEMMA MatchHead ==
  ASSUME NEW a, NEW p, NEW q, MatchOk(a, p, q)
  PROVE
    \/ \E c \in {"(", ")", "=", "#", ","} : a = Char(c) /\ a[1] = "match_char" /\ Len(a) > 1 /\ a[2] = c
    \/ \E w \in Seq(Letter \cup {"1"}) :
            a = Letters(w) /\ Len(w) >= 1 /\ a[1] = "match_letters" /\ Len(a) > 1 /\ a[2] = w
<1>1.   \/ \E c \in {"(", ")", "=", "#", ","} : a = Char(c)
        \/ \E w \in Seq(Letter \cup {"1"}) : a = Letters(w) /\ Len(w) >= 1
  BY Zenon DEF MatchOk
<1>2. \A x : /\ Char(x)[1] = "match_char" /\ Len(Char(x)) > 1 /\ Char(x)[2] = x
             /\ Letters(x)[1] = "match_letters" /\ Len(Letters(x)) > 1 /\ Letters(x)[2] = x
  BY DEF Char, Letters
<1>3. CASE \E c \in {"(", ")", "=", "#", ","} : a = Char(c)
  BY <1>2, <1>3
<1>4. CASE \E w \in Seq(Letter \cup {"1"}) : a = Letters(w) /\ Len(w) >= 1
  <2>1. PICK w \in Seq(Letter \cup {"1"}) : a = Letters(w) /\ Len(w) >= 1
    BY <1>4
  <2>2. a[1] = "match_letters" /\ Len(a) > 1 /\ a[2] = w
    BY <1>2, <2>1
  <2>. QED  BY <2>1, <2>2
<1>. QED  BY <1>1, <1>3, <1>4

LEMMA CallbackHead ==
  ASSUME NEW a, NEW p, NEW q, CallbackOk(a, p, q)
  PROVE  a[1] = "cb"
<1>1. \E f, x : a = <<"cb", f, x>>
  BY Zenon DEF CallbackOk, CallBack, Report
<1>. QED  BY <1>1

LEMMA CallFits ==
  ASSUME Types, NEW p, Meaning(p), NEW a, NEW q, Ok(a, p, q), NEW x, Len(a) > 1 => x = a[2],
         a[1] \notin Moving \cup Marking,
         a = Do("nlchar") => Current \in NewLine \/ ~ NDEBUG
  PROVE  Fits(Calls(a[1], x, Current), q)
<1>1. ~ NextCharOk(a, p, q)
  BY NextCharHead DEF Moving
<1>2. ~ MatchOk(a, p, q)
  BY MatchHead DEF Moving
<1>3. ~ CallbackOk(a, p, q)
  BY CallbackHead DEF Marking
<1>4. a # Do("err")
  BY DEF Do, Marking
<1>. QED  BY <1>1, <1>2, <1>3, <1>4, FunctionFits, NameFits, SpaceFits DEF Ok

-----------------------------------------------------------------------------
(* Every step keeps the parser on its course.                              *)
LEMMA MeaningNext ==
  \A g, m, l, s : Meaning(Place(g, m, l, s))'
                    <=> GapHolds(g)' /\ CommentHolds(m)' /\ LineHolds(l)' /\ (Current \in s)'
BY DEF Meaning, Place

LEMMA SameText ==
  ASSUME UNCHANGED buffer_vars
  PROVE  /\ Came' = Came /\ Passed' = Passed /\ Current' = Current
         /\ LinesBefore(Passed)' = LinesBefore(Passed) /\ AfterCR' = AfterCR
         /\ \A m : CommentHolds(m)' <=> CommentHolds(m)
         /\ Window' <=> Window
<1>1. file' = file /\ Passed' = Passed /\ Current' = Current
  BY DEF buffer_vars, Passed, size, Current
<1>2. Came' = Came
  BY <1>1 DEF Came, StrippedTo, Commented
<1>3. LinesBefore(Passed)' = LinesBefore(Passed) /\ AfterCR' = AfterCR
  BY <1>1 DEF LinesBefore, AfterCR
<1>4. Commented(file, Passed)' = Commented(file, Passed)
  BY <1>1 DEF Commented
<1>5. \A m : CommentHolds(m)' <=> CommentHolds(m)
  BY <1>1, <1>4 DEF CommentHolds
<1>6. Window' <=> Window
  BY DEF buffer_vars, Window, size
<1>. QED  BY <1>1, <1>2, <1>3, <1>5, <1>6

LEMMA SameMeaning ==
  ASSUME UNCHANGED <<buffer_vars, d_varbuf, sign, d_ln, calls>>
  PROVE  \A p : Meaning(p)' <=> Meaning(p)
<1>1. UNCHANGED buffer_vars
  OBVIOUS
<1>2. Told' = Told
  BY DEF Told
<1>3. \A r : Pending(r)' = Pending(r)
  BY DEF Pending, SignText
<1>4. \A g : GapHolds(g)' <=> GapHolds(g)
  BY <1>1, <1>2, <1>3, SameText DEF GapHolds
<1>5. \A l : LineHolds(l)' <=> LineHolds(l)
  BY <1>1, SameText DEF LineHolds
<1>. QED  BY <1>1, <1>4, <1>5, SameText DEF Meaning

LEMMA Course ==
  ASSUME OnCourse, todo # <<>>
  PROVE  \E p, r : Meaning(p) /\ Ok(Head(todo), p, r) /\ Leads(Tail(todo), r, At(Even))
BY LeadsHead DEF OnCourse, Fits

LEMMA CourseStep ==
  ASSUME NEW s, NEW p, NEW r, Leads(s, p, r), Leads(Tail(todo), r, At(Even)), Then(s), Meaning(p)'
  PROVE  OnCourse'
<1>1. Leads(todo', p, At(Even))
  BY LeadsOn DEF Then
<1>. QED  BY <1>1 DEF OnCourse, Fits

LEMMA CourseEnd ==
  ASSUME NEW r, Leads(Tail(todo), r, At(Even)), Then(<<>>), Meaning(r)'
  PROVE  OnCourse'
BY LeadsEmpty, CourseStep

LEMMA ErrorKeeps ==
  ASSUME LexerInv, Error
  PROVE  LexerInv'
<1>1. UNCHANGED <<buffer_vars, d_varbuf, sign, d_ln, calls>>
  BY DEF Error
<1>2. OnCourse'
  BY <1>1, SameMeaning DEF LexerInv, OnCourse, Fits, Error
<1>3. Types'
  BY <1>1, SameText DEF LexerInv, Types, Error
<1>. QED  BY <1>2, <1>3 DEF LexerInv, Error

LEMMA CallKeeps ==
  ASSUME LexerInv, Call, ~ Overcounts
  PROVE  LexerInv'
<1>1. UNCHANGED <<buffer_vars, d_varbuf, sign, d_ln, calls>> /\ nls' = nls /\ status' = "reading"
  BY DEF Call
<1> DEFINE a == Head(todo)
           s == Calls(a[1], Argument, Current)
<1>2. a[1] \notin Moving \cup Marking /\ Then(s) /\ todo # <<>>
  BY DEF Call
<1>3. PICK p, r : Meaning(p) /\ Ok(a, p, r) /\ Leads(Tail(todo), r, At(Even))
  BY <1>2, Course DEF LexerInv
<1>4. Fits(s, r)
  <2>1. Len(a) > 1 => Argument = a[2]
    BY DEF Argument
  <2>2. Types /\ (a = Do("nlchar") => Current \in NewLine \/ ~ NDEBUG)
    BY DEF LexerInv, Overcounts
  <2> DEFINE x == Argument
  <2>. HIDE DEF a, x
  <2>3. Fits(Calls(a[1], x, Current), r)
    BY <1>2, <1>3, <2>1, <2>2, CallFits DEF x
  <2>. QED  BY <2>3 DEF a, x
<1>5. PICK o : Meaning(o) /\ Leads(s, o, r)
  BY <1>4 DEF Fits
<1>6. OnCourse'
  <2>1. Meaning(o)'
    BY <1>1, <1>5, SameMeaning
  <2>. HIDE DEF s, a
  <2>. QED  BY <1>2, <1>3, <1>5, <2>1, CourseStep
<1>7. Types'
  BY <1>1, SameText DEF LexerInv, Types
<1>. QED  BY <1>1, <1>6, <1>7 DEF LexerInv

LEMMA TypesMove ==
  ASSUME Types, Advance, UNCHANGED <<nls, calls>>, sign' \in BOOLEAN, d_varbuf' \in Seq(Solid)
  PROVE  Types'
BY WindowStep DEF Types

LEMMA PlainMove ==
  ASSUME Types, Moves, NEW p, Meaning(p), Text(p), Current \notin NewLine \cup {"#"}, d_ln' = d_ln
  PROVE  /\ \A g : Meaning(At(g))' <=> GapHolds(g)'
         /\ Came' = IF Current \in Blank \cup {","} THEN Came ELSE Append(Came, Lower(Current))
<1>1. CommentHolds("text") /\ LineHolds("right") /\ Current # EOF
  BY DEF Meaning, Text, Moves
<1>2. ~ Commented(file, Passed)
  BY <1>1 DEF CommentHolds
<1>3. CommentHolds("text")' /\ LineHolds("right")' /\ (Current \in Anything)'
  BY <1>1, CommentMoves, LineMoves, MovesRight
<1>. QED  BY <1>2, <1>3, MovesRight, MeaningNext DEF At

LEMMA RemarkMove ==
  ASSUME Types, Moves, NEW p, Meaning(p), d_ln' = d_ln,
         \/ Remark(p) /\ Current \notin NewLine
         \/ Text(p) /\ Current = "#"
  PROVE  /\ \A g : Meaning(In(g))' <=> GapHolds(g)'
         /\ Came' = Came
<1>0. "#" \notin NewLine
  BY DEF NewLine
<1>1. LineHolds("right") /\ Current \notin NewLine /\ (CommentHolds("remark") \/ Current = "#")
  BY <1>0 DEF Meaning, Text, Remark
<1>2. CommentHolds("remark")' /\ LineHolds("right")' /\ (Current \in Anything)'
  BY <1>1, CommentMoves, LineMoves, MovesRight
<1>3. Commented(file, Passed)'
  BY <1>2 DEF CommentHolds
<1>. QED  BY <1>2, <1>3, MovesRight, MeaningNext DEF In

LEMMA LineMove ==
  ASSUME Types, Moves, NEW p, Meaning(p), d_ln' = d_ln
  PROVE  /\ Current = "LF" /\ p.line \in {"right", "cr"} =>
                \A g : Meaning(Place(g, "text", "pending", Anything))' <=> GapHolds(g)'
         /\ Current = "CR" /\ p.line = "right" =>
                \A g : Meaning(Place(g, "text", "cr", Anything))' <=> GapHolds(g)'
         /\ Current \in NewLine => Came' = Came
<1>1. Current \in NewLine => CommentHolds("text")' /\ (Current \in Anything)' /\ Came' = Came
  BY CommentMoves, MovesRight
<1>2. Current = "LF" /\ p.line \in {"right", "cr"} => LineHolds("pending")'
  BY LineMoves DEF Meaning
<1>3. Current = "CR" /\ p.line = "right" => LineHolds("cr")'
  BY LineMoves DEF Meaning
<1>. QED  BY <1>1, <1>2, <1>3, MeaningNext DEF NewLine

LEMMA HeadKind ==
  ASSUME NEW a, NEW p, NEW q, Ok(a, p, q)
  PROVE  /\ a[1] \in {"match_char", "match_letters"} => MatchOk(a, p, q)
         /\ a[1] = "next_char" => NextCharOk(a, p, q)
         /\ a[1] \in {"sign", "var_char", "var_start"} => NameOk(a, p, q)
         /\ a[1] \in {"skip", "line_skipped", "line_read"} => SpaceOk(a, p, q)
         /\ a[1] = "cb" => CallbackOk(a, p, q)
<1>0. \A f : Do(f)[1] = f
  BY DEF Do
<1>1. FunctionOk(a, p, q) =>
        a[1] \in {"qcir_file", "format_id", "comma", "output_stmt", "gates", "gate_stmt", "gate_type",
                  "args", "optional_comma", "qblock_quant", "header_or_comment", "skip_line",
                  "optional_g", "free_or_forall", "var_list", "vars", "err"}
  <2>1. \A b : <<"qblock_quant", b>>[1] = "qblock_quant"
    OBVIOUS
  <2>. QED  BY <1>0, <2>1 DEF FunctionOk
<1>2. NameOk(a, p, q) =>
        a[1] \in {"lit", "sign", "var", "var_start", "var_chars", "var_char"}
  BY <1>0 DEF NameOk
<1>3. SpaceOk(a, p, q) =>
        a[1] \in {"skip", "skipping", "nltoken", "nltoken_end", "line_skipped", "comment", "nlchar",
                  "after_cr", "line_read"}
  BY <1>0 DEF SpaceOk
<1>4. MatchOk(a, p, q) => a[1] \in {"match_char", "match_letters"}
  BY MatchHead
<1>5. NextCharOk(a, p, q) => a[1] = "next_char"
  BY NextCharHead
<1>6. CallbackOk(a, p, q) => a[1] = "cb"
  BY CallbackHead
<1>7. \/ FunctionOk(a, p, q) \/ NameOk(a, p, q) \/ SpaceOk(a, p, q)
      \/ NextCharOk(a, p, q) \/ MatchOk(a, p, q) \/ CallbackOk(a, p, q)
  BY DEF Ok
<1>. QED  BY <1>1, <1>2, <1>3, <1>4, <1>5, <1>6, <1>7

LEMMA SolidLower ==
  /\ \A c \in {"(", ")", "="} : /\ c \in Solid /\ Lower(c) = c
                                /\ c \notin NewLine \cup {"#"} /\ c \notin Blank \cup {","} /\ c # EOF
  /\ \A c, h : Lower(c) = h /\ h \in Letter \cup {"1"} =>
        /\ h \in Solid /\ c \notin NewLine \cup {"#"} /\ c \notin Blank \cup {","} /\ c # EOF
  /\ \A c : IsVarChar(c) =>
        /\ c \in Solid /\ c \notin NewLine \cup {"#"} /\ c \notin Blank \cup {","} /\ c # EOF
  /\ "-" \in Solid /\ Lower("-") = "-" /\ "-" \notin NewLine \cup {"#"} /\ "-" \notin Blank \cup {","}
  /\ \A c \in {"-", " ", "#", ","} \cup NewLine : c # EOF
<1>1. DOMAIN Capital = {"E", "F", "O", "A", "X", "I", "Q"}
  BY DEF Capital
<1>2. /\ Letter \cup DOMAIN Capital \cup {"1", "(", ")", "=", "-"} \subseteq Solid
      /\ \A c \in Solid \cap Characters : c \notin NewLine \cup {"#"} /\ c \notin Blank \cup {","} /\ c # EOF
  BY <1>1, CharactersAssumption DEF Solid, Characters, NewLine, Blank, Letter
<1>3. Letter \cup DOMAIN Capital \cup {"1", "(", ")", "=", "-", " ", "#", ","} \cup NewLine \subseteq Characters
  BY DEF Characters, Blank
<1>4. \A c \in {"(", ")", "=", "-"} : Lower(c) = c
  BY <1>1 DEF Lower
<1>5. ASSUME NEW c, Lower(c) \in Letter \cup {"1"} PROVE c \in DOMAIN Capital \cup Letter \cup {"1"}
  BY <1>5 DEF Lower
<1>. QED  BY <1>2, <1>3, <1>4, <1>5, CharactersAssumption DEF IsVarChar

LEMMA MatchCharKeeps ==
  ASSUME LexerInv, MatchChar
  PROVE  LexerInv'
<1> DEFINE a == Head(todo)
<1>1. /\ todo # <<>> /\ a[1] = "match_char" /\ status = "reading"
      /\ Argument = IF Len(a) > 1 THEN a[2] ELSE ""
  BY DEF MatchChar, Running, Argument
<1>2. PICK p, r : Meaning(p) /\ Ok(a, p, r) /\ Leads(Tail(todo), r, At(Even))
  BY <1>1, Course DEF LexerInv
<1>. HIDE DEF a
<1>3. MatchOk(a, p, r)
  BY <1>1, <1>2, HeadKind
<1>4. CASE Current # Argument
  BY <1>4, ErrorKeeps DEF MatchChar
<1>5. CASE Current = Argument
  <2>1. Advance /\ Then(<<>>) /\ UNCHANGED <<d_varbuf, sign, nls, d_ln, calls, status>> /\ Types
    BY <1>5 DEF MatchChar, LexerInv
  <2>2. PICK c \in {"(", ")", "=", "#", ","} : a = Char(c) /\ Current = c
    <3>1. PICK c \in {"(", ")", "=", "#", ","} : a = Char(c) /\ Len(a) > 1 /\ a[2] = c
      BY <1>1, <1>3, MatchHead
    <3>2. Argument = c
      BY <1>1, <3>1
    <3>. QED  BY <1>5, <3>1, <3>2
  <2>3. Moves
    BY <2>1, <2>2, SolidLower DEF Moves, Types
  <2>4. Types'
    BY <2>1, TypesMove DEF Types
  <2>5. \A d : Char(c) = Char(d) => c = d
    BY DEF Char
  <2>6. \A w : Char(c) # Letters(w)
    BY DEF Char, Letters
  <2>7. Meaning(r)'
    <3>1. ASSUME c \in {"(", ")", "="}, Text(p)
          PROVE  Came' = Append(Came, c) /\ \A g : Meaning(At(g))' <=> GapHolds(g)'
      BY <1>2, <2>1, <2>2, <2>3, <3>1, PlainMove, SolidLower
    <3>2. CASE /\ c \in {"(", ")", "="} /\ Text(p)
               /\ p.gap = Ahead(p.gap.ahead) /\ r = At(Ahead(Append(p.gap.ahead, c)))
      <4> DEFINE w == p.gap.ahead
      <4>1. GapHolds(Ahead(w)) /\ w \in Seq(Solid)
        BY <1>2, <3>2 DEF Meaning, GapHolds
      <4>. HIDE DEF w
      <4>2. GapHolds(Ahead(Append(w, c)))'
        BY <2>1, <2>4, <3>1, <3>2, <4>1, GapGrows, SolidLower
      <4>. QED  BY <3>1, <3>2, <4>2 DEF w
    <3>3. CASE c \in {"(", ")", "="} /\ Text(p) /\ p.gap = Owes(c) /\ r = At(Even)
      <4>1. GapHolds(Owes(c))
        BY <1>2, <3>3 DEF Meaning
      <4>2. GapHolds(Even)'
        BY <2>1, <2>4, <3>1, <3>3, <4>1, GapGrows, SolidLower
      <4>. QED  BY <3>1, <3>3, <4>2
    <3>4. CASE c = "#" /\ Text(p) /\ r = In(p.gap)
      <4>1. Came' = Came /\ GapHolds(p.gap)
        BY <1>2, <2>1, <2>2, <2>3, <3>4, RemarkMove DEF Meaning
      <4>2. GapHolds(p.gap)'
        BY <2>1, <4>1, GapStill
      <4>. QED  BY <1>2, <2>1, <2>2, <2>3, <3>4, <4>2, RemarkMove
    <3>5. CASE c = "," /\ Text(p) /\ r = At(p.gap)
      <4>0. "," \notin NewLine \cup {"#"}
        BY DEF NewLine
      <4>1. Came' = Came /\ GapHolds(p.gap) /\ \A g : Meaning(At(g))' <=> GapHolds(g)'
        BY <1>2, <2>1, <2>2, <2>3, <3>5, <4>0, PlainMove DEF Meaning
      <4>2. GapHolds(p.gap)'
        BY <2>1, <4>1, GapStill
      <4>. QED  BY <3>5, <4>1, <4>2
    <3>. QED  BY <1>3, <2>2, <2>5, <2>6, <3>2, <3>3, <3>4, <3>5 DEF MatchOk
  <2>8. OnCourse'
    BY <1>2, <2>1, <2>7, CourseEnd
  <2>. QED  BY <1>1, <2>1, <2>4, <2>8 DEF LexerInv
<1>. QED  BY <1>4, <1>5

LEMMA LettersStep ==
  ASSUME NEW w \in Seq(Letter \cup {"1"}), Len(w) >= 1
  PROVE  /\ Head(w) \in Letter \cup {"1"} /\ Tail(w) \in Seq(Letter \cup {"1"})
         /\ Len(w) > 1 => Len(Tail(w)) >= 1
         /\ ~ Len(w) > 1 => Tail(w) = <<>>
         /\ \A v \in Seq(Solid) : Append(v, Head(w)) \o Tail(w) = v \o w
<1> DEFINE S == Letter \cup {"1"}
           h == Head(w)
           t == Tail(w)
<1>0. Len(w) \in Nat /\ w # <<>> /\ w[1] = h
  BY LenProperties, EmptySeq
<1>1. h \in S /\ t \in Seq(S) /\ Len(t) = Len(w) - 1 /\ \A i \in 1 .. Len(t) : t[i] = w[i + 1]
  BY <1>0, HeadTailProperties
<1>2. S \subseteq Solid
  BY DEF Solid, Characters, Letter, NewLine, Blank
<1>. HIDE DEF S, h, t
<1>3. h \in Symbol /\ t \in Seq(Symbol) /\ w \in Seq(Symbol)
  BY <1>1, <1>2, SolidIsSymbol, SeqWider DEF S
<1>4. ~ Len(w) > 1 => t = <<>>
  BY <1>0, <1>1, EmptySeq
<1>5. <<h>> \o t = w
  <2> DEFINE u == <<h>> \o t
  <2>0. <<h>> \in Seq(Symbol) /\ Len(<<h>>) = 1 /\ <<h>>[1] = h /\ Len(t) \in Nat
    BY <1>3, LenProperties
  <2>1. /\ u \in Seq(Symbol) /\ Len(u) = 1 + Len(t)
        /\ \A i \in 1 .. 1 + Len(t) : u[i] = IF i <= 1 THEN <<h>>[i] ELSE t[i - 1]
    BY <1>3, <2>0, ConcatProperties
  <2>. HIDE DEF u
  <2>2. ASSUME NEW i \in 1 .. Len(u) PROVE u[i] = w[i]
    <3>1. CASE i = 1
      BY <1>0, <2>0, <2>1, <3>1
    <3>2. CASE i # 1
      <4>1. i - 1 \in 1 .. Len(t) /\ ~ i <= 1 /\ (i - 1) + 1 = i /\ i \in 1 .. 1 + Len(t)
        BY <2>0, <2>1, <3>2
      <4>2. u[i] = t[i - 1] /\ t[i - 1] = w[(i - 1) + 1]
        BY <1>1, <2>1, <4>1
      <4>. QED  BY <4>1, <4>2
    <3>. QED  BY <3>1, <3>2
  <2>3. Len(u) = Len(w)
    BY <1>0, <1>1, <2>1
  <2>4. u = w
    BY <1>3, <2>1, <2>2, <2>3, SeqEqual
  <2>. QED  BY <2>4 DEF u
<1>6. ASSUME NEW v \in Seq(Solid) PROVE Append(v, h) \o t = v \o w
  <2>1. v \in Seq(Symbol)
    BY SolidIsSymbol
  <2>2. Append(v, h) = v \o <<h>> /\ <<h>> \in Seq(Symbol)
    BY <1>3, <2>1, SymbolSeqs
  <2>3. (v \o <<h>>) \o t = v \o (<<h>> \o t)
    BY <1>3, <2>1, <2>2, SymbolSeqs
  <2>. QED  BY <1>5, <2>2, <2>3
<1>. QED  BY <1>0, <1>1, <1>4, <1>6 DEF S, h, t

LEMMA MatchLettersKeeps ==
  ASSUME LexerInv, MatchLetters
  PROVE  LexerInv'
<1> DEFINE a == Head(todo)
<1>1. /\ todo # <<>> /\ a[1] = "match_letters" /\ status = "reading"
      /\ Argument = IF Len(a) > 1 THEN a[2] ELSE ""
  BY DEF MatchLetters, Running, Argument
<1>2. PICK p, r : Meaning(p) /\ Ok(a, p, r) /\ Leads(Tail(todo), r, At(Even))
  BY <1>1, Course DEF LexerInv
<1>. HIDE DEF a
<1>3. MatchOk(a, p, r)
  BY <1>1, <1>2, HeadKind
<1>4. PICK w \in Seq(Letter \cup {"1"}) : a = Letters(w) /\ Len(w) >= 1 /\ Argument = w
  <2>1. PICK w \in Seq(Letter \cup {"1"}) : a = Letters(w) /\ Len(w) >= 1 /\ Len(a) > 1 /\ a[2] = w
    BY <1>1, <1>3, MatchHead
  <2>2. Argument = w
    BY <1>1, <2>1
  <2>. QED  BY <2>1, <2>2
<1>5. CASE Lower(Current) # Head(Argument)
  BY <1>5, ErrorKeeps DEF MatchLetters
<1>6. CASE Lower(Current) = Head(w)
  <2> DEFINE s == IF Len(w) > 1 THEN <<Letters(Tail(w))>> ELSE <<>>
             h == Head(w)
  <2>1. Advance /\ Then(s) /\ UNCHANGED <<d_varbuf, sign, nls, d_ln, calls, status>> /\ Types
    BY <1>4, <1>6 DEF MatchLetters, LexerInv
  <2>2. /\ h \in Letter \cup {"1"} /\ Tail(w) \in Seq(Letter \cup {"1"})
        /\ Len(w) > 1 => Len(Tail(w)) >= 1
        /\ ~ Len(w) > 1 => Tail(w) = <<>>
        /\ \A v \in Seq(Solid) : Append(v, h) \o Tail(w) = v \o w
    BY <1>4, LettersStep
  <2>3. h \in Solid /\ Current \notin NewLine \cup {"#"} /\ Current \notin Blank \cup {","} /\ Current # EOF
    BY <1>6, <2>2, SolidLower
  <2>4. Moves
    BY <2>1, <2>3 DEF Moves, Types
  <2>5. Types'
    BY <2>1, TypesMove DEF Types
  <2>6. \A v : Letters(v) = Letters(w) => v = w
    BY DEF Letters
  <2>7. \A c : Char(c) # Letters(w)
    BY DEF Char, Letters
  <2>8. \E o : Meaning(o)' /\ Leads(s, o, r)
    <3>1. CASE Text(p) /\ p.gap = Ahead(p.gap.ahead) /\ r = At(Ahead(p.gap.ahead \o w))
      <4> DEFINE v == p.gap.ahead
                 o == At(Ahead(Append(v, h)))
      <4>1. GapHolds(Ahead(v)) /\ v \in Seq(Solid)
        BY <1>2, <3>1 DEF Meaning, GapHolds
      <4>2. Came' = Append(Came, h) /\ \A g : Meaning(At(g))' <=> GapHolds(g)'
        BY <1>2, <1>6, <2>1, <2>3, <2>4, <3>1, PlainMove
      <4>. HIDE DEF v, h
      <4>3. GapHolds(Ahead(Append(v, h)))'
        BY <2>1, <2>3, <2>5, <4>1, <4>2, GapGrows
      <4>4. Meaning(o)'
        BY <4>2, <4>3
      <4>5. Leads(s, o, r)
        <5> DEFINE u == Tail(w)
                   x == Append(v, h)
        <5>0. x \o u = v \o w /\ r = At(Ahead(v \o w)) /\ u \in Seq(Letter \cup {"1"})
          BY <2>2, <3>1, <4>1 DEF v
        <5>1. CASE Len(w) > 1
          <6>1. Len(u) >= 1
            BY <2>2, <5>1
          <6>. HIDE DEF u, x
          <6>2. Ok(Letters(u), At(Ahead(x)), At(Ahead(x \o u)))
            BY <5>0, <6>1, LettersLead
          <6>3. Leads(<<Letters(u)>>, At(Ahead(x)), r)
            BY <5>0, <6>2, LeadsOne
          <6>. QED  BY <5>1, <6>3 DEF u, x
        <5>2. CASE ~ Len(w) > 1
          <6>0. x \in Seq(Solid) /\ u = <<>>
            BY <2>2, <2>3, <4>1, <5>2, AppendProperties
          <6>. HIDE DEF u, x
          <6>1. x = v \o w
            BY <5>0, <6>0, ConcatEmptySeq
          <6>2. s = <<>>
            BY <5>2
          <6>. QED  BY <5>0, <6>1, <6>2, LeadsEmpty DEF x
        <5>. QED  BY <5>1, <5>2
      <4>. QED  BY <4>4, <4>5
    <3>2. CASE Remark(p) /\ r = In(p.gap)
      <4>1. Came' = Came /\ GapHolds(p.gap) /\ \A g : Meaning(In(g))' <=> GapHolds(g)'
        BY <1>2, <2>1, <2>3, <2>4, <3>2, RemarkMove DEF Meaning
      <4>2. GapHolds(p.gap)'
        BY <2>1, <4>1, GapStill
      <4>3. Meaning(r)'
        BY <3>2, <4>1, <4>2
      <4>4. Leads(s, r, r)
        <5> DEFINE u == Tail(w)
        <5>1. CASE Len(w) > 1
          <6>1. u \in Seq(Letter \cup {"1"}) /\ Len(u) >= 1
            BY <2>2, <5>1
          <6>. HIDE DEF u
          <6>2. Leads(<<Letters(u)>>, r, r)
            BY <3>2, <6>1, LettersLead, LeadsOne
          <6>. QED  BY <5>1, <6>2 DEF u
        <5>2. CASE ~ Len(w) > 1
          BY <5>2, LeadsEmpty
        <5>. QED  BY <5>1, <5>2
      <4>. QED  BY <4>3, <4>4
    <3>. QED  BY <1>3, <1>4, <2>6, <2>7, <3>1, <3>2 DEF MatchOk
  <2>9. OnCourse'
    <3>. HIDE DEF s
    <3>. QED  BY <1>2, <2>1, <2>8, CourseStep
  <2>. QED  BY <1>1, <2>1, <2>5, <2>9 DEF LexerInv
<1>. QED  BY <1>4, <1>5, <1>6

LEMMA NextCharKeeps ==
  ASSUME LexerInv, NextChar
  PROVE  LexerInv'
<1> DEFINE a == Head(todo)
<1>1. /\ todo # <<>> /\ a[1] = "next_char" /\ status = "reading"
      /\ Advance /\ Then(<<>>) /\ UNCHANGED <<d_varbuf, sign, nls, d_ln, calls, status>> /\ Types
  BY DEF NextChar, Running, LexerInv
<1>2. PICK p, r : Meaning(p) /\ Ok(a, p, r) /\ Leads(Tail(todo), r, At(Even))
  BY <1>1, Course DEF LexerInv
<1>. HIDE DEF a
<1>3. NextCharOk(a, p, r)
  BY <1>1, <1>2, HeadKind
<1>4. Types'
  BY <1>1, TypesMove DEF Types
<1>5. Current \in p.see /\ GapHolds(p.gap) /\ (Current # EOF => Moves)
  BY <1>1, <1>2 DEF Meaning, Moves, Types
<1>6. Came' = Came => GapHolds(p.gap)'
  BY <1>1, <1>5, GapStill
<1>7. Meaning(r)'
  <2>1. CASE p.see = {"LF"} /\ p.line \in {"right", "cr"} /\ r = Place(p.gap, "text", "pending", Anything)
    <3>1. Current = "LF" /\ Current \in NewLine /\ Moves
      BY <1>5, <2>1, SolidLower DEF NewLine
    <3>. QED  BY <1>1, <1>2, <1>6, <2>1, <3>1, LineMove
  <2>2. CASE p.see = {"CR"} /\ p.line = "right" /\ r = Place(p.gap, "text", "cr", Anything)
    <3>1. Current = "CR" /\ Current \in NewLine /\ Moves
      BY <1>5, <2>2, SolidLower DEF NewLine
    <3>. QED  BY <1>1, <1>2, <1>6, <2>2, <3>1, LineMove
  <2>3. CASE p.see = {" "} /\ Text(p) /\ r = At(p.gap)
    <3>1. Current = " " /\ Current \in Blank \cup {","} /\ Current \notin NewLine \cup {"#"} /\ Moves
      BY <1>5, <2>3, SolidLower DEF NewLine, Blank
    <3>. QED  BY <1>1, <1>2, <1>6, <2>3, <3>1, PlainMove
  <2>4. CASE p.see = {"#"} /\ Text(p) /\ r = In(p.gap)
    <3>1. Current = "#" /\ Moves
      BY <1>5, <2>4, SolidLower
    <3>. QED  BY <1>1, <1>2, <1>6, <2>4, <3>1, RemarkMove
  <2>5. CASE Remark(p) /\ p.see \cap (NewLine \cup {EOF}) = {} /\ r = In(p.gap)
    <3>1. Current \notin NewLine /\ Moves
      BY <1>5, <2>5
    <3>. QED  BY <1>1, <1>2, <1>6, <2>5, <3>1, RemarkMove
  <2>6. CASE Text(p) /\ p.gap = Even /\ (\A c \in p.see : Lower(c) = "f") /\ r = At(Ahead(<<"f">>))
    <3>1. Lower(Current) = "f" /\ "f" \in Letter \cup {"1"}
      BY <1>5, <2>6 DEF Letter
    <3>2. /\ "f" \in Solid /\ Current \notin NewLine \cup {"#"} /\ Current \notin Blank \cup {","}
          /\ Current # EOF
      BY <3>1, SolidLower
    <3>3. Came' = Append(Came, "f") /\ \A g : Meaning(At(g))' <=> GapHolds(g)'
      BY <1>1, <1>2, <1>5, <2>6, <3>1, <3>2, PlainMove
    <3>4. GapHolds(Ahead(<<>>)) /\ <<>> \in Seq(Solid) /\ Append(<<>>, "f") = <<"f">>
      BY <1>5, <2>6, EmptySeq, GapFields
    <3>5. GapHolds(Ahead(Append(<<>>, "f")))'
      BY <1>1, <1>4, <3>2, <3>3, <3>4, GapGrows
    <3>6. GapHolds(Ahead(<<"f">>))'
      BY <3>4, <3>5
    <3>. QED  BY <2>6, <3>3, <3>6
  <2>. QED  BY <1>3, <2>1, <2>2, <2>3, <2>4, <2>5, <2>6, Zenon DEF NextCharOk
<1>8. OnCourse'
  BY <1>1, <1>2, <1>7, CourseEnd
<1>. QED  BY <1>1, <1>4, <1>8 DEF LexerInv

LEMMA StillMove ==
  ASSUME Types, UNCHANGED buffer_vars, d_ln' = d_ln, NEW p, Meaning(p), Text(p)
  PROVE  \A g : Meaning(At(g))' <=> GapHolds(g)'
<1>1. CommentHolds("text") /\ LineHolds("right") /\ Current \in Anything
  BY SeesAny DEF Meaning, Text, Types
<1>2. CommentHolds("text")' /\ (Current \in Anything)'
  BY <1>1, SameText
<1>3. LineHolds("right")'
  BY <1>1, SameText DEF LineHolds
<1>. QED  BY <1>2, <1>3, MeaningNext DEF At

LEMMA SignKeeps ==
  ASSUME LexerInv, Sign
  PROVE  LexerInv'
<1> DEFINE a == Head(todo)
<1>1. /\ todo # <<>> /\ a[1] = "sign" /\ status = "reading"
      /\ Then(<<>>) /\ UNCHANGED <<d_varbuf, nls, d_ln, calls, status>> /\ Types
  BY DEF Sign, Running, LexerInv
<1>2. PICK p, r : Meaning(p) /\ Ok(a, p, r) /\ Leads(Tail(todo), r, At(Even))
  BY <1>1, Course DEF LexerInv
<1>. HIDE DEF a
<1>3. NameOk(a, p, r)
  BY <1>1, <1>2, HeadKind
<1> DEFINE w == p.gap.ahead
<1>4. Text(p) /\ p.gap = Ahead(w) /\ r = At(Gap(w, <<>>, "sign"))
  <2>1. \A f : Do(f)[1] = f
    BY DEF Do
  <2>. QED  BY <1>1, <1>3, <2>1 DEF NameOk
<1>5. GapHolds(Ahead(w)) /\ w \in Seq(Solid)
  <2>1. GapHolds(p.gap)
    BY <1>2 DEF Meaning
  <2>. QED  BY <1>4, <2>1 DEF GapHolds
<1>. HIDE DEF w
<1>6. CASE Current = "-"
  <2>1. Advance /\ sign' = TRUE
    BY <1>6 DEF Sign
  <2>2. Moves
    BY <1>1, <1>6, <2>1, SolidLower DEF Moves, Types
  <2>3. Types'
    BY <1>1, <2>1, TypesMove DEF Types
  <2>4. Came' = Append(Came, "-") /\ \A g : Meaning(At(g))' <=> GapHolds(g)'
    BY <1>1, <1>2, <1>4, <1>6, <2>2, PlainMove, SolidLower
  <2>5. SignText' = <<"-">>
    BY <2>1 DEF SignText
  <2>6. GapHolds(Gap(w, <<>>, "sign"))'
    BY <1>1, <1>5, <2>3, <2>4, <2>5, GapSigned
  <2>7. OnCourse'
    BY <1>1, <1>2, <1>4, <2>4, <2>6, CourseEnd
  <2>. QED  BY <1>1, <2>3, <2>7 DEF LexerInv
<1>7. CASE Current # "-"
  <2>1. UNCHANGED buffer_vars /\ sign' = FALSE
    BY <1>7 DEF Sign
  <2>2. Came' = Came
    BY <2>1, SameText
  <2>3. Types'
    BY <1>1, <2>1, SameText DEF Types
  <2>4. \A g : Meaning(At(g))' <=> GapHolds(g)'
    BY <1>1, <1>2, <1>4, <2>1, StillMove
  <2>5. SignText' = <<>>
    BY <2>1 DEF SignText
  <2>6. GapHolds(Gap(w, <<>>, "sign"))'
    BY <1>1, <1>5, <2>2, <2>3, <2>5, GapSigned
  <2>7. OnCourse'
    BY <1>1, <1>2, <1>4, <2>4, <2>6, CourseEnd
  <2>. QED  BY <1>1, <2>3, <2>7 DEF LexerInv
<1>. QED  BY <1>6, <1>7

LEMMA VarStartKeeps ==
  ASSUME LexerInv, VarStart
  PROVE  LexerInv'
<1> DEFINE a == Head(todo)
<1>0. CASE ~ IsVarChar(Current)
  BY <1>0, ErrorKeeps DEF VarStart
<1>00. CASE IsVarChar(Current)
  <2>1. /\ todo # <<>> /\ a[1] = "var_start" /\ status = "reading"
        /\ Then(<<Do("var_chars")>>) /\ d_varbuf' = <<>>
        /\ UNCHANGED <<sign, nls, d_ln, calls, status>> /\ UNCHANGED buffer_vars /\ Types
    BY <1>00 DEF VarStart, Running, LexerInv
  <2>2. PICK p, r : Meaning(p) /\ Ok(a, p, r) /\ Leads(Tail(todo), r, At(Even))
    BY <2>1, Course DEF LexerInv
  <2>. HIDE DEF a
  <2>3. NameOk(a, p, r)
    BY <2>1, <2>2, HeadKind
  <2> DEFINE w == p.gap.ahead
  <2>4. Text(p) /\ \E read \in {"none", "sign"} : p.gap = Gap(w, <<>>, read) /\ r = At(Gap(w, <<>>, Naming(read)))
    <3>1. \A f : Do(f)[1] = f
      BY DEF Do
    <3>. QED  BY <2>1, <2>3, <3>1 DEF NameOk
  <2>5. GapHolds(p.gap) /\ w \in Seq(Solid)
    BY <2>2 DEF Meaning, GapHolds
  <2>. HIDE DEF w
  <2>6. Came' = Came
    BY <2>1, SameText
  <2>7. Types'
    <3>1. <<>> \in Seq(Solid)
      BY EmptySeq
    <3>. QED  BY <2>1, <3>1, SameText DEF Types
  <2>8. \E n \in {"name", "signed"} : GapHolds(Gap(w, <<>>, n))' /\ r = At(Gap(w, <<>>, n))
    <3>1. /\ GapHolds(Ahead(w)) => GapHolds(Gap(w, <<>>, "name"))'
          /\ GapHolds(Gap(w, <<>>, "sign")) => GapHolds(Gap(w, <<>>, "signed"))'
      BY <2>1, <2>5, <2>6, <2>7, GapNamed
    <3>. QED  BY <2>4, <2>5, <3>1 DEF Naming, Ahead
  <2>9. Meaning(r)' /\ Leads(<<Do("var_chars")>>, r, r)
    <3>1. \A g : Meaning(At(g))' <=> GapHolds(g)'
      BY <2>1, <2>2, <2>4, StillMove
    <3>. QED  BY <2>8, <3>1, NameLeads, LeadsOne
  <2>10. OnCourse'
    BY <2>1, <2>2, <2>9, CourseStep
  <2>. QED  BY <2>1, <2>7, <2>10 DEF LexerInv
<1>. QED  BY <1>0, <1>00

LEMMA VarCharKeeps ==
  ASSUME LexerInv, VarChar
  PROVE  LexerInv'
<1> DEFINE a == Head(todo)
<1>1. /\ todo # <<>> /\ a[1] = "var_char" /\ status = "reading"
      /\ Then(<<>>) /\ d_varbuf' = Append(d_varbuf, Current) /\ Advance
      /\ UNCHANGED <<sign, nls, d_ln, calls, status>> /\ Types
  BY DEF VarChar, Running, LexerInv
<1>2. PICK p, r : Meaning(p) /\ Ok(a, p, r) /\ Leads(Tail(todo), r, At(Even))
  BY <1>1, Course DEF LexerInv
<1>. HIDE DEF a
<1>3. NameOk(a, p, r)
  BY <1>1, <1>2, HeadKind
<1> DEFINE w == p.gap.ahead
<1>4. /\ Text(p) /\ (\E read \in {"name", "signed"} : p.gap = Gap(w, <<>>, read))
      /\ (\A c \in p.see : IsVarChar(c)) /\ r = At(p.gap)
  <2>1. \A f : Do(f)[1] = f
    BY DEF Do
  <2>. QED  BY <1>1, <1>3, <2>1 DEF NameOk
<1>5. GapHolds(p.gap) /\ w \in Seq(Solid) /\ IsVarChar(Current)
  BY <1>2, <1>4 DEF Meaning, GapHolds
<1>. HIDE DEF w
<1>6. PICK c \in Solid : /\ c = Current /\ c \notin NewLine \cup {"#"}
                         /\ c \notin Blank \cup {","} /\ c # EOF /\ c \in Symbol
  BY <1>5, SolidLower, SolidIsSymbol
<1>7. Moves
  BY <1>1, <1>6 DEF Moves, Types
<1>8. Types'
  <2>1. d_varbuf' \in Seq(Solid)
    BY <1>1, <1>6, AppendProperties DEF Types
  <2>. QED  BY <1>1, <2>1, TypesMove DEF Types
<1>9. Came' = Append(Came, Lower(c)) /\ \A g : Meaning(At(g))' <=> GapHolds(g)'
  BY <1>1, <1>2, <1>4, <1>6, <1>7, PlainMove
<1>10. GapHolds(p.gap)'
  <2>1. PICK read \in {"name", "signed"} : p.gap = Gap(w, <<>>, read)
    BY <1>4
  <2>2. GapHolds(Gap(w, <<>>, read)) => GapHolds(Gap(w, <<>>, read))'
    BY <1>1, <1>5, <1>6, <1>8, <1>9, GapSpelled
  <2>. QED  BY <1>5, <2>1, <2>2
<1>11. OnCourse'
  BY <1>1, <1>2, <1>4, <1>9, <1>10, CourseEnd
<1>. QED  BY <1>1, <1>8, <1>11 DEF LexerInv

LEMMA SkipKeeps ==
  ASSUME LexerInv, Skip \/ LineSkipped
  PROVE  LexerInv'
<1> DEFINE a == Head(todo)
           s == IF a[1] = "skip" THEN <<Do("skipping")>> ELSE <<>>
<1>1. /\ todo # <<>> /\ a[1] \in {"skip", "line_skipped"} /\ status = "reading"
      /\ Then(s) /\ nls' \in Nat
      /\ UNCHANGED <<d_varbuf, sign, d_ln, calls, status>> /\ UNCHANGED buffer_vars /\ Types
  BY DEF Skip, LineSkipped, Running, LexerInv, Types
<1>2. PICK p, r : Meaning(p) /\ Ok(a, p, r) /\ Leads(Tail(todo), r, At(Even))
  BY <1>1, Course DEF LexerInv
<1>. HIDE DEF a
<1>3. SpaceOk(a, p, r)
  BY <1>1, <1>2, HeadKind
<1>4. Text(p) /\ r = At(p.gap)
  <2>1. \A f : Do(f)[1] = f
    BY DEF Do
  <2>. QED  BY <1>1, <1>3, <2>1 DEF SpaceOk
<1>5. Meaning(r)'
  <2>1. GapHolds(p.gap) /\ Came' = Came
    BY <1>1, <1>2, SameText DEF Meaning
  <2>2. GapHolds(p.gap)'
    BY <1>1, <2>1, GapStill
  <2>3. \A g : Meaning(At(g))' <=> GapHolds(g)'
    BY <1>1, <1>2, <1>4, StillMove
  <2>. QED  BY <1>4, <2>2, <2>3
<1>6. Leads(s, r, r)
  BY <1>4, SpaceLeads, LeadsOne, LeadsEmpty
<1>7. Types'
  BY <1>1, SameText DEF Types
<1>8. OnCourse'
  <2>. HIDE DEF s
  <2>. QED  BY <1>1, <1>2, <1>5, <1>6, CourseStep
<1>. QED  BY <1>1, <1>7, <1>8 DEF LexerInv

LEMMA LineReadKeeps ==
  ASSUME LexerInv, LineRead
  PROVE  LexerInv'
<1> DEFINE a == Head(todo)
<1>1. /\ todo # <<>> /\ a[1] = "line_read" /\ status = "reading"
      /\ Then(<<>>) /\ d_ln' = d_ln + 1
      /\ UNCHANGED <<d_varbuf, sign, nls, calls, status>> /\ UNCHANGED buffer_vars /\ Types
  BY DEF LineRead, Running, LexerInv
<1>2. PICK p, r : Meaning(p) /\ Ok(a, p, r) /\ Leads(Tail(todo), r, At(Even))
  BY <1>1, Course DEF LexerInv
<1>. HIDE DEF a
<1>3. SpaceOk(a, p, r)
  BY <1>1, <1>2, HeadKind
<1>4. p.mode = "text" /\ p.line = "pending" /\ r = At(p.gap)
  <2>1. \A f : Do(f)[1] = f
    BY DEF Do
  <2>. QED  BY <1>1, <1>3, <2>1 DEF SpaceOk
<1>5. GapHolds(p.gap) /\ CommentHolds("text") /\ LineHolds("pending") /\ Current \in Anything
  BY <1>1, <1>2, <1>4, SeesAny DEF Meaning, Types
<1>6. Came' = Came /\ CommentHolds("text")' /\ (Current \in Anything)'
  BY <1>1, <1>5, SameText
<1>7. LineHolds("right")'
  <2>1. LinesBefore(Passed) \in Nat
    BY <1>1, Sees, LinesStep DEF Types
  <2>2. d_ln = LinesBefore(Passed) /\ ~ (AfterCR /\ Current = "LF")
    BY <1>5 DEF LineHolds
  <2>. QED  BY <1>1, <2>1, <2>2, SameText DEF LineHolds
<1>8. Meaning(r)'
  <2>1. GapHolds(p.gap)'
    BY <1>1, <1>5, <1>6, GapStill
  <2>. QED  BY <1>4, <1>6, <1>7, <2>1, MeaningNext DEF At
<1>9. Types'
  BY <1>1, SameText DEF Types
<1>10. OnCourse'
  BY <1>1, <1>2, <1>8, CourseEnd
<1>. QED  BY <1>1, <1>9, <1>10 DEF LexerInv

LEMMA LoweredJoin ==
  ASSUME NEW s \in Seq(Symbol), NEW t \in Seq(Symbol)
  PROVE  /\ s \o t \in Seq(Symbol) /\ Lowered(s) \in Seq(Symbol)
         /\ Lowered(s \o t) = Lowered(s) \o Lowered(t)
BY LoweredRight, ConcatProperties

LEMMA Regroup ==
  ASSUME NEW s \in Seq(Symbol), NEW t \in Seq(Symbol), NEW u \in Seq(Symbol)
  PROVE  t \o u \in Seq(Symbol) /\ (s \o t) \o u = s \o (t \o u)
BY ConcatAssociative, ConcatProperties

LEMMA LoweredWords ==
  /\ \A c \in {"(", ")", "=", "-"} : <<c>> \in Seq(Solid) /\ <<c>> \in Seq(Symbol) /\ Lowered(<<c>>) = <<c>>
  /\ \A t \in DOMAIN Word : Word[t] \in Seq(Symbol) /\ Lowered(Word[t]) = Word[t]
  /\ <<"o", "u", "(">> \in Seq(Solid) /\ <<"o", "u", "(">> = Word.output \o <<"(">>
  /\ Lowered(<<"o", "u", "(">>) = <<"o", "u", "(">>
<1>1. \A c \in {"(", ")", "=", "-"} \cup Letter : c \in Solid /\ c \in Symbol /\ Lower(c) = c
  BY SolidIsSymbol DEF Lower, Capital, Letter, Solid, Characters, NewLine, Blank
<1>2. ASSUME NEW c \in {"(", ")", "=", "-"} \cup Letter
      PROVE  <<c>> \in Seq(Solid) /\ <<c>> \in Seq(Symbol) /\ Lowered(<<c>>) = <<c>>
  <2>1. c \in Solid /\ c \in Symbol /\ Lower(c) = c
    BY <1>1
  <2>2. <<c>> \in Seq(Solid) /\ <<c>> \in Seq(Symbol)
    BY <2>1
  <2>3. Append(<<>>, c) = <<c>>
    OBVIOUS
  <2>4. Lowered(<<>>) = <<>> /\ Lowered(Append(<<>>, c)) = Append(Lowered(<<>>), Lower(c))
    <3>1. <<>> \in Seq(Symbol)
      BY EmptySeq
    <3>. QED  BY <2>1, <3>1, LoweredRight
  <2>. QED  BY <2>1, <2>2, <2>3, <2>4
<1>3. ASSUME NEW c \in Letter, NEW d \in Letter
      PROVE  <<c, d>> \in Seq(Symbol) /\ Lowered(<<c, d>>) = <<c, d>>
  <2>1. <<c, d>> = <<c>> \o <<d>>
    BY TupleOfTwo
  <2>2. <<c>> \in Seq(Symbol) /\ <<d>> \in Seq(Symbol) /\ Lowered(<<c>>) = <<c>> /\ Lowered(<<d>>) = <<d>>
    BY <1>2
  <2>3. <<c>> \o <<d>> \in Seq(Symbol) /\ Lowered(<<c>> \o <<d>>) = <<c>> \o <<d>>
    <3> DEFINE s == <<c>>
               u == <<d>>
    <3>. HIDE DEF s, u
    <3>1. s \o u \in Seq(Symbol) /\ Lowered(s \o u) = s \o u
      BY <2>2, LoweredJoin DEF s, u
    <3>. QED  BY <3>1 DEF s, u
  <2>. QED  BY <2>1, <2>3
<1>4. ASSUME NEW t \in DOMAIN Word PROVE Word[t] \in Seq(Symbol) /\ Lowered(Word[t]) = Word[t]
  <2>1. \E c, d \in Letter : Word[t] = <<c, d>>
    BY DEF Word, Letter
  <2>. QED  BY <1>3, <2>1
<1>5. /\ <<"o", "u", "(">> \in Seq(Solid) /\ <<"o", "u", "(">> = Word.output \o <<"(">>
      /\ Lowered(<<"o", "u", "(">>) = <<"o", "u", "(">>
  <2> DEFINE w == Word["output"]
             b == <<"(">>
  <2>1. "output" \in DOMAIN Word /\ w = <<"o", "u">>
    BY DEF Word
  <2>2. w \in Seq(Solid) /\ w \in Seq(Symbol) /\ Lowered(w) = w
    BY <1>4, <2>1, WordLetters
  <2>3. b \in Seq(Solid) /\ b \in Seq(Symbol) /\ Lowered(b) = b
    BY <1>2
  <2>4. <<"o", "u", "(">> = w \o b
    BY <2>1
  <2>. HIDE DEF w, b
  <2>5. w \o b \in Seq(Solid) /\ Lowered(w \o b) = w \o b
    BY <2>2, <2>3, LoweredRight, ConcatProperties
  <2>. QED  BY <2>4, <2>5 DEF w, b
<1>. QED  BY <1>2, <1>4, <1>5

LEMMA TellOn ==
  ASSUME Types, NEW p, Meaning(p), Text(p), NEW call \in Reports, calls' = Append(calls, call),
         UNCHANGED buffer_vars, UNCHANGED <<d_varbuf, sign, nls, d_ln>>
  PROVE  /\ Types'
         /\ Came = Told \o Lowered(Unparsed(call)) => Meaning(At(Even))'
         /\ \A c \in Solid :
                Came \o <<c>> = Told \o Lowered(Unparsed(call)) => Meaning(At(Owes(c)))'
<1>1. Types'
  <2>1. calls' \in Seq(Reports)
    BY AppendProperties DEF Types
  <2>. QED  BY <2>1, SameText DEF Types
<1>2. Came' = Came
  BY SameText
<1>3. \A g : Meaning(At(g))' <=> GapHolds(g)'
  BY StillMove
<1>4. /\ Came = Told \o Lowered(Unparsed(call)) => GapHolds(Even)'
      /\ \A c \in Solid :
            Came \o <<c>> = Told \o Lowered(Unparsed(call)) => GapHolds(Owes(c))'
  BY <1>1, <1>2, GapTold
<1>. QED  BY <1>1, <1>3, <1>4

(* The keyword of a block or of a gate.                                    *)
LEMMA TellWord ==
  ASSUME Types, NEW t \in DOMAIN Word, NEW f \in {"quant", "type"}, GapHolds(Ahead(Word[t]))
  PROVE  /\ Said(f, t) = Word[t] /\ <<f, Word[t]>> \in Reports
         /\ Came \o <<"(">> = Told \o Lowered(Unparsed(<<f, Word[t]>>))
<1> DEFINE w == Word[t]
           b == <<"(">>
<1>1. w \in Seq(Solid) /\ w \in Seq(Symbol) /\ Lowered(w) = w
  BY WordLetters, LoweredWords
<1>2. b \in Seq(Symbol) /\ Lowered(b) = b
  BY LoweredWords
<1>3. Said(f, t) = w
  BY DEF Said
<1>. HIDE DEF w
<1>4. Unparsed(<<f, w>>) = w \o b
  BY DEF Unparsed
<1>5. <<f, w>> \in Reports
  BY <1>1 DEF Reports
<1>6. Came = Told \o w /\ Told \in Seq(Symbol)
  BY <1>1, GapEqs DEF GapForms, w
<1>. HIDE DEF b
<1>7. Lowered(w \o b) = w \o b
  BY <1>1, <1>2, LoweredRight
<1>8. (Told \o w) \o b = Told \o (w \o b)
  BY <1>1, <1>2, <1>6, SymbolSeqs
<1>. QED  BY <1>3, <1>4, <1>5, <1>6, <1>7, <1>8 DEF w, b

(* The names.                                                              *)
LEMMA TellName ==
  ASSUME Types
  PROVE  /\ \A x : \A f \in {"var", "gate"} : Said(f, x) = d_varbuf /\ <<f, d_varbuf>> \in Reports
         /\ \A x : \A f \in {"arg", "output"} :
                Said(f, x) = SignText \o d_varbuf /\ <<f, SignText \o d_varbuf>> \in Reports
         /\ GapHolds(Gap(<<>>, <<>>, "name")) =>
                /\ Came = Told \o Lowered(Unparsed(<<"var", d_varbuf>>))
                /\ Came \o <<"=">> = Told \o Lowered(Unparsed(<<"gate", d_varbuf>>))
         /\ GapHolds(Gap(<<>>, <<>>, "signed")) =>
                Came = Told \o Lowered(Unparsed(<<"arg", SignText \o d_varbuf>>))
         /\ GapHolds(Gap(<<"o", "u", "(">>, <<>>, "signed")) =>
                Came \o <<")">> = Told \o Lowered(Unparsed(<<"output", SignText \o d_varbuf>>))
<1> DEFINE n == d_varbuf
           m == SignText \o d_varbuf
           e == <<"=">>
           c == <<")">>
           o == <<"o", "u", "(">>
<1>0. GapForms /\ n \in Seq(Solid)
  BY GapEqs DEF Types
<1>1. Told \in Seq(Symbol) /\ n \in Seq(Symbol) /\ Told \o <<>> = Told
  BY <1>0, SymbolSeqs DEF GapForms
<1>2. m \in Seq(Solid) /\ m \in Seq(Symbol)
  <2>1. SignText \in Seq(Solid)
    <3>1. <<>> \in Seq(Solid) /\ <<"-">> \in Seq(Solid)
      BY EmptySeq, LoweredWords
    <3>. QED  BY <3>1 DEF SignText
  <2>2. m \in Seq(Solid)
    BY <1>0, <2>1, ConcatProperties
  <2>. QED  BY <2>2, SolidIsSymbol
<1>3. /\ e \in Seq(Symbol) /\ Lowered(e) = e /\ c \in Seq(Symbol) /\ Lowered(c) = c
      /\ o \in Seq(Symbol) /\ Lowered(o) = o /\ o \in Seq(Solid) /\ o = Word.output \o <<"(">>
  BY LoweredWords, SolidIsSymbol
<1>4. \A x : /\ Said("var", x) = n /\ Said("gate", x) = n /\ Said("arg", x) = m /\ Said("output", x) = m
  BY DEF Said, SignText
<1>. HIDE DEF n, m
<1>5. /\ Unparsed(<<"var", n>>) = n /\ Unparsed(<<"gate", n>>) = n \o e /\ Unparsed(<<"arg", m>>) = m
      /\ Unparsed(<<"output", m>>) = ((Word.output \o <<"(">>) \o m) \o c
  BY DEF Unparsed
<1>6. <<"var", n>> \in Reports /\ <<"gate", n>> \in Reports /\ <<"arg", m>> \in Reports /\ <<"output", m>> \in Reports
  BY <1>0, <1>2 DEF Reports
<1>7. <<>> \in Seq(Solid)
  BY EmptySeq
<1>8. ASSUME GapHolds(Gap(<<>>, <<>>, "name"))
      PROVE  Came = Told \o Lowered(n) /\ Came \o e = Told \o Lowered(n \o e)
  <2>1. Came = (Told \o <<>>) \o Lowered(n)
    BY <1>0, <1>7, <1>8 DEF GapForms, n
  <2>. HIDE DEF e
  <2>2. Lowered(n) \in Seq(Symbol) /\ Lowered(n \o e) = Lowered(n) \o e
    <3>1. e \in Seq(Symbol) /\ Lowered(e) = e
      BY <1>3
    <3>. QED  BY <1>1, <3>1, LoweredJoin
  <2>3. (Told \o Lowered(n)) \o e = Told \o (Lowered(n) \o e)
    BY <1>1, <1>3, <2>2, Regroup
  <2>. QED  BY <1>1, <2>1, <2>2, <2>3
<1>9. ASSUME GapHolds(Gap(<<>>, <<>>, "signed"))
      PROVE  Came = Told \o Lowered(m)
  <2>1. Came = (Told \o <<>>) \o Lowered(m)
    BY <1>0, <1>7, <1>9 DEF GapForms, m
  <2>. QED  BY <1>1, <2>1
<1>10. ASSUME GapHolds(Gap(o, <<>>, "signed"))
       PROVE  Came \o c = Told \o Lowered((o \o m) \o c)
  <2>. HIDE DEF o, c
  <2>1. Came = (Told \o o) \o Lowered(m)
    BY <1>0, <1>3, <1>10 DEF GapForms, m
  <2> DEFINE l == Lowered(m)
  <2>0. /\ o \in Seq(Symbol) /\ Lowered(o) = o /\ c \in Seq(Symbol) /\ Lowered(c) = c
        /\ m \in Seq(Symbol) /\ Told \in Seq(Symbol)
    BY <1>1, <1>2, <1>3
  <2>2. l \in Seq(Symbol) /\ o \o m \in Seq(Symbol) /\ Lowered(o \o m) = o \o l
    BY <2>0, LoweredJoin
  <2>3. Lowered((o \o m) \o c) = (o \o l) \o c
    <3> DEFINE j == o \o m
    <3>1. j \in Seq(Symbol) /\ Lowered(j) = o \o l
      BY <2>2
    <3>. HIDE DEF j, l
    <3>2. Lowered(j \o c) = Lowered(j) \o Lowered(c)
      BY <2>0, <3>1, LoweredJoin
    <3>. QED  BY <2>0, <3>1, <3>2 DEF j
  <2>. HIDE DEF l
  <2>4. (Told \o o) \o l = Told \o (o \o l) /\ o \o l \in Seq(Symbol)
    BY <2>0, <2>2, Regroup
  <2> DEFINE k == o \o l
  <2>5. (Told \o k) \o c = Told \o (k \o c)
    <3>. HIDE DEF k
    <3>. QED  BY <2>0, <2>4, Regroup DEF k
  <2>. QED  BY <2>1, <2>3, <2>4, <2>5 DEF l
<1>11. /\ \A x : \A f \in {"var", "gate"} : Said(f, x) = n /\ <<f, n>> \in Reports
       /\ \A x : \A f \in {"arg", "output"} : Said(f, x) = m /\ <<f, m>> \in Reports
  BY <1>4, <1>6
<1>12. GapHolds(Gap(o, <<>>, "signed")) => Came \o c = Told \o Lowered(Unparsed(<<"output", m>>))
  <2>1. Unparsed(<<"output", m>>) = (o \o m) \o c
    BY <1>3, <1>5
  <2>. HIDE DEF o, c
  <2>. QED  BY <1>10, <2>1
<1>13. GapHolds(Gap(<<>>, <<>>, "name")) =>
          Came = Told \o Lowered(Unparsed(<<"var", n>>)) /\ Came \o e = Told \o Lowered(Unparsed(<<"gate", n>>))
  BY <1>5, <1>8
<1>14. GapHolds(Gap(<<>>, <<>>, "signed")) => Came = Told \o Lowered(Unparsed(<<"arg", m>>))
  BY <1>5, <1>9
<1>. QED  BY <1>11, <1>12, <1>13, <1>14 DEF n, m

(* The ends of a block, of a gate and of the file.                         *)
LEMMA TellEnd ==
  ASSUME Types
  PROVE  /\ \A x : \A f \in {"quant_closed", "gate_closed", "file_closed"} :
                Said(f, x) = <<>> /\ <<f, <<>>>> \in Reports
         /\ \A f \in {"quant_closed", "gate_closed"} : GapHolds(Ahead(<<")">>)) =>
                Came = Told \o Lowered(Unparsed(<<f, <<>>>>))
         /\ GapHolds(Even) => Came = Told \o Lowered(Unparsed(<<"file_closed", <<>>>>)) /\ Came = Told
<1> DEFINE e == <<>>
           c == <<")">>
<1>1. GapForms /\ e \in Seq(Solid) /\ c \in Seq(Solid) /\ Lowered(c) = c /\ Lowered(e) = e
  BY GapEqs, EmptySeq, LoweredWords, LoweredRight
<1>2. \A x : \A f \in {"quant_closed", "gate_closed", "file_closed"} : Said(f, x) = e
  BY DEF Said
<1>3. \A f \in {"quant_closed", "gate_closed"} : Unparsed(<<f, e>>) = c
  BY DEF Unparsed
<1>4. Unparsed(<<"file_closed", e>>) = e
  BY DEF Unparsed
<1>5. Even = Ahead(e)
  BY GapFields
<1>. HIDE DEF e, c
<1>6. \A f \in {"quant_closed", "gate_closed", "file_closed"} : <<f, e>> \in Reports
  BY <1>1 DEF Reports
<1>7. GapHolds(Ahead(c)) => Came = Told \o c
  BY <1>1 DEF GapForms
<1>8. GapHolds(Even) => Came = Told \o e
  BY <1>1, <1>5 DEF GapForms
<1>9. Told \o e = Told
  BY <1>1, SymbolSeqs DEF GapForms, e
<1>10. \A f \in {"quant_closed", "gate_closed"} : GapHolds(Ahead(c)) =>
          Came = Told \o Lowered(Unparsed(<<f, e>>))
  BY <1>1, <1>3, <1>7
<1>11. GapHolds(Even) => Came = Told \o Lowered(Unparsed(<<"file_closed", e>>)) /\ Came = Told
  BY <1>1, <1>4, <1>8, <1>9
<1>. QED  BY <1>2, <1>6, <1>10, <1>11 DEF e, c

LEMMA CallbackKeeps ==
  ASSUME LexerInv, Callback
  PROVE  LexerInv'
<1> DEFINE a == Head(todo)
           call == <<a[2], Said(a[2], a[3])>>
<1>1. /\ todo # <<>> /\ a[1] = "cb" /\ Then(<<>>) /\ Types
      /\ calls' = Append(calls, call)
      /\ status' \in {"reading", "closed"} /\ (status' = "closed" => a[2] = "file_closed")
      /\ UNCHANGED <<d_varbuf, sign, nls, d_ln>> /\ UNCHANGED buffer_vars
  BY DEF Callback, Running, LexerInv
<1>2. PICK p, r : Meaning(p) /\ Ok(a, p, r) /\ Leads(Tail(todo), r, At(Even))
  BY <1>1, Course DEF LexerInv
<1>. HIDE DEF a
<1>3. CallbackOk(a, p, r)
  BY <1>1, <1>2, HeadKind
<1>4. Text(p) /\ GapHolds(p.gap) /\ Current \in p.see
  BY <1>2, <1>3 DEF CallbackOk, Meaning
<1>5. \A f, x : /\ Report(f, x)[2] = f /\ Report(f, x)[3] = x
               /\ CallBack(f)[2] = f /\ CallBack(f)[3] = ""
  BY DEF Report, CallBack
<1>6. "(" \in Solid /\ ")" \in Solid /\ "=" \in Solid
  BY SolidLower
<1>7. /\ call \in Reports
      /\ \/ r = At(Even) /\ Came = Told \o Lowered(Unparsed(call))
         \/ \E c \in Solid : r = At(Owes(c)) /\ Came \o <<c>> = Told \o Lowered(Unparsed(call))
      /\ a[2] = "file_closed" => p.see = {EOF} /\ r = At(Even) /\ Came = Told /\ Unparsed(call) = <<>>
  <2>1. ASSUME NEW t \in DOMAIN Word, NEW f \in {"quant", "type"}, a = Report(f, t),
               p.gap = Ahead(Word[t]), r = At(Owes("("))
        PROVE  /\ call \in Reports /\ a[2] # "file_closed"
               /\ r = At(Owes("(")) /\ Came \o <<"(">> = Told \o Lowered(Unparsed(call))
    <3>1. a[2] = f /\ a[3] = t
      BY <1>5, <2>1
    <3>2. GapHolds(Ahead(Word[t]))
      BY <1>4, <2>1
    <3>3. /\ Said(f, t) = Word[t] /\ <<f, Word[t]>> \in Reports
          /\ Came \o <<"(">> = Told \o Lowered(Unparsed(<<f, Word[t]>>))
      BY <1>1, <3>2, TellWord
    <3>4. call = <<f, Word[t]>>
      BY <3>1, <3>3
    <3>. QED  BY <2>1, <3>1, <3>3, <3>4
  <2>2. ASSUME NEW f \in {"var", "gate"}, a = CallBack(f), p.gap = Gap(<<>>, <<>>, "name")
        PROVE  /\ call \in Reports /\ a[2] = f
               /\ f = "var" => Came = Told \o Lowered(Unparsed(call))
               /\ f = "gate" => Came \o <<"=">> = Told \o Lowered(Unparsed(call))
    <3>1. a[2] = f
      BY <1>5, <2>2
    <3>2. GapHolds(Gap(<<>>, <<>>, "name"))
      BY <1>4, <2>2
    <3>3. call = <<f, d_varbuf>> /\ <<f, d_varbuf>> \in Reports
      BY <1>1, <3>1, TellName
    <3>4. /\ Came = Told \o Lowered(Unparsed(<<"var", d_varbuf>>))
          /\ Came \o <<"=">> = Told \o Lowered(Unparsed(<<"gate", d_varbuf>>))
      BY <1>1, <3>2, TellName
    <3>. HIDE DEF call
    <3>. QED  BY <3>1, <3>3, <3>4
  <2>3. ASSUME a = CallBack("arg"), p.gap = Gap(<<>>, <<>>, "signed")
        PROVE  call \in Reports /\ a[2] = "arg" /\ Came = Told \o Lowered(Unparsed(call))
    <3>1. a[2] = "arg"
      BY <1>5, <2>3
    <3>2. GapHolds(Gap(<<>>, <<>>, "signed"))
      BY <1>4, <2>3
    <3>3. call = <<"arg", SignText \o d_varbuf>> /\ <<"arg", SignText \o d_varbuf>> \in Reports
      BY <1>1, <3>1, TellName
    <3>4. Came = Told \o Lowered(Unparsed(<<"arg", SignText \o d_varbuf>>))
      BY <1>1, <3>2, TellName
    <3>. HIDE DEF call
    <3>. QED  BY <3>1, <3>3, <3>4
  <2>4. ASSUME a = CallBack("output"), p.gap = Gap(<<"o", "u", "(">>, <<>>, "signed")
        PROVE  call \in Reports /\ a[2] = "output" /\ Came \o <<")">> = Told \o Lowered(Unparsed(call))
    <3>1. a[2] = "output"
      BY <1>5, <2>4
    <3>2. GapHolds(Gap(<<"o", "u", "(">>, <<>>, "signed"))
      BY <1>4, <2>4
    <3>3. call = <<"output", SignText \o d_varbuf>> /\ <<"output", SignText \o d_varbuf>> \in Reports
      BY <1>1, <3>1, TellName
    <3>4. Came \o <<")">> = Told \o Lowered(Unparsed(<<"output", SignText \o d_varbuf>>))
      BY <1>1, <3>2, TellName
    <3>. HIDE DEF call
    <3>. QED  BY <3>1, <3>3, <3>4
  <2>5. ASSUME NEW f \in {"quant_closed", "gate_closed"}, a = CallBack(f), p.gap = Ahead(<<")">>)
        PROVE  call \in Reports /\ a[2] = f /\ Came = Told \o Lowered(Unparsed(call))
    <3>1. a[2] = f
      BY <1>5, <2>5
    <3>2. GapHolds(Ahead(<<")">>))
      BY <1>4, <2>5
    <3>3. call = <<f, <<>>>> /\ <<f, <<>>>> \in Reports
      BY <1>1, <3>1, TellEnd
    <3>4. Came = Told \o Lowered(Unparsed(<<f, <<>>>>))
      BY <1>1, <3>2, TellEnd
    <3>. HIDE DEF call
    <3>. QED  BY <3>1, <3>3, <3>4
  <2>6. ASSUME a = CallBack("file_closed"), p.gap = Even
        PROVE  /\ call \in Reports /\ a[2] = "file_closed" /\ Unparsed(call) = <<>>
               /\ Came = Told \o Lowered(Unparsed(call)) /\ Came = Told
    <3>1. a[2] = "file_closed"
      BY <1>5, <2>6
    <3>2. GapHolds(Even)
      BY <1>4, <2>6
    <3>3. call = <<"file_closed", <<>>>> /\ <<"file_closed", <<>>>> \in Reports
      BY <1>1, <3>1, TellEnd
    <3>4. Came = Told \o Lowered(Unparsed(<<"file_closed", <<>>>>)) /\ Came = Told
      BY <1>1, <3>2, TellEnd
    <3>5. Unparsed(<<"file_closed", <<>>>>) = <<>>
      BY DEF Unparsed
    <3>. HIDE DEF call
    <3>. QED  BY <3>1, <3>3, <3>4, <3>5
  <2>7. \A t \in {"exists", "forall", "free", "and", "or", "xor", "ite"} : t \in DOMAIN Word
    BY DEF Word
  <2>. HIDE DEF call
  <2>8. CASE \E t \in {"exists", "forall", "free"} :
               a = Report("quant", t) /\ p.gap = Ahead(Word[t]) /\ r = At(Owes("("))
    <3>1. call \in Reports /\ a[2] # "file_closed"
          /\ r = At(Owes("(")) /\ Came \o <<"(">> = Told \o Lowered(Unparsed(call))
      BY <2>1, <2>7, <2>8
    <3>. QED  BY <1>6, <3>1
  <2>9. CASE \E t \in {"and", "or", "xor", "ite"} :
               a = Report("type", t) /\ p.gap = Ahead(Word[t]) /\ r = At(Owes("("))
    <3>1. call \in Reports /\ a[2] # "file_closed"
          /\ r = At(Owes("(")) /\ Came \o <<"(">> = Told \o Lowered(Unparsed(call))
      BY <2>1, <2>7, <2>9
    <3>. QED  BY <1>6, <3>1
  <2>10. CASE a = CallBack("var") /\ p.gap = Gap(<<>>, <<>>, "name") /\ r = At(Even)
    BY <2>2, <2>10
  <2>11. CASE a = CallBack("gate") /\ p.gap = Gap(<<>>, <<>>, "name") /\ r = At(Owes("="))
    BY <1>6, <2>2, <2>11
  <2>12. CASE a = CallBack("arg") /\ p.gap = Gap(<<>>, <<>>, "signed") /\ r = At(Even)
    BY <2>3, <2>12
  <2>13. CASE /\ a = CallBack("output") /\ p.gap = Gap(<<"o", "u", "(">>, <<>>, "signed")
              /\ r = At(Owes(")"))
    BY <1>6, <2>4, <2>13
  <2>14. CASE /\ a \in {CallBack("quant_closed"), CallBack("gate_closed")}
              /\ p.gap = Ahead(<<")">>) /\ r = At(Even)
    BY <2>5, <2>14
  <2>15. CASE a = CallBack("file_closed") /\ p.gap = Even /\ p.see = {EOF} /\ r = At(Even)
    BY <2>6, <2>15
  <2>. QED  BY <1>3, <2>8, <2>9, <2>10, <2>11, <2>12, <2>13, <2>14, <2>15, Zenon DEF CallbackOk
<1>. HIDE DEF call
<1>8. /\ Types'
      /\ Came = Told \o Lowered(Unparsed(call)) => Meaning(At(Even))'
      /\ \A c \in Solid :
             Came \o <<c>> = Told \o Lowered(Unparsed(call)) => Meaning(At(Owes(c)))'
  BY <1>1, <1>2, <1>4, <1>7, TellOn
<1>9. Meaning(r)'
  <2>1. CASE r = At(Even) /\ Came = Told \o Lowered(Unparsed(call))
    BY <1>8, <2>1
  <2>2. CASE \E c \in Solid : r = At(Owes(c)) /\ Came \o <<c>> = Told \o Lowered(Unparsed(call))
    BY <1>8, <2>2
  <2>. QED  BY <1>7, <2>1, <2>2
<1>10. OnCourse'
  BY <1>1, <1>2, <1>9, CourseEnd
<1>11. status' = "closed" => Came' = Told' /\ Current' = EOF
  <2>. SUFFICES ASSUME status' = "closed" PROVE Came' = Told' /\ Current' = EOF
    OBVIOUS
  <2>1. p.see = {EOF} /\ Came = Told /\ Unparsed(call) = <<>>
    BY <1>1, <1>7
  <2>2. Current' = EOF /\ Came' = Came
    BY <1>1, <1>4, <2>1, SameText
  <2>3. Told' = Told \o Lowered(Unparsed(call))
    BY <1>1, <1>7, ToldStep DEF Types
  <2>4. Told \o Lowered(Unparsed(call)) = Told
    BY <1>1, <2>1, LoweredRight, ToldRight, SymbolSeqs DEF Types
  <2>. QED  BY <2>1, <2>2, <2>3, <2>4
<1>. QED  BY <1>8, <1>10, <1>11 DEF LexerInv

LEMMA StillKeeps ==
  ASSUME LexerInv, UNCHANGED vars
  PROVE  LexerInv'
<1>1. UNCHANGED <<buffer_vars, d_varbuf, sign, d_ln, calls>> /\ UNCHANGED <<todo, nls, status>>
      /\ UNCHANGED buffer_vars
  BY DEF vars, lexer_vars
<1>2. OnCourse'
  BY <1>1, SameMeaning DEF LexerInv, OnCourse, Fits
<1>3. Types'
  BY <1>1, SameText DEF LexerInv, Types
<1>4. Told' = Told
  BY <1>1 DEF Told
<1>. QED  BY <1>1, <1>2, <1>3, <1>4, SameText DEF LexerInv

-----------------------------------------------------------------------------
(* The parser starts before the first character, with nothing told.        *)
LEMMA LexerAtStart == Init => LexerInv
<1>. SUFFICES ASSUME Init PROVE LexerInv
  OBVIOUS
<1>0. file \in Seq(Byte) /\ pos = 0 /\ Len(file) \in Nat
  BY TextsAssumption, LenProperties DEF Init
<1>1. PICK n \in IF Len(file) = 0 THEN {0} ELSE 1 .. Smaller(Chunk, Len(file)) :
        given = n /\ buf = SubSeq(file, 1, n)
  BY DEF Init
<1>2. Window
  <2>1. BufferInit
    BY <1>0, <1>1 DEF BufferInit
  <2>. QED  BY <2>1, WindowAtStart
<1>3. Passed = 0
  <2>1. n \in IF 0 = Len(file) THEN {0} ELSE 1 .. Smaller(Chunk, Len(file) - 0)
    BY <1>0, <1>1
  <2>2. n \in Nat /\ Len(SubSeq(file, 0 + 1, 0 + n)) = n
    BY <1>0, <2>1, Refill
  <2>3. size = n
    BY <1>1, <2>2 DEF size
  <2>. QED  BY <1>0, <1>1, <2>2, <2>3 DEF Passed
<1>4. d_varbuf = <<>> /\ sign = FALSE /\ nls = 0 /\ d_ln = 1 /\ calls = <<>> /\ status = "reading"
      /\ todo = <<Do("qcir_file")>>
  BY DEF Init
<1>5. Types
  BY <1>2, <1>4, EmptySeq DEF Types
<1>6. Came = <<>>
  BY <1>2, <1>3, Sees, StrippedToEqs DEF Came
<1>7. Told = <<>>
  <2>1. Parts(calls) = <<>>
    BY <1>4 DEF Parts
  <2>2. Told = Lowered(FlattenSeq(<<>>))
    BY <1>4, <1>5, <2>1, ToldRight DEF Types
  <2>3. <<>> \in Seq(Seq(Solid)) /\ <<>> \in Seq(Solid)
    BY EmptySeq
  <2>4. FlattenSeq(<<>>) = <<>>
    BY <2>3, FlattenSeqRight
  <2>. QED  BY <2>2, <2>4, LoweredRight
<1>8. Meaning(At(Even))
  <2>1. <<>> \in Seq(Solid) /\ Told \o <<>> = <<>>
    BY <1>7, EmptySeq, ConcatEmptySeq
  <2>2. GapHolds(Even)
    BY <1>5, <1>6, <2>1, GapEqs, GapFields DEF GapForms
  <2>3. CommentHolds("text")
    BY <1>3 DEF CommentHolds, Commented
  <2>4. LinesBefore(0) = 0
    BY LinesStep
  <2>5. LineHolds("right")
    BY <1>3, <1>4, <2>4 DEF LineHolds, AfterCR
  <2>6. Current \in Anything
    BY <1>2, Sees
  <2>. QED  BY <2>2, <2>3, <2>5, <2>6, MeaningOf DEF At
<1>9. OnCourse
  <2>1. Ok(Do("qcir_file"), At(Even), At(Even))
    BY FunctionLeads
  <2>2. Leads(todo, At(Even), At(Even))
    BY <1>4, <2>1, LeadsOne
  <2>. QED  BY <1>8, <2>2 DEF OnCourse, Fits
<1>. QED  BY <1>4, <1>5, <1>9 DEF LexerInv

LEMMA LexerStep == LexerInv /\ ~ Overcounts /\ [Next]_vars => LexerInv'
<1>. SUFFICES ASSUME LexerInv, ~ Overcounts, [Next]_vars PROVE LexerInv'
  OBVIOUS
<1>1. CASE Call
  BY <1>1, CallKeeps
<1>2. CASE MatchChar
  BY <1>2, MatchCharKeeps
<1>3. CASE MatchLetters
  BY <1>3, MatchLettersKeeps
<1>4. CASE NextChar
  BY <1>4, NextCharKeeps
<1>5. CASE Sign
  BY <1>5, SignKeeps
<1>6. CASE VarStart
  BY <1>6, VarStartKeeps
<1>7. CASE VarChar
  BY <1>7, VarCharKeeps
<1>8. CASE Skip \/ LineSkipped
  BY <1>8, SkipKeeps
<1>9. CASE LineRead
  BY <1>9, LineReadKeeps
<1>10. CASE Callback
  BY <1>10, CallbackKeeps
<1>11. CASE Err
  BY <1>11, ErrorKeeps DEF Err
<1>12. CASE Finished \/ UNCHANGED vars
  BY <1>12, StillKeeps DEF Finished
<1>. QED
  BY <1>1, <1>2, <1>3, <1>4, <1>5, <1>6, <1>7, <1>8, <1>9, <1>10, <1>11, <1>12 DEF Next

(* Where the line counter lags behind, nlchar is at work: it has passed the*)
(* CR or the whole end of the line, and what counts it is next.            *)
LEMMA LagsInNlChar ==
  ASSUME NEW a, NEW p, NEW q, Ok(a, p, q)
  PROVE  /\ p.line = "pending" => a = Do("line_read")
         /\ p.line = "cr" => a = Do("after_cr") \/ q.line = "pending"
<1>0. \A g, m, l, s : Place(g, m, l, s).line = l
  BY DEF Place
<1>1. FunctionOk(a, p, q) \/ NameOk(a, p, q) \/ MatchOk(a, p, q) \/ CallbackOk(a, p, q)
        => p.line = "right"
  BY Zenon DEF FunctionOk, NameOk, MatchOk, CallbackOk, Text, Remark
<1>2. ASSUME SpaceOk(a, p, q)
      PROVE  p.line = "right" \/ (p.line = "cr" /\ a = Do("after_cr"))
                \/ (p.line = "pending" /\ a = Do("line_read"))
  BY <1>2, Zenon DEF SpaceOk, Text, Remark
<1>3. ASSUME NextCharOk(a, p, q)
      PROVE  p.line = "right" \/ (p.line = "cr" /\ q.line = "pending")
  <2>1. \/ p.line = "right"
        \/ p.line = "cr" /\ q = Place(p.gap, "text", "pending", Anything)
    BY <1>3, Zenon DEF NextCharOk, Text, Remark
  <2>. QED  BY <1>0, <2>1
<1>. QED  BY <1>1, <1>2, <1>3 DEF Ok

LEMMA LineRightAlways ==
  ASSUME LexerInv, ~ InNlChar,
         ~ (todo # <<>> /\ Tail(todo) # <<>> /\ Head(Tail(todo)) = Do("line_read"))
  PROVE  d_ln = 1 + LinesBefore(Passed)
<1>0. At(Even).line = "right"
  BY AtFields
<1>1. ASSUME NEW p, Meaning(p)
      PROVE  /\ p.line = "right" => d_ln = 1 + LinesBefore(Passed)
             /\ p.line \in {"right", "pending", "cr"}
  BY <1>1 DEF Meaning, LineHolds
<1>2. CASE todo = <<>>
  BY <1>0, <1>1, <1>2, LeadsEmpty DEF LexerInv, OnCourse, Fits
<1>3. CASE todo # <<>>
  <2>1. PICK p, r : Meaning(p) /\ Ok(Head(todo), p, r) /\ Leads(Tail(todo), r, At(Even))
    BY <1>3, Course DEF LexerInv
  <2>2. Head(todo) # Do("after_cr") /\ Head(todo) # Do("line_read")
    BY <1>3 DEF InNlChar, Do
  <2>3. p.line # "pending" /\ (p.line = "cr" => r.line = "pending")
    BY <2>1, <2>2, LagsInNlChar
  <2>4. r.line # "pending"
    <3>1. CASE Tail(todo) = <<>>
      <4>1. Leads(<<>>, r, At(Even))
        BY <2>1, <3>1
      <4>2. r = At(Even)
        BY <4>1, LeadsEmpty
      <4>. QED  BY <1>0, <4>2
    <3>2. CASE Tail(todo) # <<>>
      <4>1. PICK t : Ok(Head(Tail(todo)), r, t)
        <5> DEFINE rest == Tail(todo)
        <5>1. Leads(rest, r, At(Even)) /\ rest # <<>>
          BY <2>1, <3>2
        <5>. HIDE DEF rest
        <5>2. \E t : Ok(Head(rest), r, t)
          BY <5>1, LeadsHead
        <5>. QED  BY <5>2 DEF rest
      <4>. QED  BY <1>3, <3>2, <4>1, LagsInNlChar
    <3>. QED  BY <3>1, <3>2
  <2>. QED  BY <1>1, <2>1, <2>3, <2>4
<1>. QED  BY <1>2, <1>3

LEMMA NothingLostAlways == LexerInv => NothingLost
<1>. SUFFICES ASSUME LexerInv, status = "closed", \A i \in DOMAIN file : Promoted[file[i]] # EOF
              PROVE  Stripped(file) = Stripped(FlattenSeq(Parts(calls)))
  BY DEF NothingLost, Parts
<1>1. Types /\ Came = Told /\ Current = EOF
  BY DEF LexerInv
<1>2. Passed = Len(file)
  BY <1>1, Sees DEF Types
<1>3. Stripped(file) = Came
  BY <1>2 DEF Stripped, Came
<1>4. FlattenSeq(Parts(calls)) \in Seq(Solid) /\ Told = Lowered(FlattenSeq(Parts(calls)))
  BY <1>1, ToldRight DEF Types
<1>. QED  BY <1>1, <1>3, <1>4, StrippedSolid

-----------------------------------------------------------------------------
(* Where the course can be left.  Only skip_line calls nlchar without      *)
(* having seen the end of a line, and only in the header: the calls that   *)
(* can be pending there are few.  All others are plain.                    *)
Push(a, t) == <<a>> \o t
Stack(t) == \E S : t \in Seq(S)
PlainNames == Moving \cup Marking \cup
    {"qblock_quant", "free_or_forall", "var_list", "vars", "comma", "output_stmt", "gates",
     "gate_stmt", "gate_type", "args", "optional_comma", "lit", "var", "var_chars", "skipping",
     "comment", "nltoken", "nltoken_end", "after_cr"}
PlainCall(a) == a[1] \in PlainNames
Plain(t) == Stack(t) /\ \A i \in 1 .. Len(t) : PlainCall(t[i])
PlainAt(t, c) == Plain(t) \/ (c \in NewLine /\ \E u : Plain(u) /\ t = Push(Do("nlchar"), u))

AfterBlocks == <<Do("output_stmt"), Do("skip"), Do("gates")>>
Blocks == Push(<<"qblock_quant", TRUE>>, AfterBlocks)
Body == Push(Do("skip"), Blocks)
AfterLine == {Body, Push(Do("format_id"), Body)}
LineEnd(t) == {
    Push(Do("nlchar"), t),
    Push(Do("next_char"), Push(Do("line_read"), t)),
    Push(Do("next_char"), Push(Do("after_cr"), Push(Do("line_read"), t))),
    Push(Do("after_cr"), Push(Do("line_read"), t)),
    Push(Do("line_read"), t)}
LineStacks(t) ==
    LineEnd(t) \cup {
    Push(Do("skip_line"), t),
    Push(Do("next_char"), Push(Do("skip_line"), t)),
    Push(Do("err"), t)}
Number == Push(Letters(<<"1", "1">>), Push(Do("skip_line"), Body))
HeaderStacks == {
    <<Do("qcir_file")>>,
    Push(Do("format_id"), Body),
    Push(Char("#"), Push(Do("header_or_comment"), Body)),
    Push(Do("header_or_comment"), Body),
    Push(Letters(Word.qcir), Push(Do("optional_g"), Number)),
    Push(Letters(<<"c">>), Push(Do("optional_g"), Number)),
    Push(Do("optional_g"), Number),
    Push(Do("next_char"), Number),
    Number,
    Push(Letters(<<"1">>), Push(Do("skip_line"), Body))}
InHeader ==
    /\ calls = <<>>
    /\ todo \in HeaderStacks \/ \E t \in AfterLine : todo \in LineStacks(t)
    /\ Head(todo) = Do("nlchar") /\ Current \notin NewLine => Current = EOF /\ Commented(file, Passed)
HeaderInv == InHeader \/ PlainAt(todo, Current)

(* What is left of a file that ends in a comment, once its last line has   *)
(* been counted twice: nothing but an error.                               *)
LostStack(s) ==
    \/ s \in AfterLine \cup {Blocks, Push(Do("skipping"), Blocks), AfterBlocks}
    \/ \E t : Stack(t) /\ s \in {
            Push(Do("skip"), Push(Letters(Word.output), t)),
            Push(Do("skipping"), Push(Letters(Word.output), t)),
            Push(Letters(Word.output), t)}
Lost ==
    /\ Window /\ OnlyComment /\ status # "closed"
    /\ \/ d_ln = 1 + LinesBefore(Passed) /\ \E t \in AfterLine : todo = Push(Do("line_read"), t)
       \/ d_ln = 2 + LinesBefore(Passed) /\ LostStack(todo)
ParserInv == (LexerInv /\ HeaderInv) \/ Lost

LEMMA StackRight ==
  /\ Stack(<<>>) /\ (\A a : Stack(<<a>>))
  /\ \A s, t : Stack(s) /\ Stack(t) => Stack(s \o t)
  /\ \A s : Stack(s) => s \o <<>> = s /\ <<>> \o s = s
  /\ \A s, t, u : Stack(s) /\ Stack(t) /\ Stack(u) => (s \o t) \o u = s \o (t \o u)
<1>1. Stack(<<>>)
  BY EmptySeq DEF Stack
<1>2. ASSUME NEW a PROVE Stack(<<a>>)
  <2>1. <<a>> \in Seq({a})
    OBVIOUS
  <2>. QED  BY <2>1 DEF Stack
<1>3. ASSUME NEW s, NEW t, Stack(s), Stack(t)
      PROVE  \E S : s \in Seq(S) /\ t \in Seq(S) /\ s \o t \in Seq(S)
  <2>1. PICK S, T : s \in Seq(S) /\ t \in Seq(T)
    BY <1>3 DEF Stack
  <2>2. s \in Seq(S \cup T) /\ t \in Seq(S \cup T)
    BY <2>1, SeqWider
  <2>3. s \o t \in Seq(S \cup T)
    BY <2>2, ConcatProperties
  <2>. QED  BY <2>2, <2>3
<1>4. ASSUME NEW s, Stack(s) PROVE s \o <<>> = s /\ <<>> \o s = s
  BY <1>4, ConcatEmptySeq DEF Stack
<1>5. ASSUME NEW s, NEW t, NEW u, Stack(s), Stack(t), Stack(u)
      PROVE  (s \o t) \o u = s \o (t \o u)
  <2>1. PICK S : s \in Seq(S) /\ t \in Seq(S) /\ s \o t \in Seq(S)
    BY <1>3, <1>5
  <2>2. PICK U : u \in Seq(U)
    BY <1>5 DEF Stack
  <2>3. s \in Seq(S \cup U) /\ t \in Seq(S \cup U) /\ u \in Seq(S \cup U)
    BY <2>1, <2>2, SeqWider
  <2>. QED  BY <2>3, ConcatAssociative
<1>6. \A s, t : Stack(s) /\ Stack(t) => Stack(s \o t)
  BY <1>3 DEF Stack
<1>. QED  BY <1>1, <1>2, <1>4, <1>5, <1>6

LEMMA StackJoins ==
  ASSUME NEW s, NEW t, NEW u, Stack(s), Stack(t), Stack(u)
  PROVE  Stack(t \o u) /\ (s \o t) \o u = s \o (t \o u)
<1>1. Stack(t \o u)
  BY StackRight
<1>2. (s \o t) \o u = s \o (t \o u)
  BY StackRight
<1>. QED  BY <1>1, <1>2

LEMMA PushRight ==
  /\ \A a, t : Stack(t) => Stack(Push(a, t)) /\ Push(a, t) # <<>>
                           /\ Head(Push(a, t)) = a /\ Tail(Push(a, t)) = t
  /\ \A a, t, u : Stack(t) /\ Stack(u) => Push(a, t) \o u = Push(a, t \o u)
  /\ \A a : <<a>> = Push(a, <<>>)
  /\ \A a, b : <<a, b>> = Push(a, Push(b, <<>>))
  /\ \A a, b, c : <<a, b, c>> = Push(a, Push(b, Push(c, <<>>)))
  /\ \A a, b, c, d : <<a, b, c, d>> = Push(a, Push(b, Push(c, Push(d, <<>>))))
<1>1. ASSUME NEW a, NEW t, Stack(t)
      PROVE  Stack(Push(a, t)) /\ Push(a, t) # <<>> /\ Head(Push(a, t)) = a /\ Tail(Push(a, t)) = t
  <2>0. PICK S : t \in Seq(S)
    BY <1>1 DEF Stack
  <2>1. t \in Seq(S \cup {a}) /\ <<a>> \in Seq(S \cup {a}) /\ Len(<<a>>) = 1 /\ <<a>>[1] = a
    BY <2>0, SeqWider
  <2> DEFINE p == <<a>> \o t
  <2>2. /\ p \in Seq(S \cup {a}) /\ Len(p) = 1 + Len(t) /\ Len(t) \in Nat
        /\ \A i \in 1 .. 1 + Len(t) : p[i] = IF i <= 1 THEN <<a>>[i] ELSE t[i - 1]
    BY <2>1, ConcatProperties, LenProperties
  <2>. HIDE DEF p
  <2>3. p # <<>> /\ p[1] = a /\ \A i \in 1 .. Len(t) : p[i + 1] = t[i]
    <3>1. p[1] = a
      BY <2>1, <2>2
    <3>2. ASSUME NEW i \in 1 .. Len(t) PROVE p[i + 1] = t[i]
      <4>1. i + 1 \in 1 .. 1 + Len(t) /\ ~ i + 1 <= 1 /\ (i + 1) - 1 = i
        BY <2>2
      <4> DEFINE j == i + 1
      <4>. HIDE DEF j
      <4>2. j \in 1 .. 1 + Len(t) /\ ~ j <= 1 /\ j - 1 = i
        BY <4>1 DEF j
      <4>3. p[j] = t[j - 1]
        BY <2>2, <4>2
      <4>. QED  BY <4>2, <4>3 DEF j
    <3>3. p # <<>>
      BY <2>2, EmptySeq
    <3>. QED  BY <3>1, <3>2, <3>3
  <2>4. Head(p) = a /\ Tail(p) \in Seq(S \cup {a}) /\ Len(Tail(p)) = Len(t)
        /\ \A i \in 1 .. Len(t) : Tail(p)[i] = t[i]
    BY <2>2, <2>3, HeadTailProperties
  <2>5. Tail(p) = t
    BY <2>1, <2>4, SeqEqual
  <2>. QED  BY <2>2, <2>3, <2>4, <2>5 DEF Push, p, Stack
<1>2. \A a, t, u : Stack(t) /\ Stack(u) => Push(a, t) \o u = Push(a, t \o u)
  BY StackRight DEF Push
<1>3. \A a : <<a>> = Push(a, <<>>)
  BY StackRight DEF Push
<1>4. \A a, b : <<a, b>> = Push(a, Push(b, <<>>))
  BY <1>3, TupleOfTwo DEF Push
<1>5. \A a, b, c : <<a, b, c>> = Push(a, Push(b, Push(c, <<>>)))
  <2>. SUFFICES ASSUME NEW a, NEW b, NEW c PROVE <<a, b, c>> = <<a>> \o <<b, c>>
    BY <1>4 DEF Push
  <2>1. <<a, b>> \in Seq({a, b, c}) /\ <<b>> \in Seq({a, b, c}) /\ c \in {a, b, c}
    OBVIOUS
  <2>2. Append(<<a, b>>, c) = <<a, b>> \o <<c>> /\ Append(<<b>>, c) = <<b>> \o <<c>>
    BY <2>1, AppendIsConcat
  <2>3. (<<a>> \o <<b>>) \o <<c>> = <<a>> \o (<<b>> \o <<c>>)
    BY StackRight
  <2>. QED  BY <2>2, <2>3, TupleOfTwo, TupleOfThree
<1>6. \A a, b, c, d : <<a, b, c, d>> = Push(a, Push(b, Push(c, Push(d, <<>>))))
  <2>. SUFFICES ASSUME NEW a, NEW b, NEW c, NEW d
                PROVE  <<a, b, c, d>> = Push(a, Push(b, Push(c, Push(d, <<>>))))
    OBVIOUS
  <2>1. <<a, b, c, d>> = <<a, b>> \o <<c, d>>
    OBVIOUS
  <2>2. (<<a>> \o <<b>>) \o <<c, d>> = <<a>> \o (<<b>> \o <<c, d>>)
    <3>0. Stack(<<c>> \o <<d>>) /\ <<c>> \o <<d>> = <<c, d>>
      BY StackRight, TupleOfTwo
    <3>1. Stack(<<a>>) /\ Stack(<<b>>) /\ Stack(<<c, d>>)
      BY <3>0, StackRight
    <3>. QED  BY <3>1, StackRight
  <2>. QED  BY <1>4, <2>1, <2>2, TupleOfTwo DEF Push
<1>. QED  BY <1>1, <1>2, <1>3, <1>4, <1>5, <1>6

LEMMA PlainRight ==
  /\ Plain(<<>>)
  /\ \A s, t : Plain(s) /\ Plain(t) => Plain(s \o t)
  /\ \A a, t : PlainCall(a) /\ Plain(t) => Plain(Push(a, t))
  /\ \A s : Plain(s) /\ s # <<>> => PlainCall(Head(s)) /\ Plain(Tail(s))
<1>1. Plain(<<>>)
  BY StackRight DEF Plain
<1>2. ASSUME NEW s, NEW t, Plain(s), Plain(t) PROVE Plain(s \o t)
  <2>1. PICK S, T : s \in Seq(S) /\ t \in Seq(T)
    BY <1>2 DEF Plain, Stack
  <2>2. s \in Seq(S \cup T) /\ t \in Seq(S \cup T)
    BY <2>1, SeqWider
  <2>3. /\ Len(s \o t) = Len(s) + Len(t) /\ Len(s) \in Nat /\ Len(t) \in Nat
        /\ \A i \in 1 .. Len(s) + Len(t) : (s \o t)[i] = IF i <= Len(s) THEN s[i] ELSE t[i - Len(s)]
    BY <2>2, ConcatProperties, LenProperties
  <2> DEFINE u == s \o t
  <2>4. ASSUME NEW i \in 1 .. Len(u) PROVE PlainCall(u[i])
    <3>1. i <= Len(s) => i \in 1 .. Len(s)
      BY <2>3
    <3>2. ~ i <= Len(s) => i - Len(s) \in 1 .. Len(t)
      BY <2>3
    <3>3. u[i] = IF i <= Len(s) THEN s[i] ELSE t[i - Len(s)]
      BY <2>3
    <3>. QED  BY <1>2, <3>1, <3>2, <3>3 DEF Plain
  <2>. QED  BY <1>2, <2>4, StackRight DEF Plain
<1>3. ASSUME NEW a, NEW t, PlainCall(a), Plain(t) PROVE Plain(Push(a, t))
  <2>1. Plain(<<a>>)
    <3>1. Len(<<a>>) = 1 /\ <<a>>[1] = a /\ \A i \in 1 .. 1 : i = 1
      OBVIOUS
    <3>. QED  BY <1>3, <3>1, StackRight DEF Plain
  <2>. QED  BY <1>2, <1>3, <2>1 DEF Push
<1>4. ASSUME NEW s, Plain(s), s # <<>> PROVE PlainCall(Head(s)) /\ Plain(Tail(s))
  <2>1. PICK S : s \in Seq(S)
    BY <1>4 DEF Plain, Stack
  <2>2. /\ Tail(s) \in Seq(S) /\ Head(s) = s[1] /\ Len(Tail(s)) = Len(s) - 1 /\ Len(s) \in Nat \ {0}
        /\ \A i \in 1 .. Len(Tail(s)) : Tail(s)[i] = s[i + 1]
    BY <1>4, <2>1, HeadTailProperties, LenProperties, EmptySeq
  <2>3. 1 \in 1 .. Len(s) /\ \A i \in 1 .. Len(Tail(s)) : i + 1 \in 1 .. Len(s)
    BY <2>2
  <2>. QED  BY <1>4, <2>2, <2>3 DEF Plain, Stack
<1>. QED  BY <1>1, <1>2, <1>3, <1>4

LEMMA PlainTuples ==
  /\ \A a : PlainCall(a) => Plain(<<a>>)
  /\ \A a, b : PlainCall(a) /\ PlainCall(b) => Plain(<<a, b>>)
  /\ \A a, b, c : PlainCall(a) /\ PlainCall(b) /\ PlainCall(c) => Plain(<<a, b, c>>)
  /\ \A a, b, c, d : PlainCall(a) /\ PlainCall(b) /\ PlainCall(c) /\ PlainCall(d)
        => Plain(<<a, b, c, d>>)
  /\ \A a, b, c, d, e : PlainCall(a) /\ PlainCall(b) /\ PlainCall(c) /\ PlainCall(d) /\ PlainCall(e)
        => Plain(<<a, b, c, d, e>>)
  /\ \A a, b, c, d, e, f : PlainCall(a) /\ PlainCall(b) /\ PlainCall(c) /\ PlainCall(d)
                                /\ PlainCall(e) /\ PlainCall(f)
        => Plain(<<a, b, c, d, e, f>>)
<1>1. ASSUME NEW a, PlainCall(a) PROVE Plain(<<a>>)
  <2>1. Plain(Push(a, <<>>))
    BY <1>1, PlainRight
  <2>. QED  BY <2>1, PushRight
<1>2. ASSUME NEW a, NEW b, PlainCall(a), PlainCall(b) PROVE Plain(<<a, b>>)
  <2>1. Plain(<<b>>)
    BY <1>1, <1>2
  <2>2. Plain(Push(a, <<b>>))
    BY <1>2, <2>1, PlainRight
  <2>. QED  BY <2>2, TupleOfTwo DEF Push
<1>3. ASSUME NEW a, NEW b, NEW c, PlainCall(a), PlainCall(b), PlainCall(c) PROVE Plain(<<a, b, c>>)
  <2>1. Plain(<<a, b>>) /\ Plain(<<c>>)
    BY <1>1, <1>2, <1>3
  <2>2. <<a, b, c>> = <<a, b>> \o <<c>>
    OBVIOUS
  <2>. QED  BY <2>1, <2>2, PlainRight
<1>4. ASSUME NEW a, NEW b, NEW c, NEW d, PlainCall(a), PlainCall(b), PlainCall(c), PlainCall(d)
      PROVE  Plain(<<a, b, c, d>>)
  <2>1. Plain(<<a, b>>) /\ Plain(<<c, d>>)
    BY <1>2, <1>4
  <2>2. <<a, b, c, d>> = <<a, b>> \o <<c, d>>
    OBVIOUS
  <2>. QED  BY <2>1, <2>2, PlainRight
<1>5. ASSUME NEW a, NEW b, NEW c, NEW d, NEW e,
             PlainCall(a), PlainCall(b), PlainCall(c), PlainCall(d), PlainCall(e)
      PROVE  Plain(<<a, b, c, d, e>>)
  <2>1. Plain(<<a, b, c>>) /\ Plain(<<d, e>>)
    BY <1>2, <1>3, <1>5
  <2>2. <<a, b, c, d, e>> = <<a, b, c>> \o <<d, e>>
    OBVIOUS
  <2>. QED  BY <2>1, <2>2, PlainRight
<1>6. ASSUME NEW a, NEW b, NEW c, NEW d, NEW e, NEW f,
             PlainCall(a), PlainCall(b), PlainCall(c), PlainCall(d), PlainCall(e), PlainCall(f)
      PROVE  Plain(<<a, b, c, d, e, f>>)
  <2>1. Plain(<<a, b, c>>) /\ Plain(<<d, e, f>>)
    BY <1>3, <1>6
  <2>2. <<a, b, c, d, e, f>> = <<a, b, c>> \o <<d, e, f>>
    OBVIOUS
  <2>. QED  BY <2>1, <2>2, PlainRight
<1>. QED  BY <1>1, <1>2, <1>3, <1>4, <1>5, <1>6, Zenon

LEMMA PlainNamed ==
  /\ \A f \in PlainNames : PlainCall(Do(f))
  /\ \A b : PlainCall(<<"qblock_quant", b>>)
  /\ \A x, y : /\ PlainCall(Char(x)) /\ PlainCall(Letters(x)) /\ PlainCall(CallBack(x))
               /\ PlainCall(Report(x, y))
BY DEF PlainCall, PlainNames, Moving, Marking, Do, Char, Letters, CallBack, Report

LEMMA PlainStrings ==
  /\ \A x : Plain(CharToken(x)) /\ Plain(MatchString(x))
  /\ \A b : Plain(NextBlock(b))
  /\ \A a, x : PlainCall(a) => Plain(Block(a, x))
  /\ Plain(VarList) /\ Plain(OutputStmt) /\ Plain(GateStmt)
<1>0. \A f \in {"skip", "qblock_quant", "var_list", "vars", "lit", "nltoken", "var", "gate_type"} :
        PlainCall(Do(f))
  BY PlainNamed DEF PlainNames, Moving, Marking
<1>1. \A x : Plain(CharToken(x)) /\ Plain(MatchString(x))
  BY <1>0, PlainNamed, PlainTuples DEF CharToken, MatchString
<1>2. \A b : Plain(NextBlock(b))
  BY <1>0, PlainNamed, PlainTuples DEF NextBlock
<1>3. \A a, x : PlainCall(a) => Plain(Block(a, x))
  <2>. SUFFICES ASSUME NEW a, NEW x, PlainCall(a) PROVE Plain(Block(a, x))
    OBVIOUS
  <2>1. Plain(<<Do("skip"), a, Report("quant", x), Do("var_list"), CallBack("quant_closed")>>)
    BY <1>0, PlainNamed, PlainTuples
  <2>. QED  BY <1>2, <2>1, PlainRight DEF Block
<1>4. Plain(VarList)
  BY <1>0, <1>1, PlainTuples, PlainRight DEF VarList
<1>5. Plain(OutputStmt)
  BY <1>0, <1>1, PlainNamed, PlainTuples, PlainRight DEF OutputStmt
<1>6. Plain(GateStmt)
  BY <1>0, <1>1, PlainNamed, PlainTuples, PlainRight DEF GateStmt
<1>. QED  BY <1>1, <1>2, <1>3, <1>4, <1>5, <1>6

(* What a plain call does is plain, but for the nlchar it calls at the end *)
(* of a line.                                                              *)
LEMMA CallsPlain ==
  ASSUME NEW f \in (PlainNames \ (Moving \cup Marking)) \cup {"nlchar"}, NEW x, NEW c,
         f = "nlchar" => c \in NewLine, nls \in Nat
  PROVE  PlainAt(Calls(f, x, c), c)
<1>0. /\ \A g \in PlainNames : PlainCall(Do(g))
      /\ {"qblock_quant", "free_or_forall", "var_list", "vars", "comma", "output_stmt", "gates",
          "gate_stmt", "gate_type", "args", "optional_comma", "lit", "var", "var_chars", "skipping",
          "comment", "nltoken", "nltoken_end", "after_cr", "next_char", "skip", "err", "var_char",
          "var_start", "line_read", "line_skipped", "sign"} \subseteq PlainNames
  BY PlainNamed DEF PlainNames, Moving, Marking
<1>n. ASSUME c \in NewLine, NEW t, Plain(t) PROVE PlainAt(Push(Do("nlchar"), t), c)
  BY <1>n DEF PlainAt
<1>t. \A t : Plain(t) => PlainAt(t, c)
  BY DEF PlainAt
<1>e. Plain(<<>>)
  BY PlainRight
<1>1. CASE f = "qblock_quant"
  <2>1. Plain(Block(Letters(Word.exists), "exists")) /\ Plain(Block(Letters(Word.forall), "forall"))
    BY PlainNamed, PlainStrings
  <2>2. Plain(<<Do("next_char"), Do("free_or_forall")>>)
    BY <1>0, PlainTuples
  <2>3. Plain(QBlockQuant(c, x))
    BY <1>e, <2>1, <2>2 DEF QBlockQuant
  <2>. QED  BY <1>1, <1>t, <2>3, CallsEqs
<1>2. CASE f = "free_or_forall"
  <2>1. \A a, q : Plain(Block(Letters(a), q))
    BY PlainNamed, PlainStrings
  <2>2. Plain(FreeOrForall(c))
    BY <2>1 DEF FreeOrForall
  <2>. QED  BY <1>2, <1>t, <2>2, CallsEqs
<1>3. CASE f \in {"var_list", "output_stmt", "gate_stmt"}
  BY <1>3, <1>t, PlainStrings, CallsEqs
<1>4. CASE f = "vars"
  <2>1. Plain(CharToken(")") \o <<Do("nltoken")>>)
    BY <1>0, PlainStrings, PlainTuples, PlainRight
  <2>2. Plain(<<Do("var"), CallBack("var"), Do("skip"), Do("comma"), Do("skip"), Do("vars")>>)
    BY <1>0, PlainNamed, PlainTuples
  <2>3. Plain(Vars(c))
    BY <2>1, <2>2 DEF Vars
  <2>. QED  BY <1>4, <1>t, <2>3, CallsEqs
<1>5. CASE f = "comma"
  <2>1. Plain(Comma(c))
    BY <1>e, PlainStrings DEF Comma
  <2>. QED  BY <1>5, <1>t, <2>1, CallsEqs
<1>6. CASE f = "gates"
  <2>1. Plain(<<CallBack("file_closed")>>)
    BY PlainNamed, PlainTuples
  <2>2. Plain(<<Do("gate_stmt"), Do("nltoken"), Do("skip"), Do("gates")>>)
    BY <1>0, PlainTuples
  <2>3. Plain(Gates(c))
    BY <2>1, <2>2 DEF Gates
  <2>. QED  BY <1>6, <1>t, <2>3, CallsEqs
<1>7. CASE f = "gate_type"
  <2>1. Plain(<<Do("err")>>)
    BY <1>0, PlainTuples
  <2>2. \A g : Plain(MatchString(g) \o <<Report("type", g)>> \o CharToken("(") \o <<Do("args")>>)
    <3>1. \A g : Plain(<<Report("type", g)>>) /\ Plain(<<Do("args")>>)
      BY <1>0, PlainNamed, PlainTuples
    <3>. QED  BY <3>1, PlainStrings, PlainRight
  <2>3. Plain(GateType(c))
    BY <2>1, <2>2 DEF GateType
  <2>. QED  BY <1>7, <1>t, <2>3, CallsEqs
<1>8. CASE f = "args"
  <2>1. Plain(CharToken(")") \o <<CallBack("gate_closed")>>)
    BY PlainNamed, PlainStrings, PlainTuples, PlainRight
  <2>2. Plain(<<Do("lit"), CallBack("arg"), Do("skip"), Do("optional_comma"), Do("args")>>)
    BY <1>0, PlainNamed, PlainTuples
  <2>3. Plain(Args(c))
    BY <2>1, <2>2 DEF Args
  <2>. QED  BY <1>8, <1>t, <2>3, CallsEqs
<1>9. CASE f = "optional_comma"
  <2>1. Plain(CharToken(",") \o <<Do("skip")>>)
    BY <1>0, PlainStrings, PlainTuples, PlainRight
  <2>2. Plain(OptionalComma(c))
    BY <1>e, <2>1 DEF OptionalComma
  <2>. QED  BY <1>9, <1>t, <2>2, CallsEqs
<1>10. CASE f \in {"lit", "var", "nltoken"}
  <2>1. /\ Plain(<<Do("skip"), Do("sign"), Do("var")>>)
        /\ Plain(<<Do("skip"), Do("var_start")>>)
        /\ Plain(<<Do("skip"), Do("nltoken_end")>>)
    BY <1>0, PlainTuples
  <2>. QED  BY <1>10, <1>t, <2>1, CallsEqs
<1>11. CASE f = "var_chars"
  <2>1. Plain(<<Do("var_char"), Do("var_chars")>>)
    BY <1>0, PlainTuples
  <2>2. Plain(VarChars(c))
    BY <1>e, <2>1 DEF VarChars
  <2>. QED  BY <1>11, <1>t, <2>2, CallsEqs
<1>12. CASE f = "skipping"
  <2>1. Plain(<<Do("next_char"), Do("skipping")>>) /\ Plain(<<Do("next_char"), Do("comment")>>)
    BY <1>0, PlainTuples
  <2>2. Plain(Skipping(c))
    BY <1>e, <2>1 DEF Skipping
  <2>. QED  BY <1>12, <1>t, <2>2, CallsEqs
<1>13. CASE f = "comment"
  <2>1. Plain(<<Do("next_char"), Do("comment")>>)
    BY <1>0, PlainTuples
  <2>2. CASE c = EOF
    <3>1. Comment(c) = <<>>
      BY <2>2, CharactersAssumption DEF Comment, NewLine, Characters
    <3>. QED  BY <1>13, <1>t, <1>e, <3>1, CallsEqs
  <2>3. CASE c \in NewLine
    <3>1. Comment(c) = <<Do("nlchar"), Do("line_skipped"), Do("skipping")>>
      <4>1. c # EOF
        BY <2>3, CharactersAssumption DEF Characters
      <4>. QED  BY <2>3, <4>1 DEF Comment
    <3>2. Plain(<<Do("line_skipped"), Do("skipping")>>)
      BY <1>0, PlainTuples
    <3>3. Comment(c) = Push(Do("nlchar"), <<Do("line_skipped"), Do("skipping")>>)
      <4> DEFINE n == Do("nlchar")
                 l == Do("line_skipped")
                 s == Do("skipping")
      <4>. HIDE DEF n, l, s
      <4>1. <<n, l, s>> = Push(n, Push(l, Push(s, <<>>)))
        BY PushRight
      <4>2. <<l, s>> = Push(l, Push(s, <<>>))
        BY PushRight
      <4>. QED  BY <3>1, <4>1, <4>2 DEF n, l, s
    <3>4. PlainAt(Comment(c), c)
      BY <1>n, <2>3, <3>2, <3>3
    <3>. QED  BY <1>13, <3>4, CallsEqs
  <2>4. CASE c \notin NewLine \cup {EOF}
    <3>1. Plain(Comment(c))
      BY <2>1, <2>4 DEF Comment
    <3>. QED  BY <1>13, <1>t, <3>1, CallsEqs
  <2>. QED  BY <2>2, <2>3, <2>4
<1>14. CASE f = "nltoken_end"
  <2>1. CASE nls = 0 /\ c \in NewLine
    <3>1. NlTokenEnd(c) = <<Do("nlchar")>>
      <4>1. c # EOF
        BY <2>1, CharactersAssumption DEF Characters
      <4>. QED  BY <2>1, <4>1 DEF NlTokenEnd
    <3>2. PlainAt(Push(Do("nlchar"), <<>>), c)
      BY <1>n, <1>e, <2>1
    <3>3. NlTokenEnd(c) = Push(Do("nlchar"), <<>>)
      BY <3>1, PushRight
    <3>. QED  BY <1>14, <3>2, <3>3, CallsEqs
  <2>2. CASE ~ (nls = 0 /\ c \in NewLine)
    <3>1. Plain(<<Do("err")>>)
      BY <1>0, PlainTuples
    <3>2. NlTokenEnd(c) \in {<<>>, <<Do("err")>>}
      BY <2>2 DEF NlTokenEnd
    <3>3. Plain(NlTokenEnd(c))
      BY <1>e, <3>1, <3>2
    <3>. QED  BY <1>14, <1>t, <3>3, CallsEqs
  <2>. QED  BY <2>1, <2>2
<1>15. CASE f = "nlchar"
  <2>1. /\ Plain(<<Do("next_char"), Do("line_read")>>)
        /\ Plain(<<Do("next_char"), Do("after_cr"), Do("line_read")>>)
    BY <1>0, PlainTuples
  <2>2. Plain(NlChar(c))
    BY <1>15, <2>1 DEF NlChar, NewLine
  <2>. QED  BY <1>15, <1>t, <2>2, CallsEqs
<1>16. CASE f = "after_cr"
  <2>1. Plain(AfterCr(c))
    BY <1>0, <1>e, PlainTuples DEF AfterCr
  <2>. QED  BY <1>16, <1>t, <2>1, CallsEqs
<1>. QED
  BY <1>1, <1>2, <1>3, <1>4, <1>5, <1>6, <1>7, <1>8, <1>9, <1>10, <1>11, <1>12, <1>13, <1>14, <1>15,
     <1>16 DEF PlainNames

(* A step leaves the calls as they are, or replaces the first of them, a.  *)
Still == UNCHANGED <<todo, d_ln, calls>> /\ UNCHANGED buffer_vars /\ status' \in {status, "error"}
ArgumentOf(a) == IF Len(a) > 1 THEN a[2] ELSE ""
Replaced(a, t) ==
    /\ a[1] # "cb" => calls' = calls /\ status' = status
    /\ a[1] \notin Moving => UNCHANGED buffer_vars
    /\ d_ln' = IF a[1] = "line_read" THEN d_ln + 1 ELSE d_ln
    /\ \/ a[1] \notin Moving \cup Marking /\ todo' = Calls(a[1], ArgumentOf(a), Current) \o t
       \/ /\ a[1] = "match_letters" /\ Lower(Current) = Head(ArgumentOf(a))
          /\ todo' = (IF Len(ArgumentOf(a)) > 1 THEN <<Letters(Tail(ArgumentOf(a)))>> ELSE <<>>) \o t
       \/ a[1] = "skip" /\ todo' = <<Do("skipping")>> \o t
       \/ a[1] = "var_start" /\ todo' = <<Do("var_chars")>> \o t
       \/ /\ a[1] \in {"match_char", "next_char", "sign", "var_char", "line_skipped", "line_read", "cb"}
          /\ todo' = <<>> \o t

LEMMA Replaces ==
  ASSUME [Next]_vars
  PROVE  Still \/ (todo # <<>> /\ Replaced(Head(todo), Tail(todo)))
<1> DEFINE a == Head(todo)
<1>0. Argument = ArgumentOf(a)
  BY DEF Argument, ArgumentOf
<1>1. Error => Still
  BY DEF Error, Still
<1>2. CASE Call
  BY <1>0, <1>2 DEF Call, Then, Replaced, Moving, Marking
<1>3. CASE MatchChar
  BY <1>1, <1>3 DEF MatchChar, Running, Then, Replaced, Moving
<1>4. CASE MatchLetters
  BY <1>0, <1>1, <1>4 DEF MatchLetters, Running, Then, Replaced, Moving
<1>5. CASE NextChar
  BY <1>5 DEF NextChar, Running, Then, Replaced, Moving
<1>6. CASE Sign
  BY <1>6 DEF Sign, Running, Then, Replaced, Moving
<1>7. CASE VarStart
  BY <1>1, <1>7 DEF VarStart, Running, Then, Replaced
<1>8. CASE VarChar
  BY <1>8 DEF VarChar, Running, Then, Replaced, Moving
<1>9. CASE Skip
  BY <1>9 DEF Skip, Running, Then, Replaced
<1>10. CASE LineSkipped
  BY <1>10 DEF LineSkipped, Running, Then, Replaced
<1>11. CASE LineRead
  BY <1>11 DEF LineRead, Running, Then, Replaced
<1>12. CASE Callback
  BY <1>12 DEF Callback, Running, Then, Replaced
<1>13. CASE Err
  BY <1>1, <1>13 DEF Err
<1>14. CASE Finished \/ UNCHANGED vars
  BY <1>14 DEF Finished, vars, lexer_vars, Still
<1>. QED
  BY <1>2, <1>3, <1>4, <1>5, <1>6, <1>7, <1>8, <1>9, <1>10, <1>11, <1>12, <1>13, <1>14 DEF Next

LEMMA Moved ==
  ASSUME [Next]_vars, NEW a, NEW t, Stack(t), todo = Push(a, t)
  PROVE  Still \/ Replaced(a, t)
<1>1. Head(todo) = a /\ Tail(todo) = t
  BY PushRight
<1>. QED  BY <1>1, Replaces

LEMMA PlainMoves ==
  ASSUME [Next]_vars, PlainAt(todo, Current), nls \in Nat
  PROVE  PlainAt(todo, Current)'
<1>0. ASSUME Plain(todo)' PROVE PlainAt(todo, Current)'
  BY <1>0 DEF PlainAt
<1>1. CASE Still
  <2>1. todo' = todo /\ Current' = Current
    BY <1>1, SameText DEF Still
  <2>. QED  BY <2>1 DEF PlainAt, Plain, Stack
<1>2. CASE ~ Still
  <2> DEFINE a == Head(todo)
             t == Tail(todo)
  <2>1. Replaced(a, t)
    BY <1>2, Replaces
  <2>2. /\ Plain(t)
        /\ a[1] \in PlainNames \/ (a = Do("nlchar") /\ Current \in NewLine)
    <3>1. todo # <<>>
      BY <1>2, Replaces
    <3>2. CASE Plain(todo)
      BY <3>1, <3>2, PlainRight DEF PlainCall
    <3>3. CASE ~ Plain(todo)
      <4>1. PICK u : Plain(u) /\ todo = Push(Do("nlchar"), u) /\ Current \in NewLine
        BY <3>3 DEF PlainAt
      <4>2. Stack(u)
        BY <4>1 DEF Plain
      <4>3. a = Do("nlchar") /\ t = u
        <5>. HIDE DEF Plain
        <5>1. Head(Push(Do("nlchar"), u)) = Do("nlchar") /\ Tail(Push(Do("nlchar"), u)) = u
          BY <4>2, PushRight
        <5>. QED  BY <4>1, <5>1
      <4>. QED  BY <4>1, <4>3
    <3>. QED  BY <3>2, <3>3
  <2>. HIDE DEF a, t
  <2>4. CASE a[1] \notin Moving \cup Marking
    <3> DEFINE s == Calls(a[1], ArgumentOf(a), Current)
    <3>1. todo' = s \o t /\ UNCHANGED buffer_vars
      BY <2>1, <2>4 DEF Replaced, Moving, Marking
    <3>2. Current' = Current
      BY <3>1, SameText
    <3>3. PlainAt(s, Current)
      <4>1. Do("nlchar")[1] = "nlchar"
        BY DEF Do
      <4>2. a[1] \in (PlainNames \ (Moving \cup Marking)) \cup {"nlchar"}
        BY <2>2, <2>4, <4>1
      <4>3. a[1] = "nlchar" => Current \in NewLine
        BY <2>2 DEF PlainNames, Moving, Marking
      <4>. QED  BY <4>2, <4>3, CallsPlain
    <3>. HIDE DEF s
    <3>4. CASE Plain(s)
      BY <1>0, <2>2, <3>1, <3>4, PlainRight
    <3>5. CASE ~ Plain(s)
      <4>1. PICK u : Plain(u) /\ s = Push(Do("nlchar"), u) /\ Current \in NewLine
        BY <3>3, <3>5 DEF PlainAt
      <4>2. s \o t = Push(Do("nlchar"), u \o t) /\ Plain(u \o t)
        <5>1. Stack(u) /\ Stack(t)
          BY <2>2, <4>1 DEF Plain
        <5>2. Push(Do("nlchar"), u) \o t = Push(Do("nlchar"), u \o t)
          BY <5>1, PushRight
        <5>3. Plain(u \o t)
          BY <2>2, <4>1, PlainRight
        <5>. QED  BY <4>1, <5>2, <5>3
      <4>. QED  BY <3>1, <3>2, <4>1, <4>2 DEF PlainAt
    <3>. QED  BY <3>4, <3>5
  <2>5. CASE a[1] \in Moving \cup Marking
    <3>1. PICK s : Plain(s) /\ todo' = s \o t
      <4>1. PlainCall(Do("skipping")) /\ PlainCall(Do("var_chars")) /\ \A w : PlainCall(Letters(w))
        BY PlainNamed DEF PlainNames
      <4>2. Plain(<<Do("skipping")>>) /\ Plain(<<Do("var_chars")>>) /\ Plain(<<>>)
            /\ \A w : Plain(<<Letters(w)>>)
        BY <4>1, PlainTuples, PlainRight
      <4>. QED  BY <2>1, <2>5, <4>2 DEF Replaced
    <3>2. Plain(s \o t)
      BY <2>2, <3>1, PlainRight
    <3>. QED  BY <1>0, <3>1, <3>2
  <2>. QED  BY <2>4, <2>5
<1>. QED  BY <1>1, <1>2

LEMMA PushOn ==
  ASSUME NEW a, NEW t, NEW u, Stack(t), Stack(u)
  PROVE  Push(a, t) \o u = Push(a, t \o u) /\ Stack(Push(a, t)) /\ Stack(t \o u)
<1>1. Stack(<<a>>) /\ Stack(t \o u)
  BY StackRight
<1>2. (<<a>> \o t) \o u = <<a>> \o (t \o u) /\ Stack(<<a>> \o t)
  BY <1>1, StackRight
<1>. QED  BY <1>1, <1>2 DEF Push

LEMMA Stacked ==
  ASSUME NEW t, Stack(t)
  PROVE  /\ <<>> \o t = t
         /\ \A a : <<a>> \o t = Push(a, t) /\ Stack(Push(a, t))
         /\ \A a, b : <<a, b>> \o t = Push(a, Push(b, t))
         /\ \A a, b, c : <<a, b, c>> \o t = Push(a, Push(b, Push(c, t)))
         /\ \A a, b, c, d : <<a, b, c, d>> \o t = Push(a, Push(b, Push(c, Push(d, t))))
<1> DEFINE e == <<>>
           j == e \o t
<1>0. j = t
  BY StackRight
<1>e. Stack(e)
  BY StackRight
<1>5. /\ \A a, b : <<a, b>> = Push(a, Push(b, e))
      /\ \A a, b, c : <<a, b, c>> = Push(a, Push(b, Push(c, e)))
      /\ \A a, b, c, d : <<a, b, c, d>> = Push(a, Push(b, Push(c, Push(d, e))))
  BY PushRight, Zenon
<1>. HIDE DEF e
<1>1. ASSUME NEW a PROVE Push(a, e) \o t = Push(a, t) /\ Stack(Push(a, e))
  <2>1. Push(a, e) \o t = Push(a, j) /\ Stack(Push(a, e))
    BY <1>e, PushOn
  <2>. HIDE DEF j
  <2>. QED  BY <1>0, <2>1
<1>2. ASSUME NEW a, NEW b
      PROVE  Push(a, Push(b, e)) \o t = Push(a, Push(b, t)) /\ Stack(Push(a, Push(b, e)))
  <2>0. Stack(Push(b, e))
    BY <1>1
  <2>1. Push(b, e) \o t = Push(b, t)
    BY <1>1
  <2>2. Push(a, Push(b, e)) \o t = Push(a, Push(b, e) \o t) /\ Stack(Push(a, Push(b, e)))
    BY <2>0, PushOn
  <2>. QED  BY <2>1, <2>2
<1>3. ASSUME NEW a, NEW b, NEW c
      PROVE  /\ Push(a, Push(b, Push(c, e))) \o t = Push(a, Push(b, Push(c, t)))
             /\ Stack(Push(a, Push(b, Push(c, e))))
  <2>0. Stack(Push(b, Push(c, e)))
    BY <1>2
  <2>1. Push(b, Push(c, e)) \o t = Push(b, Push(c, t))
    BY <1>2
  <2>2. /\ Push(a, Push(b, Push(c, e))) \o t = Push(a, Push(b, Push(c, e)) \o t)
        /\ Stack(Push(a, Push(b, Push(c, e))))
    BY <2>0, PushOn
  <2>. QED  BY <2>1, <2>2
<1>4. ASSUME NEW a, NEW b, NEW c, NEW d
      PROVE  Push(a, Push(b, Push(c, Push(d, e)))) \o t = Push(a, Push(b, Push(c, Push(d, t))))
  <2>0. Stack(Push(b, Push(c, Push(d, e))))
    BY <1>3
  <2>1. Push(b, Push(c, Push(d, e))) \o t = Push(b, Push(c, Push(d, t)))
    BY <1>3
  <2>2. Push(a, Push(b, Push(c, Push(d, e)))) \o t = Push(a, Push(b, Push(c, Push(d, e))) \o t)
    BY <2>0, PushOn
  <2>. QED  BY <2>1, <2>2
<1>6. ASSUME NEW a PROVE <<a>> \o t = Push(a, t) /\ Stack(Push(a, t))
  BY PushOn DEF Push
<1>7. ASSUME NEW a, NEW b PROVE <<a, b>> \o t = Push(a, Push(b, t))
  <2>1. <<a, b>> = Push(a, Push(b, e))
    BY <1>5
  <2>. QED  BY <1>2, <2>1
<1>8. ASSUME NEW a, NEW b, NEW c PROVE <<a, b, c>> \o t = Push(a, Push(b, Push(c, t)))
  <2>1. <<a, b, c>> = Push(a, Push(b, Push(c, e)))
    BY <1>5
  <2>. QED  BY <1>3, <2>1
<1>9. ASSUME NEW a, NEW b, NEW c, NEW d
      PROVE  <<a, b, c, d>> \o t = Push(a, Push(b, Push(c, Push(d, t))))
  <2>1. <<a, b, c, d>> = Push(a, Push(b, Push(c, Push(d, e))))
    BY <1>5
  <2>. QED  BY <1>4, <2>1
<1>. QED  BY <1>0, <1>6, <1>7, <1>8, <1>9, Zenon DEF e

LEMMA StacksRight ==
  /\ Stack(AfterBlocks) /\ Stack(Blocks) /\ Stack(Body) /\ Stack(Number)
  /\ \A t \in AfterLine : Stack(t)
  /\ Plain(Body)
  /\ NextBlock(TRUE) \o AfterBlocks = Body
<1>1. Plain(AfterBlocks) /\ PlainCall(Do("skip")) /\ PlainCall(<<"qblock_quant", TRUE>>)
  <2>1. PlainCall(Do("output_stmt")) /\ PlainCall(Do("skip")) /\ PlainCall(Do("gates"))
    BY PlainNamed DEF PlainNames, Marking
  <2>. QED  BY <2>1, PlainNamed, PlainTuples DEF AfterBlocks
<1>2. Plain(Blocks) /\ Plain(Body)
  BY <1>1, PlainRight DEF Blocks, Body
<1>3. Stack(AfterBlocks) /\ Stack(Blocks) /\ Stack(Body)
  BY <1>1, <1>2 DEF Plain
<1>4. Stack(Number) /\ \A t \in AfterLine : Stack(t)
  BY <1>3, PushRight DEF Number, AfterLine
<1>5. NextBlock(TRUE) \o AfterBlocks = Body
  <2> DEFINE s == Do("skip")
             q == <<"qblock_quant", TRUE>>
  <2>. HIDE DEF s, q
  <2>1. <<s, q>> \o AfterBlocks = Push(s, Push(q, AfterBlocks))
    <3>1. \A u : Stack(u) => \A a, b : <<a, b>> \o u = Push(a, Push(b, u))
      BY Stacked
    <3>. QED  BY <1>3, <3>1
  <2>. QED  BY <2>1 DEF NextBlock, Body, Blocks, s, q
<1>. QED  BY <1>2, <1>3, <1>4, <1>5

LEMMA Takes ==
  ASSUME [Next]_vars, NEW f, f \notin Moving \cup Marking, NEW t, Stack(t), todo = Push(Do(f), t)
  PROVE  \/ Still
         \/ /\ UNCHANGED buffer_vars /\ UNCHANGED <<calls, status, d_ln>>
            /\ \E x : todo' = Calls(f, x, Current) \o t
<1>1. Do(f)[1] = f
  BY DEF Do
<1> DEFINE a == Do(f)
<1>2. Still \/ Replaced(a, t)
  BY Moved
<1>. HIDE DEF a
<1>3. a[1] = f
  BY <1>1 DEF a
<1>4. CASE Replaced(a, t)
  <2>1. f # "cb" /\ f # "line_read" /\ f # "match_letters" /\ f # "skip" /\ f # "var_start"
        /\ f \notin {"match_char", "next_char", "sign", "var_char", "line_skipped", "line_read", "cb"}
    BY DEF Moving, Marking
  <2>. QED  BY <1>3, <1>4, <2>1 DEF Replaced
<1>. QED  BY <1>2, <1>4

LEMMA Drops ==
  ASSUME [Next]_vars, NEW a, a[1] \in {"match_char", "next_char", "line_read"},
         NEW t, Stack(t), todo = Push(a, t)
  PROVE  \/ Still
         \/ /\ UNCHANGED <<calls, status>> /\ todo' = t
            /\ a[1] = "line_read" => UNCHANGED buffer_vars /\ d_ln' = d_ln + 1
<1>1. Still \/ Replaced(a, t)
  BY Moved
<1>2. <<>> \o t = t
  BY Stacked
<1>. QED  BY <1>1, <1>2 DEF Replaced, Moving, Marking

LEMMA Spells ==
  ASSUME [Next]_vars, NEW w, NEW t, Stack(t), todo = Push(Letters(w), t)
  PROVE  \/ Still
         \/ /\ UNCHANGED <<calls, status>> /\ Lower(Current) = Head(w)
            /\ todo' = IF Len(w) > 1 THEN Push(Letters(Tail(w)), t) ELSE t
<1>0. Letters(w)[1] = "match_letters" /\ ArgumentOf(Letters(w)) = w
  BY DEF Letters, ArgumentOf
<1> DEFINE a == Letters(w)
<1>1. Still \/ Replaced(a, t)
  BY Moved
<1>2. <<>> \o t = t /\ \A b : <<b>> \o t = Push(b, t)
  BY Stacked
<1>. HIDE DEF a
<1>3. a[1] = "match_letters" /\ ArgumentOf(a) = w
  BY <1>0 DEF a
<1>. QED  BY <1>1, <1>2, <1>3 DEF Replaced, Moving, Marking

LEMMA SkipLineInComment ==
  ASSUME LexerInv, todo # <<>>, Head(todo) = Do("skip_line")
  PROVE  Commented(file, Passed)
<1>1. PICK p, r : Meaning(p) /\ Ok(Do("skip_line"), p, r)
  BY Course DEF LexerInv
<1>2. \A f : Do(f)[1] = f /\ \A g : Do(f) = Do(g) => f = g
  BY DEF Do
<1>3. ~ NextCharOk(Do("skip_line"), p, r) /\ ~ MatchOk(Do("skip_line"), p, r)
      /\ ~ CallbackOk(Do("skip_line"), p, r)
  BY <1>2, NextCharHead, MatchHead, CallbackHead
<1>4. ~ NameOk(Do("skip_line"), p, r) /\ ~ SpaceOk(Do("skip_line"), p, r)
  BY <1>2 DEF NameOk, SpaceOk
<1>5. Remark(p)
  <2>1. FunctionOk(Do("skip_line"), p, r)
    BY <1>1, <1>3, <1>4 DEF Ok
  <2>2. \A b : Do("skip_line") # <<"qblock_quant", b>>
    BY <1>2
  <2>. QED  BY <1>2, <2>1, <2>2 DEF FunctionOk
<1>. QED  BY <1>1, <1>5 DEF Meaning, Remark, CommentHolds

LEMMA HeaderStill ==
  ASSUME InHeader, Still
  PROVE  InHeader'
<1>1. file' = file /\ Passed' = Passed /\ Current' = Current /\ todo' = todo /\ calls' = calls
  BY SameText DEF Still, buffer_vars
<1>. QED  BY <1>1 DEF InHeader, Commented

LEMMA HeaderNext ==
  ASSUME calls = <<>>, calls' = calls, NEW a, NEW t, Stack(t), todo' = Push(a, t),
         a # Do("nlchar"),
         Push(a, t) \in HeaderStacks \/ \E u \in AfterLine : Push(a, t) \in LineStacks(u)
  PROVE  HeaderInv'
<1>1. Head(Push(a, t)) = a
  BY PushRight
<1>2. Head(todo') # Do("nlchar")
  BY <1>1
<1>. QED  BY <1>2 DEF HeaderInv, InHeader

LEMMA LineStacksMove ==
  ASSUME LexerInv, InHeader, [Next]_vars, ~ Overcounts,
         NEW t \in AfterLine, todo \in LineStacks(t)
  PROVE  HeaderInv'
<1> DEFINE nl == Do("nlchar")
           nc == Do("next_char")
           lr == Do("line_read")
           acr == Do("after_cr")
           sl == Do("skip_line")
           er == Do("err")
<1>0. calls = <<>>
  BY DEF InHeader
<1>1. Stack(t)
  BY StacksRight
<1>2. \A a, s : Stack(s) => Stack(Push(a, s))
  BY PushRight
<1>3. \A f : Do(f)[1] = f /\ \A g : Do(f) = Do(g) => f = g
  BY DEF Do
<1>4. CASE Still
  BY <1>4, HeaderStill DEF HeaderInv
<1>5. ASSUME NEW a, NEW s, Stack(s), a # nl, todo' = Push(a, s), Push(a, s) \in LineStacks(t), calls' = calls
      PROVE  HeaderInv'
  BY <1>0, <1>5, HeaderNext
<1>6. CASE ~ Still /\ todo = Push(nl, t)
  <2>1. PICK x : UNCHANGED buffer_vars /\ calls' = calls /\ todo' = Calls("nlchar", x, Current) \o t
    BY <1>1, <1>6, Takes DEF Moving, Marking
  <2>2. todo' = NlChar(Current) \o t
    BY <2>1, CallsEqs
  <2>3. CASE Current = "LF"
    <3>1. NlChar(Current) = <<nc, lr>>
      BY <2>3 DEF NlChar, NewLine
    <3>2. todo' = Push(nc, Push(lr, t))
      BY <1>1, <2>2, <3>1, Stacked
    <3>. QED  BY <1>1, <1>2, <1>3, <1>5, <2>1, <3>2 DEF LineStacks, LineEnd
  <2>4. CASE Current = "CR"
    <3>1. NlChar(Current) = <<nc, acr, lr>>
      BY <2>4 DEF NlChar, NewLine
    <3>2. todo' = Push(nc, Push(acr, Push(lr, t)))
      BY <1>1, <2>2, <3>1, Stacked
    <3>. QED  BY <1>1, <1>2, <1>3, <1>5, <2>1, <3>2 DEF LineStacks, LineEnd
  <2>5. CASE Current \notin NewLine
    <3>1. Head(todo) = nl
      BY <1>1, <1>6, PushRight
    <3>2. NlChar(Current) = <<er>>
      BY <2>5, <3>1 DEF NlChar, NewLine, Overcounts
    <3>3. todo' = Push(er, t)
      BY <1>1, <2>2, <3>2, Stacked
    <3>. QED  BY <1>1, <1>2, <1>3, <1>5, <2>1, <3>3 DEF LineStacks
  <2>. QED  BY <2>3, <2>4, <2>5 DEF NewLine
<1>7. CASE ~ Still /\ todo = Push(nc, Push(lr, t))
  <2>1. todo' = Push(lr, t) /\ calls' = calls
    BY <1>1, <1>2, <1>3, <1>7, Drops
  <2>. QED  BY <1>1, <1>3, <1>5, <2>1 DEF LineStacks, LineEnd
<1>8. CASE ~ Still /\ todo = Push(nc, Push(acr, Push(lr, t)))
  <2>1. todo' = Push(acr, Push(lr, t)) /\ calls' = calls
    BY <1>1, <1>2, <1>3, <1>8, Drops
  <2>. QED  BY <1>1, <1>2, <1>3, <1>5, <2>1 DEF LineStacks, LineEnd
<1>9. CASE ~ Still /\ todo = Push(acr, Push(lr, t))
  <2> DEFINE s == Push(lr, t)
  <2>0. Stack(s) /\ todo = Push(acr, s)
    BY <1>1, <1>2, <1>9
  <2>. HIDE DEF s
  <2>1. PICK x : calls' = calls /\ todo' = Calls("after_cr", x, Current) \o s
    BY <1>9, <2>0, Takes DEF Moving, Marking
  <2>2. todo' = AfterCr(Current) \o s
    BY <2>1, CallsEqs
  <2>3. todo' \in {Push(nc, s), s}
    BY <2>0, <2>2, Stacked DEF AfterCr
  <2>. QED  BY <1>1, <1>2, <1>3, <1>5, <2>1, <2>3 DEF LineStacks, LineEnd, s
<1>10. CASE ~ Still /\ todo = Push(lr, t)
  <2>1. todo' = t /\ calls' = calls
    BY <1>1, <1>3, <1>10, Drops
  <2>2. CASE t = Body
    <3>1. Plain(todo')
      BY <2>1, <2>2, StacksRight
    <3>. QED  BY <3>1 DEF HeaderInv, PlainAt
  <2>3. CASE t = Push(Do("format_id"), Body)
    BY <1>0, <1>3, <2>1, <2>3, StacksRight, HeaderNext DEF HeaderStacks
  <2>. QED  BY <2>2, <2>3 DEF AfterLine
<1>11. CASE ~ Still /\ todo = Push(sl, t)
  <2>1. PICK x : UNCHANGED buffer_vars /\ calls' = calls /\ todo' = Calls("skip_line", x, Current) \o t
    BY <1>1, <1>11, Takes DEF Moving, Marking
  <2>2. todo' = SkipLine(Current) \o t
    BY <2>1, CallsEqs
  <2>3. CASE Current \in NewLine \cup {EOF}
    <3>1. todo' = Push(nl, t)
      BY <1>1, <2>2, <2>3, Stacked DEF SkipLine
    <3>2. Commented(file, Passed)
      BY <1>1, <1>11, PushRight, SkipLineInComment
    <3>3. Current' = Current /\ Passed' = Passed /\ file' = file
      BY <2>1, SameText DEF buffer_vars
    <3>4. Commented(file, Passed)'
      BY <3>2, <3>3 DEF Commented
    <3>5. todo' \in LineStacks(t)
      BY <3>1 DEF LineStacks, LineEnd
    <3>. QED  BY <1>0, <2>1, <2>3, <3>3, <3>4, <3>5 DEF HeaderInv, InHeader
  <2>4. CASE Current \notin NewLine \cup {EOF}
    <3>1. todo' = Push(nc, Push(sl, t))
      BY <1>1, <2>2, <2>4, Stacked DEF SkipLine
    <3>. QED  BY <1>1, <1>2, <1>3, <1>5, <2>1, <3>1 DEF LineStacks
  <2>. QED  BY <2>3, <2>4
<1>12. CASE ~ Still /\ todo = Push(nc, Push(sl, t))
  <2>1. todo' = Push(sl, t) /\ calls' = calls
    BY <1>1, <1>2, <1>3, <1>12, Drops
  <2>. QED  BY <1>1, <1>3, <1>5, <2>1 DEF LineStacks
<1>13. CASE ~ Still /\ todo = Push(er, t)
  <2>1. Replaced(er, t)
    BY <1>1, <1>13, Moved
  <2>2. er[1] = "err"
    BY <1>3
  <2>. HIDE DEF er
  <2>. QED  BY <2>1, <2>2 DEF Replaced, Marking
<1>. QED
  BY <1>4, <1>6, <1>7, <1>8, <1>9, <1>10, <1>11, <1>12, <1>13 DEF LineStacks, LineEnd

LEMMA HeaderStacksMove ==
  ASSUME InHeader, [Next]_vars, todo \in HeaderStacks
  PROVE  HeaderInv'
<1> DEFINE fi == Do("format_id")
           hc == Do("header_or_comment")
           og == Do("optional_g")
           nc == Do("next_char")
           sl == Do("skip_line")
           Line == Push(sl, Body)
           One == Letters(<<"1">>)
           Two == Letters(<<"1", "1">>)
<1>0. calls = <<>>
  BY DEF InHeader
<1>1. /\ Stack(Body) /\ Stack(Number) /\ Stack(Line)
      /\ Stack(Push(fi, Body)) /\ Stack(Push(hc, Body)) /\ Stack(Push(og, Number))
      /\ Number = Push(Two, Line)
  BY StacksRight, PushRight DEF Number
<1>2. \A f : Do(f)[1] = f /\ \A g : Do(f) = Do(g) => f = g
  BY DEF Do
<1>3. \A x : /\ Char(x)[1] = "match_char" /\ Letters(x)[1] = "match_letters"
             /\ Char(x) # Do("nlchar") /\ Letters(x) # Do("nlchar")
  BY DEF Do, Char, Letters
<1>4. CASE Still
  BY <1>4, HeaderStill DEF HeaderInv
<1>5. ASSUME NEW a, NEW s, Stack(s), a # Do("nlchar"), todo' = Push(a, s),
             Push(a, s) \in HeaderStacks \/ \E u \in AfterLine : Push(a, s) \in LineStacks(u),
             calls' = calls
      PROVE  HeaderInv'
  BY <1>0, <1>5, HeaderNext
<1>6. CASE ~ Still /\ todo = <<Do("qcir_file")>>
  <2>1. todo = Push(Do("qcir_file"), <<>>) /\ Stack(<<>>)
    BY <1>6, PushRight, StackRight
  <2>2. PICK x : calls' = calls /\ todo' = Calls("qcir_file", x, Current) \o <<>>
    BY <1>6, <2>1, Takes DEF Moving, Marking
  <2>3. Calls("qcir_file", x, Current) = (<<fi>> \o NextBlock(TRUE)) \o AfterBlocks
    BY CallsEqs DEF AfterBlocks
  <2>4. (<<fi>> \o NextBlock(TRUE)) \o AfterBlocks = <<fi>> \o (NextBlock(TRUE) \o AfterBlocks)
    <3>1. Stack(<<fi>>) /\ Stack(NextBlock(TRUE)) /\ Stack(AfterBlocks)
      BY StackRight, StacksRight, PlainStrings DEF Plain
    <3> DEFINE f == <<fi>>
               b == NextBlock(TRUE)
    <3>2. Stack(f) /\ Stack(b) /\ Stack(AfterBlocks)
      BY <3>1
    <3>. HIDE DEF f, b
    <3>3. (f \o b) \o AfterBlocks = f \o (b \o AfterBlocks)
      BY <3>2, StackRight
    <3>. QED  BY <3>3 DEF f, b
  <2>5. Calls("qcir_file", x, Current) = Push(fi, Body)
    BY <2>3, <2>4, StacksRight DEF Push
  <2>6. todo' = Push(fi, Body)
    BY <1>1, <2>2, <2>5, StackRight
  <2>. QED  BY <1>1, <1>2, <1>5, <2>2, <2>6 DEF HeaderStacks
<1>7. CASE ~ Still /\ todo = Push(fi, Body)
  <2>1. PICK x : UNCHANGED buffer_vars /\ calls' = calls /\ todo' = Calls("format_id", x, Current) \o Body
    BY <1>1, <1>7, Takes DEF Moving, Marking
  <2>2. todo' = FormatId(Current) \o Body
    BY <2>1, CallsEqs
  <2>3. CASE Current = "#"
    <3>1. todo' = Push(Char("#"), Push(hc, Body))
      BY <1>1, <2>2, <2>3, Stacked DEF FormatId
    <3>. QED  BY <1>1, <1>3, <1>5, <2>1, <3>1 DEF HeaderStacks
  <2>4. CASE Current # "#"
    <3>1. todo' = Body
      BY <1>1, <2>2, <2>4, Stacked DEF FormatId
    <3>2. Plain(todo')
      BY <3>1, StacksRight
    <3>. QED  BY <3>2 DEF HeaderInv, PlainAt
  <2>. QED  BY <2>3, <2>4
<1>8. CASE ~ Still /\ todo = Push(Char("#"), Push(hc, Body))
  <2>1. todo' = Push(hc, Body) /\ calls' = calls
    BY <1>1, <1>3, <1>8, Drops
  <2>. QED  BY <1>1, <1>2, <1>5, <2>1 DEF HeaderStacks
<1>9. CASE ~ Still /\ todo = Push(hc, Body)
  <2>1. PICK x : calls' = calls /\ todo' = Calls("header_or_comment", x, Current) \o Body
    BY <1>1, <1>9, Takes DEF Moving, Marking
  <2>2. todo' = HeaderOrComment(Current) \o Body
    BY <2>1, CallsEqs
  <2>3. CASE Current = "Q"
    <3>1. todo' = Push(Letters(Word.qcir), Push(og, Number))
      BY <1>1, <2>2, <2>3, Stacked DEF HeaderOrComment
    <3>. QED  BY <1>1, <1>3, <1>5, <2>1, <3>1 DEF HeaderStacks
  <2>4. CASE Current # "Q"
    <3>1. todo' = Push(sl, Push(fi, Body))
      BY <1>1, <2>2, <2>4, Stacked DEF HeaderOrComment
    <3>2. Push(sl, Push(fi, Body)) \in LineStacks(Push(fi, Body)) /\ Push(fi, Body) \in AfterLine
      BY DEF LineStacks, AfterLine
    <3>. QED  BY <1>1, <1>2, <1>5, <2>1, <3>1, <3>2
  <2>. QED  BY <2>3, <2>4
<1>10. CASE ~ Still /\ todo = Push(Letters(Word.qcir), Push(og, Number))
  <2>1. Len(Word.qcir) > 1 /\ Tail(Word.qcir) = <<"c">>
    BY DEF Word
  <2>2. todo' = Push(Letters(<<"c">>), Push(og, Number)) /\ calls' = calls
    BY <1>1, <1>10, <2>1, Spells
  <2>. QED  BY <1>1, <1>3, <1>5, <2>2 DEF HeaderStacks
<1>11. CASE ~ Still /\ todo = Push(Letters(<<"c">>), Push(og, Number))
  <2>1. Len(<<"c">>) = 1
    OBVIOUS
  <2>2. todo' = Push(og, Number) /\ calls' = calls
    BY <1>1, <1>11, <2>1, Spells
  <2>. QED  BY <1>1, <1>2, <1>5, <2>2 DEF HeaderStacks
<1>12. CASE ~ Still /\ todo = Push(og, Number)
  <2>1. PICK x : calls' = calls /\ todo' = Calls("optional_g", x, Current) \o Number
    BY <1>1, <1>12, Takes DEF Moving, Marking
  <2>2. todo' = OptionalG(Current) \o Number
    BY <2>1, CallsEqs
  <2>3. todo' \in {Push(nc, Number), Number}
    BY <1>1, <2>2, Stacked DEF OptionalG
  <2>4. CASE todo' = Push(nc, Number)
    BY <1>1, <1>2, <1>5, <2>1, <2>4 DEF HeaderStacks
  <2>5. CASE todo' = Number
    BY <1>1, <1>3, <1>5, <2>1, <2>5 DEF HeaderStacks
  <2>. QED  BY <2>3, <2>4, <2>5
<1>13. CASE ~ Still /\ todo = Push(nc, Number)
  <2>1. todo' = Number /\ calls' = calls
    BY <1>1, <1>2, <1>13, Drops
  <2>. QED  BY <1>1, <1>3, <1>5, <2>1 DEF HeaderStacks
<1>14. CASE ~ Still /\ todo = Number
  <2>1. Len(<<"1", "1">>) > 1 /\ Tail(<<"1", "1">>) = <<"1">>
    OBVIOUS
  <2>2. todo' = Push(One, Line) /\ calls' = calls
    BY <1>1, <1>14, <2>1, Spells
  <2>. QED  BY <1>1, <1>3, <1>5, <2>2 DEF HeaderStacks
<1>15. CASE ~ Still /\ todo = Push(One, Line)
  <2>1. Len(<<"1">>) = 1
    OBVIOUS
  <2>2. todo' = Line /\ calls' = calls
    BY <1>1, <1>15, <2>1, Spells
  <2>3. Line \in LineStacks(Body) /\ Body \in AfterLine
    BY DEF LineStacks, AfterLine
  <2>. QED  BY <1>1, <1>2, <1>5, <2>2, <2>3
<1>. QED
  BY <1>4, <1>6, <1>7, <1>8, <1>9, <1>10, <1>11, <1>12, <1>13, <1>14, <1>15 DEF HeaderStacks

LEMMA HeaderStep ==
  ASSUME LexerInv, HeaderInv, [Next]_vars, ~ Overcounts
  PROVE  HeaderInv'
<1>1. nls \in Nat
  BY DEF LexerInv, Types
<1>2. CASE PlainAt(todo, Current)
  BY <1>1, <1>2, PlainMoves DEF HeaderInv
<1>3. CASE InHeader
  BY <1>3, HeaderStacksMove, LineStacksMove DEF InHeader
<1>. QED  BY <1>2, <1>3 DEF HeaderInv

(* A step of nlchar that counts too much loses the course, but only in the *)
(* header of a file that ends there.                                       *)
LEMMA Overcounting ==
  ASSUME LexerInv, HeaderInv, Overcounts, Call
  PROVE  Lost'
<1>0. Do("nlchar")[1] = "nlchar" /\ todo # <<>> /\ Head(todo) = Do("nlchar") /\ Current \notin NewLine
      /\ NDEBUG
  BY DEF Do, Call, Overcounts
<1>1. Types
  BY DEF LexerInv
<1>2. ~ PlainAt(todo, Current)
  <2>1. ~ Plain(todo)
    BY <1>0, PlainRight DEF PlainCall, PlainNames, Moving, Marking
  <2>. QED  BY <1>0, <2>1 DEF PlainAt
<1>3. InHeader
  BY <1>2 DEF HeaderInv
<1>4. calls = <<>> /\ Current = EOF /\ Commented(file, Passed)
  BY <1>0, <1>3 DEF InHeader
<1>5. \A f : Do(f)[1] = f /\ \A g : Do(f) = Do(g) => f = g
  BY DEF Do
<1>6. \A x : Char(x) # Do("nlchar") /\ Letters(x) # Do("nlchar")
  BY DEF Do, Char, Letters
<1>7. PICK t \in AfterLine : todo = Push(Do("nlchar"), t)
  <2>1. \A a, s : Stack(s) => Head(Push(a, s)) = a /\ Stack(Push(a, s))
    BY PushRight
  <2>2. todo \notin HeaderStacks
    <3>1. todo # <<Do("qcir_file")>>
      BY <1>0, <1>5
    <3>2. Stack(Number) /\ Stack(Body) /\ Head(Number) # Do("nlchar")
      BY <1>6, <2>1, StacksRight DEF Number
    <3>. QED  BY <1>0, <1>5, <1>6, <2>1, <3>1, <3>2 DEF HeaderStacks
  <2>3. PICK t \in AfterLine : todo \in LineStacks(t)
    BY <1>3, <2>2 DEF InHeader
  <2>4. Stack(t)
    BY StacksRight
  <2>. QED  BY <1>0, <1>5, <2>1, <2>3, <2>4 DEF LineStacks, LineEnd
<1>8. todo' = Push(Do("line_read"), t)
  <2>1. Stack(t)
    BY StacksRight
  <2>2. Tail(todo) = t
    BY <1>7, <2>1, PushRight
  <2>3. todo' = NlChar(Current) \o t
    BY <1>0, <2>2, CallsEqs DEF Call, Then
  <2>4. NlChar(Current) = <<Do("line_read")>>
    BY <1>0 DEF NlChar, NewLine
  <2>. QED  BY <2>3, <2>4 DEF Push
<1>9. d_ln = 1 + LinesBefore(Passed)
  <2>1. PICK p, r : Meaning(p) /\ Ok(Do("nlchar"), p, r)
    BY <1>0, Course DEF LexerInv
  <2>2. p.line = "right"
    <3>1. p.line \in {"right", "pending", "cr"}
      BY <2>1 DEF Meaning, LineHolds
    <3>2. p.line # "pending"
      BY <1>5, <2>1, LagsInNlChar
    <3>3. SpaceOk(Do("nlchar"), p, r)
      <4>1. ~ NextCharOk(Do("nlchar"), p, r) /\ ~ MatchOk(Do("nlchar"), p, r)
            /\ ~ CallbackOk(Do("nlchar"), p, r)
        BY <1>0, NextCharHead, MatchHead, CallbackHead
      <4>2. ~ NameOk(Do("nlchar"), p, r)
        BY <1>5 DEF NameOk
      <4>3. ~ FunctionOk(Do("nlchar"), p, r)
        <5>1. \A b : Do("nlchar") # <<"qblock_quant", b>>
          BY <1>0
        <5>. QED  BY <1>5, <5>1 DEF FunctionOk
      <4>. QED  BY <2>1, <4>1, <4>2, <4>3 DEF Ok
    <3>. QED  BY <1>5, <3>3 DEF SpaceOk, Text, Remark
  <2>. QED  BY <2>1, <2>2 DEF Meaning, LineHolds
<1>10. UNCHANGED buffer_vars /\ calls' = calls /\ d_ln' = d_ln /\ status' = "reading"
  BY DEF Call
<1>11. Current' = Current /\ Passed' = Passed /\ file' = file /\ Window'
       /\ LinesBefore(Passed)' = LinesBefore(Passed)
  BY <1>1, <1>10, SameText DEF Types, buffer_vars
<1>12. OnlyComment'
  <2>1. Commented(file, Passed)' = Commented(file, Passed)
    BY <1>11 DEF Commented
  <2>. QED  BY <1>0, <1>4, <1>10, <1>11, <2>1 DEF OnlyComment
<1>. QED  BY <1>8, <1>9, <1>10, <1>11, <1>12 DEF Lost

LEMMA LostStays ==
  ASSUME Window, OnlyComment, UNCHANGED buffer_vars, calls' = calls
  PROVE  /\ Window' /\ OnlyComment' /\ Current = EOF
         /\ LinesBefore(Passed)' = LinesBefore(Passed) /\ LinesBefore(Passed) \in Nat
<1>1. Current' = Current /\ Passed' = Passed /\ file' = file /\ Window'
      /\ LinesBefore(Passed)' = LinesBefore(Passed)
  BY SameText DEF buffer_vars
<1>2. Commented(file, Passed)' = Commented(file, Passed)
  BY <1>1 DEF Commented
<1>3. Passed \in Nat
  BY Sees
<1>4. LinesBefore(Passed) \in Nat
  BY <1>3, LinesStep
<1>. QED  BY <1>1, <1>2, <1>4 DEF OnlyComment

LEMMA OutputStarts ==
  \A s : Stack(s) => \E t : /\ Stack(t)
                            /\ OutputStmt \o s = Push(Do("skip"), Push(Letters(Word.output), t))
<1>. SUFFICES ASSUME NEW s, Stack(s)
              PROVE  \E t : /\ Stack(t)
                            /\ OutputStmt \o s = Push(Do("skip"), Push(Letters(Word.output), t))
  OBVIOUS
<1> DEFINE a == MatchString("output")
           b == CharToken("(")
           c == <<Do("lit"), CallBack("output")>>
           d == CharToken(")")
           e == <<Do("nltoken")>>
<1>1. Stack(a) /\ Stack(b) /\ Stack(c) /\ Stack(d) /\ Stack(e)
  <2>1. PlainCall(Do("lit")) /\ PlainCall(Do("nltoken")) /\ PlainCall(CallBack("output"))
    BY PlainNamed DEF PlainNames
  <2>2. Plain(c) /\ Plain(e)
    BY <2>1, PlainTuples
  <2>. QED  BY <2>2, PlainStrings DEF Plain
<1>2. OutputStmt \o s = ((((a \o b) \o c) \o d) \o e) \o s
  BY DEF OutputStmt
<1>3. \A u : a \o u = <<Do("skip"), Letters(Word.output)>> \o u
  BY DEF MatchString
<1>. HIDE DEF a, b, c, d, e
<1> DEFINE f == b \o c
           g == f \o d
           h == g \o e
           t == h \o s
<1>4. Stack(f) /\ (a \o b) \o c = a \o f
  BY <1>1, StackJoins
<1>. HIDE DEF f
<1>5. Stack(g) /\ (a \o f) \o d = a \o g
  BY <1>1, <1>4, StackJoins
<1>. HIDE DEF g
<1>6. Stack(h) /\ (a \o g) \o e = a \o h
  BY <1>1, <1>5, StackJoins
<1>. HIDE DEF h
<1>7. Stack(t) /\ (a \o h) \o s = a \o t
  BY <1>1, <1>6, StackJoins
<1>8. OutputStmt \o s = a \o t
  BY <1>2, <1>4, <1>5, <1>6, <1>7
<1>. HIDE DEF t
<1>9. a \o t = Push(Do("skip"), Push(Letters(Word.output), t))
  <2>1. \A x, y : <<x, y>> \o t = Push(x, Push(y, t))
    BY <1>7, Stacked
  <2>2. <<Do("skip"), Letters(Word.output)>> \o t = Push(Do("skip"), Push(Letters(Word.output), t))
    BY <2>1
  <2>. QED  BY <1>3, <2>2
<1>. QED  BY <1>7, <1>8, <1>9

LEMMA LostNext ==
  ASSUME Lost, UNCHANGED buffer_vars, calls' = calls, status' = status,
         d_ln' = 2 + LinesBefore(Passed), LostStack(todo')
  PROVE  Lost'
BY LostStays DEF Lost

LEMMA LostStill ==
  ASSUME Lost, Still
  PROVE  Lost'
<1>1. /\ UNCHANGED buffer_vars /\ calls' = calls /\ todo' = todo /\ d_ln' = d_ln
      /\ status' \in {status, "error"}
  BY DEF Still
<1>. QED  BY <1>1, LostStays DEF Lost

LEMMA LostStep ==
  ASSUME Lost, [Next]_vars
  PROVE  Lost'
<1> DEFINE word == Letters(Word.output)
           skipping == Do("skipping")
           fi == Do("format_id")
           quant == <<"qblock_quant", TRUE>>
           out == Do("output_stmt")
           after == <<Do("skip"), Do("gates")>>
<1>0. Window /\ OnlyComment /\ Current = EOF /\ LinesBefore(Passed) \in Nat
  BY Sees, LinesStep DEF Lost, OnlyComment
<1>1. /\ Stack(AfterBlocks) /\ Stack(Blocks) /\ Stack(Body) /\ Stack(after)
      /\ AfterBlocks = Push(out, after)
      /\ \A a, s : Stack(s) => Stack(Push(a, s))
  <2>1. AfterBlocks = Push(Do("output_stmt"), Push(Do("skip"), Push(Do("gates"), <<>>)))
        /\ after = Push(Do("skip"), Push(Do("gates"), <<>>))
    <3>1. /\ \A a, b : <<a, b>> = Push(a, Push(b, <<>>))
          /\ \A a, b, c : <<a, b, c>> = Push(a, Push(b, Push(c, <<>>)))
      BY PushRight
    <3>. QED  BY <3>1 DEF AfterBlocks
  <2>2. \A a, s : Stack(s) => Stack(Push(a, s))
    BY PushRight
  <2>3. Stack(<<>>)
    BY StackRight
  <2>. QED  BY <2>1, <2>2, <2>3, StacksRight
<1>2. \A f : Do(f)[1] = f
  BY DEF Do
<1>3. /\ EOF \notin {"#", "o", "e", "f", " "} /\ Lower(EOF) = EOF
  BY CharactersAssumption DEF Characters, Letter, Blank, Lower, Capital
<1>4. CASE Still
  BY <1>4, LostStill
<1>5. ASSUME NEW t \in AfterLine, ~ Still, todo = Push(Do("line_read"), t),
             d_ln = 1 + LinesBefore(Passed)
      PROVE  Lost'
  <2>1. UNCHANGED <<calls, status>> /\ todo' = t /\ UNCHANGED buffer_vars /\ d_ln' = d_ln + 1
    BY <1>2, <1>5, StacksRight, Drops
  <2>. QED  BY <1>0, <1>5, <2>1, LostNext DEF LostStack
<1>6. ASSUME ~ Still, d_ln = 2 + LinesBefore(Passed), LostStack(todo)
      PROVE  Lost'
  <2>0. ASSUME UNCHANGED buffer_vars, UNCHANGED <<calls, status, d_ln>>, LostStack(todo')
        PROVE  Lost'
    BY <1>6, <2>0, LostNext
  <2>s. ASSUME NEW t, Stack(t), todo = Push(Do("skip"), t)
        PROVE  UNCHANGED buffer_vars /\ UNCHANGED <<calls, status, d_ln>> /\ todo' = Push(skipping, t)
    <3>1. Replaced(Do("skip"), t)
      BY <1>6, <2>s, Moved
    <3>2. <<skipping>> \o t = Push(skipping, t)
      BY DEF Push
    <3> DEFINE a == Do("skip")
    <3>3. Replaced(a, t) /\ a[1] = "skip"
      BY <1>2, <3>1
    <3>. HIDE DEF a
    <3>. QED  BY <3>2, <3>3 DEF Replaced, Moving, Marking
  <2>t. ASSUME NEW t, Stack(t), todo = Push(skipping, t)
        PROVE  UNCHANGED buffer_vars /\ UNCHANGED <<calls, status, d_ln>> /\ todo' = t
    <3>1. PICK x : /\ UNCHANGED buffer_vars /\ UNCHANGED <<calls, status, d_ln>>
                   /\ todo' = Calls("skipping", x, Current) \o t
      BY <1>6, <2>t, Takes DEF Moving, Marking
    <3>2. Calls("skipping", x, Current) = <<>>
      BY <1>0, <1>3, CallsEqs DEF Skipping, Blank
    <3>3. <<>> \o t = t
      BY <2>t, StackRight
    <3>. QED  BY <3>1, <3>2, <3>3
  <2>1. CASE todo = Body
    <3>1. todo = Push(Do("skip"), Blocks)
      BY <2>1 DEF Body
    <3>. QED  BY <1>1, <2>0, <2>s, <3>1 DEF LostStack
  <2>2. CASE todo = Push(fi, Body)
    <3>1. PICK x : /\ UNCHANGED buffer_vars /\ UNCHANGED <<calls, status, d_ln>>
                   /\ todo' = Calls("format_id", x, Current) \o Body
      BY <1>1, <1>6, <2>2, Takes DEF Moving, Marking
    <3>2. Calls("format_id", x, Current) = <<>>
      BY <1>0, <1>3, CallsEqs DEF FormatId
    <3>3. <<>> \o Body = Body
      BY <1>1, StackRight
    <3>4. todo' \in AfterLine
      BY <3>1, <3>2, <3>3 DEF AfterLine
    <3>. QED  BY <2>0, <3>1, <3>4 DEF LostStack
  <2>3. CASE todo = Push(skipping, Blocks)
    <3>1. UNCHANGED buffer_vars /\ UNCHANGED <<calls, status, d_ln>> /\ todo' = Blocks
      BY <1>1, <2>3, <2>t
    <3>. QED  BY <2>0, <3>1 DEF LostStack
  <2>4. CASE todo = Blocks
    <3>1. todo = Push(quant, AfterBlocks) /\ quant[1] = "qblock_quant"
      BY <2>4 DEF Blocks
    <3>2. Replaced(quant, AfterBlocks)
      BY <1>1, <1>6, <3>1, Moved
    <3>. HIDE DEF quant
    <3>3. /\ UNCHANGED buffer_vars /\ UNCHANGED <<calls, status, d_ln>>
          /\ todo' = Calls("qblock_quant", ArgumentOf(quant), Current) \o AfterBlocks
      BY <3>1, <3>2 DEF Replaced, Moving, Marking
    <3>4. Calls("qblock_quant", ArgumentOf(quant), Current) = <<>>
      BY <1>0, <1>3, CallsEqs DEF QBlockQuant
    <3>5. <<>> \o AfterBlocks = AfterBlocks
      BY <1>1, StackRight
    <3>. QED  BY <2>0, <3>3, <3>4, <3>5 DEF LostStack
  <2>5. CASE todo = AfterBlocks
    <3>1. PICK x : /\ UNCHANGED buffer_vars /\ UNCHANGED <<calls, status, d_ln>>
                   /\ todo' = Calls("output_stmt", x, Current) \o after
      BY <1>1, <1>6, <2>5, Takes DEF Moving, Marking
    <3>2. Calls("output_stmt", x, Current) = OutputStmt
      BY CallsEqs
    <3>3. PICK t : Stack(t) /\ OutputStmt \o after = Push(Do("skip"), Push(word, t))
      BY <1>1, OutputStarts
    <3>4. todo' = Push(Do("skip"), Push(word, t))
      BY <3>1, <3>2, <3>3
    <3>. HIDE DEF after
    <3>5. LostStack(todo')
      BY <3>3, <3>4 DEF LostStack
    <3>. QED  BY <2>0, <3>1, <3>5
  <2>6. ASSUME NEW t, Stack(t), todo = Push(Do("skip"), Push(word, t)) PROVE Lost'
    <3> DEFINE u == Push(word, t)
    <3>1. Stack(u) /\ todo = Push(Do("skip"), u)
      BY <1>1, <2>6
    <3>. HIDE DEF u
    <3>2. UNCHANGED buffer_vars /\ UNCHANGED <<calls, status, d_ln>> /\ todo' = Push(skipping, u)
      BY <2>s, <3>1
    <3>3. LostStack(todo')
      BY <2>6, <3>2 DEF LostStack, u
    <3>. QED  BY <2>0, <3>2, <3>3
  <2>7. ASSUME NEW t, Stack(t), todo = Push(skipping, Push(word, t)) PROVE Lost'
    <3> DEFINE u == Push(word, t)
    <3>1. Stack(u) /\ todo = Push(skipping, u)
      BY <1>1, <2>7
    <3>. HIDE DEF u
    <3>2. UNCHANGED buffer_vars /\ UNCHANGED <<calls, status, d_ln>> /\ todo' = u
      BY <2>t, <3>1
    <3>3. LostStack(todo')
      BY <2>7, <3>2 DEF LostStack, u
    <3>. QED  BY <2>0, <3>2, <3>3
  <2>8. ASSUME NEW t, Stack(t), todo = Push(word, t) PROVE FALSE
    <3>1. Lower(Current) = Head(Word.output)
      BY <1>6, <2>8, Spells
    <3>2. Head(Word.output) = "o"
      BY DEF Word
    <3>. QED  BY <1>0, <1>3, <3>1, <3>2
  <2>. QED
    BY <1>6, <2>1, <2>2, <2>3, <2>4, <2>5, <2>6, <2>7, <2>8 DEF LostStack, AfterLine
<1>. QED  BY <1>4, <1>5, <1>6 DEF Lost

LEMMA ParserStep == ParserInv /\ [Next]_vars => ParserInv'
<1>. SUFFICES ASSUME ParserInv, [Next]_vars PROVE ParserInv'
  OBVIOUS
<1>1. CASE Lost
  BY <1>1, LostStep DEF ParserInv
<1>2. CASE LexerInv /\ HeaderInv /\ ~ Overcounts
  BY <1>2, LexerStep, HeaderStep DEF ParserInv
<1>3. CASE LexerInv /\ HeaderInv /\ Overcounts
  <2>1. CASE Call
    BY <1>3, <2>1, Overcounting DEF ParserInv
  <2>2. CASE ~ Call
    <3>1. Head(todo)[1] = "nlchar"
      BY <1>3 DEF Overcounts, Do
    <3>2. UNCHANGED vars
      BY <2>2, <3>1 DEF Next, Running, MatchChar, MatchLetters, NextChar, Sign, VarStart, VarChar,
        Skip, LineSkipped, LineRead, Callback, Err, Finished
    <3>3. Still
      BY <3>2 DEF Still, vars, lexer_vars
    <3>4. HeaderInv'
      <4>1. CASE InHeader
        BY <3>3, <4>1, HeaderStill DEF HeaderInv
      <4>2. CASE PlainAt(todo, Current)
        <5>1. todo' = todo /\ Current' = Current
          BY <3>3, SameText DEF Still
        <5>. QED  BY <4>2, <5>1 DEF HeaderInv, PlainAt, Plain, Stack
      <4>. QED  BY <1>3, <4>1, <4>2 DEF HeaderInv
    <3>. QED  BY <1>3, <3>2, <3>4, StillKeeps DEF ParserInv
  <2>. QED  BY <2>1, <2>2
<1>. QED  BY <1>1, <1>2, <1>3 DEF ParserInv

LEMMA ParserAtStart == Init => ParserInv
<1>. SUFFICES ASSUME Init PROVE ParserInv
  OBVIOUS
<1>1. todo = <<Do("qcir_file")>> /\ calls = <<>>
  BY DEF Init
<1>2. Head(todo) # Do("nlchar")
  BY <1>1 DEF Do
<1>. QED  BY <1>1, <1>2, LexerAtStart DEF ParserInv, HeaderInv, InHeader, HeaderStacks

LEMMA ParserLineRight == ParserInv => LineRight
<1>. SUFFICES ASSUME ParserInv, ~ InNlChar,
                     ~ (todo # <<>> /\ Tail(todo) # <<>> /\ Head(Tail(todo)) = Do("line_read"))
              PROVE  \/ d_ln = 1 + LinesBefore(Passed)
                     \/ OnlyComment /\ d_ln = 2 + LinesBefore(Passed)
  BY DEF LineRight
<1>1. CASE LexerInv
  BY <1>1, LineRightAlways
<1>2. CASE Lost
  <2>1. ASSUME NEW t \in AfterLine, todo = Push(Do("line_read"), t) PROVE FALSE
    <3>1. Stack(t)
      BY StacksRight
    <3>2. todo # <<>> /\ Head(todo) = Do("line_read")
      BY <2>1, <3>1, PushRight
    <3>. QED  BY <3>2 DEF InNlChar, Do
  <2>. QED  BY <1>2, <2>1 DEF Lost
<1>. QED  BY <1>1, <1>2 DEF ParserInv

-----------------------------------------------------------------------------
(* Wherever the parser is in the grammar, what it has told of and what it  *)
(* has read differ by what the calls still to be made account for, and it  *)
(* knows whether it is in a comment and whether the line is counted.  Only *)
(* a file that ends in its header, in a build without assertions, takes the*)
(* parser off this course, and then nothing but an error is to come.       *)
THEOREM LexerInvariant == Spec => []ParserInv
BY ParserAtStart, ParserStep, PTL DEF Spec

(* A file that is accepted was told of character by character: no parse    *)
(* function (qcir_parser.cpp) passes over a part of it in silence, whatever*)
(* the file and wherever gzread cuts it.                                   *)
THEOREM AcceptedFileIsTold == Spec => []NothingLost
<1>1. ParserInv => NothingLost
  BY NothingLostAlways DEF ParserInv, Lost, NothingLost
<1>. QED  BY <1>1, LexerInvariant, PTL

(* The line err() prints is the line the parser is in, whatever ends the   *)
(* lines and whichever function has passed over them.  It is one too high  *)
(* at most where the file ends in a comment before anything was called     *)
(* back, and only in a build without assertions.                           *)
THEOREM ErrorNamesItsLine == Spec => []LineRight
BY LexerInvariant, ParserLineRight, PTL

(* The parser moves the buffer as a reader may: the character it looks at  *)
(* is the one of the file it has come to.                                  *)
THEOREM ParserSeesFile == Spec => []Transparent
<1>1. ParserInv => Transparent
  BY WindowTransparent DEF ParserInv, LexerInv, Types, Lost
<1>. QED  BY <1>1, LexerInvariant, PTL
=============================================================================
