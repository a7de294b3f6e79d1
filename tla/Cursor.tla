------------------------------- MODULE Cursor -------------------------------
(***************************************************************************)
(* What the input buffer promises its reader: a cursor that walks through  *)
(* the file once, character after character, and stays at its end.         *)
(***************************************************************************)
EXTENDS Integers, Sequences

CONSTANTS
    Byte,     \* what a file is made of
    EOF,      \* what is seen past the end
    Promoted  \* the character a byte is read as

VARIABLES
    file,    \* the bytes of the file
    passed   \* how many of them the cursor has gone past

CursorInit == file \in Seq(Byte) /\ passed = 0

(* operator* *)
Seen == IF passed < Len(file) THEN Promoted[file[passed + 1]] ELSE EOF

(* operator++ *)
Step ==
    /\ passed' = IF passed < Len(file) THEN passed + 1 ELSE passed
    /\ UNCHANGED file

CursorSpec == CursorInit /\ [][Step]_<<file, passed>>
=============================================================================
