---------------------------- MODULE StreamBuffer ----------------------------
(***************************************************************************)
(* StreamBuffer (stream_buffer.h): a window of a few bytes on the file,    *)
(* refilled by gzread when the cursor runs off its end.                    *)
(***************************************************************************)
EXTENDS Integers, Sequences

CONSTANTS
    Byte,      \* what a file is made of
    EOF,       \* -1: what operator* returns past the end
    Promoted,  \* the int operator* makes of a byte: a char is signed on most
               \* machines, so that the byte 255 is read as EOF
    Chunk      \* sizeof(buf), the number of bytes asked of gzread; buf is a
               \* pointer, so that these are 8 and not CHUNK_LIMIT

ASSUME ChunkAssumption == Chunk \in Nat \ {0}
ASSUME PromotedAssumption == Promoted \in [Byte -> Byte \cup {EOF}]

VARIABLES
    file,    \* the bytes behind the gzFile; never changes
    given,   \* how many of them gzread has handed out
    buf,     \* the bytes of the last gzread: buf[0 .. size - 1]
    pos      \* the cursor in buf

buffer_vars == <<file, given, buf, pos>>

size == Len(buf)

-----------------------------------------------------------------------------
Smaller(m, n) == IF m < n THEN m ELSE n

(* gzread: some of the bytes that are left, none at the end of the file.   *)
GzCounts ==
    IF given = Len(file) THEN {0} ELSE 1 .. Smaller(Chunk, Len(file) - given)
GzRead ==
    \E n \in GzCounts :
        /\ buf' = SubSeq(file, given + 1, given + n)
        /\ given' = given + n

(* Plausible mistake: the cursor stays where it ran off.                   *)
AssureLookaheadKeepsPos(p) ==
    IF p >= size THEN pos' = p /\ GzRead ELSE pos' = p /\ UNCHANGED <<given, buf>>

(* assureLookahead, when the cursor has been moved to p.                   *)
AssureLookahead(p) ==
    IF p >= size THEN pos' = 0 /\ GzRead ELSE pos' = p /\ UNCHANGED <<given, buf>>

(* The constructor reads the first bytes. *)
BufferInit ==
    /\ file \in Seq(Byte)
    /\ pos = 0
    /\ \E n \in IF Len(file) = 0 THEN {0} ELSE 1 .. Smaller(Chunk, Len(file)) :
        given = n /\ buf = SubSeq(file, 1, n)

(* operator* *)
Current == IF pos >= size THEN EOF ELSE Promoted[buf[pos + 1]]

(* operator++ *)
Advance == AssureLookahead(pos + 1) /\ UNCHANGED file

BufferSpec == BufferInit /\ [][Advance]_buffer_vars

-----------------------------------------------------------------------------
(* How far the reader has come. *)
Passed == given - size + pos
Abstract == INSTANCE Cursor WITH passed <- Passed

(* The reader sees the character its cursor is at, wherever the file was   *)
(* cut into chunks, also in the middle of a word (stream_buffer.h:23-28).  *)
Transparent ==
    /\ Passed \in 0 .. Len(file)
    /\ Current = Abstract!Seen

(* The buffer implements the cursor. *)
ImplementsCursor == Abstract!CursorSpec
=============================================================================
