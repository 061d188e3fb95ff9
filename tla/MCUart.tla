------------------------------- MODULE MCUart -------------------------------
(* Model checking instance of Uart: two kinds of key beside Ctrl-O and DEL, *)
(* a two-byte file with a line end in it, a tick of two units.              *)
EXTENDS Uart

MCChar     == {"NUL", "BS", "DEL", "SI", "LF", "FF", "a", "E5", "E3"}
MCKeys     == {"SI", "DEL", "LF"}
MCOutput   == {"a", "FF"}
MCMarks    == {"FF"}
MCLineEnds == {"LF"}
MCFileText == <<"a", "LF">>

\* A program that never leaves a received character unread.
ReadingSpec == Spec /\ ProgramReads
=============================================================================
