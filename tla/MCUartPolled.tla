---------------------------- MODULE MCUartPolled ----------------------------
(* Model checking instance of UartPolled: three kinds of key (a plain one,  *)
(* DEL and Ctrl-O), a two-byte file, one printable and one silent output.   *)
EXTENDS UartPolled

MCChar     == {"NUL", "BS", "DEL", "SI", "LF", "FF", "a", "E5", "E3"}
MCKeys     == {"SI", "DEL", "LF"}
MCOutput   == {"a", "FF"}
MCMarks    == {"FF"}
MCLineEnds == {"LF"}
MCFileText == <<"a", "LF">>
=============================================================================
