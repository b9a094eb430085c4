----------------------------- MODULE MCConsole ------------------------------
(***************************************************************************)
(* Rows and glyphs as high as in the code, on frames with a row below the *)
(* start and three or four below the margin; columns three glyphs wide,    *)
(* lines of up to four.                                                    *)
(***************************************************************************)
EXTENDS Console
MCPanicText ==
    << "glyph", "newline", "glyph", "glyph", "newline", "newline", "glyph", "newline" >>
=============================================================================
