--------------------------- MODULE MC_HttpParser ----------------------------
(***************************************************************************)
(* A request line, and line ends in one piece or in two, in any order, in  *)
(* up to three reads.                                                      *)
(***************************************************************************)
EXTENDS HttpParser

RequestLine == <<"GET", "SP", "/path", "SP", "HTTP/1.1">>
MCChunks == {RequestLine, <<"CR", "LF">>, <<"CR">>, <<"LF">>}
=============================================================================
