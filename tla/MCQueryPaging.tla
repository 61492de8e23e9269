---------------------------- MODULE MCQueryPaging ----------------------------
(* Up to five rows, in pages of two.  The values are three texts or null: a    *)
(* blank, a letter, and the letter with a blank after it.                      *)
EXTENDS QueryPaging

MCUri == 1 .. 5
MCValue == 1 .. 3
MCParsed == <<Null, 2, 2>>
=============================================================================
