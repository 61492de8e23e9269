----------------------------- MODULE MCBlobStore -----------------------------
(* Contents of one and of two parts; uploads of one file and of two.         *)
EXTENDS BlobStore, TLC

CONSTANTS q1, q2, pathA, pathB, short, long

MCRequest == {q1, q2}
Requests == Permutations(MCRequest)
MCPath == {pathA, pathB}
MCContent == {short, long}
MCParts == [c \in MCContent |-> IF c = short THEN 1 ELSE 2]
MCFile(p, c) == [path |-> p, content |-> c]
MCUploads ==
  {<<MCFile(pathA, long)>>, <<MCFile(pathA, short)>>,
   <<MCFile(pathA, short), MCFile(pathB, long)>>}
=============================================================================
