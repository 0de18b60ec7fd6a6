--------------------------- MODULE MCUploadDirectory ---------------------------
(* TLC instances of UploadDirectory: the upload was made by release 2; the  *)
(* older upgrader runs release 1, of the same generation but with other     *)
(* pages, the newer one release 3, of the next generation.                  *)
EXTENDS UploadDirectory

CONSTANTS older, newer

ReleaseOf == [u \in Upgraders |-> IF u = older THEN 1 ELSE 3]
GenerationOf == [r \in Releases |-> IF r <= 2 THEN 1 ELSE 2]
RenderingOf == [r \in Releases |-> r]
=============================================================================
