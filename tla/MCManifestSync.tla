---------------------------- MODULE MCManifestSync ----------------------------
(* TLC instances of ManifestSync: root is the first revision of the chain,  *)
(* x and y compete for the second number.                                   *)
EXTENDS ManifestSync

CONSTANT root

NumberOf == [d \in Dirs |-> IF d = root THEN 1 ELSE 2]
=============================================================================
