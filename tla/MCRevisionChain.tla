--------------------------- MODULE MCRevisionChain ---------------------------
(* TLC instances of RevisionChain.  Names and clients the configuration    *)
(* treats alike are interchangeable; runs with fairness use no symmetry.   *)
EXTENDS RevisionChain, TLC

Alike(S) == Permutations(S \cap Retriers) \cup Permutations(S \ Retriers)
Symmetry ==
  Permutations(Targets \ {Root}) \cup Permutations(Dirs \ (Targets \cup {Root}))
    \cup Alike(Appenders \ Deleters) \cup Alike(Deleters \ Appenders)
    \cup Alike(Appenders \cap Deleters)
=============================================================================
