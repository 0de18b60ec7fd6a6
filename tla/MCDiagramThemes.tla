---------------------------- MODULE MCDiagramThemes ----------------------------
(* TLC instances of DiagramThemes.                                          *)
EXTENDS DiagramThemes

Catalog == {"github-light", "night"}
Stored(mode, legacy, light) == [mode |-> mode, legacy |-> legacy, light |-> light, dark |-> Nil]
StoreSet == {Stored(Nil, "dark", Unknown), Stored("light", "dark", "night")}
=============================================================================
