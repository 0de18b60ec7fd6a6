-------------------------- MODULE MCRevisionScenes --------------------------
(* TLC instance of RevisionChain.  A behaviour is one of four:              *)
(*   "append"   the configuration's: two appenders race, and commits may be *)
(*              answered late or never;                                     *)
(*   "delete"   one appender races with the deletion of a revision it made, *)
(*              and appends again;                                          *)
(*   "any"      one appender, while another client deletes the first upload *)
(*              and a revision, each as often as it likes;                  *)
(*   "first"    two deletions of the first upload race with each other and  *)
(*              with appends.                                               *)
EXTENDS RevisionChain

CONSTANTS a, b, c, x

VARIABLE scene

Later == INSTANCE RevisionChain WITH
  Appenders <- {a}, Deleters <- {b}, Targets <- {x}, Retriers <- {a, b}, MaxLost <- 0
Any == INSTANCE RevisionChain WITH
  Appenders <- {a}, Deleters <- {b}, Targets <- {Root, x}, Retriers <- {a, b}, MaxLost <- 0,
  MaxClaims <- 0
OfFirst == INSTANCE RevisionChain WITH
  Appenders <- {a}, Deleters <- {b, c}, Targets <- {Root}, Retriers <- {}, MaxLost <- 0,
  MaxClaims <- 0

ScenesInit ==
  \/ scene = "append" /\ Init
  \/ scene = "delete" /\ Later!Init
  \/ scene = "any" /\ Any!Init
  \/ scene = "first" /\ OfFirst!Init
ScenesNext ==
  \/ scene = "append" /\ Next /\ UNCHANGED scene
  \/ scene = "delete" /\ Later!Next /\ UNCHANGED scene
  \/ scene = "any" /\ Any!Next /\ UNCHANGED scene
  \/ scene = "first" /\ OfFirst!Next /\ UNCHANGED scene
ScenesSpec == ScenesInit /\ [][ScenesNext]_<<vars, scene>>
=============================================================================
