--------------------------- MODULE MCRevisionRetries ---------------------------
(* TLC instance of RevisionChain with commands that are repeated until they *)
(* succeed.  A behaviour is one of two:                                     *)
(*   "first"   an update and the deletion of the first upload, standalone   *)
(*             or linked, both repeated;                                    *)
(*   "later"   the configuration's: the deletion of a later revision is     *)
(*             repeated, while the appender may stop anywhere.              *)
EXTENDS RevisionChain

CONSTANTS a, b, x, y

VARIABLE scene

OfFirst == INSTANCE RevisionChain WITH Dirs <- {Root, x}, Targets <- {Root}, Retriers <- {a, b}

ScenesInit == (scene = "later" /\ Init) \/ (scene = "first" /\ OfFirst!Init)
ScenesNext ==
  \/ scene = "later" /\ Next /\ UNCHANGED scene
  \/ scene = "first" /\ OfFirst!Next /\ UNCHANGED scene

(* RevisionChain's Persistent, for those who repeat their commands.         *)
InFirst(step) == scene = "first" /\ step
InLater(step) == scene = "later" /\ step
RetryScenes ==
  /\ ScenesInit /\ [][ScenesNext]_<<vars, scene>>
  /\ \A c \in {a, b} :
       /\ WF_vars(InFirst(OfFirst!Step(c))) /\ WF_vars(InFirst(OfFirst!GiveUp(c)))
       /\ <>[][InFirst(OfFirst!GiveUp(c)) => OfFirst!Step(c) \/ ~ENABLED OfFirst!Step(c)]_vars
  /\ \A d \in {Root, x} : SF_vars(InFirst(OfFirst!AppendStart(a, d)))
  /\ SF_vars(InFirst(OfFirst!DeleteStart(b, Root)))
  /\ WF_vars(InLater(Step(b))) /\ WF_vars(InLater(GiveUp(b)))
  /\ <>[][InLater(GiveUp(b)) => Step(b) \/ ~ENABLED Step(b)]_vars
  /\ SF_vars(InLater(DeleteStart(b, y)))

(* Updates and deletions that are repeated come to an end (RevisionChain,   *)
(* AppendsSettle, DeletionsFinish and LaterDeletionsFinish).                *)
CommandsSettle ==
  /\ \A d \in {Root, x} : (scene = "first" /\ OfFirst!Announced(d)) ~> OfFirst!Settled(d)
  /\ OfFirst!Leaves(Root)
  /\ (scene = "later" /\ y \in doomed /\ marker[y].num # 2) ~> (scene = "later" => ~marker[y].has)
=============================================================================
