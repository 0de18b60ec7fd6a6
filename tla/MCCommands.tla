------------------------------ MODULE MCCommands ------------------------------
(* TLC instance of what spans several uploads or several releases, one      *)
(* subject per behaviour:                                                   *)
(*   "purge"    PurgeSession: two uploads, one of which may be revised;     *)
(*   "bulk"     BulkUpgrade: two profiles whose manifests overlap, one of   *)
(*              them recording a document twice, and two workers;           *)
(*   "marker"   OwnershipMarker: one directory's declaration, read and      *)
(*              rewritten by this release;                                  *)
(*   "config"   Configuration: one invocation, up to its client.            *)
(* The four share no state.  A behaviour stays with the subject it began   *)
(* with, so the run explores their union and not their product.             *)
EXTENDS MCOwnershipMarker, MCConfiguration, PurgeSession, BulkUpgrade

SmallUploads == 1..2
SmallSourced == {1}
SmallDocuments == 1..3
SmallView == [a |-> <<1, 2, 1>>, b |-> <<2, 3>>]
BothProfiles == <<"a", "b">>

VARIABLE subject

-----------------------------------------------------------------------------
(* The loop of ManifestUploads and its restatement without a loop agree on  *)
(* every history of up to four lines, of two uploads that may be the same   *)
(* revision of a chain, managed or legacy, some of them unreadable.  The    *)
(* upload of the first line may be called 1: the names are interchangeable. *)
Log == INSTANCE Manifest WITH Dirs <- 1..2, Chains <- {"k"}, NoChain <- "none"
OldForm(r) == [r EXCEPT !.managed = FALSE]
RecordsTried ==
  UNION {{Log!Upload("upload", d, TRUE, "none", 0, 0), Log!Upload("link", d, TRUE, "k", 2, 2),
          OldForm(Log!Upload("upload", d, FALSE, "none", 0, 0)),
          Log!Tombstone(d, "k", 2), OldForm(Log!Tombstone(d, "none", 0)),
          Log!Protection("protect", d), Log!Protection("unprotect", d)} : d \in 1..2}

ASSUME ReductionAssumption ==
  \A first \in {r \in RecordsTried : r.dir = 1} \cup {Log!Garbage} :
    \A n \in 0..3 : \A rest \in [1..n -> RecordsTried \cup {Log!Garbage}] :
      LET lines == <<first>> \o rest
      IN  Log!Reduce(Log!Parsed(lines)) = Log!HistoryOf(lines)

-----------------------------------------------------------------------------
(* The subject a behaviour is not about rests in one of its initial states. *)
CommandInit ==
  /\ subject \in {"purge", "bulk", "marker", "config"}
  /\ Init
  /\ PurgeInit
  /\ subject # "purge" =>
       /\ \A u \in Uploads : bucket[u] = Fresh
       /\ options = [backend |-> "s3", source |-> "manifest", includeVersioned |-> FALSE,
                     dryRun |-> FALSE, yes |-> FALSE]
  /\ BulkInit
  /\ subject # "bulk" => mode = "one" /\ \A d \in Documents : storage[d].state = "old"
  /\ IF subject = "config" THEN ConfigInit ELSE AtRest

CommandNext ==
  \/ subject = "purge" /\ PurgeNext /\ UNCHANGED <<subject, vars, bulkVars, configVars>>
  \/ subject = "bulk" /\ BulkNext /\ UNCHANGED <<subject, vars, purgeVars, configVars>>
  \/ subject = "marker" /\ Next /\ UNCHANGED <<subject, purgeVars, bulkVars, configVars>>
  \/ subject = "config" /\ ConfigNext /\ UNCHANGED <<subject, vars, purgeVars, bulkVars>>

CommandSpec == CommandInit /\ [][CommandNext]_<<subject, vars, purgeVars, bulkVars, configVars>>

(* The fairness of the module a behaviour is about.                         *)
OnPurge(step) == subject = "purge" /\ step
OnBulk(step) == subject = "bulk" /\ step
FairCommandSpec ==
  /\ CommandSpec
  /\ WF_purgeVars(OnPurge(Session)) /\ WF_purgeVars(OnPurge(ItemFails))
  /\ WF_purgeVars(OnPurge(DeclinePurge))
  /\ WF_bulkVars(OnBulk(PoolStep)) /\ WF_bulkVars(OnBulk(CommandStep))
  /\ WF_bulkVars(OnBulk(DeclineBulk))

-----------------------------------------------------------------------------
(* Every variable has its type.                                             *)
TypesOK == TypeOK /\ PurgeTypeOK /\ BulkTypeOK /\ (subject = "config" => ConfigTypeOK)

(* Both commands end, whatever fails or expires, and leave no worker behind *)
(* (PurgeSession, BulkUpgrade).                                             *)
CommandsEnd ==
  <>(/\ subject = "purge" => PurgeEnded
     /\ subject = "bulk" => BulkEnded)
=============================================================================
