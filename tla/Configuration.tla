---- MODULE Configuration ----
(* The configuration of one command: which config file is read, which        *)
(* profile is selected, how built-in defaults, root values, the profile,     *)
(* AIRPLAN_* variables and flags are merged, what `config show` names as the *)
(* source of each value, the catalog of themes, and the client that is made  *)
(* from it.  Values are abstract texts, "" the empty one.  Values and their  *)
(* sources are computed apart, as in the code.                               *)
EXTENDS Integers, FiniteSets

CONSTANTS
    Values,         \* what a setting may hold besides ""
    Profiles,       \* names of profiles
    Paths,          \* names of config files besides the default one
    Listed,         \* what a value of available_themes lists: ids, repeats
    Malformed,      \* values no parser takes: URLs, prefixes, durations, booleans
    Requests        \* the invocations tried

Unset == "(unset)"
Text == Values \cup {""}

(***************************************************************************)
(* The fields of the configuration                                         *)
(***************************************************************************)
Themed == {"light_theme", "dark_theme", "theme", "available_themes"}
Switches == {"no_source", "indexable", "no_external_assets"}
Fields ==
    {"backend", "api_url", "api_token", "endpoint", "bucket", "region", "access_key_id", "secret_access_key",
     "public_base_url", "key_prefix", "template", "collection_template", "mermaid_url", "repo", "timeout"}
        \cup Switches \cup Themed
WithDefault ==
    {"backend", "region", "mermaid_url", "light_theme", "dark_theme", "available_themes", "repo", "timeout"}
        \cup Switches
WithVariable == Fields \ {"no_source", "indexable", "available_themes"}
Pointers == Switches \cup {"available_themes"}

Defaults ==
    [f \in Fields |->
        CASE f = "backend" -> "s3" [] f \in {"region", "repo"} -> "auto" [] f = "mermaid_url" -> "pinned"
          [] f = "light_theme" -> "github-light" [] f = "dark_theme" -> "github-dark"
          [] f \in Switches -> "false" [] f = "timeout" -> "30s" [] f = "available_themes" -> Unset
          [] OTHER -> ""]

BuiltinThemes == {"github-light", "github-dark"}

\* What a layer says of the fields; a file without a key says nothing of it.
Layer == [Fields -> Text \cup {Unset}]
Silent == [f \in Fields |-> Unset]
Overrides == {s \in Layer : \A f \in Fields \ Pointers : s[f] # Unset}
Environment == [WithVariable -> Text]

Files ==
    [there : BOOLEAN, broken : BOOLEAN, root : Layer, names : SUBSET Profiles, profiles : [Profiles -> Layer],
     default : Profiles \cup {""}, themes : SUBSET Values]
NoFile ==
    [there |-> FALSE, broken |-> FALSE, root |-> Silent, names |-> {}, profiles |-> [p \in Profiles |-> Silent],
     default |-> "", themes |-> {}]

\* Flags of an upload that only a server's own configuration may set.
ServerControlled ==
    {"endpoint", "bucket", "region", "public_base_url", "key_prefix", "template", "collection_template",
     "mermaid_url"} \cup Switches

\* An invocation: the command, what names its config file and its profile, the
\* rest of its environment, its flags, those of them given as empty texts and
\* whether --manifest is one, the files there are, and the one profile the
\* manifest records for its target.
RequestSet ==
    [command : {"show", "upload", "target"}, path : Paths \cup {""}, pathVariable : Paths \cup {""},
     profile : Profiles \cup {"", Unset}, profileVariable : Profiles \cup {""}, env : Environment,
     flags : Overrides, empty : SUBSET ServerControlled, manifest : BOOLEAN,
     disk : [Paths \cup {"default"} -> Files], recorded : Profiles \cup {""}]
NoFlags == [f \in Fields |-> IF f \in Pointers THEN Unset ELSE ""]

ASSUME ConfigAssumption ==
    /\ Unset \notin Values /\ "" \notin Values \cup Paths \cup Profiles /\ "default" \notin Paths
    /\ IsFiniteSet(Profiles) /\ Unset \notin Profiles
    /\ Requests \subseteq RequestSet
    /\ \A r \in Requests :
          /\ \A p \in Paths \cup {"default"} : ~r.disk[p].there => r.disk[p] = NoFile
          /\ r.command = "target" => r.flags = NoFlags
    /\ {"s3", "airplan", "auto", "pinned", "30s", "true", "false"} \cup BuiltinThemes \subseteq Values \ Malformed
    /\ Listed \in [Text -> [ids : SUBSET Values, repeats : BOOLEAN]]

(***************************************************************************)
(* Merging                                                                 *)
(***************************************************************************)
\* An empty value in a file is the default again for these, and itself for others.
Refilled == {"backend", "mermaid_url", "light_theme", "dark_theme", "repo"}

applySettings(cfg, s) ==
    [f \in Fields |->
        IF f = "timeout" \/ s[f] = Unset THEN cfg[f]
        ELSE IF f \in Refilled /\ s[f] = "" THEN Defaults[f]
        ELSE s[f]]

\* Mutant: a variable that the table names but the merge forgets.
MutantVariables == WithVariable \ {"timeout", "key_prefix"}

Variables == WithVariable \ {"timeout"}
applyEnv(cfg, env) == [f \in Fields |-> IF f \in Variables /\ env[f] # "" THEN env[f] ELSE cfg[f]]
EnvironmentFails(env) == env["no_external_assets"] \notin {"", "true", "false"}

applyOverrides(cfg, s) ==
    [f \in Fields |->
        IF \/ f \in Pointers /\ s[f] # Unset
           \/ f \notin Pointers \cup {"timeout"} /\ s[f] # ""
        THEN s[f] ELSE cfg[f]]

resolveTimeout(r, file, profile) ==
    LET named == profile # "" /\ file.profiles[profile]["timeout"] # Unset
        rooted == file.root["timeout"] # Unset
        raw == IF r.flags["timeout"] # "" THEN r.flags["timeout"]
               ELSE IF r.env["timeout"] # "" THEN r.env["timeout"]
               ELSE IF named THEN file.profiles[profile]["timeout"]
               ELSE IF rooted THEN file.root["timeout"] ELSE ""
    IN  IF raw = "" THEN Defaults["timeout"] ELSE raw

(***************************************************************************)
(* The file and the profile                                                *)
(***************************************************************************)
resolveConfigPath(r) ==
    IF r.path # "" THEN [path |-> r.path, explicit |-> TRUE]
    ELSE IF r.pathVariable # "" THEN [path |-> r.pathVariable, explicit |-> TRUE]
    ELSE [path |-> "default", explicit |-> FALSE]

loadFileConfig(r) == r.disk[resolveConfigPath(r).path]
FileFails(r) == loadFileConfig(r).broken \/ (resolveConfigPath(r).explicit /\ ~loadFileConfig(r).there)

EffectiveBackend(cfg) == IF cfg["backend"] = "" THEN "s3" ELSE cfg["backend"]
RequiredFields(backend) ==
    CASE backend = "s3" -> {"endpoint", "bucket"} [] backend = "airplan" -> {"api_url", "api_token"} [] OTHER -> {}

\* Root values with variables and flags, for the choice among several profiles.
RootConfig(r, file) ==
    LET empty == [f \in Fields |-> IF f \in {"backend", "region"} THEN Defaults[f] ELSE ""]
    IN  applyOverrides(applyEnv(applySettings(empty, file.root), r.env), r.flags)
connectionSettingsComplete(cfg) == \A f \in RequiredFields(EffectiveBackend(cfg)) : cfg[f] # ""

Flagged(r) == IF r.profile = Unset THEN "" ELSE r.profile
Requested(r) == IF Flagged(r) # "" THEN Flagged(r) ELSE r.profileVariable

\* The profile a request runs on, "" for the root values.
resolveProfile(r, file) ==
    LET Chosen(name) == [ok |-> TRUE, name |-> name]
        Dangling == [ok |-> FALSE, name |-> ""]
        Existing(name) == IF name \in file.names THEN Chosen(name) ELSE Dangling
    IN  IF Requested(r) # "" THEN Existing(Requested(r))
        ELSE IF file.default # "" THEN Existing(file.default)
        ELSE IF file.names = {} THEN Chosen("")
        ELSE IF Cardinality(file.names) = 1 THEN Chosen(CHOOSE n \in file.names : TRUE)
        ELSE IF ~EnvironmentFails(r.env) /\ connectionSettingsComplete(RootConfig(r, file)) THEN Chosen("")
        ELSE Dangling

\* What `config show` says the profile was decided by.
profileResolution(r, file) ==
    CASE Flagged(r) # "" -> "--profile"
      [] Flagged(r) = "" /\ r.profileVariable # "" -> "AIRPLAN_PROFILE"
      [] Requested(r) = "" /\ file.default # "" -> "default_profile"
      [] Requested(r) = "" /\ file.default = "" /\ Cardinality(file.names) = 1 -> "single named profile"
      [] Requested(r) = "" /\ file.default = "" /\ file.names = {} -> "no named profiles"
      [] OTHER -> "complete root-level resolution"

(***************************************************************************)
(* Sources                                                                 *)
(***************************************************************************)
configOverrideIsSet(s, f) == IF f \in Pointers THEN s[f] # Unset ELSE s[f] # ""

\* Whether a layer sets a field, and what it says of it.
Layers == {"builtin", "root", "profile", "env", "override"}
Sets(r, file, profile, layer, f) ==
    CASE layer = "builtin" -> f \in WithDefault
      [] layer = "root" -> file.root[f] # Unset
      [] layer = "profile" -> profile # "" /\ file.profiles[profile][f] # Unset
      [] layer = "env" -> f \in WithVariable /\ r.env[f] # ""
      [] layer = "override" -> configOverrideIsSet(r.flags, f)

\* The last of the layers that set a field, in order of precedence.
WinningSource(r, file, profile, f) ==
    IF Sets(r, file, profile, "override", f) THEN "override"
    ELSE IF Sets(r, file, profile, "env", f) THEN "env"
    ELSE IF Sets(r, file, profile, "profile", f) THEN "profile"
    ELSE IF Sets(r, file, profile, "root", f) THEN "root"
    ELSE IF Sets(r, file, profile, "builtin", f) THEN "builtin"
    ELSE "none"

\* A field the backend does not use, set for this selection and not inherited.
configFieldExplicitForSelection(r, file, profile, f) ==
    \/ configOverrideIsSet(r.flags, f)
    \/ f \in WithVariable /\ r.env[f] # ""
    \/ IF profile # "" THEN file.profiles[profile][f] # Unset ELSE file.root[f] # Unset

Inactive(backend) ==
    CASE backend = "s3" -> {"api_url", "api_token"}
      [] backend = "airplan" -> {"endpoint", "access_key_id", "secret_access_key"} \cup Themed
      [] OTHER -> {}

warnInactiveBackendFields(r, file, profile, cfg) ==
    {f \in Inactive(EffectiveBackend(cfg)) : configFieldExplicitForSelection(r, file, profile, f)}

(***************************************************************************)
(* Themes                                                                  *)
(***************************************************************************)
Or(text, default) == IF text = "" THEN default ELSE text

ResolveThemeBundle(cfg, custom) ==
    LET known == BuiltinThemes \cup custom
        light == Or(cfg["light_theme"], "github-light")
        dark == Or(cfg["dark_theme"], "github-dark")
        all == cfg["available_themes"] = Unset
        list == Listed[cfg["available_themes"]]
        distinct == custom \cap (BuiltinThemes \cup Malformed) = {}
    IN  IF cfg["theme"] # ""
        THEN [ok |-> distinct /\ cfg["theme"] \in known, light |-> cfg["theme"], dark |-> cfg["theme"],
              catalog |-> {cfg["theme"]}]
        ELSE [ok |-> /\ distinct /\ {light, dark} \subseteq known
                     /\ all \/ (list.ids \subseteq known /\ ~list.repeats),
              light |-> light, dark |-> dark,
              catalog |-> IF all THEN known ELSE list.ids \cup {light, dark}]

(***************************************************************************)
(* A resolution                                                            *)
(***************************************************************************)
Merged(r, file, profile) ==
    LET root == applySettings(Defaults, file.root)
        named == IF profile = "" THEN root ELSE applySettings(root, file.profiles[profile])
    IN  applyOverrides(applyEnv(named, r.env), r.flags)

NoConfig == [state |-> "none"]
Failed == [state |-> "failed"]

ResolveConfig(r) ==
    LET file == loadFileConfig(r)
        chosen == resolveProfile(r, file)
        merged == Merged(r, file, chosen.name)
        bundle == ResolveThemeBundle(merged, file.themes)
        timeout == resolveTimeout(r, file, chosen.name)
    IN  IF FileFails(r) \/ ~chosen.ok \/ EnvironmentFails(r.env) THEN Failed
        ELSE IF ~bundle.ok \/ timeout \in Malformed THEN Failed
        ELSE [state |-> "resolved", profile |-> chosen.name, by |-> profileResolution(r, file), custom |-> file.themes,
              value |-> [merged EXCEPT !["light_theme"] = bundle.light, !["dark_theme"] = bundle.dark,
                                       !["timeout"] = timeout],
              catalog |-> bundle.catalog,
              inactive |-> warnInactiveBackendFields(r, file, chosen.name, merged),
              source |-> [f \in Fields |-> WinningSource(r, file, chosen.name, f)]]

\* `config show`: the field and the layer a value is said to come from.
From(layer, field) == [layer |-> layer, field |-> field]
configDisplayFields(config) ==
    [f \in Fields |->
        IF config.value["theme"] # "" /\ f \in Themed THEN From(config.source["theme"], "theme")
        ELSE IF /\ f = "available_themes" /\ config.value[f] # Unset
                /\ Listed[config.value[f]].ids # config.catalog
        THEN From("inferred", f)
        ELSE From(config.source[f], f)]

(***************************************************************************)
(* The client                                                              *)
(***************************************************************************)
MissingFields(cfg) == {f \in RequiredFields(EffectiveBackend(cfg)) : cfg[f] = ""}
WellFormed(cfg, fields) == \A f \in fields : cfg[f] \notin Malformed

Validate(config) ==
    LET cfg == config.value IN
    /\ ResolveThemeBundle(cfg, config.custom).ok
    /\ EffectiveBackend(cfg) \in {"s3", "airplan"}
    /\ MissingFields(cfg) = {}
    /\ IF EffectiveBackend(cfg) = "s3"
       THEN /\ cfg["access_key_id"] = "" <=> cfg["secret_access_key"] = ""
            /\ WellFormed(cfg, {"endpoint", "public_base_url", "key_prefix", "mermaid_url", "repo"})
       ELSE WellFormed(cfg, {"api_url", "repo"})

\* Storage that is only named later may still be missing.
PartialS3(cfg) ==
    /\ cfg["access_key_id"] = "" <=> cfg["secret_access_key"] = ""
    /\ WellFormed(cfg, {"endpoint", "public_base_url", "key_prefix", "mermaid_url", "repo"})

NoClient == [state |-> "none", light |-> "", dark |-> "", catalog |-> {}]
Refused == [NoClient EXCEPT !.state = "refused"]

New(config) ==
    LET cfg == config.value
        bundle == ResolveThemeBundle(cfg, config.custom)
    IN  IF cfg["repo"] \in Malformed THEN Refused
        ELSE IF EffectiveBackend(cfg) = "airplan"
        THEN IF Validate(config) THEN [NoClient EXCEPT !.state = "remote"] ELSE Refused
        ELSE IF bundle.ok /\ PartialS3(cfg)
        THEN [state |-> "local", light |-> bundle.light, dark |-> bundle.dark, catalog |-> bundle.catalog]
        ELSE Refused

(***************************************************************************)
(* One command                                                             *)
(***************************************************************************)
VARIABLES
    asked,      \* the invocation
    config,     \* its configuration
    inferred,   \* whether the manifest chose the profile
    client      \* the client made from it

configVars == <<asked, config, inferred, client>>

ConfigInit ==
    /\ asked \in Requests
    /\ config = NoConfig
    /\ inferred = FALSE
    /\ client = NoClient

LoadConfig ==
    /\ config.state = "none" /\ asked.command # "target"
    /\ config' = ResolveConfig(asked)
    /\ UNCHANGED <<asked, inferred, client>>

RecordedRequest(r) == [r EXCEPT !.profile = r.recorded]

\* The profile a target was recorded with, when neither the flag nor the
\* variable names one.
inferManifestProfile(r) == r.profile = Unset /\ r.profileVariable = "" /\ r.recorded # ""

\* Mutant: the recorded profile is used whatever its backend.
MutantUsesRecorded(r) == inferManifestProfile(r)

\* ... unless it would send the command to a server.
UsesRecorded(r) ==
    LET tried == ResolveConfig(RecordedRequest(r)) IN
    /\ inferManifestProfile(r)
    /\ tried.state = "resolved" => EffectiveBackend(tried.value) = "s3"

LoadTargetConfig ==
    /\ config.state = "none" /\ asked.command = "target"
    /\ inferred' = UsesRecorded(asked)
    /\ config' = ResolveConfig(IF UsesRecorded(asked) THEN RecordedRequest(asked) ELSE asked)
    /\ UNCHANGED <<asked, client>>

\* Command lines that a server would not honour: applyManifestSelection and run.
ManifestRefused == asked.manifest /\ EffectiveBackend(config.value) = "airplan"
FlagsRefused ==
    /\ asked.command = "upload" /\ EffectiveBackend(config.value) = "airplan"
    /\ \E f \in ServerControlled : configOverrideIsSet(asked.flags, f) \/ f \in asked.empty

NewClient ==
    /\ config.state = "resolved" /\ client.state = "none" /\ asked.command # "show"
    /\ client' = IF ManifestRefused \/ FlagsRefused THEN Refused ELSE New(config)
    /\ UNCHANGED <<asked, config, inferred>>

\* A local client turns to storage when it first needs it.  Without a complete
\* configuration, or without credentials, the attempt changes nothing.
EnsureStorage ==
    /\ client.state = "local" /\ Validate(config)
    /\ client' = [client EXCEPT !.state = "ready"]
    /\ UNCHANGED <<asked, config, inferred>>

ConfigNext == LoadConfig \/ LoadTargetConfig \/ NewClient \/ EnsureStorage

ConfigSpec == ConfigInit /\ [][ConfigNext]_configVars

(***************************************************************************)
(* Properties                                                              *)
(***************************************************************************)
\* Every variable has its type.
ConfigTypeOK ==
    /\ asked \in RequestSet /\ inferred \in BOOLEAN
    /\ config.state \in {"none", "failed", "resolved"}
    /\ config.state = "resolved" =>
           /\ config.value \in [Fields -> Text \cup {Unset}] /\ config.source \in [Fields -> Layers \cup {"none"}]
           /\ config.profile \in Profiles \cup {""} /\ config.inactive \subseteq Fields
           /\ config.custom \subseteq Values /\ config.catalog \subseteq Values
    /\ client.state \in {"none", "refused", "local", "remote", "ready"}
    /\ client.light \in Text /\ client.dark \in Text /\ client.catalog \subseteq Values

Resolved == config.state = "resolved"
Used == loadFileConfig(asked)

\* What a layer gives a field: its text, or for an empty one in a file the
\* default of the field again.
Gives(layer, f, v) ==
    LET Stated(text) == IF text = "" /\ f \in Refilled \cup {"timeout"} THEN Defaults[f] ELSE text IN
    CASE layer = "builtin" -> v = Defaults[f]
      [] layer = "root" -> v = Stated(Used.root[f])
      [] layer = "profile" -> v = Stated(Used.profiles[config.profile][f])
      [] layer = "env" -> v = asked.env[f]
      [] layer = "override" -> v = asked.flags[f]
      [] OTHER -> v = ""

\* The layers above one, by precedence: flags, variables, profile, root values,
\* built-in defaults (SPEC.md:1773).
Above(layer) ==
    CASE layer = "override" -> {} [] layer = "env" -> {"override"} [] layer = "profile" -> {"override", "env"}
      [] layer = "root" -> {"override", "env", "profile"} [] layer = "builtin" -> Layers \ {"builtin"}
      [] OTHER -> Layers

\* What `config show` names as the source of a value is where the value came
\* from, and no layer that takes precedence says anything of it (SPEC.md:1773,
\* SPEC.md:2113-2117); this holds for the themes that a forced theme replaces and
\* for the catalog too.
ShownTrue ==
    Resolved =>
        \A f \in Fields :
            LET shown == configDisplayFields(config)[f] IN
            /\ shown.layer # "inferred" =>
                   \A above \in Above(shown.layer) : ~Sets(asked, Used, config.profile, above, shown.field)
            /\ f # "available_themes" => Gives(shown.layer, shown.field, config.value[f])
            /\ f = "available_themes" =>
                   /\ shown.field = "theme" => config.catalog = {config.value["theme"]}
                   /\ shown.layer = "inferred" =>
                          /\ Gives(config.source[f], f, config.value[f])
                          /\ config.catalog = Listed[config.value[f]].ids
                                                  \cup {config.value["light_theme"], config.value["dark_theme"]}
                   /\ shown.field = f /\ shown.layer = "builtin" => config.catalog = BuiltinThemes \cup config.custom
                   /\ shown.field = f /\ shown.layer \notin {"inferred", "builtin"} =>
                          \E v \in Text : Gives(shown.layer, f, v) /\ config.catalog = Listed[v].ids

\* The profile in use is the one that was asked for, else the default one, else
\* the only one; and root values are used beside several profiles only when they
\* lack nothing their backend requires (SPEC.md:1869-1878).  What is said to have
\* decided it did.
ProfileSettled ==
    Resolved =>
        /\ config.profile # "" => config.profile \in Used.names
        /\ ~inferred /\ Requested(asked) # "" => config.profile = Requested(asked)
        /\ inferred => config.profile = asked.recorded
        /\ config.profile = "" /\ Used.names # {} => MissingFields(config.value) = {}
        /\ CASE config.by = "--profile" -> config.profile = IF inferred THEN asked.recorded ELSE asked.profile
             [] config.by = "AIRPLAN_PROFILE" -> config.profile = asked.profileVariable
             [] config.by = "default_profile" -> config.profile = Used.default
             [] config.by = "single named profile" -> Used.names = {config.profile}
             [] config.by = "no named profiles" -> Used.names = {}
             [] OTHER -> config.profile = "" /\ Cardinality(Used.names) > 1

\* A profile that only the manifest named never sends a command to a server.
NoRedirect == Resolved /\ inferred => EffectiveBackend(config.value) = "s3"

\* A warning about an unused field is about one that somebody set for this
\* selection: inherited values and defaults give none (SPEC.md:1864-1865).
InactiveTrue ==
    Resolved =>
        config.inactive = {f \in Inactive(EffectiveBackend(config.value)) :
                               \/ config.source[f] \in {"override", "env", "profile"}
                               \/ config.source[f] = "root" /\ config.profile = ""}

\* The client renders with the themes `config show` shows, and what reaches
\* storage or a server has a backend and everything it requires; no upload to a
\* server has a flag the server controls, and no command there a manifest.
ClientAsShown ==
    /\ client.state \in {"local", "ready"} =>
           /\ client.catalog = config.catalog
           /\ client.light = config.value["light_theme"] /\ client.dark = config.value["dark_theme"]
           /\ {client.light, client.dark} \subseteq client.catalog
    /\ client.state \in {"remote", "ready"} =>
           /\ EffectiveBackend(config.value) = IF client.state = "remote" THEN "airplan" ELSE "s3"
           /\ MissingFields(config.value) = {}
    /\ client.state = "remote" =>
           /\ ~asked.manifest
           /\ asked.command = "upload" => \A f \in ServerControlled : config.source[f] # "override"

SettingsExplained == ShownTrue /\ ProfileSettled /\ NoRedirect /\ InactiveTrue /\ ClientAsShown
====
