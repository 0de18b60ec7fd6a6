---- MODULE ConfigurationProofs ----
(* What `config show` says of a configuration, and what a client does with   *)
(* it, for every file, environment, command line and catalog of themes.      *)
EXTENDS Configuration, FiniteSetTheorems, TLAPS

(***************************************************************************)
(* Requests and their files                                                *)
(***************************************************************************)
LEMMA AskedTyped ==
    ASSUME NEW r \in RequestSet
    PROVE  /\ r.flags \in Overrides /\ r.flags \in Layer
           /\ r.env \in Environment
           /\ r.profile \in Profiles \cup {"", Unset} /\ r.profileVariable \in Profiles \cup {""}
           /\ r.recorded \in Profiles \cup {""} /\ r.manifest \in BOOLEAN
           /\ Flagged(r) \in Profiles \cup {""} /\ Requested(r) \in Profiles \cup {""}
  BY ConfigAssumption DEF RequestSet, Overrides, Flagged, Requested

LEMMA FileTyped ==
    ASSUME NEW r \in RequestSet
    PROVE  loadFileConfig(r) \in Files
  <1>1. resolveConfigPath(r).path \in Paths \cup {"default"}
    BY DEF RequestSet, resolveConfigPath
  <1>2. r.disk \in [Paths \cup {"default"} -> Files]
    BY DEF RequestSet
  <1>3. QED BY <1>1, <1>2 DEF loadFileConfig

LEMMA FileFields ==
    ASSUME NEW file \in Files
    PROVE  /\ file.root \in Layer /\ file.names \subseteq Profiles /\ file.profiles \in [Profiles -> Layer]
           /\ file.default \in Profiles \cup {""} /\ file.themes \subseteq Values
  BY DEF Files

LEMMA RecordedTyped ==
    ASSUME NEW r \in RequestSet
    PROVE  /\ RecordedRequest(r) \in RequestSet
           /\ loadFileConfig(RecordedRequest(r)) = loadFileConfig(r)
           /\ RecordedRequest(r).flags = r.flags /\ RecordedRequest(r).env = r.env
           /\ RecordedRequest(r).profile = r.recorded
           /\ RecordedRequest(r).profileVariable = r.profileVariable
  <1>1. RecordedRequest(r) \in RequestSet
    BY DEF RecordedRequest, RequestSet
  <1>2. /\ RecordedRequest(r).path = r.path /\ RecordedRequest(r).pathVariable = r.pathVariable
        /\ RecordedRequest(r).disk = r.disk
    BY DEF RecordedRequest, RequestSet
  <1>3. loadFileConfig(RecordedRequest(r)) = loadFileConfig(r)
    BY <1>2 DEF loadFileConfig, resolveConfigPath
  <1>4. /\ RecordedRequest(r).flags = r.flags /\ RecordedRequest(r).env = r.env
        /\ RecordedRequest(r).profile = r.recorded
        /\ RecordedRequest(r).profileVariable = r.profileVariable
    BY DEF RecordedRequest, RequestSet
  <1>5. QED BY <1>1, <1>3, <1>4

(***************************************************************************)
(* One field through the layers                                            *)
(***************************************************************************)
Stated(f, text) == IF text = "" /\ f \in Refilled \cup {"timeout"} THEN Defaults[f] ELSE text
Given(r, file, profile, layer, f) ==
    CASE layer = "builtin" -> Defaults[f]
      [] layer = "root" -> Stated(f, file.root[f])
      [] layer = "profile" -> Stated(f, file.profiles[profile][f])
      [] layer = "env" -> r.env[f]
      [] layer = "override" -> r.flags[f]
      [] OTHER -> ""

LEMMA DefaultsAt ==
    ASSUME NEW f \in Fields
    PROVE  /\ f \notin WithDefault => Defaults[f] = ""
           /\ Defaults[f] = Unset => f = "available_themes"
  BY DEF Fields, WithDefault, Defaults, Switches, Themed, Unset

LEMMA SettingsAt ==
    ASSUME NEW cfg, NEW s \in Layer, NEW f \in Fields \ {"timeout"}
    PROVE  applySettings(cfg, s)[f] = IF s[f] = Unset THEN cfg[f] ELSE Stated(f, s[f])
  BY DEF applySettings, Stated

LEMMA VariablesAt ==
    ASSUME NEW cfg, NEW env \in Environment, NEW f \in Fields \ {"timeout"}
    PROVE  applyEnv(cfg, env)[f] = IF f \in WithVariable /\ env[f] # "" THEN env[f] ELSE cfg[f]
  BY DEF applyEnv, Variables

LEMMA OverridesAt ==
    ASSUME NEW cfg, NEW s \in Overrides, NEW f \in Fields \ {"timeout"}
    PROVE  applyOverrides(cfg, s)[f] = IF configOverrideIsSet(s, f) THEN s[f] ELSE cfg[f]
  BY DEF applyOverrides, configOverrideIsSet

\* The merge takes what the last layer that sets a field gives it.
LEMMA MergedAsSourced ==
    ASSUME NEW r \in RequestSet, NEW file \in Files, NEW profile \in Profiles \cup {""},
           NEW f \in Fields \ {"timeout"}
    PROVE  Merged(r, file, profile)[f] = Given(r, file, profile, WinningSource(r, file, profile, f), f)
  <1> DEFINE root == applySettings(Defaults, file.root)
             named == IF profile = "" THEN root ELSE applySettings(root, file.profiles[profile])
             seen == applyEnv(named, r.env)
  <1>1. root[f] = IF file.root[f] = Unset THEN Defaults[f] ELSE Stated(f, file.root[f])
    BY SettingsAt, FileFields
  <1>2. named[f] = IF profile # "" /\ file.profiles[profile][f] # Unset
                   THEN Stated(f, file.profiles[profile][f]) ELSE root[f]
    <2>1. CASE profile = "" BY <2>1
    <2>2. CASE profile # ""
      <3>1. file.profiles[profile] \in Layer BY <2>2, FileFields
      <3>2. applySettings(root, file.profiles[profile])[f]
              = IF file.profiles[profile][f] = Unset THEN root[f] ELSE Stated(f, file.profiles[profile][f])
        BY <3>1, SettingsAt
      <3>3. QED BY <2>2, <3>2
    <2>3. QED BY <2>1, <2>2
  <1> HIDE DEF root, named
  <1>3. seen[f] = IF f \in WithVariable /\ r.env[f] # "" THEN r.env[f] ELSE named[f]
    <2>1. r.env \in Environment BY AskedTyped
    <2>2. QED BY <2>1, VariablesAt
  <1>4. Merged(r, file, profile)[f] = IF configOverrideIsSet(r.flags, f) THEN r.flags[f] ELSE seen[f]
    <2>1. r.flags \in Overrides BY AskedTyped
    <2>2. applyOverrides(seen, r.flags)[f] = IF configOverrideIsSet(r.flags, f) THEN r.flags[f] ELSE seen[f]
      BY <2>1, OverridesAt
    <2>3. Merged(r, file, profile) = applyOverrides(seen, r.flags) BY DEF Merged, root, named
    <2>4. QED BY <2>2, <2>3
  <1> HIDE DEF seen
  <1>5. f \notin WithDefault => Defaults[f] = "" BY DefaultsAt
  <1>6. QED BY <1>1, <1>2, <1>3, <1>4, <1>5 DEF WinningSource, Sets, Given

LEMMA TimeoutAsSourced ==
    ASSUME NEW r \in RequestSet, NEW file \in Files, NEW profile \in Profiles \cup {""}
    PROVE  resolveTimeout(r, file, profile)
             = Given(r, file, profile, WinningSource(r, file, profile, "timeout"), "timeout")
  <1>1. "timeout" \in WithVariable /\ "timeout" \in WithDefault /\ "timeout" \notin Pointers
    BY DEF WithVariable, Fields, WithDefault, Pointers, Switches, Themed
  <1>2. QED BY <1>1 DEF resolveTimeout, WinningSource, Sets, Given, Stated, configOverrideIsSet

\* A sourced text is a text, and a field with a default that a file cannot
\* empty never is empty.
LEMMA GivenTyped ==
    ASSUME NEW r \in RequestSet, NEW file \in Files, NEW profile \in Profiles \cup {""}, NEW f \in Fields,
           NEW layer \in Layers \cup {"none"}, layer # "none" => Sets(r, file, profile, layer, f)
    PROVE  Given(r, file, profile, layer, f) \in Text \cup {Unset}
  <1>1. Defaults[f] \in Text \cup {Unset}
    BY ConfigAssumption DEF Defaults, Text, Fields, Switches, Themed, BuiltinThemes
  <1>2. /\ file.root[f] \in Text \cup {Unset} /\ r.flags[f] \in Text \cup {Unset}
        /\ f \in WithVariable => r.env[f] \in Text
        /\ profile # "" => file.profiles[profile][f] \in Text \cup {Unset}
    <2>1. file.root \in [Fields -> Text \cup {Unset}] /\ r.flags \in [Fields -> Text \cup {Unset}]
      BY FileFields, AskedTyped DEF Layer
    <2>2. r.env \in [WithVariable -> Text] BY AskedTyped DEF Environment
    <2>3. profile # "" => file.profiles[profile] \in [Fields -> Text \cup {Unset}] BY FileFields DEF Layer
    <2>4. QED BY <2>1, <2>2, <2>3
  <1>3. layer \in {"builtin", "root", "profile", "env", "override", "none"} BY DEF Layers
  <1>4. \A text \in Text \cup {Unset} : Stated(f, text) \in Text \cup {Unset} BY <1>1 DEF Stated
  <1>5. CASE layer = "builtin" BY <1>1, <1>5 DEF Given
  <1>6. CASE layer = "root" BY <1>2, <1>4, <1>6 DEF Given
  <1>7. CASE layer = "profile"
    <2>1. profile # "" BY <1>7 DEF Sets
    <2>2. QED BY <1>2, <1>4, <1>7, <2>1 DEF Given
  <1>8. CASE layer = "env"
    <2>1. f \in WithVariable BY <1>8 DEF Sets
    <2>2. QED BY <1>2, <1>8, <2>1 DEF Given
  <1>9. CASE layer = "override" BY <1>2, <1>9 DEF Given
  <1>10. CASE layer = "none" BY <1>10 DEF Given, Text
  <1>11. QED BY <1>3, <1>5, <1>6, <1>7, <1>8, <1>9, <1>10

LEMMA SourceSets ==
    ASSUME NEW r, NEW file, NEW profile, NEW f
    PROVE  /\ WinningSource(r, file, profile, f) \in Layers \cup {"none"}
           /\ WinningSource(r, file, profile, f) # "none"
                => Sets(r, file, profile, WinningSource(r, file, profile, f), f)
           /\ WinningSource(r, file, profile, f) = "none" => f \notin WithDefault
           /\ \A above \in Above(WinningSource(r, file, profile, f)) : ~Sets(r, file, profile, above, f)
  <1>1. Sets(r, file, profile, "builtin", f) <=> f \in WithDefault BY DEF Sets
  <1>2. QED BY <1>1 DEF WinningSource, Layers, Above

LEMMA GivenFull ==
    ASSUME NEW r \in RequestSet, NEW file \in Files, NEW profile \in Profiles \cup {""},
           NEW f \in {"light_theme", "dark_theme"}
    PROVE  Given(r, file, profile, WinningSource(r, file, profile, f), f) # ""
  <1>1. /\ f \in Fields /\ f \in WithDefault /\ f \in WithVariable /\ f \notin Pointers /\ f \in Refilled
        /\ Defaults[f] # ""
    BY DEF WithVariable, Fields, WithDefault, Pointers, Switches, Themed, Refilled, Defaults
  <1> DEFINE layer == WinningSource(r, file, profile, f)
  <1>2. layer # "none" /\ Sets(r, file, profile, layer, f) /\ layer \in Layers BY <1>1, SourceSets
  <1> HIDE DEF layer
  <1>3. \A text : Stated(f, text) # ""
    BY <1>1 DEF Stated
  <1>4. layer = "env" => r.env[f] # ""
    BY <1>2 DEF Sets
  <1>5. layer = "override" => r.flags[f] # ""
    BY <1>1, <1>2 DEF Sets, configOverrideIsSet
  <1>6. Given(r, file, profile, layer, f) # ""
    BY <1>1, <1>2, <1>3, <1>4, <1>5 DEF Given, Layers
  <1>7. QED BY <1>6 DEF layer

(***************************************************************************)
(* A resolution                                                            *)
(***************************************************************************)
\* Resolving the themes a second time, from the values shown, changes nothing.
LEMMA ThemesKept ==
    ASSUME NEW cfg \in [Fields -> Text \cup {Unset}], NEW custom, NEW shown,
           cfg["light_theme"] # "", cfg["dark_theme"] # "",
           ResolveThemeBundle(cfg, custom).ok,
           shown["light_theme"] = ResolveThemeBundle(cfg, custom).light,
           shown["dark_theme"] = ResolveThemeBundle(cfg, custom).dark,
           shown["theme"] = cfg["theme"], shown["available_themes"] = cfg["available_themes"]
    PROVE  LET bundle == ResolveThemeBundle(cfg, custom)
               again == ResolveThemeBundle(shown, custom)
           IN  /\ again.light = bundle.light /\ again.dark = bundle.dark /\ again.catalog = bundle.catalog
               /\ {bundle.light, bundle.dark} \subseteq bundle.catalog
               /\ cfg["theme"] # "" => /\ bundle.light = cfg["theme"] /\ bundle.dark = cfg["theme"]
                                       /\ bundle.catalog = {cfg["theme"]}
               /\ cfg["theme"] = "" =>
                      /\ bundle.light = cfg["light_theme"] /\ bundle.dark = cfg["dark_theme"]
                      /\ bundle.catalog = IF cfg["available_themes"] = Unset THEN BuiltinThemes \cup custom
                                          ELSE Listed[cfg["available_themes"]].ids
                                                   \cup {cfg["light_theme"], cfg["dark_theme"]}
  <1> DEFINE bundle == ResolveThemeBundle(cfg, custom)
             again == ResolveThemeBundle(shown, custom)
  <1>2. /\ shown["light_theme"] = bundle.light /\ shown["dark_theme"] = bundle.dark
        /\ shown["theme"] = cfg["theme"] /\ shown["available_themes"] = cfg["available_themes"]
    OBVIOUS
  <1>3. CASE cfg["theme"] # ""
    <2>1. bundle.light = cfg["theme"] /\ bundle.dark = cfg["theme"] /\ bundle.catalog = {cfg["theme"]}
      BY <1>3 DEF ResolveThemeBundle
    <2>2. shown["theme"] = cfg["theme"] BY <1>2
    <2> HIDE DEF bundle
    <2>3. again.light = cfg["theme"] /\ again.dark = cfg["theme"] /\ again.catalog = {cfg["theme"]}
      BY <1>3, <2>2 DEF ResolveThemeBundle
    <2> HIDE DEF again
    <2>4. QED BY <1>3, <2>1, <2>3 DEF bundle, again
  <1>4. CASE cfg["theme"] = ""
    <2>1. /\ bundle.light = cfg["light_theme"] /\ bundle.dark = cfg["dark_theme"]
          /\ bundle.catalog = IF cfg["available_themes"] = Unset THEN BuiltinThemes \cup custom
                              ELSE Listed[cfg["available_themes"]].ids \cup {cfg["light_theme"], cfg["dark_theme"]}
          /\ {cfg["light_theme"], cfg["dark_theme"]} \subseteq BuiltinThemes \cup custom
      BY <1>4 DEF ResolveThemeBundle, Or
    <2> HIDE DEF bundle
    <2>2. /\ shown["theme"] = "" /\ shown["light_theme"] = cfg["light_theme"]
          /\ shown["dark_theme"] = cfg["dark_theme"] /\ shown["available_themes"] = cfg["available_themes"]
      BY <1>2, <1>4, <2>1
    <2>3. /\ again.light = cfg["light_theme"] /\ again.dark = cfg["dark_theme"]
          /\ again.catalog = IF cfg["available_themes"] = Unset THEN BuiltinThemes \cup custom
                             ELSE Listed[cfg["available_themes"]].ids \cup {cfg["light_theme"], cfg["dark_theme"]}
      BY <2>2 DEF ResolveThemeBundle, Or
    <2> HIDE DEF again
    <2>4. {bundle.light, bundle.dark} \subseteq bundle.catalog BY <2>1
    <2>5. QED BY <1>4, <2>1, <2>3, <2>4 DEF bundle, again
  <1>5. QED BY <1>3, <1>4

LEMMA BeyondOne == ASSUME NEW k \in Nat, k # 0, k # 1 PROVE k > 1
  OBVIOUS
LEMMA Sized ==
    ASSUME NEW S, IsFiniteSet(S)
    PROVE  /\ S = {} => Cardinality(S) # 1
           /\ S # {} /\ Cardinality(S) # 1 => Cardinality(S) > 1
           /\ Cardinality(S) = 1 => S = {CHOOSE n \in S : TRUE}
  <1>1. Cardinality(S) \in Nat BY FS_CardinalityType
  <1>2. Cardinality(S) = 0 <=> S = {} BY FS_EmptySet
  <1>3. Cardinality(S) = 1 <=> \E x : S = {x} BY FS_Singleton
  <1>4. ASSUME S = {} PROVE Cardinality(S) # 1
    <2>1. Cardinality(S) = 0 BY <1>2, <1>4
    <2>2. QED BY <2>1
  <1>5. ASSUME S # {}, Cardinality(S) # 1 PROVE Cardinality(S) > 1
    <2>1. Cardinality(S) # 0 BY <1>2, <1>5
    <2>2. QED BY <1>1, <1>5, <2>1, BeyondOne
  <1>6. ASSUME Cardinality(S) = 1 PROVE S = {CHOOSE n \in S : TRUE}
    <2>1. PICK x : S = {x} BY <1>3, <1>6
    <2>2. QED BY <2>1
  <1>7. QED BY <1>4, <1>5, <1>6

LEMMA ChosenTyped ==
    ASSUME NEW r \in RequestSet, NEW file \in Files, resolveProfile(r, file).ok
    PROVE  LET name == resolveProfile(r, file).name IN
           /\ name \in file.names \cup {""}
           /\ Requested(r) # "" => name = Requested(r)
           /\ Requested(r) = "" /\ file.default # "" => name = file.default
           /\ Requested(r) = "" /\ file.default = "" /\ file.names = {} => name = ""
           /\ Requested(r) = "" /\ file.default = "" /\ Cardinality(file.names) = 1 => file.names = {name}
           /\ Requested(r) = "" /\ file.default = "" /\ file.names # {} /\ Cardinality(file.names) # 1
                => name = "" /\ Cardinality(file.names) > 1
           /\ name = "" /\ file.names # {} => connectionSettingsComplete(RootConfig(r, file))
  <1> DEFINE names == file.names
             size == Cardinality(names)
             name == resolveProfile(r, file).name
  <1>1. names \subseteq Profiles /\ "" \notin names /\ IsFiniteSet(names)
    BY ConfigAssumption, FileFields, FS_Subset
  <1>2. /\ names = {} => size # 1
        /\ names # {} /\ size # 1 => size > 1
        /\ size = 1 => names = {CHOOSE n \in names : TRUE}
    BY <1>1, Sized
  <1> DEFINE Outcome ==
           /\ name \in names \cup {""}
           /\ Requested(r) # "" => name = Requested(r)
           /\ Requested(r) = "" /\ file.default # "" => name = file.default
           /\ Requested(r) = "" /\ file.default = "" /\ names = {} => name = ""
           /\ Requested(r) = "" /\ file.default = "" /\ size = 1 => names = {name}
           /\ Requested(r) = "" /\ file.default = "" /\ names # {} /\ size # 1 => name = "" /\ size > 1
           /\ name = "" /\ names # {} => connectionSettingsComplete(RootConfig(r, file))
  <1>3. SUFFICES Outcome OBVIOUS
  <1>4. CASE Requested(r) # ""
    <2>1. name = Requested(r) /\ name \in names BY <1>4 DEF resolveProfile
    <2> HIDE DEF name, names, size
    <2>2. QED BY <1>1, <1>4, <2>1
  <1>5. CASE Requested(r) = "" /\ file.default # ""
    <2>1. name = file.default /\ name \in names BY <1>5 DEF resolveProfile
    <2> HIDE DEF name, names, size
    <2>2. QED BY <1>1, <1>5, <2>1
  <1>6. CASE Requested(r) = "" /\ file.default = "" /\ names = {}
    <2>1. name = "" BY <1>6 DEF resolveProfile
    <2> HIDE DEF name, names, size
    <2>2. QED BY <1>2, <1>6, <2>1
  <1>7. CASE Requested(r) = "" /\ file.default = "" /\ names # {} /\ size = 1
    <2>1. name = CHOOSE n \in names : TRUE BY <1>7 DEF resolveProfile
    <2> HIDE DEF name, names, size
    <2>2. names = {name} /\ name # "" BY <1>1, <1>2, <1>7, <2>1
    <2>3. QED BY <1>7, <2>2
  <1>8. CASE Requested(r) = "" /\ file.default = "" /\ names # {} /\ size # 1
    <2>1. name = "" /\ connectionSettingsComplete(RootConfig(r, file)) BY <1>8 DEF resolveProfile
    <2> HIDE DEF name, names, size
    <2>2. QED BY <1>2, <1>8, <2>1
  <1>9. QED BY <1>4, <1>5, <1>6, <1>7, <1>8

LEMMA MergedTyped ==
    ASSUME NEW r \in RequestSet, NEW file \in Files, NEW profile \in Profiles \cup {""}
    PROVE  /\ Merged(r, file, profile) \in [Fields -> Text \cup {Unset}]
           /\ Merged(r, file, profile)["light_theme"] # "" /\ Merged(r, file, profile)["dark_theme"] # ""
  <1> DEFINE merged == Merged(r, file, profile)
  <1>1. merged = [f \in Fields |-> merged[f]]
    BY DEF Merged, applyOverrides
  <1>2. ASSUME NEW f \in Fields \ {"timeout"} PROVE merged[f] \in Text \cup {Unset}
    <2>1. merged[f] = Given(r, file, profile, WinningSource(r, file, profile, f), f) BY MergedAsSourced
    <2>2. Given(r, file, profile, WinningSource(r, file, profile, f), f) \in Text \cup {Unset}
      BY GivenTyped, SourceSets
    <2>3. QED BY <2>1, <2>2
  <1>3. merged["timeout"] = Defaults["timeout"]
    <2>1. "timeout" \in Fields /\ "timeout" \notin Variables /\ "timeout" \notin Pointers
      BY DEF Fields, Variables, Pointers, Switches
    <2> DEFINE root == applySettings(Defaults, file.root)
               above == applySettings(root, file.profiles[profile])
               named == IF profile = "" THEN root ELSE above
               seen == applyEnv(named, r.env)
    <2>2. root["timeout"] = Defaults["timeout"] BY <2>1 DEF applySettings
    <2>3. above["timeout"] = root["timeout"] BY <2>1 DEF applySettings
    <2> HIDE DEF root, above
    <2>4. named["timeout"] = Defaults["timeout"] BY <2>2, <2>3
    <2> HIDE DEF named
    <2>5. seen["timeout"] = named["timeout"] BY <2>1 DEF applyEnv
    <2> HIDE DEF seen
    <2>6. applyOverrides(seen, r.flags)["timeout"] = seen["timeout"] BY <2>1 DEF applyOverrides
    <2>7. merged = applyOverrides(seen, r.flags) BY DEF Merged, seen, named, above, root
    <2>8. QED BY <2>4, <2>5, <2>6, <2>7
  <1>4. Defaults["timeout"] \in Text
    BY ConfigAssumption DEF Defaults, Text, Fields, Switches, BuiltinThemes
  <1>5. \A f \in Fields : merged[f] \in Text \cup {Unset} BY <1>2, <1>3, <1>4
  <1>6. ASSUME NEW f \in {"light_theme", "dark_theme"} PROVE merged[f] # ""
    <2>1. f \in Fields \ {"timeout"} BY DEF Fields, Themed
    <2>2. merged[f] = Given(r, file, profile, WinningSource(r, file, profile, f), f) BY <2>1, MergedAsSourced
    <2>3. Given(r, file, profile, WinningSource(r, file, profile, f), f) # "" BY GivenFull
    <2>4. QED BY <2>2, <2>3
  <1> HIDE DEF merged
  <1>7. merged \in [Fields -> Text \cup {Unset}] BY <1>1, <1>5
  <1>8. QED BY <1>6, <1>7 DEF merged

LEMMA ResolvedFacts ==
    ASSUME NEW r \in RequestSet, ResolveConfig(r).state = "resolved"
    PROVE  LET file == loadFileConfig(r)
               name == resolveProfile(r, file).name
               merged == Merged(r, file, name)
               bundle == ResolveThemeBundle(merged, file.themes)
               c == ResolveConfig(r)
           IN  /\ resolveProfile(r, file).ok /\ bundle.ok
               /\ c.profile = name /\ c.by = profileResolution(r, file) /\ c.custom = file.themes
               /\ c.value = [merged EXCEPT !["light_theme"] = bundle.light, !["dark_theme"] = bundle.dark,
                                           !["timeout"] = resolveTimeout(r, file, name)]
               /\ c.catalog = bundle.catalog
               /\ c.inactive = warnInactiveBackendFields(r, file, name, merged)
               /\ c.source = [f \in Fields |-> WinningSource(r, file, name, f)]
  BY DEF ResolveConfig, Failed

LEMMA ResolveStates ==
    ASSUME NEW r
    PROVE  ResolveConfig(r).state \in {"failed", "resolved"}
  BY DEF ResolveConfig, Failed

\* The themes and the backend shown are those of the merge.
LEMMA ShownFields ==
    ASSUME NEW r \in RequestSet, ResolveConfig(r).state = "resolved"
    PROVE  LET file == loadFileConfig(r)
               c == ResolveConfig(r)
               merged == Merged(r, file, c.profile)
               again == ResolveThemeBundle(c.value, c.custom)
           IN  /\ \A f \in Fields \ {"timeout", "light_theme", "dark_theme"} : c.value[f] = merged[f]
               /\ c.value["timeout"] = resolveTimeout(r, file, c.profile)
               /\ c.value["theme"] # "" =>
                      /\ c.value["light_theme"] = c.value["theme"] /\ c.value["dark_theme"] = c.value["theme"]
                      /\ c.catalog = {c.value["theme"]}
               /\ c.value["theme"] = "" =>
                      /\ c.value["light_theme"] = merged["light_theme"]
                      /\ c.value["dark_theme"] = merged["dark_theme"]
                      /\ c.catalog = IF c.value["available_themes"] = Unset THEN BuiltinThemes \cup c.custom
                                     ELSE Listed[c.value["available_themes"]].ids
                                              \cup {c.value["light_theme"], c.value["dark_theme"]}
               /\ again.light = c.value["light_theme"] /\ again.dark = c.value["dark_theme"]
               /\ again.catalog = c.catalog
               /\ {again.light, again.dark} \subseteq c.catalog
               /\ c.profile \in Profiles \cup {""}
               /\ \A f \in Fields : c.source[f] = WinningSource(r, file, c.profile, f)
  <1> DEFINE file == loadFileConfig(r)
             c == ResolveConfig(r)
             name == resolveProfile(r, file).name
             merged == Merged(r, file, name)
             bundle == ResolveThemeBundle(merged, file.themes)
             t == resolveTimeout(r, file, name)
             again == ResolveThemeBundle(c.value, c.custom)
  <1>1. /\ resolveProfile(r, file).ok /\ bundle.ok /\ c.profile = name /\ c.custom = file.themes
        /\ c.value = [merged EXCEPT !["light_theme"] = bundle.light, !["dark_theme"] = bundle.dark,
                                    !["timeout"] = t]
        /\ c.catalog = bundle.catalog
    BY ResolvedFacts
  <1>2. \A f \in Fields : c.source[f] = WinningSource(r, file, c.profile, f)
    <2>1. c.source = [f \in Fields |-> WinningSource(r, file, name, f)] BY ResolvedFacts
    <2>2. c.profile = name BY <1>1
    <2> HIDE DEF c, name, file
    <2>3. QED BY <2>1, <2>2
  <1>3. file \in Files BY FileTyped
  <1>4. name \in Profiles \cup {""}
    <2>1. name \in file.names \cup {""} BY <1>1, <1>3, ChosenTyped
    <2>2. QED BY <1>3, <2>1, FileFields
  <1>5. /\ merged \in [Fields -> Text \cup {Unset}]
        /\ merged["light_theme"] # "" /\ merged["dark_theme"] # ""
    BY <1>3, <1>4, MergedTyped
  <1> HIDE DEF file, c, name, merged, t
  <1>6. {"light_theme", "dark_theme", "theme", "available_themes", "timeout"} \subseteq Fields
    BY DEF Fields, Themed
  <1> DEFINE light == bundle.light
             dark == bundle.dark
             kept == ResolveThemeBundle(c.value, file.themes)
  <1>7. /\ \A f \in Fields \ {"timeout", "light_theme", "dark_theme"} : c.value[f] = merged[f]
        /\ c.value["timeout"] = t /\ c.value["light_theme"] = light /\ c.value["dark_theme"] = dark
    <2>1. c.value = [merged EXCEPT !["light_theme"] = light, !["dark_theme"] = dark, !["timeout"] = t] BY <1>1
    <2> HIDE DEF light, dark
    <2>2. c.value["light_theme"] = light BY <1>5, <1>6, <2>1
    <2>3. c.value["dark_theme"] = dark BY <1>5, <1>6, <2>1
    <2>4. c.value["timeout"] = t BY <1>5, <1>6, <2>1
    <2>5. \A f \in Fields \ {"timeout", "light_theme", "dark_theme"} : c.value[f] = merged[f] BY <1>5, <2>1
    <2>6. QED BY <2>2, <2>3, <2>4, <2>5
  <1>8. c.value["theme"] = merged["theme"] /\ c.value["available_themes"] = merged["available_themes"]
    BY <1>6, <1>7
  <1>9. /\ kept.light = bundle.light /\ kept.dark = bundle.dark /\ kept.catalog = bundle.catalog
        /\ {bundle.light, bundle.dark} \subseteq bundle.catalog
        /\ merged["theme"] # "" => /\ bundle.light = merged["theme"] /\ bundle.dark = merged["theme"]
                                   /\ bundle.catalog = {merged["theme"]}
        /\ merged["theme"] = "" =>
               /\ bundle.light = merged["light_theme"] /\ bundle.dark = merged["dark_theme"]
               /\ bundle.catalog = IF merged["available_themes"] = Unset THEN BuiltinThemes \cup file.themes
                                   ELSE Listed[merged["available_themes"]].ids
                                            \cup {merged["light_theme"], merged["dark_theme"]}
    <2> DEFINE value == c.value
               custom == file.themes
    <2>1. /\ merged \in [Fields -> Text \cup {Unset}]
          /\ merged["light_theme"] # "" /\ merged["dark_theme"] # ""
          /\ ResolveThemeBundle(merged, custom).ok
          /\ value["light_theme"] = ResolveThemeBundle(merged, custom).light
          /\ value["dark_theme"] = ResolveThemeBundle(merged, custom).dark
          /\ value["theme"] = merged["theme"] /\ value["available_themes"] = merged["available_themes"]
      <3>1. ResolveThemeBundle(merged, custom).ok BY <1>1
      <3>2. QED BY ONLY <1>5, <1>7, <1>8, <3>1
    <2> HIDE DEF value, custom
    <2>2. QED BY ONLY <2>1, ThemesKept DEF value, custom
  <1>10. again = kept BY <1>1
  <1> HIDE DEF bundle, again, kept
  <1>11. /\ c.value["theme"] # "" =>
               /\ c.value["light_theme"] = c.value["theme"] /\ c.value["dark_theme"] = c.value["theme"]
               /\ c.catalog = {c.value["theme"]}
         /\ c.value["theme"] = "" =>
               /\ c.value["light_theme"] = merged["light_theme"] /\ c.value["dark_theme"] = merged["dark_theme"]
               /\ c.catalog = IF c.value["available_themes"] = Unset THEN BuiltinThemes \cup c.custom
                              ELSE Listed[c.value["available_themes"]].ids
                                       \cup {c.value["light_theme"], c.value["dark_theme"]}
    <2>1. /\ c.catalog = bundle.catalog /\ c.custom = file.themes
          /\ c.value["light_theme"] = bundle.light /\ c.value["dark_theme"] = bundle.dark
      BY <1>1, <1>7
    <2>2. CASE merged["theme"] # "" BY <2>1, <2>2, <1>8, <1>9
    <2>3. CASE merged["theme"] = ""
      <3>1. /\ c.value["light_theme"] = merged["light_theme"] /\ c.value["dark_theme"] = merged["dark_theme"]
        BY <2>1, <2>3, <1>9
      <3>2. c.catalog = IF merged["available_themes"] = Unset THEN BuiltinThemes \cup file.themes
                        ELSE Listed[merged["available_themes"]].ids
                                 \cup {merged["light_theme"], merged["dark_theme"]}
        BY <2>1, <2>3, <1>9
      <3>3. c.catalog = IF c.value["available_themes"] = Unset THEN BuiltinThemes \cup c.custom
                        ELSE Listed[c.value["available_themes"]].ids
                                 \cup {c.value["light_theme"], c.value["dark_theme"]}
        BY <2>1, <3>1, <3>2, <1>8
      <3>4. QED BY <2>3, <3>1, <3>3, <1>8
    <2>4. QED BY <2>2, <2>3
  <1>12. /\ again.light = c.value["light_theme"] /\ again.dark = c.value["dark_theme"]
         /\ again.catalog = c.catalog /\ {again.light, again.dark} \subseteq c.catalog
    <2>1. /\ c.catalog = bundle.catalog /\ again = kept
          /\ c.value["light_theme"] = bundle.light /\ c.value["dark_theme"] = bundle.dark
      BY <1>1, <1>7, <1>10
    <2>2. again.light = bundle.light /\ again.dark = bundle.dark /\ again.catalog = bundle.catalog
      BY <2>1, <1>9
    <2>3. {bundle.light, bundle.dark} \subseteq bundle.catalog BY <1>9
    <2>4. QED BY <2>1, <2>2, <2>3
  <1>13. QED BY <1>2, <1>1, <1>4, <1>7, <1>11, <1>12 DEF file, c, name, merged, t, again

(***************************************************************************)
(* The inductive invariant                                                 *)
(***************************************************************************)
\* The invocation as it was resolved: with the recorded profile, or as asked.
Running == IF inferred THEN RecordedRequest(asked) ELSE asked

Made ==
    /\ config.state = "resolved" /\ ~ManifestRefused /\ ~FlagsRefused
    /\ \/ client = New(config)
       \/ /\ New(config).state = "local" /\ Validate(config)
          /\ client = [New(config) EXCEPT !.state = "ready"]

ConfigInv ==
    /\ asked \in Requests /\ inferred \in BOOLEAN
    /\ inferred => UsesRecorded(asked)
    /\ config = NoConfig => ~inferred
    /\ config = NoConfig \/ config = ResolveConfig(Running)
    /\ client = NoClient \/ client = Refused \/ Made

LEMMA NoneMade ==
    NoClient.state = "none" /\ Refused.state = "refused" /\ Refused.state # "none"
  <1>1. NoClient.state = "none" BY DEF NoClient
  <1>2. Refused.state = "refused" BY DEF Refused, NoClient
  <1>3. QED BY <1>1, <1>2

LEMMA InitInv == ConfigInit => ConfigInv
  BY DEF ConfigInit, ConfigInv

LEMMA StepInv == ConfigInv /\ [ConfigNext]_configVars => ConfigInv'
  <1> SUFFICES ASSUME ConfigInv, [ConfigNext]_configVars PROVE ConfigInv'
    OBVIOUS
  <1>1. CASE LoadConfig
    <2>1. config = NoConfig /\ ~inferred
      <3>1. ResolveConfig(Running).state # "none" BY ResolveStates
      <3>2. QED BY <1>1, <3>1 DEF ConfigInv, LoadConfig
    <2>2. asked' = asked /\ inferred' = inferred /\ client' = client BY <1>1 DEF LoadConfig
    <2>3. config' = ResolveConfig(Running)' BY <1>1, <2>1, <2>2 DEF LoadConfig, Running
    <2>4. client = NoClient \/ client = Refused BY <2>1 DEF ConfigInv, Made, NoConfig
    <2>5. QED BY <2>1, <2>2, <2>3, <2>4 DEF ConfigInv
  <1>2. CASE LoadTargetConfig
    <2>1. config = NoConfig
      <3>1. ResolveConfig(Running).state # "none" BY ResolveStates
      <3>2. QED BY <1>2, <3>1 DEF ConfigInv, LoadTargetConfig
    <2>2. asked' = asked /\ inferred' = UsesRecorded(asked) /\ client' = client BY <1>2 DEF LoadTargetConfig
    <2>3. config' = ResolveConfig(Running)' BY <1>2, <2>2 DEF LoadTargetConfig, Running
    <2>4. client = NoClient \/ client = Refused BY <2>1 DEF ConfigInv, Made, NoConfig
    <2>5. UsesRecorded(asked) \in BOOLEAN BY DEF UsesRecorded, inferManifestProfile
    <2>6. config' # NoConfig
      <3>1. \A r : ResolveConfig(r).state # "none" BY ResolveStates
      <3>2. config'.state # "none" BY <1>2, <3>1 DEF LoadTargetConfig
      <3>3. QED BY <3>2 DEF NoConfig
    <2>7. QED BY <2>2, <2>3, <2>4, <2>5, <2>6 DEF ConfigInv
  <1>3. CASE NewClient
    <2>1. asked' = asked /\ inferred' = inferred /\ config' = config BY <1>3 DEF NewClient
    <2>2. Running' = Running BY <2>1 DEF Running
    <2>3. client' = Refused \/ Made'
      <3>1. CASE ManifestRefused \/ FlagsRefused BY <1>3, <3>1 DEF NewClient
      <3>2. CASE ~(ManifestRefused \/ FlagsRefused)
        <4>1. client' = New(config) /\ config.state = "resolved" BY <1>3, <3>2 DEF NewClient
        <4>2. (~ManifestRefused)' /\ (~FlagsRefused)' BY <2>1, <3>2 DEF ManifestRefused, FlagsRefused
        <4>3. QED BY <2>1, <4>1, <4>2 DEF Made
      <3>3. QED BY <3>1, <3>2
    <2>4. QED BY <2>1, <2>2, <2>3 DEF ConfigInv
  <1>4. CASE EnsureStorage
    <2>1. /\ asked' = asked /\ inferred' = inferred /\ config' = config
          /\ client.state = "local" /\ Validate(config) /\ client' = [client EXCEPT !.state = "ready"]
      BY <1>4 DEF EnsureStorage
    <2>2. Running' = Running BY <2>1 DEF Running
    <2>3. Made /\ client = New(config)
      <3>1. client # NoClient /\ client # Refused BY <2>1, NoneMade
      <3>2. [New(config) EXCEPT !.state = "ready"].state # "local"
        BY DEF New, Refused, NoClient
      <3>3. QED BY <2>1, <3>1, <3>2 DEF ConfigInv, Made
    <2>4. (~ManifestRefused)' /\ (~FlagsRefused)' BY <2>1, <2>3 DEF Made, ManifestRefused, FlagsRefused
    <2>5. Made' BY <2>1, <2>3, <2>4 DEF Made
    <2>6. QED BY <2>1, <2>2, <2>5 DEF ConfigInv
  <1>5. CASE UNCHANGED configVars
    <2>1. asked' = asked /\ inferred' = inferred /\ config' = config /\ client' = client
      BY <1>5 DEF configVars
    <2>2. Running' = Running BY <2>1 DEF Running
    <2>3. Made => Made' BY <2>1 DEF Made, ManifestRefused, FlagsRefused
    <2>4. QED BY <2>1, <2>2, <2>3 DEF ConfigInv
  <1>6. QED BY <1>1, <1>2, <1>3, <1>4, <1>5 DEF ConfigNext

(***************************************************************************)
(* What is shown                                                           *)
(***************************************************************************)
\* What is known of the invocation as it was resolved.
LEMMA RunningFacts ==
    ASSUME ConfigInv
    PROVE  /\ Running \in RequestSet /\ asked \in RequestSet /\ loadFileConfig(Running) = Used
           /\ Running.flags = asked.flags /\ Running.env = asked.env
           /\ Running.profileVariable = asked.profileVariable
           /\ Running.profile = IF inferred THEN asked.recorded ELSE asked.profile
           /\ Used \in Files
  <1>1. asked \in RequestSet BY ConfigAssumption DEF ConfigInv
  <1>2. Used \in Files BY <1>1, FileTyped DEF Used
  <1>3. CASE inferred
    <2>1. Running = RecordedRequest(asked) BY <1>3 DEF Running
    <2>2. QED BY <1>1, <1>2, <1>3, <2>1, RecordedTyped DEF Used
  <1>4. CASE ~inferred
    <2>1. Running = asked BY <1>4 DEF Running
    <2>2. QED BY <1>1, <1>2, <1>4, <2>1 DEF Used
  <1>5. QED BY <1>3, <1>4

LEMMA ResolvedHere ==
    ASSUME ConfigInv, Resolved
    PROVE  config = ResolveConfig(Running) /\ ResolveConfig(Running).state = "resolved"
  BY DEF ConfigInv, Resolved, NoConfig

LEMMA SameSources ==
    ASSUME ConfigInv, NEW layer, NEW f \in Fields
    PROVE  Sets(asked, Used, config.profile, layer, f) <=> Sets(Running, Used, config.profile, layer, f)
  BY RunningFacts DEF Sets

LEMMA GivesIsGiven ==
    ASSUME ConfigInv, NEW layer, NEW f \in Fields, NEW v
    PROVE  Gives(layer, f, v) <=> v = Given(Running, Used, config.profile, layer, f)
  BY RunningFacts DEF Gives, Given, Stated

LEMMA SourceHere ==
    ASSUME ConfigInv, Resolved, NEW f \in Fields
    PROVE  /\ config.source[f] = WinningSource(Running, Used, config.profile, f)
           /\ config.source[f] \in Layers \cup {"none"}
           /\ config.source[f] # "none" => Sets(Running, Used, config.profile, config.source[f], f)
           /\ config.source[f] = "none" => f \notin WithDefault
           /\ \A above \in Above(config.source[f]) : ~Sets(asked, Used, config.profile, above, f)
  <1>1. /\ config = ResolveConfig(Running) /\ ResolveConfig(Running).state = "resolved"
        /\ Running \in RequestSet /\ loadFileConfig(Running) = Used
    BY ResolvedHere, RunningFacts
  <1>2. config.source[f] = WinningSource(Running, Used, config.profile, f)
    BY <1>1, ShownFields
  <1>3. QED BY <1>2, SourceSets, SameSources

\* Every value that no forced theme replaced is the one its source gives.
LEMMA ValueHere ==
    ASSUME ConfigInv, Resolved, NEW f \in Fields,
           config.value["theme"] # "" => f \notin {"light_theme", "dark_theme"}
    PROVE  Gives(config.source[f], f, config.value[f])
  <1> DEFINE merged == Merged(Running, Used, config.profile)
  <1>1. /\ config = ResolveConfig(Running) /\ ResolveConfig(Running).state = "resolved"
        /\ Running \in RequestSet /\ loadFileConfig(Running) = Used /\ Used \in Files
    BY ResolvedHere, RunningFacts
  <1>2. /\ \A g \in Fields \ {"timeout", "light_theme", "dark_theme"} : config.value[g] = merged[g]
        /\ config.value["timeout"] = resolveTimeout(Running, Used, config.profile)
        /\ config.value["theme"] = "" => /\ config.value["light_theme"] = merged["light_theme"]
                                         /\ config.value["dark_theme"] = merged["dark_theme"]
        /\ config.profile \in Profiles \cup {""}
    BY <1>1, ShownFields
  <1> HIDE DEF merged
  <1>3. config.source[f] = WinningSource(Running, Used, config.profile, f) BY SourceHere
  <1>4. config.value[f] = Given(Running, Used, config.profile, config.source[f], f)
    <2>1. CASE f = "timeout" BY <1>1, <1>2, <1>3, <2>1, TimeoutAsSourced
    <2>2. CASE f # "timeout"
      <3>1. config.value[f] = merged[f] BY <1>2, <2>2
      <3>2. f \in Fields \ {"timeout"} BY <2>2
      <3>3. merged[f] = Given(Running, Used, config.profile, WinningSource(Running, Used, config.profile, f), f)
        BY <1>1, <1>2, <3>2, MergedAsSourced DEF merged
      <3>4. QED BY <1>3, <3>1, <3>3
    <2>3. QED BY <2>1, <2>2
  <1>5. QED BY <1>4, GivesIsGiven

LEMMA ThemesHere ==
    ASSUME ConfigInv, Resolved
    PROVE  /\ config.value["theme"] # "" =>
                  /\ config.value["light_theme"] = config.value["theme"]
                  /\ config.value["dark_theme"] = config.value["theme"]
                  /\ config.catalog = {config.value["theme"]}
           /\ config.value["theme"] = "" =>
                  config.catalog = IF config.value["available_themes"] = Unset
                                   THEN BuiltinThemes \cup config.custom
                                   ELSE Listed[config.value["available_themes"]].ids
                                            \cup {config.value["light_theme"], config.value["dark_theme"]}
  <1>1. /\ config = ResolveConfig(Running) /\ ResolveConfig(Running).state = "resolved"
        /\ Running \in RequestSet
    BY ResolvedHere, RunningFacts
  <1>2. QED BY <1>1, ShownFields

\* A catalog that some layer lists is a text of that layer; the built-in one is unset.
LEMMA CatalogSource ==
    ASSUME ConfigInv, Resolved
    PROVE  LET f == "available_themes" IN
           /\ f \in Fields
           /\ config.source[f] = "builtin" => config.value[f] = Unset
           /\ config.source[f] # "builtin" => config.value[f] \in Text
  <1> DEFINE f == "available_themes"
             layer == config.source[f]
             v == config.value[f]
  <1>1. /\ f \in Fields /\ f \in WithDefault /\ f \notin WithVariable /\ f \in Pointers
        /\ f \notin Refilled \cup {"timeout"} /\ Defaults[f] = Unset
    BY DEF Fields, WithDefault, WithVariable, Pointers, Themed, Switches, Refilled, Defaults
  <1>2. /\ layer \in Layers \cup {"none"} /\ layer # "none"
        /\ Sets(Running, Used, config.profile, layer, f)
    BY <1>1, SourceHere
  <1>3. v = Given(Running, Used, config.profile, layer, f)
    <2>1. Gives(layer, f, v)
      <3>1. f \notin {"light_theme", "dark_theme"} OBVIOUS
      <3>2. QED BY <1>1, <3>1, ValueHere
    <2>2. QED BY <1>1, <2>1, GivesIsGiven
  <1>4. v \in Text \cup {Unset}
    <2>1. Running \in RequestSet /\ Used \in Files /\ config.profile \in Profiles \cup {""}
      BY ResolvedHere, RunningFacts, ShownFields
    <2> HIDE DEF layer, v, f
    <2>2. Given(Running, Used, config.profile, layer, f) \in Text \cup {Unset}
      BY <1>1, <1>2, <2>1, GivenTyped
    <2>3. QED BY <1>3, <2>2
  <1> HIDE DEF f, layer, v
  <1>5. layer = "builtin" => v = Unset BY <1>1, <1>3 DEF Given
  <1>6. layer # "builtin" => v # Unset
    BY <1>1, <1>2, <1>3 DEF Given, Stated, Sets, Layers, configOverrideIsSet
  <1>7. QED BY <1>1, <1>4, <1>5, <1>6 DEF f, layer, v

LEMMA ShownTrueHolds == ASSUME ConfigInv PROVE ShownTrue
  <1> DEFINE True(f) ==
           LET shown == configDisplayFields(config)[f] IN
           /\ shown.layer # "inferred" =>
                  \A above \in Above(shown.layer) : ~Sets(asked, Used, config.profile, above, shown.field)
           /\ f # "available_themes" => Gives(shown.layer, shown.field, config.value[f])
           /\ f = "available_themes" =>
                  /\ shown.field = "theme" => config.catalog = {config.value["theme"]}
                  /\ shown.layer = "inferred" =>
                         /\ Gives(config.source[f], f, config.value[f])
                         /\ config.catalog = Listed[config.value[f]].ids
                                                 \cup {config.value["light_theme"], config.value["dark_theme"]}
                  /\ shown.field = f /\ shown.layer = "builtin" => config.catalog = BuiltinThemes \cup config.custom
                  /\ shown.field = f /\ shown.layer \notin {"inferred", "builtin"} =>
                         \E v \in Text : Gives(shown.layer, f, v) /\ config.catalog = Listed[v].ids
  <1>1. SUFFICES ASSUME Resolved, NEW f \in Fields PROVE True(f)
    BY DEF ShownTrue
  <1> DEFINE shown == configDisplayFields(config)[f]
             forced == config.value["theme"] # "" /\ f \in Themed
             short == /\ f = "available_themes" /\ config.value[f] # Unset
                      /\ Listed[config.value[f]].ids # config.catalog
  <1>2. /\ forced => shown = From(config.source["theme"], "theme")
        /\ ~forced /\ short => shown = From("inferred", f)
        /\ ~forced /\ ~short => shown = From(config.source[f], f)
    BY DEF configDisplayFields
  <1>3. \A layer, g : From(layer, g).layer = layer /\ From(layer, g).field = g
    BY DEF From
  <1>4. "theme" \in Fields /\ "theme" \in Themed /\ {"light_theme", "dark_theme", "available_themes"} \subseteq Themed
    BY DEF Fields, Themed
  <1>5. "inferred" \notin Layers \cup {"none"} BY DEF Layers
  <1> HIDE DEF shown, forced, short
  <1>6. CASE forced
    <2>1. /\ shown.layer = config.source["theme"] /\ shown.field = "theme" /\ shown.layer # "inferred"
          /\ config.value["theme"] # ""
      <3>1. shown.layer = config.source["theme"] /\ shown.field = "theme" BY <1>2, <1>3, <1>6
      <3>2. config.source["theme"] \in Layers \cup {"none"} BY <1>1, <1>4, SourceHere
      <3>3. QED BY <1>5, <1>6, <3>1, <3>2 DEF forced
    <2>2. \A above \in Above(shown.layer) : ~Sets(asked, Used, config.profile, above, shown.field)
      BY <1>1, <1>4, <2>1, SourceHere
    <2>3. Gives(shown.layer, shown.field, config.value["theme"])
      <3>1. "theme" \notin {"light_theme", "dark_theme"} OBVIOUS
      <3>2. QED BY <1>1, <1>4, <2>1, <3>1, ValueHere
    <2>4. config.value[f] = config.value["theme"] \/ f = "available_themes"
      BY <1>1, <1>6, <2>1, ThemesHere DEF forced, Themed
    <2>5. config.catalog = {config.value["theme"]} BY <1>1, <2>1, ThemesHere
    <2>6. f = "available_themes" => shown.field # f BY <2>1
    <2>7. QED BY <2>1, <2>2, <2>3, <2>4, <2>5, <2>6 DEF shown
  <1>7. CASE ~forced /\ short
    <2>1. shown.layer = "inferred" /\ shown.field = f /\ f = "available_themes" /\ config.value[f] # Unset
      BY <1>2, <1>3, <1>7 DEF short
    <2>2. config.value["theme"] = "" BY <1>4, <1>7, <2>1 DEF forced
    <2>3. Gives(config.source[f], f, config.value[f])
      BY <1>1, <2>2, ValueHere
    <2>4. config.catalog = Listed[config.value[f]].ids
                               \cup {config.value["light_theme"], config.value["dark_theme"]}
      BY <1>1, <2>1, <2>2, ThemesHere
    <2>5. f # "theme" BY <2>1
    <2>6. QED BY <2>1, <2>3, <2>4, <2>5 DEF shown
  <1>8. CASE ~forced /\ ~short
    <2>1. shown.layer = config.source[f] /\ shown.field = f /\ shown.layer # "inferred"
      <3>1. shown.layer = config.source[f] /\ shown.field = f BY <1>2, <1>3, <1>8
      <3>2. config.source[f] \in Layers \cup {"none"} BY <1>1, SourceHere
      <3>3. QED BY <1>5, <3>1, <3>2
    <2>2. \A above \in Above(shown.layer) : ~Sets(asked, Used, config.profile, above, shown.field)
      BY <1>1, <2>1, SourceHere
    <2>3. Gives(shown.layer, shown.field, config.value[f])
      <3>1. config.value["theme"] # "" => f \notin {"light_theme", "dark_theme"} BY <1>4, <1>8 DEF forced
      <3>2. QED BY <1>1, <2>1, <3>1, ValueHere
    <2>4. CASE f # "available_themes" BY <2>1, <2>2, <2>3, <2>4 DEF shown
    <2>5. CASE f = "available_themes"
      <3>1. config.value["theme"] = "" BY <1>4, <1>8, <2>5 DEF forced
      <3>2. shown.layer = "builtin" => config.catalog = BuiltinThemes \cup config.custom
        <4>1. config.source[f] = "builtin" => config.value[f] = Unset BY <1>1, <2>5, CatalogSource
        <4>2. QED BY <1>1, <2>1, <2>5, <3>1, <4>1, ThemesHere
      <3>3. shown.layer # "builtin" =>
                \E v \in Text : Gives(shown.layer, f, v) /\ config.catalog = Listed[v].ids
        <4>1. config.source[f] # "builtin" => config.value[f] \in Text BY <1>1, <2>5, CatalogSource
        <4>2. config.value[f] # Unset => Listed[config.value[f]].ids = config.catalog BY <1>8, <2>5 DEF short
        <4>3. Unset \notin Text BY ConfigAssumption DEF Text, Unset
        <4>4. QED BY <2>1, <2>3, <4>1, <4>2, <4>3
      <3>4. f # "theme" BY <2>5
      <3>5. QED BY <2>1, <2>2, <2>5, <3>2, <3>3, <3>4 DEF shown
    <2>6. QED BY <2>4, <2>5
  <1>9. QED BY <1>6, <1>7, <1>8

\* The root values looked at for the choice of a profile are those of the merge.
LEMMA RootsAgree ==
    ASSUME NEW r \in RequestSet, NEW file \in Files,
           NEW f \in {"backend", "endpoint", "bucket", "api_url", "api_token"}
    PROVE  RootConfig(r, file)[f] = Merged(r, file, "")[f]
  <1> DEFINE empty == [g \in Fields |-> IF g \in {"backend", "region"} THEN Defaults[g] ELSE ""]
             bare == applySettings(empty, file.root)
             seen == applyEnv(bare, r.env)
             root == applySettings(Defaults, file.root)
             merged == applyEnv(root, r.env)
  <1>1. f \in Fields \ {"timeout"} BY DEF Fields
  <1>2. empty[f] = Defaults[f]
    BY <1>1 DEF Defaults, Switches
  <1>3. /\ file.root \in Layer /\ r.env \in Environment /\ r.flags \in Overrides
    BY AskedTyped, FileFields
  <1> HIDE DEF empty
  <1>4. bare[f] = root[f]
    <2>1. bare[f] = IF file.root[f] = Unset THEN empty[f] ELSE Stated(f, file.root[f])
      BY <1>1, <1>3, SettingsAt
    <2>2. root[f] = IF file.root[f] = Unset THEN Defaults[f] ELSE Stated(f, file.root[f])
      BY <1>1, <1>3, SettingsAt
    <2> HIDE DEF bare, root
    <2>3. QED BY <1>2, <2>1, <2>2
  <1> HIDE DEF bare, root
  <1>5. seen[f] = merged[f]
    <2>1. seen[f] = IF f \in WithVariable /\ r.env[f] # "" THEN r.env[f] ELSE bare[f]
      BY <1>1, <1>3, VariablesAt
    <2>2. merged[f] = IF f \in WithVariable /\ r.env[f] # "" THEN r.env[f] ELSE root[f]
      BY <1>1, <1>3, VariablesAt
    <2> HIDE DEF seen, merged
    <2>3. QED BY <1>4, <2>1, <2>2
  <1> HIDE DEF seen, merged
  <1>6. applyOverrides(seen, r.flags)[f] = applyOverrides(merged, r.flags)[f]
    <2>1. \A cfg : applyOverrides(cfg, r.flags)[f] = IF configOverrideIsSet(r.flags, f) THEN r.flags[f] ELSE cfg[f]
      BY <1>1, <1>3, OverridesAt
    <2>2. QED BY <1>5, <2>1
  <1>7. RootConfig(r, file) = applyOverrides(seen, r.flags) BY DEF RootConfig, seen, bare, empty
  <1>8. Merged(r, file, "") = applyOverrides(merged, r.flags) BY DEF Merged, merged, root
  <1>9. QED BY <1>6, <1>7, <1>8

LEMMA RootComplete ==
    ASSUME NEW r \in RequestSet, NEW file \in Files, connectionSettingsComplete(RootConfig(r, file)), NEW cfg,
           \A f \in {"backend", "endpoint", "bucket", "api_url", "api_token"} : cfg[f] = Merged(r, file, "")[f]
    PROVE  MissingFields(cfg) = {}
  <1> DEFINE root == RootConfig(r, file)
  <1>1. \A f \in {"backend", "endpoint", "bucket", "api_url", "api_token"} : cfg[f] = root[f]
    BY RootsAgree
  <1>2. connectionSettingsComplete(root) OBVIOUS
  <1> HIDE DEF root
  <1>3. EffectiveBackend(cfg) = EffectiveBackend(root) BY <1>1 DEF EffectiveBackend
  <1>4. \A b : RequiredFields(b) \subseteq {"endpoint", "bucket", "api_url", "api_token"} BY DEF RequiredFields
  <1>5. QED BY <1>1, <1>2, <1>3, <1>4 DEF MissingFields, connectionSettingsComplete

LEMMA ProfileSettledHolds == ASSUME ConfigInv PROVE ProfileSettled
  <1> DEFINE Decided ==
       CASE config.by = "--profile" -> config.profile = IF inferred THEN asked.recorded ELSE asked.profile
         [] config.by = "AIRPLAN_PROFILE" -> config.profile = asked.profileVariable
         [] config.by = "default_profile" -> config.profile = Used.default
         [] config.by = "single named profile" -> Used.names = {config.profile}
         [] config.by = "no named profiles" -> Used.names = {}
         [] OTHER -> config.profile = "" /\ Cardinality(Used.names) > 1
  <1>1. SUFFICES ASSUME Resolved
                 PROVE  /\ config.profile # "" => config.profile \in Used.names
                        /\ ~inferred /\ Requested(asked) # "" => config.profile = Requested(asked)
                        /\ inferred => config.profile = asked.recorded
                        /\ config.profile = "" /\ Used.names # {} => MissingFields(config.value) = {}
                        /\ Decided
    BY DEF ProfileSettled
  <1>2. /\ config = ResolveConfig(Running) /\ ResolveConfig(Running).state = "resolved"
        /\ Running \in RequestSet /\ loadFileConfig(Running) = Used /\ Used \in Files
        /\ Running.profileVariable = asked.profileVariable
        /\ Running.profile = IF inferred THEN asked.recorded ELSE asked.profile
    BY <1>1, ResolvedHere, RunningFacts
  <1>3. /\ resolveProfile(Running, Used).ok /\ config.profile = resolveProfile(Running, Used).name
        /\ config.by = profileResolution(Running, Used)
    BY <1>2, ResolvedFacts
  <1>4. /\ config.profile \in Used.names \cup {""}
        /\ Requested(Running) # "" => config.profile = Requested(Running)
        /\ Requested(Running) = "" /\ Used.default # "" => config.profile = Used.default
        /\ Requested(Running) = "" /\ Used.default = "" /\ Cardinality(Used.names) = 1
             => Used.names = {config.profile}
        /\ Requested(Running) = "" /\ Used.default = "" /\ Used.names # {} /\ Cardinality(Used.names) # 1
             => config.profile = "" /\ Cardinality(Used.names) > 1
        /\ config.profile = "" /\ Used.names # {} => connectionSettingsComplete(RootConfig(Running, Used))
    <2> DEFINE name == resolveProfile(Running, Used).name
    <2>1. Running \in RequestSet /\ Used \in Files /\ resolveProfile(Running, Used).ok BY <1>2, <1>3
    <2>2. /\ name \in Used.names \cup {""}
          /\ Requested(Running) # "" => name = Requested(Running)
          /\ Requested(Running) = "" /\ Used.default # "" => name = Used.default
          /\ Requested(Running) = "" /\ Used.default = "" /\ Cardinality(Used.names) = 1 => Used.names = {name}
          /\ Requested(Running) = "" /\ Used.default = "" /\ Used.names # {} /\ Cardinality(Used.names) # 1
               => name = "" /\ Cardinality(Used.names) > 1
          /\ name = "" /\ Used.names # {} => connectionSettingsComplete(RootConfig(Running, Used))
      BY ONLY <2>1, ChosenTyped
    <2>3. config.profile = name BY <1>3
    <2> HIDE DEF name
    <2>4. QED BY ONLY <2>2, <2>3
  <1>5. ASSUME inferred PROVE asked.recorded # "" /\ asked.recorded # Unset
    <2>1. inferManifestProfile(asked) BY <1>5 DEF ConfigInv, UsesRecorded
    <2>2. asked.recorded \in Profiles \cup {""} BY RunningFacts, AskedTyped
    <2>3. QED BY <2>1, <2>2, ConfigAssumption DEF inferManifestProfile
  <1>6. inferred => Flagged(Running) = asked.recorded /\ Requested(Running) = asked.recorded
    BY <1>2, <1>5 DEF Flagged, Requested
  <1>7. ~inferred => Requested(Running) = Requested(asked)
    BY <1>2 DEF Flagged, Requested
  <1>8. config.profile = "" /\ Used.names # {} => MissingFields(config.value) = {}
    <2>1. SUFFICES ASSUME config.profile = "", Used.names # {} PROVE MissingFields(config.value) = {}
      OBVIOUS
    <2>2. \A f \in Fields \ {"timeout", "light_theme", "dark_theme"} :
               config.value[f] = Merged(Running, Used, config.profile)[f]
      BY <1>2, ShownFields
    <2>3. {"backend", "endpoint", "bucket", "api_url", "api_token"}
              \subseteq Fields \ {"timeout", "light_theme", "dark_theme"}
      BY DEF Fields
    <2>4. \A f \in {"backend", "endpoint", "bucket", "api_url", "api_token"} :
               config.value[f] = Merged(Running, Used, "")[f]
      BY <2>1, <2>2, <2>3
    <2>5. connectionSettingsComplete(RootConfig(Running, Used)) BY <1>4, <2>1
    <2>6. QED BY <1>2, <2>4, <2>5, RootComplete
  <1>9. Decided
    <2>1. CASE Flagged(Running) # ""
      <3>1. config.by = "--profile" BY <1>3, <2>1 DEF profileResolution, Requested
      <3>2. config.profile = Flagged(Running) BY <1>4, <2>1 DEF Requested
      <3>3. config.profile = IF inferred THEN asked.recorded ELSE asked.profile
        BY <1>2, <2>1, <3>2 DEF Flagged
      <3>4. QED BY <3>1, <3>3
    <2>2. CASE Flagged(Running) = "" /\ Running.profileVariable # ""
      <3>1. config.by = "AIRPLAN_PROFILE" BY <1>3, <2>2 DEF profileResolution, Requested
      <3>2. config.profile = asked.profileVariable BY <1>2, <1>4, <2>2 DEF Requested
      <3>3. QED BY <3>1, <3>2
    <2>3. CASE Flagged(Running) = "" /\ Running.profileVariable = "" /\ Used.default # ""
      <3>1. Requested(Running) = "" BY <2>3 DEF Requested
      <3>2. config.by = "default_profile" BY <1>3, <2>3, <3>1 DEF profileResolution
      <3>3. QED BY <1>4, <2>3, <3>1, <3>2
    <2>4. CASE Flagged(Running) = "" /\ Running.profileVariable = "" /\ Used.default = ""
      <3>1. Requested(Running) = "" BY <2>4 DEF Requested
      <3>2. CASE Cardinality(Used.names) = 1
        <4>1. Used.names = {config.profile} BY <1>4, <2>4, <3>1, <3>2
        <4>2. config.by = "single named profile"
          BY <1>3, <2>4, <3>1, <3>2, <4>1 DEF profileResolution
        <4>3. QED BY <4>1, <4>2
      <3>3. CASE Cardinality(Used.names) # 1 /\ Used.names = {}
        <4>1. config.by = "no named profiles" BY <1>3, <2>4, <3>1, <3>3 DEF profileResolution
        <4>2. QED BY <3>3, <4>1
      <3>4. CASE Cardinality(Used.names) # 1 /\ Used.names # {}
        <4>1. config.by = "complete root-level resolution"
          BY <1>3, <2>4, <3>1, <3>4 DEF profileResolution
        <4>2. QED BY <1>4, <2>4, <3>1, <3>4, <4>1
      <3>5. QED BY <3>2, <3>3, <3>4
    <2>5. QED BY <2>1, <2>2, <2>3, <2>4
  <1>10. QED BY <1>4, <1>5, <1>6, <1>7, <1>8, <1>9

LEMMA NoRedirectHolds == ASSUME ConfigInv PROVE NoRedirect
  <1>1. SUFFICES ASSUME Resolved, inferred PROVE EffectiveBackend(config.value) = "s3"
    BY DEF NoRedirect
  <1>2. config = ResolveConfig(RecordedRequest(asked)) BY <1>1, ResolvedHere DEF Running
  <1>3. UsesRecorded(asked) BY <1>1 DEF ConfigInv
  <1>4. QED BY <1>1, <1>2, <1>3 DEF UsesRecorded, Resolved

LEMMA InactiveHolds == ASSUME ConfigInv PROVE InactiveTrue
  <1>1. SUFFICES ASSUME Resolved
                 PROVE  config.inactive = {f \in Inactive(EffectiveBackend(config.value)) :
                                               \/ config.source[f] \in {"override", "env", "profile"}
                                               \/ config.source[f] = "root" /\ config.profile = ""}
    BY DEF InactiveTrue
  <1> DEFINE merged == Merged(Running, Used, config.profile)
  <1>2. /\ config = ResolveConfig(Running) /\ ResolveConfig(Running).state = "resolved"
        /\ Running \in RequestSet /\ loadFileConfig(Running) = Used
    BY <1>1, ResolvedHere, RunningFacts
  <1>3. config.inactive = warnInactiveBackendFields(Running, Used, config.profile, merged)
    BY <1>2, ResolvedFacts
  <1>4. config.value["backend"] = merged["backend"]
    <2>1. "backend" \in Fields \ {"timeout", "light_theme", "dark_theme"} BY DEF Fields
    <2>2. QED BY <1>2, <2>1, ShownFields
  <1>5. EffectiveBackend(config.value) = EffectiveBackend(merged) BY <1>4 DEF EffectiveBackend
  <1>6. \A b : Inactive(b) \subseteq Fields BY DEF Inactive, Fields, Themed
  <1>7. ASSUME NEW f \in Fields
        PROVE  configFieldExplicitForSelection(Running, Used, config.profile, f) <=>
                   \/ config.source[f] \in {"override", "env", "profile"}
                   \/ config.source[f] = "root" /\ config.profile = ""
    <2>1. config.source[f] = WinningSource(Running, Used, config.profile, f) BY <1>1, SourceHere
    <2>2. QED BY <2>1 DEF WinningSource, Sets, configFieldExplicitForSelection
  <1> HIDE DEF merged
  <1>8. QED BY <1>3, <1>5, <1>6, <1>7 DEF warnInactiveBackendFields

LEMMA ClientHolds == ASSUME ConfigInv PROVE ClientAsShown
  <1>1. CASE client = NoClient \/ client = Refused
    <2>1. client.state \in {"none", "refused"} BY <1>1, NoneMade
    <2>2. QED BY <2>1 DEF ClientAsShown
  <1>2. CASE Made
    <2> DEFINE again == ResolveThemeBundle(config.value, config.custom)
               new == New(config)
    <2>1. Resolved BY <1>2 DEF Made, Resolved
    <2>2. /\ again.light = config.value["light_theme"] /\ again.dark = config.value["dark_theme"]
          /\ again.catalog = config.catalog /\ {again.light, again.dark} \subseteq config.catalog
      <3>1. /\ config = ResolveConfig(Running) /\ ResolveConfig(Running).state = "resolved"
            /\ Running \in RequestSet
        BY <2>1, ResolvedHere, RunningFacts
      <3>2. QED BY <3>1, ShownFields
    <2>3. new.state = "local" => /\ new.light = again.light /\ new.dark = again.dark
                                 /\ new.catalog = again.catalog
                                 /\ EffectiveBackend(config.value) # "airplan"
                                 /\ new \in [state : {"local"}, light : {again.light}, dark : {again.dark},
                                             catalog : {again.catalog}]
      BY NoneMade DEF New, NoClient
    <2>4. new.state = "remote" => Validate(config) /\ EffectiveBackend(config.value) = "airplan"
      BY NoneMade DEF New
    <2>5. new.state \in {"local", "remote", "refused"}
      BY NoneMade DEF New, NoClient
    <2> HIDE DEF again, new
    <2>6. /\ client.state \in {"local", "ready"} =>
                 /\ new.state = "local" /\ client.light = new.light /\ client.dark = new.dark
                 /\ client.catalog = new.catalog
          /\ client.state = "ready" => Validate(config)
          /\ client.state = "remote" => new.state = "remote"
      <3>1. CASE client = new BY <2>5, <3>1
      <3>2. CASE new.state = "local" /\ Validate(config) /\ client = [new EXCEPT !.state = "ready"]
        <4>1. client.state = "ready" /\ client.light = new.light /\ client.dark = new.dark
              /\ client.catalog = new.catalog
          BY <2>3, <3>2
        <4>2. QED BY <3>2, <4>1
      <3>3. QED BY <1>2, <3>1, <3>2 DEF Made, new
    <2>7. Validate(config) => EffectiveBackend(config.value) \in {"s3", "airplan"} /\ MissingFields(config.value) = {}
      BY DEF Validate
    <2>8. client.state = "remote" => ~asked.manifest
      BY <1>2, <2>4, <2>6 DEF Made, ManifestRefused
    <2>9. ASSUME client.state = "remote", asked.command = "upload", NEW f \in ServerControlled
          PROVE  config.source[f] # "override"
      <3>1. ~configOverrideIsSet(asked.flags, f) BY <1>2, <2>4, <2>6, <2>9 DEF Made, FlagsRefused
      <3>2. f \in Fields BY DEF ServerControlled, Fields
      <3>3. ~Sets(Running, Used, config.profile, "override", f) BY <3>1, RunningFacts DEF Sets
      <3>4. QED BY <2>1, <3>2, <3>3, SourceHere
    <2>10. QED BY <2>2, <2>3, <2>4, <2>6, <2>7, <2>8, <2>9 DEF ClientAsShown
  <1>3. QED BY <1>1, <1>2 DEF ConfigInv

\* What `config show` says of every value, of the profile and of unused fields is
\* true, and every client is as shown, for every file, environment, command line
\* and manifest: Configuration.SettingsExplained.
THEOREM SettingsAlwaysExplained == ConfigSpec => []SettingsExplained
  <1>1. ConfigInv => SettingsExplained
    BY ShownTrueHolds, ProfileSettledHolds, NoRedirectHolds, InactiveHolds, ClientHolds DEF SettingsExplained
  <1>2. QED BY <1>1, InitInv, StepInv, PTL DEF ConfigSpec

(***************************************************************************)
(* Types                                                                   *)
(***************************************************************************)
LEMMA ThemesTyped ==
    ASSUME NEW cfg, NEW custom \in SUBSET Values, ResolveThemeBundle(cfg, custom).ok
    PROVE  LET bundle == ResolveThemeBundle(cfg, custom) IN
           bundle.light \in Values /\ bundle.dark \in Values /\ bundle.catalog \subseteq Values
  <1> DEFINE bundle == ResolveThemeBundle(cfg, custom)
  <1>1. BuiltinThemes \subseteq Values BY ConfigAssumption
  <1>2. CASE cfg["theme"] # ""
    <2>1. /\ cfg["theme"] \in BuiltinThemes \cup custom /\ bundle.light = cfg["theme"]
          /\ bundle.dark = cfg["theme"] /\ bundle.catalog = {cfg["theme"]}
      BY <1>2 DEF ResolveThemeBundle
    <2> HIDE DEF bundle
    <2>2. QED BY <1>1, <2>1 DEF bundle
  <1>3. CASE cfg["theme"] = ""
    <2> DEFINE known == BuiltinThemes \cup custom
               list == Listed[cfg["available_themes"]]
    <2>1. /\ {bundle.light, bundle.dark} \subseteq known
          /\ cfg["available_themes"] = Unset => bundle.catalog = known
          /\ cfg["available_themes"] # Unset =>
                 list.ids \subseteq known /\ bundle.catalog = list.ids \cup {bundle.light, bundle.dark}
      BY <1>3 DEF ResolveThemeBundle
    <2> HIDE DEF bundle
    <2>2. bundle.light \in Values /\ bundle.dark \in Values /\ known \subseteq Values BY <1>1, <2>1
    <2> HIDE DEF known, list
    <2>3. bundle.catalog \subseteq Values BY <2>1, <2>2
    <2>4. QED BY <2>2, <2>3 DEF bundle
  <1>4. QED BY <1>2, <1>3

LEMMA ConfigTyped ==
    ASSUME ConfigInv, Resolved
    PROVE  /\ config.value \in [Fields -> Text \cup {Unset}] /\ config.source \in [Fields -> Layers \cup {"none"}]
           /\ config.profile \in Profiles \cup {""} /\ config.inactive \subseteq Fields
           /\ config.custom \subseteq Values /\ config.catalog \subseteq Values
           /\ config.value["light_theme"] \in Text /\ config.value["dark_theme"] \in Text
  <1> DEFINE merged == Merged(Running, Used, config.profile)
             bundle == ResolveThemeBundle(merged, Used.themes)
             t == resolveTimeout(Running, Used, config.profile)
  <1>1. /\ config = ResolveConfig(Running) /\ ResolveConfig(Running).state = "resolved"
        /\ Running \in RequestSet /\ loadFileConfig(Running) = Used /\ Used \in Files
    BY ResolvedHere, RunningFacts
  <1>2. config.profile \in Profiles \cup {""} BY <1>1, ShownFields
  <1>3. /\ bundle.ok /\ config.custom = Used.themes /\ config.catalog = bundle.catalog
        /\ config.value = [merged EXCEPT !["light_theme"] = bundle.light, !["dark_theme"] = bundle.dark,
                                         !["timeout"] = t]
        /\ config.inactive = warnInactiveBackendFields(Running, Used, config.profile, merged)
        /\ \A f \in Fields : config.source[f] = WinningSource(Running, Used, config.profile, f)
        /\ config.source = [f \in Fields |-> config.source[f]]
    <2> DEFINE c == ResolveConfig(Running)
               file == loadFileConfig(Running)
               name == resolveProfile(Running, file).name
               meant == Merged(Running, file, name)
    <2>1. /\ ResolveThemeBundle(meant, file.themes).ok /\ c.profile = name /\ c.custom = file.themes
          /\ c.catalog = ResolveThemeBundle(meant, file.themes).catalog
          /\ c.inactive = warnInactiveBackendFields(Running, file, name, meant)
      BY <1>1, ResolvedFacts
    <2>2. c.value = [meant EXCEPT !["light_theme"] = ResolveThemeBundle(meant, file.themes).light,
                                  !["dark_theme"] = ResolveThemeBundle(meant, file.themes).dark,
                                  !["timeout"] = resolveTimeout(Running, file, name)]
      BY <1>1, ResolvedFacts
    <2>3. c.source = [f \in Fields |-> WinningSource(Running, file, name, f)] BY <1>1, ResolvedFacts
    <2>4. \A f \in Fields : c.source[f] = WinningSource(Running, file, name, f) BY <2>3
    <2>5. c.source = [f \in Fields |-> c.source[f]] BY <2>3
    <2>6. config = c /\ Used = file BY <1>1
    <2>7. config.profile = name BY <2>1, <2>6
    <2> HIDE DEF c, file, name
    <2>8. QED BY <2>1, <2>2, <2>4, <2>5, <2>6, <2>7
  <1>4. Used.themes \in SUBSET Values BY <1>1, FileFields
  <1>5. bundle.light \in Text /\ bundle.dark \in Text /\ bundle.catalog \subseteq Values
    BY <1>3, <1>4, ThemesTyped DEF Text
  <1>6. t \in Text \cup {Unset}
    <2>1. t = Given(Running, Used, config.profile, WinningSource(Running, Used, config.profile, "timeout"), "timeout")
      BY <1>1, <1>2, TimeoutAsSourced
    <2>2. "timeout" \in Fields BY DEF Fields
    <2> HIDE DEF t
    <2>3. QED BY <1>1, <1>2, <2>1, <2>2, GivenTyped, SourceSets
  <1>7. merged \in [Fields -> Text \cup {Unset}] BY <1>1, <1>2, MergedTyped
  <1>8. /\ config.value["light_theme"] = bundle.light /\ config.value["dark_theme"] = bundle.dark
        /\ config.value \in [Fields -> Text \cup {Unset}]
    <2> DEFINE light == bundle.light
               dark == bundle.dark
    <2>1. /\ config.value = [merged EXCEPT !["light_theme"] = light, !["dark_theme"] = dark, !["timeout"] = t]
          /\ light \in Text \cup {Unset} /\ dark \in Text \cup {Unset}
      BY <1>3, <1>5
    <2>2. {"light_theme", "dark_theme", "timeout"} \subseteq Fields BY DEF Fields, Themed
    <2> HIDE DEF light, dark, merged, t
    <2>3. config.value["light_theme"] = light BY <1>7, <2>1, <2>2
    <2>4. config.value["dark_theme"] = dark BY <1>7, <2>1, <2>2
    <2>5. config.value \in [Fields -> Text \cup {Unset}] BY <1>6, <1>7, <2>1
    <2>6. QED BY <2>3, <2>4, <2>5 DEF light, dark
  <1>9. config.source \in [Fields -> Layers \cup {"none"}]
    <2>1. \A f \in Fields : WinningSource(Running, Used, config.profile, f) \in Layers \cup {"none"} BY SourceSets
    <2>2. QED BY <1>3, <2>1
  <1>10. config.inactive \subseteq Fields
    <2>1. \A b : Inactive(b) \subseteq Fields BY DEF Inactive, Fields, Themed
    <2> HIDE DEF merged
    <2>2. QED BY <1>3, <2>1 DEF warnInactiveBackendFields
  <1> HIDE DEF bundle, merged, t
  <1>11. config.custom \subseteq Values /\ config.catalog \subseteq Values
    <2>1. config.custom = Used.themes /\ config.catalog = bundle.catalog BY <1>3
    <2>2. QED BY <1>4, <1>5, <2>1
  <1>12. QED BY <1>2, <1>5, <1>8, <1>9, <1>10, <1>11

\* Every variable keeps its type: Configuration.ConfigTypeOK.
THEOREM SettingsTyped == ConfigSpec => []ConfigTypeOK
  <1>1. ASSUME ConfigInv PROVE ConfigTypeOK
    <2>1. asked \in RequestSet /\ inferred \in BOOLEAN BY <1>1, RunningFacts DEF ConfigInv
    <2>2. config.state \in {"none", "failed", "resolved"}
      <3>1. ResolveConfig(Running).state \in {"failed", "resolved"} BY ResolveStates
      <3>2. NoConfig.state = "none" BY DEF NoConfig
      <3>3. QED BY <1>1, <3>1, <3>2 DEF ConfigInv
    <2>3. Resolved =>
              /\ config.value \in [Fields -> Text \cup {Unset}] /\ config.source \in [Fields -> Layers \cup {"none"}]
              /\ config.profile \in Profiles \cup {""} /\ config.inactive \subseteq Fields
              /\ config.custom \subseteq Values /\ config.catalog \subseteq Values
      BY <1>1, ConfigTyped
    <2> DEFINE Clients == [state : {"none", "refused", "local", "remote", "ready"}, light : Text, dark : Text,
                           catalog : SUBSET Values]
    <2>4. NoClient \in Clients /\ Refused \in Clients BY DEF NoClient, Refused, Text
    <2>5. Made => client \in Clients
      <3>1. SUFFICES ASSUME Made PROVE client \in Clients OBVIOUS
      <3> DEFINE again == ResolveThemeBundle(config.value, config.custom)
      <3>2. Resolved BY <3>1 DEF Made, Resolved
      <3>3. again.light \in Text /\ again.dark \in Text /\ again.catalog \in SUBSET Values
        <4>1. /\ config = ResolveConfig(Running) /\ ResolveConfig(Running).state = "resolved"
              /\ Running \in RequestSet
          BY <1>1, <3>2, ResolvedHere, RunningFacts
        <4>2. /\ again.light = config.value["light_theme"] /\ again.dark = config.value["dark_theme"]
              /\ again.catalog = config.catalog
          BY <4>1, ShownFields
        <4> HIDE DEF again
        <4>3. QED BY <1>1, <3>2, <4>2, ConfigTyped
      <3>4. \/ New(config) = Refused \/ New(config) = [NoClient EXCEPT !.state = "remote"]
            \/ New(config) = [state |-> "local", light |-> again.light, dark |-> again.dark, catalog |-> again.catalog]
        BY DEF New
      <3> HIDE DEF again
      <3>5. [NoClient EXCEPT !.state = "remote"] \in Clients BY DEF NoClient, Text
      <3>6. New(config) \in Clients BY <2>4, <3>3, <3>4, <3>5
      <3>7. \A c \in Clients : [c EXCEPT !.state = "ready"] \in Clients OBVIOUS
      <3>8. QED BY <3>1, <3>6, <3>7 DEF Made
    <2>6. client \in Clients BY <1>1, <2>4, <2>5 DEF ConfigInv
    <2>7. QED BY <2>1, <2>2, <2>3, <2>6 DEF ConfigTypeOK, Resolved
  <1>2. QED BY <1>1, InitInv, StepInv, PTL DEF ConfigSpec
====
