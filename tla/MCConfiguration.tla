--------------------------- MODULE MCConfiguration ---------------------------
(* The invocations TLC tries: families in which a few fields vary through    *)
(* all their layers while the others are left alone.                         *)
EXTENDS Configuration, TLC

SmallValues == {"s3", "airplan", "auto", "pinned", "30s", "true", "false", "github-light", "github-dark",
                "x", "y", "bad"}
SmallProfiles == {"p", "q"}
SmallPaths == {"f"}
SmallMalformed == {"bad"}
Lists(ids) == [ids |-> ids, repeats |-> FALSE]
SmallListed ==
    [v \in SmallValues \cup {""} |->
        CASE v = "x" -> Lists({"x"}) [] v = "y" -> [ids |-> {"y"}, repeats |-> TRUE]
          [] v = "auto" -> Lists({"github-light", "github-dark"}) [] v = "bad" -> Lists({"bad"})
          [] OTHER -> Lists({})]

\* A layer, an environment and flags that say these things and nothing else.
Says(base, what) == what @@ base
NoVariables == [f \in WithVariable |-> ""]
File(root, profiles) ==
    [there |-> TRUE, broken |-> FALSE, root |-> Says(Silent, root), names |-> DOMAIN profiles,
     profiles |-> [p \in DOMAIN profiles |-> Says(Silent, profiles[p])] @@ [p \in SmallProfiles |-> Silent],
     default |-> "", themes |-> {"x", "y"}]
OnDisk(file) == ("default" :> file) @@ ("f" :> NoFile)
Plain ==
    [command |-> "show", path |-> "", pathVariable |-> "", profile |-> Unset, profileVariable |-> "",
     env |-> NoVariables, flags |-> NoFlags, empty |-> {}, manifest |-> FALSE, disk |-> OnDisk(NoFile),
     recorded |-> ""]

Only(f, v) == f :> v
Maybe(f, v) == IF v = Unset THEN <<>> ELSE Only(f, v)

\* One field in every combination of layers.
Spelt(f, v) == IF f \in Switches /\ v # Unset THEN IF v = "x" THEN "true" ELSE "false" ELSE v
OneField ==
    {[Plain EXCEPT !.env = Says(NoVariables, IF e = "" \/ f \notin WithVariable THEN <<>> ELSE Only(f, Spelt(f, e))),
                   !.flags = Says(NoFlags, IF o = "" THEN <<>> ELSE Only(f, Spelt(f, o))),
                   !.disk = OnDisk(File(Maybe(f, Spelt(f, r)), [n \in {"p"} |-> Maybe(f, Spelt(f, p))]))] :
        f \in Fields, r \in {Unset, "", "x"}, p \in {Unset, "", "x"}, e \in {"", "x"}, o \in {"", "y"}}

\* The themes together, from the file and from variables.
ThemeRequests ==
    {[Plain EXCEPT !.env = Says(NoVariables, Only("theme", e)),
                   !.command = "upload",
                   !.disk = OnDisk(File(Maybe("theme", t) @@ Maybe("light_theme", l), 
                                        [n \in {"p"} |-> Maybe("available_themes", a) @@ Maybe("theme", u)]))] :
        e \in {"", "y"}, t \in {"x", Unset}, l \in {"x", "bad", Unset}, a \in {"", "x", "y", "auto", "bad", Unset},
        u \in {"", "x", Unset}}

\* Backends: what is required of them from the root values, a profile and
\* variables, beside other profiles and a record in the manifest.
Complete(b) == IF b = "airplan" THEN [api_url |-> "x", api_token |-> "x"] ELSE [endpoint |-> "x", bucket |-> "x"]
BackendRequests ==
    {[Plain EXCEPT !.command = c, !.profile = n, !.profileVariable = v, !.recorded = w, !.manifest = m,
                   !.empty = IF c = "upload" THEN em ELSE {},
                   !.env = Says(NoVariables, Maybe("endpoint", e)),
                   !.disk = [OnDisk(File(Maybe("backend", b) @@ Complete(b) , ("p" :> (Only("backend", k) @@ Complete(k))) @@ q))
                             EXCEPT !["default"].default = d]] :
        c \in {"upload", "target"}, n \in {Unset, "", "p"}, v \in {"", "q"}, w \in {"", "p"}, m \in BOOLEAN,
        e \in {"", "bad"}, b \in {"airplan", Unset}, k \in {"airplan", "x", "s3"}, d \in {"", "p"},
        q \in {<<>>, "q" :> <<>>}, em \in {{}, {"bucket"}}}

\* Root values that lack something, files that are missing or broken.
FileRequests ==
    {[Plain EXCEPT !.command = c, !.path = a, !.pathVariable = v, !.flags = Says(NoFlags, Only("bucket", o)),
                   !.disk = [OnDisk([File(Maybe("endpoint", r), [n \in {"p", "q"} |-> <<>>]) EXCEPT !.broken = k])
                             EXCEPT !["f"] = IF h THEN File(<<>>, <<>>) ELSE NoFile]] :
        c \in {"upload", "show"}, a \in {"", "f"}, v \in {"", "f"}, o \in {"", "x"}, r \in {"x", Unset}, k \in BOOLEAN,
        h \in BOOLEAN}

SmallRequests == {Plain} \cup OneField \cup ThemeRequests \cup BackendRequests \cup FileRequests

\* An invocation that nothing comes of.
AtRest == asked = Plain /\ config = NoConfig /\ inferred = FALSE /\ client = NoClient
=============================================================================
