----------------------------- MODULE PingValues -----------------------------
(***************************************************************************)
(* BuildPingValues: the sections are built, then the valuesOverride of     *)
(* each deployed product is merged into them, in the order of Kinds; one   *)
(* that is not an object ends the build with an error.                     *)
(*                                                                         *)
(* How the maps of an override are merged below the sections is left to    *)
(* Merge, and which leaves of a tree there are to LeafPaths: both are      *)
(* recursive, and ValuesMerge defines them.                                *)
(***************************************************************************)
EXTENDS ChartValues

CONSTANTS
  Inputs,       \* Pairs of an environment and the specs of its products.
  Merge(_, _),  \* mergeMaps, called by itself for two nested maps.
  LeafPaths(_)  \* The paths of a tree that end in a node mergeMaps does not look into.

\* The specs of the kinds that are deployed.
IsInput(e, s) ==
  /\ IsPingEnvironmentSpec(e)
  /\ DOMAIN s \subseteq ToSet(Kinds)
  /\ \A k \in DOMAIN s : IsSpecOf(k, s[k])

ASSUME InputsAssumption == \A input \in Inputs : IsInput(input.env, input.specs)

VARIABLES
  env,      \* PingEnvironmentSpec
  specs,    \* ProductSpecs
  values,   \* The values so far
  next,     \* The kind whose override is next, an index of Kinds; 0 before the sections
  outcome   \* "building", "returned" or "failed"

vars == <<env, specs, values, next, outcome>>

Init ==
  /\ \E input \in Inputs : env = input.env /\ specs = input.specs
  /\ values = Empty
  /\ next = 0
  /\ outcome = "building"

BuildSections ==
  /\ next = 0
  /\ values' = sections(env, specs)
  /\ next' = 1
  /\ UNCHANGED <<env, specs, outcome>>

\* Mutant: only what the override says is kept.
overrideAlone(base, o) == IF isMap(o) THEN o.map ELSE base

MergeValues(base, o) == IF isMap(o) THEN MergeBy(Merge, base, o.map) ELSE base

Deployed == next \in DOMAIN Kinds /\ Kinds[next] \in DOMAIN specs

SkipProduct ==
  /\ outcome = "building"
  /\ next \in DOMAIN Kinds
  /\ ~Deployed
  /\ next' = next + 1
  /\ UNCHANGED <<env, specs, values, outcome>>

MergeOverride ==
  /\ outcome = "building"
  /\ Deployed
  /\ Unmarshals(specs[Kinds[next]].override)
  /\ values' = MergeValues(values, specs[Kinds[next]].override)
  /\ next' = next + 1
  /\ UNCHANGED <<env, specs, outcome>>

MergeFails ==
  /\ outcome = "building"
  /\ Deployed
  /\ ~Unmarshals(specs[Kinds[next]].override)
  /\ outcome' = "failed"
  /\ values' = Empty
  /\ UNCHANGED <<env, specs, next>>

\* Mutant: the last override is not waited for.
ReturnEarly ==
  /\ outcome = "building"
  /\ next = Len(Kinds)
  /\ outcome' = "returned"
  /\ UNCHANGED <<env, specs, values, next>>

Return ==
  /\ outcome = "building"
  /\ next = Len(Kinds) + 1
  /\ outcome' = "returned"
  /\ UNCHANGED <<env, specs, values, next>>

Next == BuildSections \/ SkipProduct \/ MergeOverride \/ MergeFails \/ Return

Spec == Init /\ [][Next]_vars

-----------------------------------------------------------------------------
\* The state of a build: specs the API server admits, and an outcome that fits how
\* far it came.
TypeOK ==
  /\ IsInput(env, specs)
  /\ next \in 0 .. Len(Kinds) + 1
  /\ outcome \in {"building", "returned", "failed"}
  /\ next = 0 => outcome = "building"
  /\ outcome = "returned" => next = Len(Kinds) + 1

\* What a kind lays over the sections, and the sections it names.
OverrideOf(kind) ==
  IF kind \in DOMAIN specs /\ isMap(specs[kind].override)
  THEN specs[kind].override.map ELSE Empty
Named(kind) == DOMAIN OverrideOf(kind)

\* The kinds that had their turn, and those of them whose override names c.
Merged == {i \in DOMAIN Kinds : i < next}
Overriding(c) == {i \in Merged : c \in Named(Kinds[i])}

\* At every step of the merging, an override has reached the sections it names
\* and no other: one that is given something that is not a map was replaced by it
\* as a whole, one that is given a map is a map, the last override that names a
\* section decides, and no section is lost (MergeValues, mergeMaps).
SectionsKept ==
  next > 0 /\ outcome # "failed" =>
    LET built == sections(env, specs) IN
    /\ DOMAIN values = DOMAIN built \cup UNION {Named(Kinds[i]) : i \in Merged}
    /\ \A c \in DOMAIN values :
         IF Overriding(c) = {} THEN values[c] = built[c]
         ELSE LET last == OverrideOf(Kinds[Max(Overriding(c))])[c]
              IN IF isMap(last) THEN isMap(values[c]) ELSE values[c] = last

\* What has been laid over what so far: the sections, then the overrides.
Layers ==
  [i \in 0 .. next - 1 |-> IF i = 0 THEN sections(env, specs) ELSE OverrideOf(Kinds[i])]

\* The leaf a tree has at the end of a path, none or one; and whether it has
\* nothing to say of what is there below it: no node, and no leaf on the way.
LeavesAt(f, path) == {n \in NodesAt(f, path)[Len(path)] : ~isMap(n)}
Silent(f, path) ==
  /\ NodesAt(f, path)[Len(path)] = {}
  /\ \A k \in 1 .. Len(path) - 1 : \A n \in NodesAt(f, path)[k] : isMap(n)

\* The leaves that a layer has here and on which all the later ones are silent.
Spoken(layers, path) ==
  UNION {LeavesAt(layers[i], path) :
           i \in {j \in DOMAIN layers :
                    \A k \in DOMAIN layers : k > j => Silent(layers[k], path)}}

\* At every step of the merging the leaves of the values are those that a layer
\* says and no later one overrules: merging loses nothing, brings nothing back,
\* and the last override wins at every depth (MergeValues, mergeMaps).
LastOverrideWins ==
  next > 0 /\ outcome # "failed" =>
    LET layers == Layers IN
    \A path \in UNION {LeafPaths(f) : f \in {values} \cup {layers[i] : i \in DOMAIN layers}} :
      LeavesAt(values, path) = Spoken(layers, path)

-----------------------------------------------------------------------------
\* What the operator computes by itself: the section of c as the values returned
\* have it, when no override names it.
Untouched(c) == outcome = "returned" /\ \A kind \in DOMAIN specs : c \notin Named(kind)
Section(c) == Map(values) | c

\* The sub-charts of the products that are deployed, and their specs.
Deploys(c) == c \in DOMAIN Charts /\ Charts[c].kind \in DOMAIN specs
SpecOf(c) == specs[Charts[c].kind]

Served ==
  {c \in DOMAIN Charts \cup {"pingdataconsole"} :
     /\ Untouched(c)
     /\ Text(Section(c) | "enabled") = <<"true">>
     /\ Text(Section(c) | "ingress" | "enabled") = <<"true">>}

\* The settings a served component has of its own.
IngressOf(c) == IF c = "pingdataconsole" THEN env.console[1].ingress
                                         ELSE SpecOf(c).ingress[Charts[c].ingress]

\* With a domain every ingress has a host name and a TLS secret, and no two
\* share a host unless a spec names one of the two hosts, nor a secret unless a
\* spec or the environment names it (the prefixes and suffixes the nine ingress
\* blocks of BuildPingValues repeat).
IngressesApart ==
  env.domain # Unset =>
    \A c \in Served :
      LET host(x) == Text(Section(x) | "ingress" | "hosts")
          secret(x) == Text(Section(x) | "ingress" | "tls")
      IN /\ host(c) # Unset /\ secret(c) # Unset
         /\ \A d \in Served \ {c} :
              /\ host(c) = host(d) =>
                   \E x \in {c, d} : IngressOf(x).hostname # Unset
              /\ secret(c) = secret(d) =>
                   env.ingress.tls # Unset \/ \E x \in {c, d} : IngressOf(x).tls # Unset

\* The image the chart makes of the parts, {repository}/{name}:{tag}, each with
\* a default of its own.
ImagePart(c, part) == firstNonEmpty(Text(Section(c) | "image" | part), <<c, part>>)
ImageOf(c) == ImagePart(c, "repository") \o <<"/">> \o ImagePart(c, "name")
              \o <<":">> \o ImagePart(c, "tag")

\* A reference with a repository, a name and a tag, none of them empty; the
\* repository may have slashes and, for a port, a colon.
IsTagged(version) ==
  LET slash == LastIndex(version, "/")
      colon == LastIndex(version, ":")
  IN 1 < slash /\ slash + 1 < colon /\ colon < Len(version)

\* The console has nothing of its own to run.
ConsoleFollows ==
  /\ consoleEnabled(env, specs)
  /\ env.console[1].image = Unset
  /\ env.console[1].version = Unset

\* A reference that ends in a tag is deployed as it was written, a registry
\* with a port included, if the product names no repository of its own; and also
\* by the console that falls back to it (buildImageValues).
ReferenceKept ==
  \A c \in DOMAIN Charts :
    Deploys(c) /\ SpecOf(c).image = Unset /\ IsTagged(SpecOf(c).version) =>
      /\ Untouched(c) => ImageOf(c) = SpecOf(c).version
      /\ c = "pingdirectory" /\ ConsoleFollows /\ Untouched("pingdataconsole") =>
           ImageOf("pingdataconsole") = SpecOf(c).version

\* A console is deployed only beside a directory, and logs in on the port the
\* directory serves LDAPS on, which is a port (applyDefaults runs first).
ConsoleServed ==
  LET port == Text(Section("pingdataconsole") | "server" | "port") IN
  Untouched("pingdataconsole")
    /\ Text(Section("pingdataconsole") | "enabled") = <<"true">> =>
      /\ port # Unset
      /\ Untouched("pingdirectory") =>
           /\ Text(Section("pingdirectory") | "enabled") = <<"true">>
           /\ port = Text(Section("pingdirectory") | "services" | "ldaps")

\* What a product's container is told of a profile, and what the layers called
\* name, in whatever case, say of themselves.
Told(c, name, field) == Text(Section(c) | "envs" | Variable(name, field))
Said(layers, name, field) ==
  {layers[i][field] : i \in {j \in DOMAIN layers : ToUpper(layers[j].name) = name}} \ {Unset}

\* A container with a base profile is told of this profile and of every layer
\* under its name in upper case, whatever case the name or the parent that leads
\* to it is written in: exactly what the layer says, nothing of the base or of a
\* layer of another name.  Which of several layers of one name is heard is left
\* open (emitServerProfileEnvs).
LayersTold ==
  \A c \in DOMAIN Charts :
    Untouched(c) /\ Deploys(c) /\ SpecOf(c).profile # Unset =>
      LET profile == SpecOf(c).profile[1]
          layers == SpecOf(c).layers
          heard(told, said) == IF said = {} THEN told = Unset ELSE told \in said
      IN /\ Told(c, Unset, "URL") = profile.url
         /\ Told(c, Unset, "PARENT") = profile.parent
         /\ \A i \in DOMAIN layers :
              LET name == ToUpper(layers[i].name) IN
              /\ heard(Told(c, <<name>>, "URL"), Said(layers, name, "url"))
              /\ heard(Told(c, <<name>>, "PARENT"), Said(layers, name, "parent"))

\* Requests and limits as r has them, and no others.
Says(resources, r) ==
  \A q \in {"requests", "limits"} :
    /\ Keys(resources | q) = DOMAIN r[q]
    /\ \A k \in DOMAIN r[q] : Text(resources | q | k) = r[q][k]

NoResources == [requests |-> Empty, limits |-> Empty]
OfTier(c) ==
  IF Charts[c].tier = "none" THEN NoResources
  ELSE [NoResources EXCEPT !.requests = TierResources(env.tier, Charts[c].tier)]

\* What the sections say of resources is taken whole from one place: a product's
\* own requests and limits as written, without any of the tier; else the requests
\* of the tier as they are, or, if the environment sets resources, which a comment
\* says come first, none; and what the environment sets is in the global section
\* alone, as written (buildContainerValues, buildResourcesMap, BuildPingValues).
ResourcesWhole ==
  /\ Untouched("global") =>
       Says(Section("global") | "container" | "resources",
            IF env.resources = Unset THEN NoResources ELSE env.resources[1])
  /\ \A c \in DOMAIN Charts :
       Untouched(c) /\ Deploys(c) =>
         LET own == SpecOf(c).container.resources
             resources == Section(c) | "container" | "resources"
         IN IF own # Unset THEN Says(resources, own[1])
            ELSE \/ Says(resources, OfTier(c))
                 \/ env.resources # Unset /\ Says(resources, NoResources)

\* The sub-chart the i-th dependency of c is probed at, and the service there.
WaitKey(c, i) == resolveWaitForKey(SpecOf(c).container.waitFor[i].application)
Probed(c, i) ==
  Text(Section(c) | "container" | "waitFor" | WaitKey(c, i) | "service")
    = SpecOf(c).container.waitFor[i].service

\* A dependency under a documented name is one on a section of the values, and
\* is probed there if it is the only one on that section (resolveWaitForKey,
\* buildContainerValues).
WaitsResolved ==
  \A c \in DOMAIN Charts :
    Untouched(c) /\ Deploys(c) =>
      LET waits == SpecOf(c).container.waitFor IN
      \A i \in DOMAIN waits :
        /\ waits[i].application \in DOMAIN Applications => WaitKey(c, i) \in DOMAIN values
        /\ (\A j \in DOMAIN waits \ {i} : WaitKey(c, j) # WaitKey(c, i)) => Probed(c, i)

-----------------------------------------------------------------------------
\* What a document or a comment says.

\* "A full reference (contains "/") is split into repository, name, and tag."
\* (release.go:1491): the chart gets the repository and the name it was written
\* with.
ReferenceSplit ==
  \A c \in DOMAIN Charts :
    Untouched(c) /\ Deploys(c)
      /\ SpecOf(c).image = Unset /\ Contains(SpecOf(c).version, "/") =>
         IsPrefix(ImagePart(c, "repository") \o <<"/">> \o ImagePart(c, "name"),
                  SpecOf(c).version)

\* "Each entry maps to SERVER_PROFILE_<NAME>_* env vars where <NAME> is the name
\* field uppercased." (CONFIGURATION.md:116): the URL of a layer with a name of its
\* own reaches the container (emitServerProfileEnvs).
LayersMapped ==
  \A c \in DOMAIN Charts :
    Untouched(c) /\ Deploys(c) =>
      LET layers == SpecOf(c).layers
          name(i) == ToUpper(layers[i].name)
      IN \A i \in DOMAIN layers :
           (\A j \in DOMAIN layers \ {i} : name(j) # name(i)) =>
             Told(c, <<name(i)>>, "URL") = layers[i].url

\* "Both are overridden by tier defaults when neither is set."
\* (pingenvironment_types.go:692): a section gets the requests of the tier only if
\* neither the product nor the environment sets resources (buildContainerValues).
TierWhenNeither ==
  \A c \in DOMAIN Charts :
    Untouched(c) /\ Deploys(c)
      /\ SpecOf(c).container.resources = Unset /\ env.resources # Unset =>
         Says(Section(c) | "container" | "resources", NoResources)

\* "Each entry causes the container to probe a dependency before starting."
\* (CONFIGURATION.md:155): also one of two on the same sub-chart
\* (buildContainerValues).
WaitsProbed ==
  \A c \in DOMAIN Charts :
    Untouched(c) /\ Deploys(c) =>
      \A i \in DOMAIN SpecOf(c).container.waitFor : Probed(c, i)

\* One of the four promises above, at the least, is kept of what a user writes.
\* Where this fails the four fail together, each through the code it names.
SomePromiseKept == ReferenceSplit \/ LayersMapped \/ TierWhenNeither \/ WaitsProbed
=============================================================================
