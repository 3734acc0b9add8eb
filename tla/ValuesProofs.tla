---------------------------- MODULE ValuesProofs ----------------------------
(***************************************************************************)
(* What BuildPingValues promises of the values it returns, for any         *)
(* environment and specs the API server admits.                            *)
(*                                                                         *)
(* The inductive part is TypeOK and SectionsKept, whatever Merge does      *)
(* below the sections: a section no override names is returned as it was   *)
(* built, and the promises about the sections are read off what was built. *)
(* For LastOverrideWins Merge has to be mergeMaps: that it satisfies the   *)
(* equation of mergeMaps is a hypothesis of the theorem, and the proof is  *)
(* by induction along a path.                                              *)
(***************************************************************************)
EXTENDS PingValues, WellFoundedInduction, TLAPS

-----------------------------------------------------------------------------
\* Numbers, sequences, kinds

\* A set of numbers that is not empty has a least one.
LEMMA LeastOf ==
  ASSUME NEW S \in SUBSET Nat, S # {}
  PROVE  \E n \in S : \A m \in S : n <= m
<1> DEFINE R == {ss \in Nat \X Nat : ss[1] < ss[2]}
<1>1. IsWellFoundedOn(R, Nat)
  BY NatLessThanWellFounded, Zenon DEF OpToRel
<1>2. PICK n \in S : \A m \in S : <<m, n>> \notin R
  <2> HIDE DEF R
  <2> QED BY <1>1, WFMin
<1>3. ASSUME NEW m \in S PROVE n <= m
  <2>1. m \in Nat /\ n \in Nat /\ ~(m < n)
    BY <1>2
  <2> QED BY <2>1
<1> QED BY <1>3

\* Max of a set of indices is the greatest of them: there is a least distance to
\* the end.
LEMMA MaxInterval ==
  ASSUME NEW n \in Nat, NEW T \in SUBSET (1 .. n), T # {}
  PROVE  Max(T) \in T /\ \A i \in T : i <= Max(T)
<1> DEFINE D == {n - i : i \in T}
<1>1. \A i \in T : i \in 1 .. n /\ n - i \in Nat
  OBVIOUS
<1>2. PICK x \in D : \A y \in D : x <= y
  <2>1. D \in SUBSET Nat /\ D # {}
    BY <1>1
  <2> HIDE DEF D
  <2> QED BY <2>1, LeastOf
<1>3. PICK m \in T : x = n - m
  OBVIOUS
<1>4. ASSUME NEW i \in T PROVE i <= m
  <2>1. n - m <= n - i
    BY <1>2, <1>3
  <2> QED BY <1>1, <2>1
<1> QED BY <1>4 DEF Max

\* LastIndex is the last place of a token, or 0.
LEMMA LastIndexIs ==
  ASSUME NEW s \in Seq(STRING), NEW t
  PROVE  /\ LastIndex(s, t) \in 0 .. Len(s)
         /\ LastIndex(s, t) > 0 => s[LastIndex(s, t)] = t
         /\ \A i \in 1 .. Len(s) : s[i] = t => i <= LastIndex(s, t)
<1> DEFINE I == {i \in 1 .. Len(s) : s[i] = t}
<1>1. Len(s) \in Nat OBVIOUS
<1>2. LastIndex(s, t) = IF I # {} THEN Max(I) ELSE 0
  BY DEF LastIndex, SelectLastInSeq
<1>3. I # {} => Max(I) \in I /\ \A i \in I : i <= Max(I)
  BY <1>1, MaxInterval
<1> QED BY <1>1, <1>2, <1>3

\* Kinds is a sequence of seven, and names every kind that ToSet says it does.
LEMMA KindsOrder ==
  /\ Len(Kinds) = 7 /\ DOMAIN Kinds = 1 .. 7
  /\ \A k \in ToSet(Kinds) : \E i \in 1 .. 7 : Kinds[i] = k
BY DEF Kinds, ToSet

-----------------------------------------------------------------------------
\* The build

\* The state of a build is what TypeOK says, whatever the inputs: the specs stay
\* admissible, and only a build that went through all the kinds returns.
THEOREM ValuesTyped == Spec => []TypeOK
<1>1. Init => TypeOK
  BY InputsAssumption, KindsOrder DEF Init, TypeOK
<1>2. TypeOK /\ [Next]_vars => TypeOK'
  <2> SUFFICES ASSUME TypeOK, [Next]_vars PROVE TypeOK'
    OBVIOUS
  <2>1. IsInput(env, specs)'
    <3>1. env' = env /\ specs' = specs
      BY DEF Next, vars, BuildSections, SkipProduct, MergeOverride, MergeFails, Return
    <3> QED BY <3>1 DEF TypeOK
  <2>2. CASE BuildSections
    BY <2>1, <2>2, KindsOrder DEF TypeOK, BuildSections
  <2>3. CASE SkipProduct
    BY <2>1, <2>3, KindsOrder DEF TypeOK, SkipProduct
  <2>4. CASE MergeOverride
    BY <2>1, <2>4, KindsOrder DEF TypeOK, MergeOverride, Deployed
  <2>5. CASE MergeFails
    BY <2>1, <2>5, KindsOrder DEF TypeOK, MergeFails, Deployed
  <2>6. CASE Return
    BY <2>1, <2>6, KindsOrder DEF TypeOK, Return
  <2>7. CASE UNCHANGED vars
    BY <2>1, <2>7 DEF TypeOK, vars
  <2> QED BY <2>2, <2>3, <2>4, <2>5, <2>6, <2>7 DEF Next
<1> QED BY <1>1, <1>2, PTL DEF Spec

\* What a kind that had its turn adds to who overrides a section.
LEMMA TurnTaken ==
  ASSUME TypeOK, next \in 1 .. 7, next' = next + 1, specs' = specs, NEW c
  PROVE  /\ Overriding(c)' = Overriding(c) \cup
              (IF c \in Named(Kinds[next]) THEN {next} ELSE {})
         /\ Overriding(c) \subseteq 1 .. next - 1
         /\ Merged' = Merged \cup {next}
<1>1. Merged' = Merged \cup {next} /\ Merged = 1 .. next - 1
  BY KindsOrder DEF Merged
<1>2. \A i \in 1 .. 7 : Named(Kinds[i])' = Named(Kinds[i])
  BY DEF Named, OverrideOf, Empty
<1>3. Merged \subseteq 1 .. 7
  BY KindsOrder DEF Merged
<1>4. Overriding(c) = {i \in Merged : c \in Named(Kinds[i])}
  BY DEF Overriding
<1>5. Overriding(c)' = {i \in Merged' : c \in Named(Kinds[i])}
  BY <1>1, <1>2, <1>3 DEF Overriding
<1> QED BY <1>1, <1>4, <1>5

\* The map that MergeBy leaves, key by key.
LEMMA MergeByIs ==
  ASSUME NEW dst, NEW src, NEW k \in DOMAIN dst \cup DOMAIN src
  PROVE  /\ DOMAIN MergeBy(Merge, dst, src) = DOMAIN dst \cup DOMAIN src
         /\ k \notin DOMAIN src => MergeBy(Merge, dst, src)[k] = dst[k]
         /\ k \in DOMAIN src /\ ~isMap(src[k]) => MergeBy(Merge, dst, src)[k] = src[k]
         /\ k \in DOMAIN src /\ isMap(src[k]) => isMap(MergeBy(Merge, dst, src)[k])
<1>1. \A f : isMap(Map(f))
  BY DEF isMap, Map
<1> QED BY <1>1 DEF MergeBy

\* At every step of the merging, for any inputs and whatever Merge does below the
\* sections, an override has reached the sections it names and no other, and the
\* last one that names a section decided what it is (MergeValues, mergeMaps).
THEOREM SectionsAlwaysKept == Spec => []SectionsKept
<1> DEFINE built == sections(env, specs)
           Domain == DOMAIN values = DOMAIN built \cup UNION {Named(Kinds[i]) : i \in Merged}
           last(c) == OverrideOf(Kinds[Max(Overriding(c))])[c]
           Kept(c) == IF Overriding(c) = {} THEN values[c] = built[c]
                      ELSE IF isMap(last(c)) THEN isMap(values[c]) ELSE values[c] = last(c)
<1>1. Init => SectionsKept
  BY DEF Init, SectionsKept
<1>2. TypeOK /\ SectionsKept /\ [Next]_vars => SectionsKept'
  <2> SUFFICES ASSUME TypeOK, SectionsKept, [Next]_vars,
                      next' > 0, outcome' # "failed"
               PROVE  Domain' /\ \A c \in DOMAIN values' : Kept(c)'
    BY DEF SectionsKept
  <2>1. /\ env' = env /\ specs' = specs
        /\ built' = built /\ \A k : OverrideOf(k)' = OverrideOf(k)
    <3>1. env' = env /\ specs' = specs
      BY DEF Next, vars, BuildSections, SkipProduct, MergeOverride, MergeFails, Return
    <3> QED BY <3>1 DEF OverrideOf
  <2>2. ASSUME next' = next, values' = values, outcome # "failed"
        PROVE  Domain' /\ \A c \in DOMAIN values' : Kept(c)'
    <3>1. Domain /\ \A c \in DOMAIN values : Kept(c)
      BY <2>2 DEF SectionsKept
    <3>2. Merged' = Merged /\ \A k : Named(k)' = Named(k)
      BY <2>1, <2>2 DEF Merged, Named, OverrideOf, Empty
    <3>3. \A c : Overriding(c)' = Overriding(c)
      BY <3>2 DEF Overriding
    <3>4. Domain'
      BY <2>1, <2>2, <3>1, <3>2
    <3>5. \A c \in DOMAIN values' : Kept(c)'
      BY <2>1, <2>2, <3>1, <3>3
    <3> QED BY <3>4, <3>5
  <2>3. CASE BuildSections
    <3>1. Merged' = {}
      BY <2>3, KindsOrder DEF BuildSections, Merged
    <3>2. \A c : Overriding(c)' = {}
      BY <3>1 DEF Overriding
    <3> QED BY <2>1, <2>3, <3>1, <3>2 DEF BuildSections
  <2>4. CASE SkipProduct
    <3>1. next \in 1 .. 7 /\ next' = next + 1 /\ UNCHANGED <<values, outcome>>
      BY <2>4, KindsOrder DEF SkipProduct, TypeOK
    <3>2. Named(Kinds[next]) = {}
      BY <2>4, <3>1 DEF SkipProduct, Deployed, Named, OverrideOf, Empty
    <3>3. Domain /\ \A c \in DOMAIN values : Kept(c)
      BY <2>4, <3>1 DEF SectionsKept, SkipProduct
    <3>4. \A c : Overriding(c)' = Overriding(c)
      BY <2>1, <3>1, <3>2, TurnTaken
    <3>5. Merged' = Merged \cup {next}
      BY <2>1, <3>1, TurnTaken
    <3>6. \A i : Named(Kinds[i])' = Named(Kinds[i])
      BY <2>1 DEF Named, OverrideOf, Empty
    <3>7. UNION {Named(Kinds[i])' : i \in Merged'} = UNION {Named(Kinds[i]) : i \in Merged}
      BY <3>2, <3>5, <3>6
    <3>8. Domain'
      BY <2>1, <3>1, <3>3, <3>7
    <3>9. \A c \in DOMAIN values' : Kept(c)'
      BY <2>1, <3>1, <3>3, <3>4
    <3> QED BY <3>8, <3>9
  <2>5. CASE MergeOverride
    <3> DEFINE kind == Kinds[next]
               o == specs[kind].override
    <3>1. next \in 1 .. 7 /\ next' = next + 1 /\ outcome = "building" /\ kind \in DOMAIN specs
      BY <2>5, KindsOrder DEF MergeOverride, Deployed, TypeOK
    <3>2. Domain /\ \A c \in DOMAIN values : Kept(c)
      BY <2>5, <3>1 DEF SectionsKept
    <3>3. Merged' = Merged \cup {next} /\ \A i : Named(Kinds[i])' = Named(Kinds[i])
      BY <2>1, <3>1, TurnTaken DEF Named, OverrideOf, Empty
    <3>4. CASE ~isMap(o)
      <4>1. values' = values /\ Named(kind) = {}
        BY <2>5, <3>4 DEF MergeOverride, MergeValues, Named, OverrideOf, Empty
      <4>2. \A c : Overriding(c)' = Overriding(c)
        BY <2>1, <3>1, <4>1, TurnTaken
      <4>3. UNION {Named(Kinds[i])' : i \in Merged'} = UNION {Named(Kinds[i]) : i \in Merged}
        BY <3>3, <4>1
      <4>4. Domain'
        BY <2>1, <3>2, <4>1, <4>3
      <4>5. \A c \in DOMAIN values' : Kept(c)'
        BY <2>1, <3>2, <4>1, <4>2
      <4> QED BY <4>4, <4>5
    <3>5. CASE isMap(o)
      <4>1. values' = MergeBy(Merge, values, o.map) /\ Named(kind) = DOMAIN o.map
        BY <2>5, <3>1, <3>5 DEF MergeOverride, MergeValues, Named, OverrideOf, Empty
      <4>2. DOMAIN values' = DOMAIN values \cup DOMAIN o.map
        BY <4>1 DEF MergeBy
      <4>3. UNION {Named(Kinds[i])' : i \in Merged'} =
              (UNION {Named(Kinds[i]) : i \in Merged}) \cup DOMAIN o.map
        BY <3>3, <4>1
      <4>4. Domain'
        BY <2>1, <3>2, <4>2, <4>3
      <4>5. ASSUME NEW c \in DOMAIN values' PROVE Kept(c)'
        <5>1. CASE c \notin DOMAIN o.map
          <6>1. c \in DOMAIN values /\ values'[c] = values[c]
            BY <4>1, <4>2, <5>1, MergeByIs
          <6>2. Overriding(c)' = Overriding(c)
            BY <2>1, <3>1, <4>1, <5>1, TurnTaken
          <6> QED BY <2>1, <3>2, <6>1, <6>2
        <5>2. CASE c \in DOMAIN o.map
          <6>1. Overriding(c)' = Overriding(c) \cup {next} /\ Overriding(c) \subseteq 1 .. next - 1
            BY <2>1, <3>1, <4>1, <5>2, TurnTaken
          <6>2. Max(Overriding(c)') = next
            <7>1. Overriding(c)' \in SUBSET (1 .. next)
              BY <3>1, <6>1
            <7>2. /\ Max(Overriding(c)') \in Overriding(c)'
                  /\ \A i \in Overriding(c)' : i <= Max(Overriding(c)')
              BY <3>1, <6>1, <7>1, MaxInterval
            <7>3. next <= Max(Overriding(c)') /\ Max(Overriding(c)') \in 1 .. next
              BY <6>1, <7>1, <7>2
            <7> QED BY <3>1, <7>3
          <6>3. last(c)' = o.map[c]
            BY <2>1, <3>1, <3>5, <6>2 DEF OverrideOf
          <6>4. IF isMap(o.map[c]) THEN isMap(values'[c]) ELSE values'[c] = o.map[c]
            BY <4>1, <5>2, MergeByIs
          <6> QED BY <6>1, <6>3, <6>4
        <5> QED BY <5>1, <5>2
      <4> QED BY <4>4, <4>5
    <3> QED BY <3>4, <3>5
  <2>6. CASE MergeFails
    BY <2>6 DEF MergeFails
  <2>7. CASE Return
    <3>1. next' = next /\ values' = values /\ outcome # "failed"
      BY <2>7 DEF Return
    <3> QED BY <2>2, <3>1
  <2>8. CASE UNCHANGED vars
    <3>1. next' = next /\ values' = values /\ outcome # "failed"
      BY <2>8 DEF vars
    <3> QED BY <2>2, <3>1
  <2> QED BY <2>3, <2>4, <2>5, <2>6, <2>7, <2>8 DEF Next
<1> QED BY <1>1, <1>2, ValuesTyped, PTL DEF Spec

-----------------------------------------------------------------------------
\* The sections that no override names

\* The sub-charts.
LEMMA ChartsAre ==
  /\ DOMAIN Charts = {"pingfederate-admin", "pingfederate-engine", "pingdirectory",
                      "pingaccess-admin", "pingaccess-engine", "pingauthorize",
                      "pingauthorizepap", "pingdatasync", "pingdirectoryproxy"}
  /\ Charts["pingfederate-admin"] = FederateCharts["pingfederate-admin"]
  /\ Charts["pingfederate-engine"] = FederateCharts["pingfederate-engine"]
  /\ Charts["pingdirectory"] = DirectoryChart["pingdirectory"]
  /\ Charts["pingaccess-admin"] = AccessCharts["pingaccess-admin"]
  /\ Charts["pingaccess-engine"] = AccessCharts["pingaccess-engine"]
  /\ Charts["pingauthorize"] = AuthorizeChart["pingauthorize"]
  /\ Charts["pingauthorizepap"] = PAPChart["pingauthorizepap"]
  /\ Charts["pingdatasync"] = DataSyncChart["pingdatasync"]
  /\ Charts["pingdirectoryproxy"] = DirectoryProxyChart["pingdirectoryproxy"]
<1>1. /\ DOMAIN FederateCharts = {"pingfederate-admin", "pingfederate-engine"}
      /\ DOMAIN AccessCharts = {"pingaccess-admin", "pingaccess-engine"}
      /\ DOMAIN DirectoryChart = {"pingdirectory"}
      /\ DOMAIN AuthorizeChart = {"pingauthorize"}
      /\ DOMAIN PAPChart = {"pingauthorizepap"}
      /\ DOMAIN DataSyncChart = {"pingdatasync"}
      /\ DOMAIN DirectoryProxyChart = {"pingdirectoryproxy"}
  BY DEF FederateCharts, AccessCharts, DirectoryChart, AuthorizeChart, PAPChart,
         DataSyncChart, DirectoryProxyChart, Entry
<1> QED BY <1>1 DEF Charts, ++

\* The sections of the environment, the console and the sub-charts, before the
\* overrides.
LEMMA SectionsAre ==
  ASSUME NEW e, NEW s
  PROVE  /\ "pingdataconsole" \in DOMAIN sections(e, s)
         /\ "global" \in DOMAIN sections(e, s) /\ sections(e, s)["global"] = globalValues(e)
         /\ DOMAIN Charts \subseteq DOMAIN sections(e, s)
         /\ sections(e, s)["pingdataconsole"] =
              IF consoleEnabled(e, applyDefaults(s))
              THEN consoleValues(e, applyDefaults(s)["PingDirectory"]) ELSE Disabled
         /\ \A c \in DOMAIN Charts :
              sections(e, s)[c] = IF Charts[c].kind \in DOMAIN applyDefaults(s)
                                  THEN productValues(e, Charts[c], applyDefaults(s)[Charts[c].kind])
                                  ELSE Disabled
<1> DEFINE products == applyDefaults(s)
           console == IF consoleEnabled(e, products)
                      THEN consoleValues(e, products["PingDirectory"]) ELSE Disabled
           section(c) == IF Charts[c].kind \in DOMAIN products
                         THEN productValues(e, Charts[c], products[Charts[c].kind])
                         ELSE Disabled
           charts == [c \in DOMAIN Charts |-> section(c)]
           first == Entry("global", globalValues(e)) ++ Optionally("volumes", rawToMap(e.volumes))
<1>1. sections(e, s) = first ++ Entry("pingdataconsole", console) ++ charts
  BY DEF sections
<1>2. DOMAIN first \subseteq {"global", "volumes"}
  BY DEF Entry, Optionally, Empty, ++
<1>3. DOMAIN charts = DOMAIN Charts /\ \A c \in DOMAIN Charts : charts[c] = section(c)
  OBVIOUS
<1>4. "global" \in DOMAIN first /\ first["global"] = globalValues(e)
  BY DEF Entry, ++
<1> HIDE DEF first, charts, console, section
<1>5. "global" \in DOMAIN sections(e, s) /\ sections(e, s)["global"] = globalValues(e)
  BY <1>1, <1>3, <1>4, ChartsAre DEF Entry, ++
<1> QED BY <1>1, <1>2, <1>3, <1>5, ChartsAre DEF Entry, ++, console, section

\* What the operator returns for a section that no override names is what it
\* built.
LEMMA SectionIs ==
  ASSUME TypeOK, SectionsKept, NEW c \in DOMAIN sections(env, specs), Untouched(c)
  PROVE  Section(c) = sections(env, specs)[c]
<1>1. next = 8 /\ outcome = "returned"
  BY KindsOrder DEF TypeOK, Untouched
<1>2. Overriding(c) = {}
  <2>1. ASSUME NEW i \in DOMAIN Kinds PROVE c \notin Named(Kinds[i])
    BY DEF Untouched, Named, OverrideOf, Empty
  <2> QED BY <2>1 DEF Overriding, Merged
<1>3. c \in DOMAIN values /\ values[c] = sections(env, specs)[c]
  BY <1>1, <1>2 DEF SectionsKept
<1> QED BY <1>3 DEF Section, |, Map, isMap

\* applyDefaults sets ports and nothing else.
LEMMA DefaultsAre ==
  ASSUME TypeOK, NEW kind \in DOMAIN specs
  PROVE  /\ DOMAIN applyDefaults(specs) = DOMAIN specs
         /\ DOMAIN applyDefaults(specs)[kind].ports = DOMAIN specs[kind].ports
         /\ \A n \in DOMAIN specs[kind].ports :
              applyDefaults(specs)[kind].ports[n] =
                firstNonEmpty(specs[kind].ports[n], DefaultPorts[kind][n])
         /\ \A f \in {"image", "version", "ingress", "service", "container",
                      "profile", "layers"} : applyDefaults(specs)[kind][f] = specs[kind][f]
<1>1. DOMAIN specs[kind] = {"image", "version", "ingress", "ports", "service", "container",
                            "profile", "layers", "override"}
  BY DEF TypeOK, IsInput, IsSpecOf, IsProductSpec
<1> QED BY <1>1 DEF applyDefaults

-----------------------------------------------------------------------------
\* Reading what was built

\* What is read of maps and leaves.
LEMMA Nodes ==
  /\ \A f : isMap(Map(f)) /\ \A k \in DOMAIN f : (Map(f) | k) = f[k]
  /\ \A f, k : k \notin DOMAIN f => (Map(f) | k) = Absent
  /\ \A l : Text(Leaf(l)) = l /\ ~isMap(Leaf(l)) /\ Keys(Leaf(l)) = {}
  /\ \A l, k : (Leaf(l) | k) = Absent
  /\ \A f : Keys(Map(f)) = DOMAIN f
BY DEF isMap, Map, |, Leaf, Text, Keys, Absent

\* What is read of f laid over g.
LEMMA OverIs ==
  /\ \A f, g, k : k \in DOMAIN (f ++ g) <=> k \in DOMAIN f \/ k \in DOMAIN g
  /\ \A f, g, k : k \in DOMAIN f => (Map(f ++ g) | k) = (Map(f) | k)
  /\ \A f, g, k : k \notin DOMAIN f => (Map(f ++ g) | k) = (Map(g) | k)
<1>1. \A f, g, k : k \in DOMAIN (f ++ g) <=> k \in DOMAIN f \/ k \in DOMAIN g
  BY DEF ++
<1>2. ASSUME NEW f, NEW g, NEW k \in DOMAIN f PROVE (Map(f ++ g) | k) = (Map(f) | k)
  <2>1. (f ++ g)[k] = f[k]
    BY DEF ++
  <2> QED BY <1>1, <2>1, Nodes
<1>3. ASSUME NEW f, NEW g, NEW k, k \notin DOMAIN f PROVE (Map(f ++ g) | k) = (Map(g) | k)
  <2>1. CASE k \in DOMAIN g
    <3>1. (f ++ g)[k] = g[k]
      BY <1>3, <2>1 DEF ++
    <3> QED BY <1>1, <2>1, <3>1, Nodes
  <2>2. CASE k \notin DOMAIN g
    BY <1>1, <1>3, <2>2, Nodes
  <2> QED BY <2>1, <2>2
<1> QED BY <1>1, <1>2, <1>3

\* What is read of a map with one key, and of one with none.
LEMMA EntryIs ==
  /\ \A key, n : DOMAIN Entry(key, n) = {key} /\ (Map(Entry(key, n)) | key) = n
  /\ DOMAIN Empty = {}
  /\ \A k : (Map(Empty) | k) = Absent
<1>1. \A key, n : DOMAIN Entry(key, n) = {key} /\ Entry(key, n)[key] = n
  BY DEF Entry
<1>2. DOMAIN Empty = {}
  BY DEF Empty
<1>3. ASSUME NEW key, NEW n PROVE (Map(Entry(key, n)) | key) = n
  <2>1. key \in DOMAIN Entry(key, n)
    BY <1>1
  <2> QED BY <1>1, <2>1, Nodes
<1> QED BY <1>1, <1>2, <1>3, Nodes

\* What is not set reads as if it were there and empty.
LEMMA PresentIs ==
  ASSUME NEW f, NEW k
  PROVE  /\ DOMAIN Present(f) = {x \in DOMAIN f : f[x] # Unset}
         /\ k \in DOMAIN f => Text(Map(Present(f)) | k) = f[k]
<1>1. DOMAIN Present(f) = {x \in DOMAIN f : f[x] # Unset}
  BY DEF Present
<1>2. CASE k \in DOMAIN f /\ f[k] # Unset
  <2>1. Present(f)[k] = Leaf(f[k])
    BY <1>2 DEF Present
  <2> QED BY <1>1, <1>2, <2>1, Nodes
<1>3. CASE k \in DOMAIN f /\ f[k] = Unset
  <2>1. (Map(Present(f)) | k) = Absent
    BY <1>1, <1>3, Nodes
  <2> QED BY <1>1, <1>3, <2>1, Nodes DEF Absent, Unset
<1> QED BY <1>1, <1>2, <1>3

\* Four maps with keys of their own, laid side by side.
LEMMA FourParts ==
  ASSUME NEW base, DOMAIN base = {"enabled", "image", "envs", "workload", "ingress"},
         NEW contained, DOMAIN contained \subseteq {"container"},
         NEW volumes, DOMAIN volumes \subseteq {"volumes", "volumeMounts"},
         NEW services, DOMAIN services \subseteq {"services"}
  PROVE  LET all == Map(base ++ contained ++ volumes ++ services) IN
         /\ \A k \in DOMAIN base : (all | k) = base[k]
         /\ (all | "container") = (Map(contained) | "container")
         /\ (all | "services") = (Map(services) | "services")
<1>1. ASSUME NEW k \in DOMAIN base
      PROVE  (Map(base ++ contained ++ volumes ++ services) | k) = base[k]
  BY OverIs, Nodes
<1>2. (Map(base ++ contained ++ volumes ++ services) | "services") = (Map(services) | "services")
  BY OverIs
<1>3. (Map(base ++ contained ++ volumes ++ services) | "container") = (Map(contained) | "container")
  <2>1. CASE "container" \in DOMAIN contained
    BY <2>1, OverIs
  <2>2. CASE "container" \notin DOMAIN contained
    <3>1. "container" \notin DOMAIN (base ++ contained ++ volumes ++ services)
      BY <2>2, OverIs
    <3> QED BY <2>2, <3>1, Nodes
  <2> QED BY <2>1, <2>2
<1> QED BY <1>1, <1>2, <1>3

\* What is read of the section of a sub-chart that runs a product.
LEMMA ProductSectionIs ==
  ASSUME NEW e, NEW chart, NEW spec
  PROVE  LET section == productValues(e, chart, spec)
             requests == IF chart.tier = "none" THEN Unset ELSE TierResources(e.tier, chart.tier)
         IN /\ (section | "enabled") = Leaf(<<"true">>)
            /\ (section | "image") = buildImageNode(spec.image, spec.version)
            /\ (section | "envs") = Map(emitServerProfileEnvs(spec.profile, spec.layers))
            /\ (section | "ingress") =
                 IF chart.ingress = "none" THEN Disabled
                 ELSE ingressValues(e, spec.ingress[chart.ingress], chart.prefix)
            /\ \A k : (section | "container" | k) =
                        (Map(buildContainerValues(requests, spec.container)) | k)
            /\ \A k \in DOMAIN chart.services :
                 (section | "services" | k) = Leaf(spec.ports[chart.services[k]])
<1> DEFINE requests == IF chart.tier = "none" THEN Unset ELSE TierResources(e.tier, chart.tier)
           container == buildContainerValues(requests, spec.container)
           ingress == IF chart.ingress = "none" THEN Disabled
                      ELSE ingressValues(e, spec.ingress[chart.ingress], chart.prefix)
           workload == applyWorkloadSecurityContext(Entry("type", Leaf(<<chart.workload>>)),
                                                    spec.container.securityContext)
           base == [enabled |-> Leaf(<<"true">>),
                    image |-> buildImageNode(spec.image, spec.version),
                    envs |-> Map(emitServerProfileEnvs(spec.profile, spec.layers)),
                    workload |-> workload, ingress |-> ingress]
           contained == IF container = Empty THEN Empty ELSE Entry("container", Map(container))
           volumes == applyRawVolumes(spec.container)
           ports == [s \in DOMAIN chart.services |-> Leaf(spec.ports[chart.services[s]])]
           annotations == resolveServiceAnnotations(e.services, spec.service)
           services == applyServiceAnnotations(ports, annotations)
<1>1. productValues(e, chart, spec) = Map(base ++ contained ++ volumes ++ services)
  BY DEF productValues
<1>2. DOMAIN base = {"enabled", "image", "envs", "workload", "ingress"}
  OBVIOUS
<1>3. DOMAIN contained \subseteq {"container"}
  BY DEF Entry, Empty
<1>4. DOMAIN volumes \subseteq {"volumes", "volumeMounts"}
  BY DEF applyRawVolumes, Present
<1>5. DOMAIN services \subseteq {"services"}
  BY DEF applyServiceAnnotations, Entry, Empty
<1>6. \A k : (Map(contained) | "container" | k) = (Map(container) | k)
  <2>1. CASE container = Empty
    BY <2>1, Nodes, EntryIs DEF Absent
  <2>2. CASE container # Empty
    BY <2>2, EntryIs
  <2> QED BY <2>1, <2>2
<1>7. \A k \in DOMAIN chart.services :
        (Map(services) | "services" | k) = Leaf(spec.ports[chart.services[k]])
  <2> SUFFICES ASSUME NEW k \in DOMAIN chart.services
               PROVE  (Map(services) | "services" | k) = Leaf(spec.ports[chart.services[k]])
    OBVIOUS
  <2> DEFINE all == ports ++ Annotations(annotations)
  <2>1. k \in DOMAIN all /\ all[k] = Leaf(spec.ports[chart.services[k]])
    BY DEF ++
  <2>2. all # Empty
    BY <2>1 DEF Empty
  <2>3. services = Entry("services", Map(all))
    BY <2>2 DEF applyServiceAnnotations
  <2> HIDE DEF all
  <2> QED BY <2>1, <2>3, Nodes DEF Entry
<1> HIDE DEF container, ingress, workload, contained, volumes, services, requests
<1>8. /\ \A k \in DOMAIN base : (productValues(e, chart, spec) | k) = base[k]
      /\ (productValues(e, chart, spec) | "container") = (Map(contained) | "container")
      /\ (productValues(e, chart, spec) | "services") = (Map(services) | "services")
  <2> HIDE DEF base
  <2> QED BY <1>1, <1>2, <1>3, <1>4, <1>5, FourParts
<1> QED
  BY <1>2, <1>6, <1>7, <1>8 DEF ingress, container, requests

\* What is read of the section of a console that runs.
LEMMA ConsoleSectionIs ==
  ASSUME NEW e, NEW directory
  PROVE  LET section == consoleValues(e, directory) IN
         /\ (section | "enabled") = Leaf(<<"true">>)
         /\ (section | "image") = buildImageNode(firstNonEmpty(e.console[1].image, directory.image),
                                  firstNonEmpty(e.console[1].version, directory.version))
         /\ (section | "server" | "port") = Leaf(directory.ports.ldaps)
         /\ (section | "ingress") = ingressValues(e, e.console[1].ingress, "pd-console")
BY Nodes DEF consoleValues

\* What is disabled is not served.
LEMMA DisabledIs ==
  /\ (Disabled | "enabled") = Leaf(<<"false">>)
  /\ Text(Disabled | "enabled") # <<"true">>
  /\ Text(Disabled | "ingress" | "enabled") # <<"true">>
BY Nodes DEF Disabled, Absent

\* The section of a sub-chart whose product is deployed and that no override names.
LEMMA DeployedSectionIs ==
  ASSUME TypeOK, SectionsKept, NEW c \in DOMAIN Charts, Untouched(c)
  PROVE  /\ Deploys(c) =>
              Section(c) = productValues(env, Charts[c], applyDefaults(specs)[Charts[c].kind])
         /\ ~Deploys(c) => Section(c) = Disabled
<1>1. DOMAIN applyDefaults(specs) = DOMAIN specs
  BY DEF applyDefaults
<1>2. c \in DOMAIN sections(env, specs)
  BY SectionsAre
<1> QED BY <1>1, <1>2, SectionsAre, SectionIs DEF Deploys

\* The section of the console, when no override names it.
LEMMA ConsoleSectionOf ==
  ASSUME TypeOK, SectionsKept, Untouched("pingdataconsole")
  PROVE  /\ consoleEnabled(env, specs) =>
              /\ "PingDirectory" \in DOMAIN specs
              /\ Section("pingdataconsole")
                   = consoleValues(env, applyDefaults(specs)["PingDirectory"])
         /\ ~consoleEnabled(env, specs) => Section("pingdataconsole") = Disabled
<1>1. DOMAIN applyDefaults(specs) = DOMAIN specs
  BY DEF applyDefaults
<1>2. consoleEnabled(env, applyDefaults(specs)) = consoleEnabled(env, specs)
  BY <1>1 DEF consoleEnabled
<1>3. consoleEnabled(env, specs) => "PingDirectory" \in DOMAIN specs
  BY DEF consoleEnabled
<1> QED BY <1>2, <1>3, SectionsAre, SectionIs

-----------------------------------------------------------------------------
\* The console

\* A console that is returned enabled has the directory it logs in to, and its port.
LEMMA Console == TypeOK /\ SectionsKept => ConsoleServed
<1> SUFFICES ASSUME TypeOK, SectionsKept, Untouched("pingdataconsole"),
                    Text(Section("pingdataconsole") | "enabled") = <<"true">>
             PROVE  LET port == Text(Section("pingdataconsole") | "server" | "port") IN
                    /\ port # Unset
                    /\ Untouched("pingdirectory") =>
                         /\ Text(Section("pingdirectory") | "enabled") = <<"true">>
                         /\ port = Text(Section("pingdirectory") | "services" | "ldaps")
  BY DEF ConsoleServed
<1> DEFINE directory == applyDefaults(specs)["PingDirectory"]
           port == Text(Section("pingdataconsole") | "server" | "port")
<1>1. /\ "PingDirectory" \in DOMAIN specs
      /\ Section("pingdataconsole") = consoleValues(env, directory)
  BY ConsoleSectionOf, DisabledIs
<1>2. port = directory.ports.ldaps
  BY <1>1, ConsoleSectionIs, Nodes
<1>3. directory.ports.ldaps # Unset
  <2>1. DOMAIN specs["PingDirectory"].ports = {"ldap", "ldaps", "https"}
    BY <1>1 DEF TypeOK, IsInput, IsSpecOf, DefaultPorts, DirectoryPorts
  <2>2. directory.ports["ldaps"] = firstNonEmpty(specs["PingDirectory"].ports["ldaps"],
                                                DefaultPorts["PingDirectory"]["ldaps"])
    BY <1>1, <2>1, DefaultsAre
  <2>3. DefaultPorts["PingDirectory"]["ldaps"] # Unset
    BY DEF DefaultPorts, DirectoryPorts, Unset
  <2> QED BY <2>2, <2>3 DEF firstNonEmpty
<1>4. ASSUME Untouched("pingdirectory")
      PROVE  /\ Text(Section("pingdirectory") | "enabled") = <<"true">>
             /\ port = Text(Section("pingdirectory") | "services" | "ldaps")
  <2>1. /\ "pingdirectory" \in DOMAIN Charts
        /\ Charts["pingdirectory"].kind = "PingDirectory"
        /\ "ldaps" \in DOMAIN Charts["pingdirectory"].services
        /\ Charts["pingdirectory"].services["ldaps"] = "ldaps"
    BY ChartsAre DEF DirectoryChart, Entry, Chart, DirectoryServices
  <2>2. Section("pingdirectory") = productValues(env, Charts["pingdirectory"], directory)
    BY <1>1, <1>4, <2>1, DeployedSectionIs DEF Deploys
  <2> QED BY <1>2, <2>1, <2>2, ProductSectionIs, Nodes
<1> QED BY <1>2, <1>3, <1>4

-----------------------------------------------------------------------------
\* Ingresses

\* A served ingress: its host name and its secret.
LEMMA IngressIs ==
  ASSUME NEW e, NEW component, NEW prefix,
         Text(ingressValues(e, component, prefix) | "enabled") = <<"true">>
  PROVE  LET ingress == ingressValues(e, component, prefix)
             host == resolveHostname(component.hostname, prefix, e.domain)
         IN /\ Text(ingress | "hosts") = host
            /\ host # Unset =>
                 Text(ingress | "tls") =
                   resolveTLSSecretRef(firstNonEmpty(component.tls, e.ingress.tls),
                                       e.tenantID, prefix)
<1> DEFINE ing == resolveIngressSpec(e.ingress, component)
           tls == resolveTLSSecretRef(ing.tls, e.tenantID, prefix)
           own == [ing EXCEPT !.tls = tls]
           host == resolveHostname(component.hostname, prefix, e.domain)
           first == [enabled |-> Leaf(<<"true">>), hosts |-> Leaf(host)]
           rest == [className |-> own.className,
                    tls |-> IF host # Unset THEN own.tls ELSE Unset]
<1>1. /\ own.tls = tls /\ ing.hostname = component.hostname
      /\ ing.tls = firstNonEmpty(component.tls, e.ingress.tls)
  BY DEF resolveIngressSpec
<1>2. ingressValues(e, component, prefix) = buildIngressValues(own, host)
  BY <1>1, DisabledIs DEF ingressValues
<1>3. buildIngressValues(own, host) = Map(first ++ Present(rest) ++ Annotations(own.annotations))
  BY DEF buildIngressValues
<1>4. DOMAIN first = {"enabled", "hosts"} /\ first["hosts"] = Leaf(host)
  OBVIOUS
<1>5. DOMAIN rest = {"className", "tls"} /\ (host # Unset => rest["tls"] = tls)
  BY <1>1
<1>6. "tls" \notin DOMAIN Annotations(own.annotations)
  <2>1. DOMAIN Annotations(own.annotations) \in {{}, {"annotations"}}
    BY EntryIs DEF Annotations
  <2> QED BY <2>1
<1> HIDE DEF first, rest, own, tls, ing, host
<1>7. (buildIngressValues(own, host) | "hosts") = Leaf(host)
  BY <1>3, <1>4, OverIs, Nodes
<1>8. (buildIngressValues(own, host) | "tls") = (Map(Present(rest)) | "tls")
  <2>1. CASE "tls" \in DOMAIN Present(rest)
    BY <1>3, <1>4, <2>1, OverIs
  <2>2. CASE "tls" \notin DOMAIN Present(rest)
    <3>1. "tls" \notin DOMAIN (first ++ Present(rest) ++ Annotations(own.annotations))
      BY <1>4, <1>6, <2>2, OverIs
    <3> QED BY <1>3, <2>2, <3>1, Nodes
  <2> QED BY <2>1, <2>2
<1>9. Text(Map(Present(rest)) | "tls") = rest["tls"]
  BY <1>5, PresentIs
<1> QED BY <1>1, <1>2, <1>5, <1>7, <1>8, <1>9, Nodes DEF host, tls

\* The word a component's host name and secret are derived from.
PrefixOf(c) == IF c = "pingdataconsole" THEN "pd-console" ELSE Charts[c].prefix

\* No two components derive their host name and secret from the same word.
LEMMA PrefixesApart ==
  ASSUME NEW c \in DOMAIN Charts \cup {"pingdataconsole"},
         NEW d \in DOMAIN Charts \cup {"pingdataconsole"}, PrefixOf(c) = PrefixOf(d)
  PROVE  c = d
<1> DEFINE owner(p) ==
      CASE p = "pf-admin" -> "pingfederate-admin" [] p = "pf" -> "pingfederate-engine"
        [] p = "pa-admin" -> "pingaccess-admin" [] p = "pa" -> "pingaccess-engine"
        [] p = "none" -> "pingdirectory" [] p = "paz" -> "pingauthorize"
        [] p = "paz-pap" -> "pingauthorizepap" [] p = "pds" -> "pingdatasync"
        [] p = "pdp" -> "pingdirectoryproxy" [] OTHER -> "pingdataconsole"
<1>1. ASSUME NEW x \in DOMAIN Charts \cup {"pingdataconsole"}
      PROVE  owner(PrefixOf(x)) = x
  BY ChartsAre DEF PrefixOf, Chart, FederateCharts, DirectoryChart, AccessCharts,
         AuthorizeChart, PAPChart, DataSyncChart, DirectoryProxyChart, Entry
<1> HIDE DEF owner
<1> QED BY <1>1

\* What a served component shows of its ingress.
LEMMA ServedIs ==
  ASSUME TypeOK, SectionsKept, NEW c \in Served
  PROVE  /\ Text(Section(c) | "ingress" | "hosts")
              = resolveHostname(IngressOf(c).hostname, PrefixOf(c), env.domain)
         /\ Text(Section(c) | "ingress" | "hosts") # Unset =>
              Text(Section(c) | "ingress" | "tls")
                = resolveTLSSecretRef(firstNonEmpty(IngressOf(c).tls, env.ingress.tls),
                                      env.tenantID, PrefixOf(c))
<1>1. /\ Untouched(c)
      /\ Text(Section(c) | "enabled") = <<"true">>
      /\ Text(Section(c) | "ingress" | "enabled") = <<"true">>
  BY DEF Served
<1>2. (Section(c) | "ingress") = ingressValues(env, IngressOf(c), PrefixOf(c))
  <2>1. CASE c = "pingdataconsole"
    <3>1. consoleEnabled(env, specs)
      BY <1>1, <2>1, ConsoleSectionOf, DisabledIs
    <3> QED BY <1>1, <2>1, <3>1, ConsoleSectionOf, ConsoleSectionIs DEF IngressOf, PrefixOf
  <2>2. CASE c # "pingdataconsole"
    <3> DEFINE spec == applyDefaults(specs)[Charts[c].kind]
    <3>1. c \in DOMAIN Charts
      BY <2>2 DEF Served
    <3>2. Deploys(c) /\ Section(c) = productValues(env, Charts[c], spec)
      BY <1>1, <3>1, DeployedSectionIs, DisabledIs
    <3>3. Charts[c].ingress # "none"
          /\ (Section(c) | "ingress")
                = ingressValues(env, spec.ingress[Charts[c].ingress], Charts[c].prefix)
      BY <1>1, <3>2, ProductSectionIs, DisabledIs, Nodes DEF Disabled
    <3>4. spec.ingress = SpecOf(c).ingress
      BY <3>2, DefaultsAre DEF Deploys, SpecOf
    <3> QED BY <2>2, <3>3, <3>4 DEF IngressOf, PrefixOf
  <2> QED BY <2>1, <2>2
<1> QED BY <1>1, <1>2, IngressIs

\* Two served components that share a host or a secret were told to by a spec.
LEMMA Apart == TypeOK /\ SectionsKept => IngressesApart
<1> DEFINE host(x) == Text(Section(x) | "ingress" | "hosts")
           secret(x) == Text(Section(x) | "ingress" | "tls")
<1> SUFFICES ASSUME TypeOK, SectionsKept, env.domain # Unset, NEW c \in Served
             PROVE  /\ host(c) # Unset /\ secret(c) # Unset
                    /\ \A d \in Served \ {c} :
                         /\ host(c) = host(d) =>
                              \E x \in {c, d} : IngressOf(x).hostname # Unset
                         /\ secret(c) = secret(d) =>
                              \/ env.ingress.tls # Unset
                              \/ \E x \in {c, d} : IngressOf(x).tls # Unset
  BY DEF IngressesApart
<1>1. env.domain \in Seq(STRING) /\ Len(env.domain) > 0
  BY DEF TypeOK, IsInput, IsPingEnvironmentSpec, IsText, Unset
<1>2. ASSUME NEW x \in Served
      PROVE  /\ host(x) # Unset /\ secret(x) # Unset
             /\ IngressOf(x).hostname = Unset => host(x) = <<PrefixOf(x), ".">> \o env.domain
             /\ IngressOf(x).tls = Unset /\ env.ingress.tls = Unset =>
                  secret(x) = <<env.tenantID, "-", PrefixOf(x), "-tls">>
  <2>1. host(x) = resolveHostname(IngressOf(x).hostname, PrefixOf(x), env.domain)
    BY ServedIs
  <2>2. <<PrefixOf(x), ".">> \o env.domain # Unset
    BY <1>1 DEF Unset
  <2>3. host(x) # Unset
    BY <2>1, <2>2 DEF resolveHostname, firstNonEmpty
  <2>4. secret(x) = resolveTLSSecretRef(firstNonEmpty(IngressOf(x).tls, env.ingress.tls),
                                        env.tenantID, PrefixOf(x))
    BY <2>3, ServedIs
  <2>5. <<env.tenantID, "-", PrefixOf(x), "-tls">> # Unset
    BY DEF Unset
  <2> QED BY <2>1, <2>3, <2>4, <2>5 DEF resolveHostname, resolveTLSSecretRef, firstNonEmpty
<1>3. ASSUME NEW d \in Served, c # d
      PROVE  PrefixOf(c) # PrefixOf(d)
  BY <1>3, PrefixesApart DEF Served
<1>4. ASSUME NEW d \in Served \ {c}, host(c) = host(d)
      PROVE  \E x \in {c, d} : IngressOf(x).hostname # Unset
  <2> SUFFICES ASSUME IngressOf(c).hostname = Unset, IngressOf(d).hostname = Unset
               PROVE  FALSE
    OBVIOUS
  <2>1. <<PrefixOf(c), ".">> \o env.domain = <<PrefixOf(d), ".">> \o env.domain
    BY <1>2, <1>4
  <2>2. \A p : (<<p, ".">> \o env.domain)[1] = p
    BY <1>1
  <2> QED BY <1>3, <2>1, <2>2
<1>5. ASSUME NEW d \in Served \ {c}, secret(c) = secret(d)
      PROVE  env.ingress.tls # Unset \/ \E x \in {c, d} : IngressOf(x).tls # Unset
  <2> SUFFICES ASSUME env.ingress.tls = Unset, IngressOf(c).tls = Unset,
                      IngressOf(d).tls = Unset
               PROVE  FALSE
    OBVIOUS
  <2>1. <<env.tenantID, "-", PrefixOf(c), "-tls">> = <<env.tenantID, "-", PrefixOf(d), "-tls">>
    BY <1>2, <1>5
  <2> QED BY <1>3, <2>1
<1> QED BY <1>2, <1>4, <1>5

-----------------------------------------------------------------------------
\* Image references

\* Two sequences put together.
LEMMA JoinedIs ==
  ASSUME NEW s \in Seq(STRING), NEW t \in Seq(STRING)
  PROVE  s \o t \in Seq(STRING) /\ Len(s \o t) = Len(s) + Len(t)
OBVIOUS

\* The parts of a tagged reference, put together again, are the reference.
LEMMA PartsMakeReference ==
  ASSUME NEW version \in Seq(STRING), IsTagged(version)
  PROVE  LET parts == buildImageValues(Unset, version) IN
         /\ parts.repository # Unset /\ parts.name # Unset /\ parts.tag # Unset
         /\ parts.repository \o <<"/">> \o parts.name \o <<":">> \o parts.tag = version
<1> DEFINE colon == LastIndex(version, ":")
           slash == LastIndex(version, "/")
           rest == SubSeq(version, 1, colon - 1)
           parts == buildImageValues(Unset, version)
           repository == SubSeq(version, 1, slash - 1)
           name == SubSeq(version, slash + 1, colon - 1)
           tag == SubSeq(version, colon + 1, Len(version))
<1>1. /\ Len(version) \in Nat /\ slash \in Nat /\ colon \in Nat
      /\ 1 < slash /\ slash + 1 < colon /\ colon < Len(version)
      /\ version[slash] = "/" /\ version[colon] = ":"
  <2>1. 1 < slash /\ slash + 1 < colon /\ colon < Len(version)
    BY DEF IsTagged
  <2>2. Len(version) \in Nat /\ slash \in 0 .. Len(version) /\ colon \in 0 .. Len(version)
    BY LastIndexIs
  <2>3. slash > 0 => version[slash] = "/"
    BY LastIndexIs
  <2>4. colon > 0 => version[colon] = ":"
    BY LastIndexIs
  <2> QED BY <2>1, <2>2, <2>3, <2>4
<1> HIDE DEF colon, slash
<1>2. /\ rest \in Seq(STRING) /\ Len(rest) = colon - 1
      /\ \A i \in 1 .. colon - 1 : rest[i] = version[i]
  BY <1>1
<1>3. LastIndex(rest, "/") = slash
  <2> DEFINE last == LastIndex(rest, "/")
  <2>1. last \in 0 .. colon - 1 /\ (last > 0 => rest[last] = "/")
    BY <1>2, LastIndexIs
  <2>2. rest[slash] = "/" /\ slash \in 1 .. Len(rest)
    BY <1>1, <1>2
  <2>3. slash <= last
    BY <1>2, <2>2, LastIndexIs
  <2>4. version[last] = "/" /\ last \in 1 .. Len(version)
    BY <1>1, <1>2, <2>1, <2>3
  <2>5. last <= slash
    BY <2>4, LastIndexIs DEF slash
  <2> HIDE DEF last
  <2>6. last = slash
    BY <1>1, <2>1, <2>3, <2>5
  <2> QED BY <2>6 DEF last
<1>4. Contains(version, "/")
  BY <1>1 DEF Contains
<1>5. /\ SubSeq(rest, 1, slash - 1) = repository
      /\ SubSeq(rest, slash + 1, Len(rest)) = name
  BY <1>1, <1>2
<1>6. repository # Unset /\ name # Unset /\ tag # Unset
  <2>1. Len(repository) = slash - 1 /\ Len(name) = colon - slash - 1 /\ Len(tag) = Len(version) - colon
    BY <1>1
  <2>2. Len(Unset) = 0
    BY DEF Unset
  <2> HIDE DEF repository, name, tag
  <2> QED BY <1>1, <2>1, <2>2
<1>7. parts = [repository |-> repository, name |-> name, tag |-> tag]
  <2>1. LastIndex(version, ":") = colon
    BY DEF colon
  <2>2. firstNonEmpty(Unset, repository) = repository
    BY DEF firstNonEmpty
  <2>3. colon # 0 /\ slash # 0
    BY <1>1
  <2> QED BY <1>3, <1>4, <1>5, <2>1, <2>2, <2>3 DEF buildImageValues
<1>8. repository \o <<"/">> \o name \o <<":">> \o tag = version
  <2> DEFINE n == Len(version)
             w1 == repository \o <<"/">>
             w2 == w1 \o name
             w3 == w2 \o <<":">>
             w4 == w3 \o tag
  <2>0. n \in Nat
    BY <1>1
  <2>1. /\ repository \in Seq(STRING) /\ Len(repository) = slash - 1
        /\ \A i \in 1 .. slash - 1 : repository[i] = version[i]
    BY <1>1
  <2>2. /\ name \in Seq(STRING) /\ Len(name) = colon - slash - 1
        /\ \A i \in 1 .. colon - slash - 1 : name[i] = version[slash + i]
    BY <1>1
  <2>3. /\ tag \in Seq(STRING) /\ Len(tag) = n - colon
        /\ \A i \in 1 .. n - colon : tag[i] = version[colon + i]
    BY <1>1
  <2> HIDE DEF repository, name, tag, n
  <2>4. /\ w1 \in Seq(STRING) /\ Len(w1) = slash
        /\ \A i \in 1 .. slash : w1[i] = version[i]
    BY <1>1, <2>1
  <2> HIDE DEF w1
  <2>5. /\ w2 \in Seq(STRING) /\ Len(w2) = colon - 1
        /\ \A i \in 1 .. colon - 1 : w2[i] = version[i]
    <3>1. w2 \in Seq(STRING) /\ Len(w2) = colon - 1
      <4>1. w2 \in Seq(STRING) /\ Len(w2) = Len(w1) + Len(name)
        BY <2>2, <2>4, JoinedIs
      <4> QED BY <1>1, <2>2, <2>4, <4>1
    <3>2. ASSUME NEW i \in 1 .. slash PROVE w2[i] = version[i]
      BY <1>1, <2>2, <2>4
    <3>3. ASSUME NEW i \in slash + 1 .. colon - 1 PROVE w2[i] = version[i]
      <4>1. i - slash \in 1 .. colon - slash - 1 /\ slash + (i - slash) = i
        BY <1>1
      <4>2. w2[i] = name[i - slash]
        BY <1>1, <2>2, <2>4
      <4> QED BY <2>2, <4>1, <4>2
    <3>4. \A i \in 1 .. colon - 1 : i \in 1 .. slash \/ i \in slash + 1 .. colon - 1
      BY <1>1
    <3> QED BY <3>1, <3>2, <3>3, <3>4
  <2> HIDE DEF w2
  <2>6. /\ w3 \in Seq(STRING) /\ Len(w3) = colon
        /\ \A i \in 1 .. colon : w3[i] = version[i]
    BY <1>1, <2>5
  <2> HIDE DEF w3
  <2>7. /\ w4 \in Seq(STRING) /\ Len(w4) = n
        /\ \A i \in 1 .. n : w4[i] = version[i]
    <3>1. w4 \in Seq(STRING) /\ Len(w4) = n
      <4>1. w4 \in Seq(STRING) /\ Len(w4) = Len(w3) + Len(tag)
        BY <2>3, <2>6, JoinedIs
      <4> QED BY <1>1, <2>0, <2>3, <2>6, <4>1
    <3>2. ASSUME NEW i \in 1 .. colon PROVE w4[i] = version[i]
      BY <1>1, <2>0, <2>3, <2>6 DEF n
    <3>3. ASSUME NEW i \in colon + 1 .. n PROVE w4[i] = version[i]
      <4>1. i - colon \in 1 .. n - colon /\ colon + (i - colon) = i
        BY <1>1, <2>0
      <4>2. w4[i] = tag[i - colon]
        BY <1>1, <2>0, <2>3, <2>6
      <4> QED BY <2>3, <4>1, <4>2
    <3>4. \A i \in 1 .. n : i \in 1 .. colon \/ i \in colon + 1 .. n
      BY <1>1, <2>0
    <3> QED BY <3>1, <3>2, <3>3, <3>4
  <2> HIDE DEF w4
  <2>8. w4 = version
    BY <2>7 DEF n
  <2> QED BY <2>8 DEF w1, w2, w3, w4
<1> HIDE DEF repository, name, tag
<1> QED BY <1>6, <1>7, <1>8

\* The image of a section whose image node is that of a tagged reference.
LEMMA ImageIs ==
  ASSUME NEW c, NEW version \in Seq(STRING), IsTagged(version),
         (Section(c) | "image") = buildImageNode(Unset, version)
  PROVE  ImageOf(c) = version
<1> DEFINE parts == buildImageValues(Unset, version)
<1>1. /\ parts.repository # Unset /\ parts.name # Unset /\ parts.tag # Unset
      /\ parts.repository \o <<"/">> \o parts.name \o <<":">> \o parts.tag = version
  BY PartsMakeReference
<1>2. DOMAIN parts = {"repository", "name", "tag"}
  BY DEF buildImageValues
<1>3. (Section(c) | "image") = Map(Present(parts))
  BY DEF buildImageNode
<1> HIDE DEF parts
<1>4. \A part \in {"repository", "name", "tag"} : Text(Section(c) | "image" | part) = parts[part]
  BY <1>2, <1>3, PresentIs
<1>5. /\ ImagePart(c, "repository") = parts.repository
      /\ ImagePart(c, "name") = parts.name
      /\ ImagePart(c, "tag") = parts.tag
  BY <1>1, <1>4 DEF ImagePart, firstNonEmpty
<1> QED BY <1>1, <1>5 DEF ImageOf

\* A tagged reference arrives as it was written, at the console too.
LEMMA Reference == TypeOK /\ SectionsKept => ReferenceKept
<1> SUFFICES ASSUME TypeOK, SectionsKept, NEW c \in DOMAIN Charts, Deploys(c),
                    SpecOf(c).image = Unset, IsTagged(SpecOf(c).version)
             PROVE  /\ Untouched(c) => ImageOf(c) = SpecOf(c).version
                    /\ c = "pingdirectory" /\ ConsoleFollows /\ Untouched("pingdataconsole") =>
                         ImageOf("pingdataconsole") = SpecOf(c).version
  BY DEF ReferenceKept
<1> DEFINE kind == Charts[c].kind
           spec == applyDefaults(specs)[kind]
<1>1. kind \in DOMAIN specs /\ SpecOf(c) = specs[kind]
  BY DEF Deploys, SpecOf
<1>2. SpecOf(c).version \in Seq(STRING)
  BY <1>1 DEF TypeOK, IsInput, IsSpecOf, IsProductSpec, IsText
<1>3. spec.image = Unset /\ spec.version = SpecOf(c).version
  BY <1>1, DefaultsAre
<1>4. ASSUME Untouched(c) PROVE ImageOf(c) = SpecOf(c).version
  <2>1. Section(c) = productValues(env, Charts[c], spec)
    BY <1>4, DeployedSectionIs
  <2>2. (Section(c) | "image") = buildImageNode(spec.image, spec.version)
    BY <2>1, ProductSectionIs
  <2> QED BY <1>2, <1>3, <2>2, ImageIs
<1>5. ASSUME c = "pingdirectory", ConsoleFollows, Untouched("pingdataconsole")
      PROVE  ImageOf("pingdataconsole") = SpecOf(c).version
  <2>1. kind = "PingDirectory"
    BY <1>5, ChartsAre DEF DirectoryChart, Entry, Chart
  <2>2. Section("pingdataconsole") = consoleValues(env, spec)
    BY <1>5, <2>1, ConsoleSectionOf DEF ConsoleFollows
  <2>3. (Section("pingdataconsole") | "image")
          = buildImageNode(firstNonEmpty(env.console[1].image, spec.image),
                           firstNonEmpty(env.console[1].version, spec.version))
    BY <2>2, ConsoleSectionIs
  <2>4. /\ firstNonEmpty(env.console[1].image, spec.image) = Unset
        /\ firstNonEmpty(env.console[1].version, spec.version) = SpecOf(c).version
    BY <1>3, <1>5 DEF ConsoleFollows, firstNonEmpty
  <2> QED BY <1>2, <2>3, <2>4, ImageIs
<1> QED BY <1>4, <1>5

-----------------------------------------------------------------------------
\* Server profiles

\* What Overlay has under a key: what the last of the maps that have it has there.
LEMMA OverlayIs ==
  ASSUME NEW n \in Nat, NEW maps, DOMAIN maps = 1 .. n
  PROVE  /\ \A k : k \in DOMAIN Overlay(maps) <=> \E i \in 1 .. n : k \in DOMAIN maps[i]
         /\ \A k \in DOMAIN Overlay(maps) :
              \E i \in 1 .. n :
                /\ k \in DOMAIN maps[i]
                /\ Overlay(maps)[k] = maps[i][k]
                /\ \A j \in 1 .. n : k \in DOMAIN maps[j] => j <= i
<1>1. DOMAIN Overlay(maps) = UNION {DOMAIN maps[i] : i \in DOMAIN maps}
  BY DEF Overlay
<1>2. ASSUME NEW k \in DOMAIN Overlay(maps)
      PROVE  \E i \in 1 .. n :
               /\ k \in DOMAIN maps[i]
               /\ Overlay(maps)[k] = maps[i][k]
               /\ \A j \in 1 .. n : k \in DOMAIN maps[j] => j <= i
  <2> DEFINE I == {i \in DOMAIN maps : k \in DOMAIN maps[i]}
  <2>1. I \in SUBSET (1 .. n) /\ I # {}
    BY <1>1
  <2>2. Overlay(maps)[k] = maps[Max(I)][k]
    BY <1>1 DEF Overlay
  <2>3. Max(I) \in I /\ \A j \in I : j <= Max(I)
    BY <2>1, MaxInterval
  <2> QED BY <2>2, <2>3
<1> QED BY <1>1, <1>2

\* What a profile or a layer has for the end of a variable's name.
FieldOf(profile, field) == IF field = "URL" THEN profile.url ELSE profile.parent

\* Variables are told apart by both their parts.
LEMMA VariablesApart ==
  \A name, field, other, end :
    Variable(name, field) = Variable(other, end) <=> name = other /\ field = end
BY DEF Variable

\* A profile or a layer sets the variables of its name for the fields it has.
LEMMA ProfileEnvsAre ==
  ASSUME NEW own, NEW profile, NEW name, NEW field \in {"URL", "PARENT"}
  PROVE  /\ Variable(name, field) \in DOMAIN profileEnvs(own, profile)
              <=> name = own /\ FieldOf(profile, field) # Unset
         /\ Variable(name, field) \in DOMAIN profileEnvs(own, profile) =>
              profileEnvs(own, profile)[Variable(name, field)] = Leaf(FieldOf(profile, field))
<1> DEFINE f == Entry(Variable(own, "URL"), profile.url) ++ Entry(Variable(own, "PARENT"), profile.parent)
<1>1. DOMAIN f = {Variable(own, "URL"), Variable(own, "PARENT")}
  BY DEF Entry, ++
<1>2. f[Variable(own, "URL")] = profile.url /\ f[Variable(own, "PARENT")] = profile.parent
  BY VariablesApart DEF Entry, ++
<1>3. profileEnvs(own, profile) = Present(f)
  BY DEF profileEnvs
<1> HIDE DEF f
<1>4. /\ DOMAIN Present(f) = {k \in DOMAIN f : f[k] # Unset}
      /\ \A k \in DOMAIN Present(f) : Present(f)[k] = Leaf(f[k])
  BY DEF Present
<1>5. Variable(name, field) \in DOMAIN f <=> name = own
  BY <1>1, VariablesApart
<1>6. name = own => f[Variable(name, field)] = FieldOf(profile, field)
  BY <1>2 DEF FieldOf
<1> QED BY <1>3, <1>4, <1>5, <1>6

\* The same for the layers called name.
SaidOf(layers, name, field) ==
  {FieldOf(layers[i], field) : i \in {j \in DOMAIN layers : ToUpper(layers[j].name) = name}}
  \ {Unset}

\* The container is told of the base profile and of every layer under its name.
LEMMA HeardIs ==
  ASSUME TypeOK, SectionsKept, NEW c \in DOMAIN Charts, Untouched(c), Deploys(c),
         SpecOf(c).profile # Unset, NEW field \in {"URL", "PARENT"}
  PROVE  /\ Told(c, Unset, field) = FieldOf(SpecOf(c).profile[1], field)
         /\ \A i \in DOMAIN SpecOf(c).layers :
              LET name == ToUpper(SpecOf(c).layers[i].name)
                  said == SaidOf(SpecOf(c).layers, name, field)
              IN IF said = {} THEN Told(c, <<name>>, field) = Unset
                 ELSE Told(c, <<name>>, field) \in said
<1> DEFINE spec == applyDefaults(specs)[Charts[c].kind]
           layers == SpecOf(c).layers
           maps == [i \in DOMAIN layers |->
                      profileEnvs(<<ToUpper(layers[i].name)>>, layers[i])]
           profile == SpecOf(c).profile[1]
           base == profileEnvs(Unset, profile)
           n == Len(layers)
<1>1. Charts[c].kind \in DOMAIN specs /\ SpecOf(c) = specs[Charts[c].kind]
  BY DEF Deploys, SpecOf
<1>2. spec.profile = SpecOf(c).profile /\ spec.layers = layers
  BY <1>1, DefaultsAre
<1>3. (Section(c) | "envs") = Map(Overlay(maps) ++ base)
  <2>1. (Section(c) | "envs") = Map(emitServerProfileEnvs(spec.profile, spec.layers))
    BY DeployedSectionIs, ProductSectionIs
  <2> QED BY <1>2, <2>1 DEF emitServerProfileEnvs
<1>4. n \in Nat /\ DOMAIN layers = 1 .. n /\ DOMAIN maps = 1 .. n
  BY <1>1 DEF TypeOK, IsInput, IsSpecOf, IsProductSpec, IsList
<1>5. ASSUME NEW i \in 1 .. n, NEW name
      PROVE  /\ Variable(name, field) \in DOMAIN maps[i]
                  <=> name = <<ToUpper(layers[i].name)>> /\ FieldOf(layers[i], field) # Unset
             /\ Variable(name, field) \in DOMAIN maps[i] =>
                  maps[i][Variable(name, field)] = Leaf(FieldOf(layers[i], field))
  <2>1. maps[i] = profileEnvs(<<ToUpper(layers[i].name)>>, layers[i])
    BY <1>4
  <2> HIDE DEF maps, layers, n
  <2> QED BY <2>1, ProfileEnvsAre
<1>6. ASSUME NEW name
      PROVE  /\ Variable(name, field) \in DOMAIN base
                  <=> name = Unset /\ FieldOf(profile, field) # Unset
             /\ Variable(name, field) \in DOMAIN base =>
                  base[Variable(name, field)] = Leaf(FieldOf(profile, field))
  <2> HIDE DEF profile
  <2> QED BY ProfileEnvsAre
<1> HIDE DEF maps, layers, base, profile, n
<1>7. Told(c, Unset, field) = FieldOf(profile, field)
  <2> DEFINE key == Variable(Unset, field)
  <2>1. \A i \in 1 .. n : key \notin DOMAIN maps[i]
    <3>1. \A x : Unset # <<x>>
      BY DEF Unset
    <3> QED BY <1>5, <3>1
  <2>2. key \in DOMAIN base <=> FieldOf(profile, field) # Unset
    BY <1>6
  <2>3. key \in DOMAIN base => base[key] = Leaf(FieldOf(profile, field))
    BY <1>6
  <2>4. Told(c, Unset, field) = Text(Section(c) | "envs" | key)
    BY DEF Told
  <2> HIDE DEF key
  <2>5. key \notin DOMAIN Overlay(maps)
    BY <1>4, <2>1, OverlayIs
  <2>6. (Section(c) | "envs" | key) = (Map(base) | key)
    BY <1>3, <2>5, OverIs
  <2>7. CASE key \in DOMAIN base
    BY <2>3, <2>4, <2>6, <2>7, Nodes
  <2>8. CASE key \notin DOMAIN base
    BY <2>2, <2>4, <2>6, <2>8, Nodes DEF Absent, Unset
  <2> QED BY <2>7, <2>8
<1>8. ASSUME NEW i \in 1 .. n
      PROVE  LET name == ToUpper(layers[i].name)
                 said == SaidOf(layers, name, field)
             IN IF said = {} THEN Told(c, <<name>>, field) = Unset
                ELSE Told(c, <<name>>, field) \in said
  <2> DEFINE name == ToUpper(layers[i].name)
             said == SaidOf(layers, name, field)
             key == Variable(<<name>>, field)
  <2>1. \A v : v \in said <=> \E j \in 1 .. n : /\ ToUpper(layers[j].name) = name
                                              /\ v = FieldOf(layers[j], field)
                                              /\ v # Unset
    BY <1>4 DEF SaidOf
  <2>2. ASSUME NEW j \in 1 .. n
        PROVE  /\ key \in DOMAIN maps[j]
                    <=> ToUpper(layers[j].name) = name /\ FieldOf(layers[j], field) # Unset
               /\ key \in DOMAIN maps[j] => maps[j][key] = Leaf(FieldOf(layers[j], field))
    <3>1. \A x, y : <<x>> = <<y>> <=> x = y
      OBVIOUS
    <3> HIDE DEF name
    <3> QED BY <1>5, <3>1
  <2>3. key \notin DOMAIN base
    <3>1. <<name>> # Unset
      BY DEF Unset
    <3> QED BY <1>6, <3>1
  <2>4. Told(c, <<name>>, field) = Text(Section(c) | "envs" | key)
    BY DEF Told
  <2> HIDE DEF name, said, key
  <2>5. key \in DOMAIN Overlay(maps) <=> \E j \in 1 .. n : key \in DOMAIN maps[j]
    BY <1>4, OverlayIs
  <2>6. CASE said = {}
    <3>1. key \notin DOMAIN Overlay(maps)
      BY <2>1, <2>2, <2>5, <2>6
    <3>2. (Section(c) | "envs" | key) = Absent
      BY <1>3, <2>3, <3>1, OverIs, Nodes
    <3>3. Told(c, <<name>>, field) = Unset
      BY <2>4, <3>2, Nodes DEF Absent, Unset
    <3> QED BY <2>6, <3>3 DEF said, name
  <2>7. CASE said # {}
    <3>1. key \in DOMAIN Overlay(maps)
      BY <2>1, <2>2, <2>5, <2>7
    <3>2. PICK j \in 1 .. n : key \in DOMAIN maps[j] /\ Overlay(maps)[key] = maps[j][key]
      BY <1>4, <3>1, OverlayIs
    <3>3. (Section(c) | "envs" | key) = Leaf(FieldOf(layers[j], field))
      BY <1>3, <2>2, <3>1, <3>2, OverIs, Nodes
    <3>4. Told(c, <<name>>, field) \in said
      BY <2>1, <2>2, <2>4, <3>2, <3>3, Nodes
    <3> QED BY <2>7, <3>4 DEF said, name
  <2> QED BY <2>6, <2>7
<1> QED BY <1>4, <1>7, <1>8 DEF layers, profile

LEMMA Heard == TypeOK /\ SectionsKept => LayersTold
<1> SUFFICES ASSUME TypeOK, SectionsKept, NEW c \in DOMAIN Charts, Untouched(c), Deploys(c),
                    SpecOf(c).profile # Unset
             PROVE  LET profile == SpecOf(c).profile[1]
                        layers == SpecOf(c).layers
                        heard(told, said) == IF said = {} THEN told = Unset ELSE told \in said
                    IN /\ Told(c, Unset, "URL") = profile.url
                       /\ Told(c, Unset, "PARENT") = profile.parent
                       /\ \A i \in DOMAIN layers :
                            LET name == ToUpper(layers[i].name) IN
                            /\ heard(Told(c, <<name>>, "URL"), Said(layers, name, "url"))
                            /\ heard(Told(c, <<name>>, "PARENT"), Said(layers, name, "parent"))
  BY DEF LayersTold
<1>1. \A p : FieldOf(p, "URL") = p.url /\ FieldOf(p, "PARENT") = p.parent
  BY DEF FieldOf
<1>2. \A layers, name : /\ SaidOf(layers, name, "URL") = Said(layers, name, "url")
                        /\ SaidOf(layers, name, "PARENT") = Said(layers, name, "parent")
  BY <1>1 DEF SaidOf, Said
<1> QED BY <1>1, <1>2, HeardIs

-----------------------------------------------------------------------------
\* Containers

\* What is read of a container's section: its resources and its dependencies.
LEMMA ContainerIs ==
  ASSUME NEW requests, NEW container
  PROVE  LET section == Map(buildContainerValues(requests, container)) IN
         /\ (section | "resources") =
              IF container.resources = Unset /\ requests = Unset THEN Absent
              ELSE IF container.resources # Unset
                   THEN buildResourcesMap(container.resources[1])
                   ELSE Map([requests |-> Map(Present(requests))])
         /\ container.waitFor # Unset =>
              (section | "waitFor") = Map(waitForMap(container.waitFor))
<1> DEFINE resources == IF container.resources # Unset
                        THEN buildResourcesMap(container.resources[1])
                        ELSE Map([requests |-> Map(Present(requests))])
           first == IF container.resources = Unset /\ requests = Unset THEN Empty
                    ELSE Entry("resources", resources)
           waits == IF container.waitFor = Unset THEN Empty
                    ELSE Entry("waitFor", Map(waitForMap(container.waitFor)))
           volumes == Present([includeVolumes |-> container.includeVolumes])
           security == Optionally("securityContext",
                                  rawToMap(container.containerSecurityContext))
           extras == waits ++ volumes ++ security
<1>1. buildContainerValues(requests, container) = first ++ extras
  BY DEF buildContainerValues, ContainerExtras
<1>2. DOMAIN volumes \subseteq {"includeVolumes"} /\ DOMAIN security \subseteq {"securityContext"}
  BY EntryIs DEF Present, Optionally
<1>3. DOMAIN waits \subseteq {"waitFor"} /\ DOMAIN first \subseteq {"resources"}
  BY EntryIs
<1>4. (Map(first) | "resources") =
        IF container.resources = Unset /\ requests = Unset THEN Absent ELSE resources
  BY EntryIs
<1>5. container.waitFor # Unset =>
        /\ "waitFor" \in DOMAIN waits
        /\ (Map(waits) | "waitFor") = Map(waitForMap(container.waitFor))
  BY EntryIs
<1> HIDE DEF resources, first, waits, volumes, security
<1>6. "resources" \notin DOMAIN extras
  BY <1>2, <1>3, OverIs
<1>7. (Map(first ++ extras) | "resources") = (Map(first) | "resources")
  <2>1. CASE "resources" \in DOMAIN first
    BY <2>1, OverIs
  <2>2. CASE "resources" \notin DOMAIN first
    <3>1. "resources" \notin DOMAIN (first ++ extras)
      BY <1>6, <2>2, OverIs
    <3> HIDE DEF extras
    <3> QED BY <2>2, <3>1, Nodes
  <2> QED BY <2>1, <2>2
<1>8. container.waitFor # Unset =>
        (Map(first ++ extras) | "waitFor") = Map(waitForMap(container.waitFor))
  BY <1>3, <1>5, OverIs
<1> QED BY <1>1, <1>4, <1>7, <1>8 DEF resources

\* What is read of the requests and limits of a container.
LEMMA ResourcesMapIs ==
  ASSUME NEW r, DOMAIN r = {"requests", "limits"}, NEW q \in DOMAIN r
  PROVE  /\ Keys(buildResourcesMap(r) | q) = DOMAIN r[q]
         /\ \A k \in DOMAIN r[q] : Text(buildResourcesMap(r) | q | k) = r[q][k]
<1> DEFINE entries == [k \in DOMAIN r[q] |-> Leaf(r[q][k])]
           f == [k \in {x \in DOMAIN r : DOMAIN r[x] # {}} |->
                   Map([y \in DOMAIN r[k] |-> Leaf(r[k][y])])]
<1>1. buildResourcesMap(r) = Map(f)
  BY DEF buildResourcesMap
<1>2. q \in DOMAIN f <=> DOMAIN r[q] # {}
  OBVIOUS
<1>3. q \in DOMAIN f => f[q] = Map(entries)
  OBVIOUS
<1> HIDE DEF f
<1>4. CASE DOMAIN r[q] = {}
  BY <1>1, <1>2, <1>4, Nodes DEF Absent
<1>5. CASE DOMAIN r[q] # {}
  <2>1. (buildResourcesMap(r) | q) = Map(entries)
    BY <1>1, <1>2, <1>3, <1>5, Nodes
  <2>2. DOMAIN entries = DOMAIN r[q] /\ \A k \in DOMAIN r[q] : entries[k] = Leaf(r[q][k])
    OBVIOUS
  <2> HIDE DEF entries
  <2> QED BY <2>1, <2>2, Nodes
<1> QED BY <1>4, <1>5

\* The container of a deployed section comes from the tier and the spec.
LEMMA ContainerOf ==
  ASSUME TypeOK, SectionsKept, NEW c \in DOMAIN Charts, Untouched(c), Deploys(c), NEW k
  PROVE  LET requests == IF Charts[c].tier = "none" THEN Unset
                         ELSE TierResources(env.tier, Charts[c].tier)
         IN (Section(c) | "container" | k) =
              (Map(buildContainerValues(requests, SpecOf(c).container)) | k)
<1>1. /\ Charts[c].kind \in DOMAIN specs
      /\ applyDefaults(specs)[Charts[c].kind].container = SpecOf(c).container
  BY DefaultsAre DEF Deploys, SpecOf
<1> QED BY <1>1, DeployedSectionIs, ProductSectionIs

\* What is read of the environment's resources in the global section.
LEMMA GlobalIs ==
  ASSUME NEW e
  PROVE  (globalValues(e) | "container" | "resources") =
           IF e.resources = Unset THEN Absent ELSE buildResourcesMap(e.resources[1])
<1> DEFINE container == IF e.resources = Unset THEN Empty
                        ELSE Entry("container",
                                   Map(Entry("resources", buildResourcesMap(e.resources[1]))))
           volumes == Present([includeVolumes |-> e.includeVolumes])
           workload == Optionally("securityContext", rawToMap(e.securityContext))
                       ++ (IF rawToMap(e.containerSecurityContext) = <<>> THEN Empty
                           ELSE Entry("container", Map(Entry("securityContext",
                                                            e.containerSecurityContext))))
           first == [ingress |-> Disabled]
           vault == Optionally("vault", rawToMap(e.vault))
           pods == IF workload = Empty THEN Empty ELSE Entry("workload", Map(workload))
           others == first ++ vault ++ pods
<1>1. globalValues(e) = Map(others ++ container ++ volumes)
  BY DEF globalValues
<1>2. DOMAIN vault \subseteq {"vault"} /\ DOMAIN pods \subseteq {"workload"}
  BY EntryIs DEF Optionally
<1>3. DOMAIN first = {"ingress"} /\ DOMAIN volumes \subseteq {"includeVolumes"}
  BY DEF Present
<1>4. (Map(container) | "container" | "resources") =
        IF e.resources = Unset THEN Absent ELSE buildResourcesMap(e.resources[1])
  BY EntryIs, Nodes DEF Absent
<1> HIDE DEF container, volumes, first, vault, pods
<1>5. "container" \notin DOMAIN others
  BY <1>2, <1>3, OverIs
<1> HIDE DEF others
<1>6. (Map(others ++ container ++ volumes) | "container") = (Map(container) | "container")
  <2>1. CASE "container" \in DOMAIN container
    BY <1>5, <2>1, OverIs
  <2>2. CASE "container" \notin DOMAIN container
    <3>1. "container" \notin DOMAIN (others ++ container ++ volumes)
      BY <1>3, <1>5, <2>2, OverIs
    <3> QED BY <2>2, <3>1, Nodes
  <2> QED BY <2>1, <2>2
<1> QED BY <1>1, <1>4, <1>6

\* What resources are said by a container without any, and by requests alone.
LEMMA RequestsSaid ==
  /\ Says(Absent, NoResources)
  /\ \A requests :
       (\A k \in DOMAIN requests : requests[k] # Unset) =>
         Says(Map([requests |-> Map(Present(requests))]),
              [NoResources EXCEPT !.requests = requests])
<1>1. Says(Absent, NoResources)
  <2>1. NoResources["requests"] = Empty /\ NoResources["limits"] = Empty
    BY DEF NoResources
  <2>2. \A q : Keys(Absent | q) = {}
    BY Nodes DEF Absent
  <2> QED BY <2>1, <2>2, EntryIs DEF Says
<1>2. ASSUME NEW requests, \A k \in DOMAIN requests : requests[k] # Unset
      PROVE  Says(Map([requests |-> Map(Present(requests))]),
                  [NoResources EXCEPT !.requests = requests])
  <2> DEFINE resources == Map([requests |-> Map(Present(requests))])
             r == [NoResources EXCEPT !.requests = requests]
  <2>1. (resources | "requests") = Map(Present(requests)) /\ (resources | "limits") = Absent
    BY Nodes
  <2>2. r["requests"] = requests /\ r["limits"] = Empty
    BY DEF NoResources
  <2>3. DOMAIN Present(requests) = DOMAIN requests
    BY <1>2, PresentIs
  <2>4. \A k \in DOMAIN requests : Text(Map(Present(requests)) | k) = requests[k]
    BY PresentIs
  <2> HIDE DEF resources, r
  <2>5. Keys(resources | "requests") = DOMAIN r["requests"]
    BY <2>1, <2>2, <2>3, Nodes
  <2>6. Keys(resources | "limits") = DOMAIN r["limits"]
    BY <2>1, <2>2, EntryIs, Nodes DEF Absent
  <2>7. \A k \in DOMAIN r["requests"] : Text(resources | "requests" | k) = r["requests"][k]
    BY <2>1, <2>2, <2>4
  <2>8. DOMAIN r["limits"] = {}
    BY <2>2, EntryIs
  <2>9. Says(resources, r)
    BY <2>5, <2>6, <2>7, <2>8 DEF Says
  <2> QED BY <2>9 DEF resources, r
<1> QED BY <1>1, <1>2

\* The tier sets all that it requests.
LEMMA TierRequests ==
  ASSUME NEW tier, NEW product
  PROVE  /\ \A k \in DOMAIN TierResources(tier, product) : TierResources(tier, product)[k] # Unset
         /\ TierResources(tier, product) # Unset
<1>1. DOMAIN TierResources(tier, product) = {"cpu", "memory"}
  BY DEF TierResources
<1>2. TierResources(tier, product)["cpu"] # Unset
  BY DEF TierResources, Unset
<1>3. TierResources(tier, product)["memory"] # Unset
  BY DEF TierResources, Unset
<1>4. "cpu" \notin DOMAIN Unset
  BY DEF Unset
<1> QED BY <1>1, <1>2, <1>3, <1>4

\* Resources as they are written in a spec are said as they are.
LEMMA SaidAsWritten ==
  ASSUME NEW r, IsResourceRequirementsSpec(r)
  PROVE  Says(buildResourcesMap(r), r)
BY ResourcesMapIs DEF Says, IsResourceRequirementsSpec

\* The global section says the environment's resources, a section the product's own
\* or the tier's.
LEMMA Resources == TypeOK /\ SectionsKept => ResourcesWhole
<1> SUFFICES ASSUME TypeOK, SectionsKept PROVE ResourcesWhole
  OBVIOUS
<1>1. ASSUME Untouched("global")
      PROVE  Says(Section("global") | "container" | "resources",
                  IF env.resources = Unset THEN NoResources ELSE env.resources[1])
  <2>1. Section("global") = globalValues(env)
    BY <1>1, SectionsAre, SectionIs
  <2>2. IsPointer(IsResourceRequirementsSpec, env.resources)
    BY DEF TypeOK, IsInput, IsPingEnvironmentSpec
  <2>3. CASE env.resources = Unset
    BY <2>1, <2>3, GlobalIs, RequestsSaid
  <2>4. CASE env.resources # Unset
    <3>1. IsResourceRequirementsSpec(env.resources[1])
      BY <2>2, <2>4 DEF IsPointer
    <3> QED BY <2>1, <2>4, <3>1, GlobalIs, SaidAsWritten
  <2> QED BY <2>3, <2>4
<1>2. ASSUME NEW c \in DOMAIN Charts, Untouched(c), Deploys(c)
      PROVE  LET own == SpecOf(c).container.resources
                 resources == Section(c) | "container" | "resources"
             IN IF own # Unset THEN Says(resources, own[1]) ELSE Says(resources, OfTier(c))
  <2> DEFINE own == SpecOf(c).container.resources
             resources == Section(c) | "container" | "resources"
             requests == IF Charts[c].tier = "none" THEN Unset
                         ELSE TierResources(env.tier, Charts[c].tier)
  <2>1. resources = IF own = Unset /\ requests = Unset THEN Absent
                    ELSE IF own # Unset THEN buildResourcesMap(own[1])
                         ELSE Map([requests |-> Map(Present(requests))])
    BY <1>2, ContainerOf, ContainerIs
  <2>2. IsPointer(IsResourceRequirementsSpec, own)
    BY <1>2 DEF Deploys, SpecOf, TypeOK, IsInput, IsSpecOf, IsProductSpec, IsContainerSpec
  <2>3. own # Unset => IsResourceRequirementsSpec(own[1])
    BY <2>2 DEF IsPointer
  <2>4. requests = Unset <=> Charts[c].tier = "none"
    BY TierRequests
  <2>5. OfTier(c) = IF Charts[c].tier = "none" THEN NoResources
                    ELSE [NoResources EXCEPT !.requests = requests]
    BY DEF OfTier
  <2>6. Charts[c].tier # "none" => \A k \in DOMAIN requests : requests[k] # Unset
    BY TierRequests
  <2> HIDE DEF own, resources, requests
  <2>7. CASE own # Unset
    BY <2>1, <2>3, <2>7, SaidAsWritten DEF own, resources
  <2>8. CASE own = Unset
    <3>1. CASE Charts[c].tier = "none"
      BY <2>1, <2>4, <2>5, <2>8, <3>1, RequestsSaid DEF own, resources
    <3>2. CASE Charts[c].tier # "none"
      <4>1. Says(resources, OfTier(c))
        BY <2>1, <2>4, <2>5, <2>6, <2>8, <3>2, RequestsSaid
      <4> QED BY <2>8, <4>1 DEF own, resources
    <3> QED BY <3>1, <3>2
  <2> QED BY <2>7, <2>8
<1> QED BY <1>1, <1>2 DEF ResourcesWhole

\* The sub-charts that can be waited for are all in the values.
LEMMA KeysDeployed ==
  ASSUME NEW name \in DOMAIN Applications
  PROVE  resolveWaitForKey(name) \in DOMAIN Charts \cup {"pingdataconsole"}
BY ChartsAre DEF resolveWaitForKey, ToLower, Applications

\* A dependency leads to a section, and the only one on a sub-chart is probed.
LEMMA Waits == TypeOK /\ SectionsKept => WaitsResolved
<1> SUFFICES ASSUME TypeOK, SectionsKept, NEW c \in DOMAIN Charts, Untouched(c), Deploys(c),
                    NEW i \in DOMAIN SpecOf(c).container.waitFor
             PROVE  /\ SpecOf(c).container.waitFor[i].application \in DOMAIN Applications =>
                         WaitKey(c, i) \in DOMAIN values
                    /\ (\A j \in DOMAIN SpecOf(c).container.waitFor \ {i} :
                           WaitKey(c, j) # WaitKey(c, i)) => Probed(c, i)
  BY DEF WaitsResolved
<1> DEFINE waits == SpecOf(c).container.waitFor
           key(x) == resolveWaitForKey(waits[x].application)
           maps == [x \in DOMAIN waits |-> Entry(key(x), Map([service |-> Leaf(waits[x].service)]))]
           n == Len(waits)
<1>1. waits[i].application \in DOMAIN Applications => WaitKey(c, i) \in DOMAIN values
  <2>1. next = 8 /\ outcome = "returned"
    BY KindsOrder DEF TypeOK, Untouched
  <2>2. DOMAIN sections(env, specs) \subseteq DOMAIN values
    BY <2>1 DEF SectionsKept
  <2> QED BY <2>2, SectionsAre, KeysDeployed DEF WaitKey
<1>2. n \in Nat /\ DOMAIN waits = 1 .. n
  BY DEF Deploys, SpecOf, TypeOK, IsInput, IsSpecOf, IsProductSpec, IsContainerSpec, IsList
<1>3. (Section(c) | "container" | "waitFor") = Map(Overlay(maps))
  <2>1. waits # Unset
    BY DEF Unset
  <2>2. Overlay(maps) = waitForMap(waits)
    BY DEF waitForMap
  <2> QED BY <2>1, <2>2, ContainerOf, ContainerIs
<1>4. /\ DOMAIN maps = 1 .. n
      /\ \A x \in 1 .. n : /\ DOMAIN maps[x] = {key(x)}
                           /\ maps[x][key(x)] = Map([service |-> Leaf(waits[x].service)])
  BY <1>2 DEF Entry
<1>5. ASSUME \A j \in 1 .. n \ {i} : key(j) # key(i)
      PROVE  Text(Section(c) | "container" | "waitFor" | key(i) | "service") = waits[i].service
  <2>0. i \in 1 .. n /\ key(i) \in DOMAIN maps[i]
    BY <1>2, <1>4
  <2> HIDE DEF maps, key, n
  <2>1. key(i) \in DOMAIN Overlay(maps)
    BY <1>2, <1>4, <2>0, OverlayIs
  <2>2. PICK j \in 1 .. n : /\ key(i) \in DOMAIN maps[j]
                            /\ Overlay(maps)[key(i)] = maps[j][key(i)]
                            /\ \A x \in 1 .. n : key(i) \in DOMAIN maps[x] => x <= j
    BY <1>2, <1>4, <2>1, OverlayIs
  <2>3. j = i
    <3>1. key(j) = key(i)
      BY <1>2, <1>4, <2>2
    <3> QED BY <1>2, <1>5, <3>1
  <2>4. Overlay(maps)[key(i)] = Map([service |-> Leaf(waits[i].service)])
    BY <1>2, <1>4, <2>2, <2>3
  <2>5. (Section(c) | "container" | "waitFor" | key(i)) = Map([service |-> Leaf(waits[i].service)])
    BY <1>3, <2>1, <2>4, Nodes
  <2> QED BY <2>5, Nodes
<1> QED BY <1>1, <1>2, <1>5 DEF WaitKey, Probed

-----------------------------------------------------------------------------
\* Merging at every depth

\* The nodes under a key.
Under(nodes, key) ==
  {n.map[key] : n \in {m \in nodes : isMap(m) /\ key \in DOMAIN m.map}}

\* The recursive function NodesAt is well defined: by what it is at a place, and
\* before, it is known at the next.
LEMMA NodesAtIs ==
  ASSUME NEW f, NEW path \in Seq(STRING)
  PROVE  /\ NodesAt(f, path)[0] = {Map(f)}
         /\ \A i \in 1 .. Len(path) :
              NodesAt(f, path)[i] = Under(NodesAt(f, path)[i - 1], path[i])
<1> DEFINE step(g, i) == IF i = 0 THEN {Map(f)} ELSE Under(g[i - 1], path[i])
           At(n, g) == g = [i \in 0 .. n |-> step(g, i)]
           Wrong == {n \in Nat : ~\E g : At(n, g)}
<1>1. NodesAt(f, path) = CHOOSE g : At(Len(path), g)
  BY DEF NodesAt, Under
<1>2. Len(path) \in Nat
  OBVIOUS
<1>3. \E g : At(0, g)
  <2> DEFINE h == [i \in 0 .. 0 |-> {Map(f)}]
  <2>1. h = [i \in 0 .. 0 |-> step(h, i)]
    OBVIOUS
  <2> QED BY <2>1
<1>4. ASSUME NEW n \in Nat, n > 0, NEW g, At(n - 1, g)
      PROVE  \E h : At(n, h)
  <2> DEFINE h == [i \in 0 .. n |-> IF i = n THEN step(g, n) ELSE g[i]]
  <2>1. ASSUME NEW i \in 0 .. n PROVE h[i] = step(h, i)
    <3>1. CASE i = n
      <4>1. h[n - 1] = g[n - 1] /\ h[n] = step(g, n)
        BY <1>4
      <4> QED BY <1>4, <3>1, <4>1
    <3>2. CASE i # n
      <4>1. i \in 0 .. n - 1 /\ h[i] = g[i]
        BY <1>4, <3>2
      <4>2. g[i] = step(g, i)
        BY <1>4, <4>1
      <4>3. i # 0 => i - 1 \in 0 .. n - 1 /\ i - 1 # n
        BY <1>4, <4>1
      <4>4. i # 0 => h[i - 1] = g[i - 1]
        BY <4>3
      <4> QED BY <4>1, <4>2, <4>4
    <3> QED BY <3>1, <3>2
  <2>2. h = [i \in 0 .. n |-> h[i]]
    OBVIOUS
  <2>3. h = [i \in 0 .. n |-> step(h, i)]
    <3> HIDE DEF h, step
    <3> QED BY <2>1, <2>2
  <2> HIDE DEF h
  <2> QED BY <2>3
<1>5. Wrong = {}
  <2> SUFFICES ASSUME Wrong # {} PROVE FALSE
    OBVIOUS
  <2>1. PICK n \in Wrong : \A m \in Wrong : n <= m
    BY LeastOf
  <2>2. n \in Nat /\ n # 0
    BY <1>3, <2>1
  <2>3. n - 1 \in Nat /\ n - 1 \notin Wrong
    BY <2>1, <2>2
  <2>4. \E g : At(n - 1, g)
    BY <2>3
  <2>5. \E h : At(n, h)
    <3>1. n > 0
      BY <2>2
    <3> HIDE DEF At
    <3> QED BY <1>4, <2>2, <2>4, <3>1
  <2> QED BY <2>1, <2>5
<1>6. \E g : At(Len(path), g)
  BY <1>2, <1>5
<1> DEFINE nodes == NodesAt(f, path)
<1>7. At(Len(path), nodes)
  <2> HIDE DEF At
  <2> QED BY <1>1, <1>6
<1>8. \A i \in 0 .. Len(path) : nodes[i] = step(nodes, i)
  BY <1>7
<1> HIDE DEF nodes
<1> QED BY <1>2, <1>8 DEF nodes

\* A set of trees: what lies below them is in it too, merging does not lead out of
\* it, and on it Merge is what mergeMaps says of itself.
IsTrees(T) ==
  /\ Empty \in T
  /\ \A f \in T : \A k \in DOMAIN f : isMap(f[k]) => f[k].map \in T
  /\ \A dst, src \in T :
       Merge(dst, src) \in T /\ Merge(dst, src) = MergeBy(Merge, dst, src)
  /\ \A f \in T : LeafPaths(f) \subseteq Seq(STRING) \ {<<>>}

\* Where two trees and what they are merged to all have a map.
Together(T, d, s, m) ==
  \E x, y, z : /\ d = {x} /\ s = {y} /\ m = {z}
               /\ isMap(x) /\ isMap(y) /\ isMap(z)
               /\ x.map \in T /\ y.map \in T /\ z.map = Merge(x.map, y.map)

\* What is under a key of no node, of a map, and of what is not a map.
LEMMA UnderIs ==
  /\ \A key : Under({}, key) = {}
  /\ \A x, key : isMap(x) /\ key \in DOMAIN x.map => Under({x}, key) = {x.map[key]}
  /\ \A x, key : ~(isMap(x) /\ key \in DOMAIN x.map) => Under({x}, key) = {}
  /\ \A nodes, key : (\A n \in nodes : ~isMap(n)) => Under(nodes, key) = {}
BY DEF Under

\* One key further, they still all have one, or only the first has anything, or
\* what they are merged to has what the second has.
LEMMA TogetherUnder ==
  ASSUME NEW T, IsTrees(T), NEW d, NEW s, NEW m, Together(T, d, s, m), NEW key
  PROVE  \/ Together(T, Under(d, key), Under(s, key), Under(m, key))
         \/ Under(m, key) = Under(d, key) /\ Under(s, key) = {}
         \/ /\ Under(m, key) = Under(s, key)
            /\ \/ Under(d, key) = {}
               \/ Under(s, key) # {} /\ \A n \in Under(d, key) : ~isMap(n)
               \/ \E n \in Under(s, key) : ~isMap(n)
<1>1. PICK x, y, z : /\ d = {x} /\ s = {y} /\ m = {z}
                     /\ isMap(x) /\ isMap(y) /\ isMap(z)
                     /\ x.map \in T /\ y.map \in T /\ z.map = Merge(x.map, y.map)
  BY DEF Together
<1>2. /\ \A k : k \in DOMAIN z.map <=> k \in DOMAIN x.map \/ k \in DOMAIN y.map
      /\ \A k \in DOMAIN x.map : k \notin DOMAIN y.map => z.map[k] = x.map[k]
      /\ \A k \in DOMAIN y.map :
           IF k \in DOMAIN x.map /\ isMap(x.map[k]) /\ isMap(y.map[k])
           THEN z.map[k] = Map(Merge(x.map[k].map, y.map[k].map))
           ELSE z.map[k] = y.map[k]
  <2>1. z.map = MergeBy(Merge, x.map, y.map)
    BY <1>1 DEF IsTrees
  <2> QED BY <2>1 DEF MergeBy
<1>3. /\ Under(d, key) = IF key \in DOMAIN x.map THEN {x.map[key]} ELSE {}
      /\ Under(s, key) = IF key \in DOMAIN y.map THEN {y.map[key]} ELSE {}
      /\ Under(m, key) = IF key \in DOMAIN x.map \/ key \in DOMAIN y.map
                         THEN {z.map[key]} ELSE {}
  BY <1>1, <1>2, UnderIs
<1>4. CASE key \notin DOMAIN y.map
  BY <1>2, <1>3, <1>4
<1>5. CASE key \in DOMAIN y.map /\ key \notin DOMAIN x.map
  BY <1>2, <1>3, <1>5
<1>6. CASE key \in DOMAIN y.map /\ key \in DOMAIN x.map
  <2>1. /\ Under(d, key) = {x.map[key]} /\ Under(s, key) = {y.map[key]}
        /\ Under(m, key) = {z.map[key]}
    BY <1>3, <1>6
  <2>2. CASE isMap(x.map[key]) /\ isMap(y.map[key])
    <3>1. z.map[key] = Map(Merge(x.map[key].map, y.map[key].map))
      BY <1>2, <1>6, <2>2
    <3>2. isMap(z.map[key]) /\ z.map[key].map = Merge(x.map[key].map, y.map[key].map)
      BY <3>1 DEF isMap, Map
    <3>3. x.map[key].map \in T /\ y.map[key].map \in T
      BY <1>1, <1>6, <2>2 DEF IsTrees
    <3>4. Together(T, {x.map[key]}, {y.map[key]}, {z.map[key]})
      BY <2>2, <3>2, <3>3 DEF Together
    <3> QED BY <2>1, <3>4
  <2>3. CASE ~(isMap(x.map[key]) /\ isMap(y.map[key]))
    <3>1. Under(m, key) = Under(s, key)
      BY <1>2, <1>6, <2>1, <2>3
    <3>2. ~isMap(y.map[key]) => \E n \in Under(s, key) : ~isMap(n)
      BY <2>1
    <3>3. ~isMap(x.map[key]) => Under(s, key) # {} /\ \A n \in Under(d, key) : ~isMap(n)
      BY <2>1
    <3> QED BY <2>3, <3>1, <3>2, <3>3
  <2> QED BY <2>2, <2>3
<1> QED BY <1>4, <1>5, <1>6

\* The leaves after a merge: those of the second tree, and where it is silent
\* those of the first.
LEMMA LeavesMerged ==
  ASSUME NEW T, IsTrees(T), NEW dst \in T, NEW src \in T,
         NEW path \in Seq(STRING), path # <<>>
  PROVE  LeavesAt(Merge(dst, src), path) =
           LeavesAt(src, path) \cup (IF Silent(src, path) THEN LeavesAt(dst, path) ELSE {})
<1> DEFINE d == NodesAt(dst, path)
           s == NodesAt(src, path)
           m == NodesAt(Merge(dst, src), path)
           n == Len(path)
           Both(k) == Together(T, d[k], s[k], m[k])
           First(k) == /\ m[k] = d[k] /\ s[k] = {}
                       /\ \A j \in 1 .. k : \A x \in s[j] : isMap(x)
           Second(k) == /\ m[k] = s[k]
                        /\ \/ d[k] = {}
                           \/ s[k] # {} /\ \A x \in d[k] : ~isMap(x)
                           \/ \E j \in 1 .. k : \E x \in s[j] : ~isMap(x)
           Through(k) == \A j \in 1 .. k : \A x \in s[j] : isMap(x)
           Known(k) == (Both(k) /\ Through(k)) \/ First(k) \/ Second(k)
<1>1. n \in Nat /\ n > 0
  OBVIOUS
<1>2. /\ d[0] = {Map(dst)} /\ s[0] = {Map(src)} /\ m[0] = {Map(Merge(dst, src))}
      /\ \A k \in 1 .. n : /\ d[k] = Under(d[k - 1], path[k])
                           /\ s[k] = Under(s[k - 1], path[k])
                           /\ m[k] = Under(m[k - 1], path[k])
  BY NodesAtIs
<1> HIDE DEF d, s, m, n
<1>3. Known(0)
  <2>1. \A f : isMap(Map(f)) /\ Map(f).map = f
    BY DEF isMap, Map
  <2>2. Both(0)
    BY <1>2, <2>1 DEF Together
  <2> QED BY <2>2
<1>4. ASSUME NEW k \in 1 .. n, Known(k - 1)
      PROVE  Known(k)
  <2>1. /\ k - 1 \in Nat /\ 1 .. k = 1 .. (k - 1) \cup {k}
        /\ d[k] = Under(d[k - 1], path[k])
        /\ s[k] = Under(s[k - 1], path[k])
        /\ m[k] = Under(m[k - 1], path[k])
    BY <1>1, <1>2
  <2>2. CASE First(k - 1)
    <3>1. m[k] = d[k] /\ s[k] = {}
      BY <2>1, <2>2, UnderIs
    <3>2. Through(k)
      BY <2>1, <2>2, <3>1
    <3> QED BY <3>1, <3>2
  <2>3. CASE Second(k - 1)
    <3>1. m[k] = s[k]
      BY <2>1, <2>3
    <3>2. d[k] = {} \/ \E j \in 1 .. k : \E x \in s[j] : ~isMap(x)
      BY <2>1, <2>3, UnderIs
    <3> QED BY <3>1, <3>2
  <2>4. CASE Both(k - 1) /\ Through(k - 1)
    <3>1. \/ Both(k)
          \/ m[k] = d[k] /\ s[k] = {}
          \/ /\ m[k] = s[k]
             /\ \/ d[k] = {}
                \/ s[k] # {} /\ \A x \in d[k] : ~isMap(x)
                \/ \E x \in s[k] : ~isMap(x)
      BY <2>1, <2>4, TogetherUnder
    <3>2. Through(k) \/ \E x \in s[k] : ~isMap(x)
      BY <2>1, <2>4
    <3>3. Both(k) => \A x \in s[k] : isMap(x)
      BY DEF Together
    <3>4. k \in 1 .. k
      BY <2>1
    <3>5. CASE Both(k)
      BY <3>2, <3>3, <3>5
    <3>6. CASE m[k] = d[k] /\ s[k] = {}
      BY <3>2, <3>6
    <3>7. CASE /\ m[k] = s[k]
               /\ \/ d[k] = {}
                  \/ s[k] # {} /\ \A x \in d[k] : ~isMap(x)
                  \/ \E x \in s[k] : ~isMap(x)
      <4>1. Second(k)
        BY <3>4, <3>7
      <4> QED BY <4>1
    <3> QED BY <3>1, <3>5, <3>6, <3>7
  <2> QED BY <1>4, <2>2, <2>3, <2>4
<1>5. Known(n)
  <2> DEFINE Unknown == {k \in 0 .. n : ~Known(k)}
  <2> HIDE DEF Known
  <2> SUFFICES ASSUME Unknown # {} PROVE FALSE
    BY <1>1
  <2>1. PICK k \in Unknown : \A j \in Unknown : k <= j
    <3>1. Unknown \in SUBSET Nat
      BY <1>1
    <3> HIDE DEF Unknown
    <3> QED BY <3>1, LeastOf
  <2>2. k \in 1 .. n
    BY <1>1, <1>3, <2>1
  <2>3. Known(k - 1)
    BY <1>1, <2>1, <2>2
  <2> QED BY <1>4, <2>1, <2>2, <2>3
<1>6. /\ LeavesAt(Merge(dst, src), path) = {x \in m[n] : ~isMap(x)}
      /\ LeavesAt(src, path) = {x \in s[n] : ~isMap(x)}
      /\ LeavesAt(dst, path) = {x \in d[n] : ~isMap(x)}
      /\ Silent(src, path) <=> s[n] = {} /\ \A j \in 1 .. n - 1 : \A x \in s[j] : isMap(x)
  BY DEF LeavesAt, Silent, d, s, m, n
<1>7. CASE Both(n)
  <2>1. /\ \A x \in m[n] : isMap(x)
        /\ \A x \in s[n] : isMap(x)
        /\ s[n] # {}
    BY <1>7 DEF Together
  <2> QED BY <1>6, <2>1
<1>8. CASE First(n)
  <2>1. Silent(src, path)
    BY <1>1, <1>6, <1>8
  <2> QED BY <1>6, <1>8, <2>1
<1>9. CASE Second(n)
  <2>1. Silent(src, path) => LeavesAt(dst, path) = {}
    <3> SUFFICES ASSUME Silent(src, path) PROVE \A x \in d[n] : isMap(x)
      BY <1>6
    <3>1. s[n] = {} /\ \A j \in 1 .. n - 1 : \A x \in s[j] : isMap(x)
      BY <1>6
    <3>2. \A j \in 1 .. n : \A x \in s[j] : isMap(x)
      <4>1. \A j \in 1 .. n : j = n \/ j \in 1 .. n - 1
        BY <1>1
      <4> QED BY <3>1, <4>1
    <3> QED BY <1>9, <3>1, <3>2
  <2> QED BY <1>6, <1>9, <2>1
<1> QED BY <1>5, <1>7, <1>8, <1>9

\* A tree with nothing in it says nothing.
LEMMA EmptySilent ==
  ASSUME NEW path \in Seq(STRING), path # <<>>
  PROVE  LeavesAt(Empty, path) = {} /\ Silent(Empty, path)
<1> DEFINE e == NodesAt(Empty, path)
           n == Len(path)
           Some == {k \in 1 .. n : e[k] # {}}
<1>1. n \in Nat /\ n > 0
  OBVIOUS
<1>2. e[0] = {Map(Empty)} /\ \A k \in 1 .. n : e[k] = Under(e[k - 1], path[k])
  BY NodesAtIs
<1> HIDE DEF e, n
<1>3. \A key : Under({Map(Empty)}, key) = {}
  <2>1. Map(Empty).map = Empty
    BY DEF Map
  <2> QED BY <2>1, EntryIs, UnderIs
<1>4. Some = {}
  <2> SUFFICES ASSUME Some # {} PROVE FALSE
    OBVIOUS
  <2>1. PICK k \in Some : \A j \in Some : k <= j
    <3>1. Some \in SUBSET Nat
      BY <1>1
    <3> HIDE DEF Some
    <3> QED BY <3>1, LeastOf
  <2>2. k \in 1 .. n /\ e[k] = Under(e[k - 1], path[k])
    BY <1>2, <2>1
  <2>3. k # 1
    <3> SUFFICES ASSUME k = 1 PROVE FALSE
      OBVIOUS
    <3>1. k - 1 = 0
      OBVIOUS
    <3>2. e[k] = {}
      BY <1>2, <1>3, <2>2, <3>1
    <3> QED BY <2>1, <3>2
  <2>4. k - 1 \in 1 .. n /\ ~(k <= k - 1)
    BY <1>1, <2>2, <2>3
  <2>5. e[k - 1] = {}
    BY <2>1, <2>4
  <2> QED BY <2>1, <2>2, <2>5, UnderIs
<1>5. \A k \in 1 .. n : e[k] = {}
  BY <1>4
<1> QED BY <1>1, <1>5 DEF LeavesAt, Silent, e, n

\* One layer more: what it says, and where it is silent what was said before.
LEMMA SpokenGrows ==
  ASSUME NEW n \in Nat, NEW layers, DOMAIN layers = 0 .. n - 1, NEW more, NEW top,
         DOMAIN more = 0 .. n, more[n] = top, \A i \in 0 .. n - 1 : more[i] = layers[i],
         NEW path
  PROVE  Spoken(more, path) =
           LeavesAt(top, path) \cup (IF Silent(top, path) THEN Spoken(layers, path) ELSE {})
<1> DEFINE Final(all, j) == \A k \in DOMAIN all : k > j => Silent(all[k], path)
<1>1. \A all : Spoken(all, path) =
                UNION {LeavesAt(all[i], path) : i \in {j \in DOMAIN all : Final(all, j)}}
  BY DEF Spoken
<1>2. Final(more, n)
  OBVIOUS
<1>3. ASSUME NEW j \in 0 .. n - 1
      PROVE  Final(more, j) <=> Silent(top, path) /\ Final(layers, j)
  <2>1. n > j /\ n \in DOMAIN more
    OBVIOUS
  <2>2. \A k \in 0 .. n : k = n \/ k \in 0 .. n - 1
    OBVIOUS
  <2> QED BY <2>1, <2>2
<1> HIDE DEF Final
<1>4. ASSUME NEW x
      PROVE  x \in Spoken(more, path) <=>
               x \in LeavesAt(top, path) \/ (Silent(top, path) /\ x \in Spoken(layers, path))
  <2>1. x \in Spoken(more, path) <=> \E i \in 0 .. n : Final(more, i) /\ x \in LeavesAt(more[i], path)
    BY <1>1
  <2>2. x \in Spoken(layers, path) <=>
          \E i \in 0 .. n - 1 : Final(layers, i) /\ x \in LeavesAt(layers[i], path)
    BY <1>1
  <2>3. \A i : i \in 0 .. n <=> i = n \/ i \in 0 .. n - 1
    OBVIOUS
  <2> QED BY <1>2, <1>3, <2>1, <2>2, <2>3
<1> QED BY <1>4

\* A kind that had its turn is one layer more.
LEMMA LayersGrow ==
  ASSUME next \in 1 .. 7, next' = next + 1, env' = env, specs' = specs
  PROVE  /\ DOMAIN Layers = 0 .. next - 1 /\ DOMAIN Layers' = 0 .. next
         /\ Layers'[next] = OverrideOf(Kinds[next])
         /\ \A i \in 0 .. next - 1 : Layers'[i] = Layers[i]
<1>1. \A k : OverrideOf(k)' = OverrideOf(k)
  BY DEF OverrideOf
<1>2. sections(env, specs)' = sections(env, specs)
  OBVIOUS
<1>3. Layers' = [i \in 0 .. next |-> IF i = 0 THEN sections(env, specs) ELSE OverrideOf(Kinds[i])]
  BY <1>1, <1>2 DEF Layers
<1> QED BY <1>3 DEF Layers

\* What is built and what overrides it are trees.
FromTrees(T, e, s) ==
  /\ sections(e, s) \in T
  /\ \A kind \in DOMAIN s : isMap(s[kind].override) => s[kind].override.map \in T

Paths == Seq(STRING) \ {<<>>}

\* The inductive form of LastOverrideWins: all paths, and the values are a tree.
Won(T) ==
  next > 0 /\ outcome # "failed" =>
    values \in T /\ \A path \in Paths : LeavesAt(values, path) = Spoken(Layers, path)

-----------------------------------------------------------------------------
\* The theorems

\* With a domain every ingress the operator serves has a host name and a TLS
\* secret, and no two share one unless a spec, or for the secret the environment,
\* names it (buildIngressValues, resolveHostname, resolveTLSSecretRef).
THEOREM IngressesAlwaysApart == Spec => []IngressesApart
BY Apart, ValuesTyped, SectionsAlwaysKept, PTL

\* A reference with a tag is deployed as it was written, by the product and by the
\* console that falls back to it, if no override names the section and the product
\* no repository (buildImageValues).
THEOREM ReferencesAlwaysKept == Spec => []ReferenceKept
BY Reference, ValuesTyped, SectionsAlwaysKept, PTL

\* A console is never deployed without the directory it logs in to, and knows the
\* port the directory serves, which is a port (applyDefaults).
THEOREM ConsolesAlwaysServed == Spec => []ConsoleServed
BY Console, ValuesTyped, SectionsAlwaysKept, PTL

\* For any number of layers, under any names and whatever strings.ToUpper makes of
\* them, a container with a base profile is told exactly what this profile and each
\* of its layers say (emitServerProfileEnvs).
THEOREM LayersAlwaysTold == Spec => []LayersTold
BY Heard, ValuesTyped, SectionsAlwaysKept, PTL

\* The resources of a section are the product's own as they were written, or else
\* the requests of its tier, all of them and nothing else, or none where the
\* environment sets resources; these are in the global section as they were written
\* (buildContainerValues, buildResourcesMap).
THEOREM ResourcesAlwaysWhole == Spec => []ResourcesWhole
BY Resources, ValuesTyped, SectionsAlwaysKept, PTL

\* For any list of dependencies, one under a documented name leads to a section of
\* the values, and the only one on a sub-chart is probed (resolveWaitForKey).
THEOREM WaitsAlwaysResolved == Spec => []WaitsResolved
BY Waits, ValuesTyped, SectionsAlwaysKept, PTL

\* At every step of the merging every leaf of the values, at any depth, is what the
\* last layer with something to say of it says, for any overrides: nothing is lost,
\* nothing comes back (MergeValues, mergeMaps).  T is any set of trees with what is
\* built and what overrides it, on which Merge satisfies the equation of mergeMaps:
\* all finite ones, for the code's own recursion.
THEOREM OverridesAlwaysWin ==
  ASSUME NEW T, IsTrees(T),
         \A input \in Inputs : FromTrees(T, input.env, input.specs)
  PROVE  Spec => []LastOverrideWins
<1> DEFINE Inv == FromTrees(T, env, specs) /\ Won(T)
<1>1. Init => Inv
  BY DEF Init, Won
<1>2. TypeOK /\ Inv /\ [Next]_vars => Inv'
  <2> SUFFICES ASSUME TypeOK, Inv, [Next]_vars PROVE Inv'
    OBVIOUS
  <2>1. env' = env /\ specs' = specs
    BY DEF Next, vars, BuildSections, SkipProduct, MergeOverride, MergeFails, Return
  <2>2. FromTrees(T, env, specs)'
    BY <2>1
  <2> SUFFICES Won(T)'
    BY <2>2
  <2>3. ASSUME UNCHANGED <<values, next>>, outcome # "failed" PROVE Won(T)'
    <3>1. Layers' = Layers
      BY <2>1, <2>3 DEF Layers, OverrideOf
    <3> QED BY <2>3, <3>1 DEF Won
  <2>4. CASE BuildSections
    <3>1. values' = sections(env, specs) /\ next' = 1
      BY <2>4 DEF BuildSections
    <3>2. DOMAIN Layers' = 0 .. 0 /\ Layers'[0] = sections(env, specs)
      BY <2>1, <3>1 DEF Layers
    <3>3. \A path \in Paths : LeavesAt(values, path)' = Spoken(Layers, path)'
      BY <3>1, <3>2 DEF Spoken
    <3> QED BY <3>1, <3>3 DEF Won, FromTrees
  <2>5. ASSUME next \in 1 .. 7, next' = next + 1, values' = values, outcome # "failed",
               OverrideOf(Kinds[next]) = Empty
        PROVE  Won(T)'
    <3> SUFFICES ASSUME NEW path \in Paths
                 PROVE  Spoken(Layers', path) = Spoken(Layers, path)
      BY <2>5 DEF Won
    <3>1. Spoken(Layers', path) =
            LeavesAt(Empty, path) \cup (IF Silent(Empty, path) THEN Spoken(Layers, path) ELSE {})
      BY <2>1, <2>5, LayersGrow, SpokenGrows
    <3> QED BY <3>1, EmptySilent DEF Paths
  <2>6. CASE SkipProduct
    <3>1. next \in 1 .. 7 /\ next' = next + 1 /\ values' = values /\ outcome # "failed"
      BY <2>6, KindsOrder DEF SkipProduct
    <3>2. OverrideOf(Kinds[next]) = Empty
      BY <2>6, <3>1 DEF SkipProduct, Deployed, OverrideOf
    <3> QED BY <2>5, <3>1, <3>2
  <2>7. CASE MergeOverride
    <3> DEFINE kind == Kinds[next]
               o == specs[kind].override
    <3>1. next \in 1 .. 7 /\ next' = next + 1 /\ outcome = "building" /\ kind \in DOMAIN specs
      BY <2>7, KindsOrder DEF MergeOverride, Deployed
    <3>2. CASE ~isMap(o)
      BY <2>5, <2>7, <3>1, <3>2 DEF MergeOverride, MergeValues, OverrideOf
    <3>3. CASE isMap(o)
      <4>1. values \in T /\ o.map \in T
        BY <3>1, <3>3 DEF Won, FromTrees
      <4>2. values' = Merge(values, o.map)
        BY <2>7, <3>1, <3>3, <4>1 DEF MergeOverride, MergeValues, IsTrees
      <4>3. OverrideOf(kind) = o.map
        BY <3>1, <3>3 DEF OverrideOf
      <4>4. ASSUME NEW path \in Paths
            PROVE  LeavesAt(values', path) = Spoken(Layers', path)
        <5>1. Spoken(Layers', path) =
                LeavesAt(o.map, path)
                  \cup (IF Silent(o.map, path) THEN Spoken(Layers, path) ELSE {})
          BY <2>1, <3>1, <4>3, LayersGrow, SpokenGrows
        <5>2. LeavesAt(values', path) =
                LeavesAt(o.map, path)
                  \cup (IF Silent(o.map, path) THEN LeavesAt(values, path) ELSE {})
          BY <4>1, <4>2, LeavesMerged DEF Paths
        <5>3. LeavesAt(values, path) = Spoken(Layers, path)
          BY <3>1 DEF Won
        <5> QED BY <5>1, <5>2, <5>3
      <4>5. values' \in T
        BY <4>1, <4>2 DEF IsTrees
      <4> QED BY <4>4, <4>5 DEF Won
    <3> QED BY <3>2, <3>3
  <2>8. CASE MergeFails
    BY <2>8 DEF MergeFails, Won
  <2>9. CASE Return
    <3>1. UNCHANGED <<values, next>> /\ outcome # "failed"
      BY <2>9 DEF Return
    <3> QED BY <2>3, <3>1
  <2>10. CASE UNCHANGED vars
    BY <2>3, <2>10 DEF vars, Won
  <2> QED BY <2>4, <2>6, <2>7, <2>8, <2>9, <2>10 DEF Next
<1>3. Inv => LastOverrideWins
  <2> SUFFICES ASSUME Inv, next > 0, outcome # "failed",
                      NEW f \in {values} \cup {Layers[i] : i \in DOMAIN Layers},
                      NEW path \in LeafPaths(f)
               PROVE  LeavesAt(values, path) = Spoken(Layers, path)
    BY DEF LastOverrideWins
  <2>1. f \in T
    <3>1. values \in T
      BY DEF Won
    <3>2. \A k : OverrideOf(k) \in T
      BY DEF OverrideOf, IsTrees, FromTrees
    <3>3. \A i \in DOMAIN Layers : Layers[i] \in T
      BY <3>2 DEF Layers, FromTrees
    <3> QED BY <3>1, <3>3
  <2>2. path \in Paths
    BY <2>1 DEF IsTrees, Paths
  <2> QED BY <2>2 DEF Won
<1> QED BY <1>1, <1>2, <1>3, ValuesTyped, PTL DEF Spec
=============================================================================
