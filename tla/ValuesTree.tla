----------------------------- MODULE ValuesTree -----------------------------
(***************************************************************************)
(* Helm values as trees, and one level of how internal/helm/release.go     *)
(* merges a valuesOverride into them: mergeMaps, MergeValues.              *)
(*                                                                         *)
(* A node is [map |-> f], f a function from keys to nodes: a               *)
(* map[string]any; [strings |-> f], f a function to strings: a             *)
(* map[string]string, whose keys and values the chart sees as it sees      *)
(* those of any map; or [leaf |-> s]: a scalar or a list, as a sequence of *)
(* tokens.  The values themselves are a function from keys to nodes.       *)
(*                                                                         *)
(* Nothing here is recursive: the provers lose their SMT backend in a      *)
(* module that reaches a RECURSIVE operator.  ValuesMerge closes the       *)
(* recursion of mergeMaps.                                                 *)
(***************************************************************************)
EXTENDS Integers, Sequences, FiniteSetsExt

Map(f) == [map |-> f]
Leaf(s) == [leaf |-> s]
StringMap(f) == [strings |-> f]

\* The type assertion to map[string]any: a map[string]string fails it.
isMap(n) == "map" \in DOMAIN n

Null == Leaf(<<"null">>)
Empty == [k \in {} |-> Null]
Entry(key, v) == [k \in {key} |-> v]

\* f laid over g (@@ of TLC, which the provers do not know).
f ++ g == [k \in DOMAIN f \cup DOMAIN g |-> IF k \in DOMAIN f THEN f[k] ELSE g[k]]

\* What a loop that puts one map after the other into a map leaves there: the
\* later of two entries with the same key.
Overlay(maps) ==
  [k \in UNION {DOMAIN maps[i] : i \in DOMAIN maps} |->
     maps[Max({i \in DOMAIN maps : k \in DOMAIN maps[i]})][k]]

-----------------------------------------------------------------------------
\* Merging

\* The body of mergeMaps, Merge being the call to itself: src laid over dst;
\* where both have a map, the two are merged.
MergeBy(Merge(_, _), dst, src) ==
  [k \in DOMAIN dst \cup DOMAIN src |->
     IF k \notin DOMAIN src THEN dst[k]
     ELSE IF k \in DOMAIN dst /\ isMap(dst[k]) /\ isMap(src[k])
          THEN Map(Merge(dst[k].map, src[k].map))
          ELSE src[k]]

\* An override as the raw JSON of a RawExtension: none, or a node.  What is not
\* an object cannot be unmarshalled into a map, save null, which is taken for
\* an empty one.
NoOverride == [raw |-> "none"]
Unmarshals(o) == o = NoOverride \/ isMap(o) \/ o = Null

\* A raw extension as a map, if it is one: what is not an object is dropped.
rawToMap(o) == IF isMap(o) THEN <<o>> ELSE <<>>

-----------------------------------------------------------------------------
\* Reading a tree

Absent == Leaf(<<>>)

\* The node under a key, read as a path: values | "a" | "b" is at a.b.
n | key == IF isMap(n) /\ key \in DOMAIN n.map THEN n.map[key] ELSE Absent

\* The leaf, or the empty string.
Text(n) == IF "leaf" \in DOMAIN n THEN n.leaf ELSE <<>>

\* The nodes the keys of a path lead to, one after the other: at each place one,
\* or none from where there is no such key; at 0 the tree itself.
NodesAt(f, path) ==
  LET at[i \in 0 .. Len(path)] ==
        IF i = 0 THEN {Map(f)}
        ELSE {n.map[path[i]] :
                n \in {m \in at[i - 1] : isMap(m) /\ path[i] \in DOMAIN m.map}}
  IN at

Keys(n) == IF isMap(n) THEN DOMAIN n.map
           ELSE IF "strings" \in DOMAIN n THEN DOMAIN n.strings ELSE {}
=============================================================================
