---------------------------- MODULE ValuesMerge ----------------------------
(***************************************************************************)
(* mergeMaps of internal/helm/release.go as the recursion it is, and the   *)
(* leaves it leaves alone.                                                 *)
(***************************************************************************)
EXTENDS PingValues

\* Mutant: the map of the override takes the place of the one below it.
replaceMaps(dst, src) == src ++ dst

RECURSIVE mergeMaps(_, _)
mergeMaps(dst, src) == MergeBy(mergeMaps, dst, src)

RECURSIVE leafPaths(_)
leafPaths(f) ==
  UNION {IF isMap(f[k]) THEN {<<k>> \o p : p \in leafPaths(f[k].map)} ELSE {<<k>>} :
           k \in DOMAIN f}

-----------------------------------------------------------------------------
\* What a document says.

\* "raw JSON that is deep-merged on top of all operator-computed Helm values"
\* (CONFIGURATION.md:590): annotations the operator computed for a service or an
\* ingress are still there unless an override puts something that is not a map
\* in their place.
AnnotationsKept ==
  outcome = "returned" =>
    \A c \in DOMAIN Charts, block \in {"services", "ingress"} :
      LET path == <<c, block, "annotations">>
          keys(f) == UNION {Keys(n) : n \in NodesAt(f, path)[3]}
          overruled == \E i \in DOMAIN Layers \ {0}, k \in 1 .. 3 :
                         \E n \in NodesAt(Layers[i], path)[k] : ~isMap(n)
      IN ~overruled => keys(Layers[0]) \subseteq keys(values)
=============================================================================
