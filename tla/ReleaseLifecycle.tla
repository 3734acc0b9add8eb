-------------------------- MODULE ReleaseLifecycle --------------------------
(***************************************************************************)
(* What the finalizer of the environment controller promises about         *)
(* environment objects and the Helm releases made for them: a release is   *)
(* written only while an object that has it is held by the finalizer,      *)
(* uninstalled only once the object's deletion has been requested, and an  *)
(* object goes only when Helm lists no release of its own.                 *)
(***************************************************************************)
CONSTANTS
  Objects,
  Names,
  NamesOf     \* [Objects -> SUBSET Names]: the releases an object may have

VARIABLES
  object,     \* "none", "new" (without the finalizer), "held", "dying"
  rel         \* "absent", "writing" (pending), "listed", "deleting"

lifeVars == <<object, rel>>

Init == /\ object = [e \in Objects |-> "none"]
        /\ rel = [n \in Names |-> "absent"]

Goes(e, from, to) == /\ object[e] = from
                     /\ object' = [object EXCEPT ![e] = to]
                     /\ UNCHANGED rel

Create(e) == Goes(e, "none", "new")
Drop(e)   == Goes(e, "new", "none")
Hold(e)   == Goes(e, "new", "held")
Die(e)    == Goes(e, "held", "dying")

\* The end of the deletion.
LetGo(e)  == /\ \A n \in NamesOf[e] : rel[n] # "listed"
             /\ Goes(e, "dying", "none")

Moves(n, from, to) == /\ rel[n] \in from
                      /\ rel' = [rel EXCEPT ![n] = to]
                      /\ UNCHANGED object

Held(e) == object[e] \in {"held", "dying"}

\* Install or upgrade.
Write(e, n)  == Held(e) /\ Moves(n, {"absent", "listed"}, "writing")
Finish(e, n) == Held(e) /\ Moves(n, {"writing"}, "listed")

\* Uninstall.
Mark(e, n)   == object[e] = "dying" /\ Moves(n, {"listed"}, "deleting")
Purge(e, n)  == object[e] = "dying" /\ Moves(n, {"deleting"}, "absent")

Next ==
  \E e \in Objects :
    \/ Create(e) \/ Drop(e) \/ Hold(e) \/ Die(e) \/ LetGo(e)
    \/ \E n \in NamesOf[e] : Write(e, n) \/ Finish(e, n) \/ Mark(e, n) \/ Purge(e, n)

Spec == Init /\ [][Next]_lifeVars
=============================================================================
