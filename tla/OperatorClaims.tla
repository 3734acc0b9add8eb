--------------------------- MODULE OperatorClaims ---------------------------
(***************************************************************************)
(* What the repository's documents and comments say of the operator and    *)
(* the code does not keep.  Each claim is refuted by a run of its own.     *)
(***************************************************************************)
EXTENDS OperatorInvariant

\* prompt.md:287: on DeletionTimestamp the release is uninstalled, then the
\* finalizer is removed: when the object is gone nothing of its release is left.
GoneUninstalled ==
  \A e \in Envs : ~EnvNow(e).live =>
    \A n \in ReleaseNames(e) : release[n].status = "absent"

\* CONFIGURATION.md:622: on failure the operator requeues after 30 seconds: once
\* users and faults have stopped, a sound environment gets Ready.
FailedRecovers == <>[](\A e \in Envs : Sound(e) => EnvNow(e).phase = "Ready")
=============================================================================
