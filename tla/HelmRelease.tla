----------------------------- MODULE HelmRelease -----------------------------
(***************************************************************************)
(* One Helm release as the operator sees it through helm.sh/helm/v3: the   *)
(* newest revision stored under the release's name, and what the library's *)
(* list, install, upgrade and uninstall make of its status.  Helm is not   *)
(* part of the repository; this module keeps only what the calls in        *)
(* internal/helm/release.go and handleDeletion depend on.                  *)
(***************************************************************************)

\* "pending"      pending-install or pending-upgrade: the operation that wrote
\*                it has not finished, or its process died
\* "uninstalling" written before the resources are deleted
Statuses == {"absent", "pending", "deployed", "failed", "uninstalling"}

\* A release nobody has installed under this name.
NoValues == [spec |-> "none", prods |-> {}]

NoRelease == [status |-> "absent", values |-> NoValues]

\* What action.NewList returns: list.All lifts the limit of 256 entries, the
\* state mask stays the default one, deployed and failed.
Listed(r) == r.status \in {"deployed", "failed"}

\* A name with any stored revision cannot be installed again: Helm answers
\* "cannot re-use a name that is still in use".
NameInUse(r) == r.status # "absent"

\* Install and upgrade store the new revision as pending, apply its
\* resources, and record the outcome.
Begun(v) == [status |-> "pending", values |-> v]
Applied(r, s) == [r EXCEPT !.status = s]

\* Uninstall marks the release, deletes its resources, then purges its history.
Marked(r) == [r EXCEPT !.status = "uninstalling"]
==============================================================================
