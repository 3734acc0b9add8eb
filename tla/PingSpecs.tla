----------------------------- MODULE PingSpecs -----------------------------
(***************************************************************************)
(* The specs users write, as far as BuildPingValues tells them apart       *)
(* (api/v1alpha1/pingenvironment_types.go).                                *)
(*                                                                         *)
(* A string is a sequence of the tokens that matter, Unset the empty one;  *)
(* a pointer is Unset or <<what it points to>>; annotations are a function *)
(* to strings; a raw extension is a node of ValuesTree, or NoOverride.     *)
(* Fields copied one to one into environment variables, the names of       *)
(* secrets and the sizes of workloads are left out.                        *)
(***************************************************************************)
EXTENDS ValuesTree

Unset == <<>>

IsText(s) == s \in Seq(STRING)
IsList(Is(_), l) == Len(l) \in Nat /\ DOMAIN l = 1 .. Len(l) /\ \A i \in DOMAIN l : Is(l[i])
IsPointer(Is(_), p) == p = Unset \/ (p = <<p[1]>> /\ Is(p[1]))
IsFlag(b) == b \in BOOLEAN
IsRaw(n) == n = NoOverride \/ isMap(n) \/ "leaf" \in DOMAIN n

IsServiceSpec(s) == \A k \in DOMAIN s.annotations : s.annotations[k] \in STRING

IsIngressSpec(i) ==
  /\ IsPointer(IsFlag, i.enabled)
  /\ IsText(i.className) /\ IsText(i.hostname) /\ IsText(i.tls)
  /\ IsServiceSpec([annotations |-> i.annotations])

IsWaitForSpec(w) == w.application \in STRING /\ IsText(w.service)

IsResourceRequirementsSpec(r) ==
  /\ DOMAIN r = {"requests", "limits"}
  /\ \A q \in DOMAIN r : \A k \in DOMAIN r[q] : IsText(r[q][k])

IsContainerSpec(c) ==
  /\ IsList(IsWaitForSpec, c.waitFor)
  /\ IsText(c.includeVolumes)
  /\ IsPointer(IsResourceRequirementsSpec, c.resources)
  /\ IsRaw(c.securityContext) /\ IsRaw(c.containerSecurityContext)
  /\ IsText(c.volumes) /\ IsText(c.volumeMounts)

IsServerProfileSpec(p) == IsText(p.url) /\ IsText(p.parent)
IsServerProfileLayerSpec(l) == IsServerProfileSpec(l) /\ l.name \in STRING

\* A product's spec; which ports and ingresses it has depends on its kind.
IsProductSpec(s) ==
  /\ DOMAIN s = {"image", "version", "ingress", "ports", "service", "container",
                 "profile", "layers", "override"}
  /\ IsText(s.image) /\ IsText(s.version)
  /\ \A i \in DOMAIN s.ingress : IsIngressSpec(s.ingress[i])
  /\ \A p \in DOMAIN s.ports : IsText(s.ports[p])
  /\ IsServiceSpec(s.service)
  /\ IsContainerSpec(s.container)
  /\ IsPointer(IsServerProfileSpec, s.profile)
  /\ IsList(IsServerProfileLayerSpec, s.layers)
  /\ IsRaw(s.override)

IsPingDataConsoleSpec(c) ==
  /\ IsPointer(IsFlag, c.enabled)
  /\ IsText(c.image) /\ IsText(c.version)
  /\ IsIngressSpec(c.ingress)

\* The environment's ingress is a component's whose enabled is not a pointer
\* and that names no host.
IsPingEnvironmentSpec(e) ==
  /\ e.tenantID \in STRING
  /\ e.tier \in {"development", "staging", "production"}
  /\ IsText(e.domain)
  /\ IsFlag(e.ingress.enabled)
  /\ IsText(e.ingress.className) /\ IsText(e.ingress.tls)
  /\ IsServiceSpec([annotations |-> e.ingress.annotations])
  /\ IsServiceSpec(e.services)
  /\ IsPointer(IsPingDataConsoleSpec, e.console)
  /\ \A raw \in {e.vault, e.securityContext, e.containerSecurityContext, e.volumes} :
       IsRaw(raw)
  /\ IsPointer(IsResourceRequirementsSpec, e.resources)
  /\ IsText(e.includeVolumes)
=============================================================================
