---------------------------- MODULE ChartValues ----------------------------
(***************************************************************************)
(* The sections BuildPingValues makes for the sub-charts of ping-devops    *)
(* from the specs of an environment and its products                       *)
(* (internal/helm/release.go, internal/helm/defaults.go).                  *)
(*                                                                         *)
(* products has a spec, as in PingSpecs, for each kind deployed.           *)
(***************************************************************************)
EXTENDS PingSpecs, SequencesExt

firstNonEmpty(a, b) == IF a # Unset THEN a ELSE b

\* Only what is set is put into a map.
Present(f) == [k \in {x \in DOMAIN f : f[x] # Unset} |-> Leaf(f[k])]

\* In the order their overrides are merged.
Kinds == <<"PingFederate", "PingDirectory", "PingAccess", "PingAuthorize",
           "PingAuthorizePAP", "PingDataSync", "PingDirectoryProxy">>

DirectoryPorts == [ldap |-> <<"1389">>, ldaps |-> <<"1636">>, https |-> <<"1443">>]

DefaultPorts ==
  [PingFederate |-> [engine |-> <<"9031">>, admin |-> <<"9999">>],
   PingDirectory |-> DirectoryPorts,
   PingAccess |-> [engine |-> <<"3000">>, admin |-> <<"9000">>],
   PingAuthorize |-> DirectoryPorts]

\* Mutant: the directory's defaults are left out.
defaultsBeforeDirectory(products) ==
  [k \in DOMAIN products |->
     [products[k] EXCEPT
        !.ports = [n \in DOMAIN @ |-> IF k = "PingDirectory" THEN @[n]
                                      ELSE firstNonEmpty(@[n], DefaultPorts[k][n])]]]

applyDefaults(products) ==
  [k \in DOMAIN products |->
     [products[k] EXCEPT
        !.ports = [n \in DOMAIN @ |-> firstNonEmpty(@[n], DefaultPorts[k][n])]]]

TierResources(tier, product) ==
  CASE product = "pd" /\ tier = "production" -> [cpu |-> <<"2">>, memory |-> <<"4Gi">>]
    [] product = "pd" /\ tier = "staging" -> [cpu |-> <<"1">>, memory |-> <<"2Gi">>]
    [] product = "pd" -> [cpu |-> <<"500m">>, memory |-> <<"1Gi">>]
    [] tier = "production" -> [cpu |-> <<"2">>, memory |-> <<"2Gi">>]
    [] tier = "staging" -> [cpu |-> <<"1">>, memory |-> <<"1Gi">>]
    [] OTHER -> [cpu |-> <<"500m">>, memory |-> <<"512Mi">>]

-----------------------------------------------------------------------------
\* Image references

LastIndex(s, t) == SelectLastInSeq(s, LAMBDA x : x = t)

\* Mutant: the tag is taken to begin at the first colon.
splitAtFirstColon(repository, version) ==
  LET colon == SelectInSeq(version, LAMBDA x : x = ":")
      rest == IF colon = 0 THEN version ELSE SubSeq(version, 1, colon - 1)
      slash == LastIndex(rest, "/")
  IN
  IF ~Contains(version, "/")
  THEN [repository |-> repository, name |-> Unset, tag |-> version]
  ELSE [repository |-> firstNonEmpty(repository,
                         IF slash = 0 THEN rest ELSE SubSeq(rest, 1, slash - 1)),
        name |-> IF slash = 0 THEN Unset ELSE SubSeq(rest, slash + 1, Len(rest)),
        tag |-> IF colon = 0 THEN Unset ELSE SubSeq(version, colon + 1, Len(version))]

\* A version with a slash is a full reference and is split; one without is a tag.
buildImageValues(repository, version) ==
  LET colon == LastIndex(version, ":")
      rest == IF colon = 0 THEN version ELSE SubSeq(version, 1, colon - 1)
      slash == LastIndex(rest, "/")
  IN
  IF ~Contains(version, "/")
  THEN [repository |-> repository, name |-> Unset, tag |-> version]
  ELSE [repository |-> firstNonEmpty(repository,
                         IF slash = 0 THEN rest ELSE SubSeq(rest, 1, slash - 1)),
        name |-> IF slash = 0 THEN Unset ELSE SubSeq(rest, slash + 1, Len(rest)),
        tag |-> IF colon = 0 THEN Unset ELSE SubSeq(version, colon + 1, Len(version))]

buildImageNode(repository, version) == Map(Present(buildImageValues(repository, version)))

-----------------------------------------------------------------------------
\* Ingress

\* A component's own settings come before the environment's, annotation by
\* annotation.
resolveIngressSpec(global, component) ==
  [enabled |-> IF component.enabled = Unset THEN global.enabled
                                            ELSE component.enabled[1],
   className |-> firstNonEmpty(component.className, global.className),
   hostname |-> component.hostname,
   tls |-> firstNonEmpty(component.tls, global.tls),
   annotations |-> component.annotations ++ global.annotations]

resolveTLSSecretRef(explicit, tenantID, suffix) ==
  firstNonEmpty(explicit, <<tenantID, "-", suffix, "-tls">>)

\* Mutant: the host name of every component is the domain itself.
bareDomain(explicit, prefix, domain) == firstNonEmpty(explicit, domain)

resolveHostname(explicit, prefix, domain) ==
  firstNonEmpty(explicit, IF domain = Unset THEN Unset ELSE <<prefix, ".">> \o domain)

Disabled == Map([enabled |-> Leaf(<<"false">>)])

Annotations(a) == IF DOMAIN a = {} THEN Empty ELSE Entry("annotations", StringMap(a))

\* One host, and one TLS entry for that host if it has a name.
buildIngressValues(ing, hostname) ==
  Map([enabled |-> Leaf(<<"true">>), hosts |-> Leaf(hostname)]
      ++ Present([className |-> ing.className,
                  tls |-> IF hostname # Unset THEN ing.tls ELSE Unset])
      ++ Annotations(ing.annotations))

\* The ingress of a component whose derived host name begins with prefix and
\* whose derived secret ends in the same word.
ingressValues(env, component, prefix) ==
  LET ing == resolveIngressSpec(env.ingress, component)
      tls == resolveTLSSecretRef(ing.tls, env.tenantID, prefix)
  IN IF ing.enabled
     THEN buildIngressValues([ing EXCEPT !.tls = tls],
                             resolveHostname(ing.hostname, prefix, env.domain))
     ELSE Disabled

-----------------------------------------------------------------------------
\* Containers and server profiles

\* The names a dependency may have, and what strings.ToLower makes of them.
Applications ==
  [pingDirectory |-> "pingdirectory", pingFederate |-> "pingfederate",
   pingFederateAdmin |-> "pingfederateadmin",
   pingFederateEngine |-> "pingfederateengine",
   pingAccess |-> "pingaccess", pingAccessAdmin |-> "pingaccessadmin",
   pingAccessEngine |-> "pingaccessengine", pingAuthorize |-> "pingauthorize",
   pingAuthorizePAP |-> "pingauthorizepap", pingDataConsole |-> "pingdataconsole"]

ToLower(name) == IF name \in DOMAIN Applications THEN Applications[name] ELSE name

\* Mutant: an engine is known by its long name alone.
engineByLongName(application) ==
  LET name == ToLower(application) IN
  CASE name = "pingfederateengine" -> "pingfederate-engine"
    [] name = "pingfederateadmin" -> "pingfederate-admin"
    [] name = "pingaccessengine" -> "pingaccess-engine"
    [] name = "pingaccessadmin" -> "pingaccess-admin"
    [] OTHER -> name

\* The sub-chart an application is deployed by, or the name in lower case.
resolveWaitForKey(application) ==
  LET name == ToLower(application) IN
  CASE name \in {"pingfederate", "pingfederateengine"} -> "pingfederate-engine"
    [] name = "pingfederateadmin" -> "pingfederate-admin"
    [] name \in {"pingaccess", "pingaccessengine"} -> "pingaccess-engine"
    [] name = "pingaccessadmin" -> "pingaccess-admin"
    [] OTHER -> name

\* Of two entries with the same key the later one is kept.
waitForMap(waitFor) ==
  Overlay([i \in DOMAIN waitFor |->
             Entry(resolveWaitForKey(waitFor[i].application),
                   Map([service |-> Leaf(waitFor[i].service)]))])

\* Requests and limits, each left out when it has no entry.
buildResourcesMap(r) ==
  Map([k \in {x \in DOMAIN r : DOMAIN r[x] # {}} |->
         Map([q \in DOMAIN r[k] |-> Leaf(r[k][q])])])

\* At a key, a map that is optional.
Optionally(key, m) == IF m = <<>> THEN Empty ELSE Entry(key, m[1])

\* What surrounds the resources in a container's section.
ContainerExtras(container) ==
  (IF container.waitFor = Unset THEN Empty
   ELSE Entry("waitFor", Map(waitForMap(container.waitFor))))
  ++ Present([includeVolumes |-> container.includeVolumes])
  ++ Optionally("securityContext", rawToMap(container.containerSecurityContext))

\* Mutant: the requests of the tier are kept beside the container's own limits.
addedToTier(requests, container) ==
  LET tier == IF requests = Unset THEN Empty
              ELSE Entry("requests", Map(Present(requests)))
      own == IF container.resources = Unset THEN Empty
             ELSE buildResourcesMap(container.resources[1]).map
  IN (IF tier = Empty /\ own = Empty THEN Empty ELSE Entry("resources", Map(own ++ tier)))
     ++ ContainerExtras(container)

\* The container's own resources, or else the requests of the tier.
buildContainerValues(requests, container) ==
  LET resources == IF container.resources # Unset
                   THEN buildResourcesMap(container.resources[1])
                   ELSE Map([requests |-> Map(Present(requests))])
  IN (IF container.resources = Unset /\ requests = Unset THEN Empty
      ELSE Entry("resources", resources))
     ++ ContainerExtras(container)

\* The pod-level security context, which goes into the workload.
applyWorkloadSecurityContext(workload, sc) ==
  Map(Optionally("securityContext", rawToMap(sc)) ++ workload)

\* The volumes and mounts that have any JSON, each list left out when it is
\* empty; "" is an entry that has none.
applyRawVolumes(container) ==
  LET given(list) == SelectSeq(list, LAMBDA v : v # "")
  IN Present([volumes |-> given(container.volumes),
              volumeMounts |-> given(container.volumeMounts)])

\* The ports of the services and, on the side, their annotations.
applyServiceAnnotations(services, annotations) ==
  LET all == services ++ Annotations(annotations)
  IN IF all = Empty THEN Empty ELSE Entry("services", Map(all))

\* A product's annotations come before the environment's.
resolveServiceAnnotations(global, product) ==
  product.annotations ++ global.annotations

\* Names the documents give to layers, and what strings.ToUpper makes of them; any
\* other name stands for one in upper case.
LayerNames ==
  [base |-> "BASE", baseline |-> "BASELINE", extensions |-> "EXTENSIONS", paz |-> "PAZ"]

ToUpper(name) == IF name \in DOMAIN LayerNames THEN LayerNames[name] ELSE name

\* SERVER_PROFILE_URL is the variable of no name, SERVER_PROFILE_<NAME>_URL that of
\* <<NAME>>: two of these strings are equal exactly when the pairs are.
Variable(name, field) == <<name, field>>

\* The URL and the parent of a profile, if set, under its name.
profileEnvs(name, profile) ==
  Present(Entry(Variable(name, "URL"), profile.url)
          ++ Entry(Variable(name, "PARENT"), profile.parent))

\* Mutant: a layer's name is taken as it is written.
nameAsWritten(profile, layers) ==
  IF profile = Unset THEN Empty
  ELSE Overlay([i \in DOMAIN layers |-> profileEnvs(<<layers[i].name>>, layers[i])])
       ++ profileEnvs(Unset, profile[1])

\* The variables of the base profile and of every layer, under its name in upper
\* case; nothing at all without a base profile.
emitServerProfileEnvs(profile, layers) ==
  IF profile = Unset THEN Empty
  ELSE Overlay([i \in DOMAIN layers |->
                  profileEnvs(<<ToUpper(layers[i].name)>>, layers[i])])
       ++ profileEnvs(Unset, profile[1])

-----------------------------------------------------------------------------
\* The sections

\* A sub-chart that runs a product: whose spec and which of its ingresses it
\* takes, the word its host name and secret are derived from, the row of the
\* tier table, the type of its workload, and the port each of its services is on.
Chart(kind, ingress, prefix, tier, workload, services) ==
  [kind |-> kind, ingress |-> ingress, prefix |-> prefix, tier |-> tier,
   workload |-> workload, services |-> services]

DirectoryServices == [ldap |-> "ldap", ldaps |-> "ldaps", https |-> "https"]
NoServices == [s \in {} |-> "none"]

FederateCharts ==
  [n \in {"pingfederate-admin", "pingfederate-engine"} |->
     IF n = "pingfederate-admin"
     THEN Chart("PingFederate", "admin", "pf-admin", "pf", "Deployment",
                [https |-> "admin"])
     ELSE Chart("PingFederate", "engine", "pf", "pf", "Deployment", [https |-> "engine"])]

DirectoryChart ==
  Entry("pingdirectory",
        Chart("PingDirectory", "none", "none", "pd", "StatefulSet", DirectoryServices))

AccessCharts ==
  [n \in {"pingaccess-admin", "pingaccess-engine"} |->
     IF n = "pingaccess-admin"
     THEN Chart("PingAccess", "admin", "pa-admin", "pf", "Deployment", [https |-> "admin"])
     ELSE Chart("PingAccess", "engine", "pa", "pf", "Deployment", [https |-> "engine"])]

AuthorizeChart ==
  Entry("pingauthorize",
        Chart("PingAuthorize", "only", "paz", "pd", "StatefulSet", DirectoryServices))

PAPChart ==
  Entry("pingauthorizepap",
        Chart("PingAuthorizePAP", "only", "paz-pap", "none", "Deployment", NoServices))

\* BuildPingValues knows these two products; the controller never supplies them.
DataSyncChart ==
  Entry("pingdatasync",
        Chart("PingDataSync", "only", "pds", "pd", "StatefulSet", NoServices))

DirectoryProxyChart ==
  Entry("pingdirectoryproxy",
        Chart("PingDirectoryProxy", "only", "pdp", "pd", "StatefulSet", NoServices))

Charts ==
  FederateCharts ++ DirectoryChart ++ AccessCharts ++ AuthorizeChart ++ PAPChart
    ++ DataSyncChart ++ DirectoryProxyChart

\* A spec of this kind: the ports and ingresses it has.
IsSpecOf(kind, spec) ==
  /\ IsProductSpec(spec)
  /\ DOMAIN spec.ports = IF kind \in DOMAIN DefaultPorts THEN DOMAIN DefaultPorts[kind]
                                                         ELSE {}
  /\ DOMAIN spec.ingress =
       {Charts[c].ingress : c \in {x \in DOMAIN Charts : Charts[x].kind = kind}}

\* The section of a sub-chart whose product is deployed with this spec.
productValues(env, chart, spec) ==
  LET requests == IF chart.tier = "none" THEN Unset ELSE TierResources(env.tier, chart.tier)
      container == buildContainerValues(requests, spec.container)
  IN Map([enabled |-> Leaf(<<"true">>),
          image |-> buildImageNode(spec.image, spec.version),
          envs |-> Map(emitServerProfileEnvs(spec.profile, spec.layers)),
          workload |-> applyWorkloadSecurityContext(Entry("type", Leaf(<<chart.workload>>)),
                                                    spec.container.securityContext),
          ingress |-> IF chart.ingress = "none" THEN Disabled
                      ELSE ingressValues(env, spec.ingress[chart.ingress], chart.prefix)]
         ++ (IF container = Empty THEN Empty ELSE Entry("container", Map(container)))
         ++ applyRawVolumes(spec.container)
         ++ applyServiceAnnotations(
              [s \in DOMAIN chart.services |-> Leaf(spec.ports[chart.services[s]])],
              resolveServiceAnnotations(env.services, spec.service)))

\* PingDataConsole is part of the environment, wants a directory to log in to,
\* and takes the directory's image and version for its own.
consoleEnabled(env, products) ==
  /\ "PingDirectory" \in DOMAIN products
  /\ env.console # Unset
  /\ env.console[1].enabled \in {Unset, <<TRUE>>}

consoleValues(env, directory) ==
  LET console == env.console[1] IN
  Map([enabled |-> Leaf(<<"true">>),
       image |-> buildImageNode(firstNonEmpty(console.image, directory.image),
                                firstNonEmpty(console.version, directory.version)),
       server |-> Map([host |-> Leaf(<<env.tenantID, "-ping-pingdirectory-cluster">>),
                       port |-> Leaf(directory.ports.ldaps)]),
       ingress |-> ingressValues(env, console.ingress, "pd-console")])

\* What the environment says for all its products.
globalValues(env) ==
  LET workload == Optionally("securityContext", rawToMap(env.securityContext))
                  ++ (IF rawToMap(env.containerSecurityContext) = <<>> THEN Empty
                      ELSE Entry("container", Map(Entry("securityContext",
                                                       env.containerSecurityContext))))
  IN Map([ingress |-> Disabled]
         ++ Optionally("vault", rawToMap(env.vault))
         ++ (IF workload = Empty THEN Empty ELSE Entry("workload", Map(workload)))
         ++ (IF env.resources = Unset THEN Empty
             ELSE Entry("container",
                        Map(Entry("resources", buildResourcesMap(env.resources[1])))))
         ++ Present([includeVolumes |-> env.includeVolumes]))

\* The values before any override is merged into them.
sections(env, specs) ==
  LET products == applyDefaults(specs) IN
  Entry("global", globalValues(env))
  ++ Optionally("volumes", rawToMap(env.volumes))
  ++ Entry("pingdataconsole", IF consoleEnabled(env, products)
                              THEN consoleValues(env, products["PingDirectory"])
                              ELSE Disabled)
  ++ [c \in DOMAIN Charts |->
        IF Charts[c].kind \in DOMAIN products
        THEN productValues(env, Charts[c], products[Charts[c].kind])
        ELSE Disabled]
=============================================================================
