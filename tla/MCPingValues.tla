---------------------------- MODULE MCPingValues ----------------------------
(***************************************************************************)
(* Families of inputs, each exploring one concern of BuildPingValues.      *)
(***************************************************************************)
EXTENDS ValuesMerge

NoContainer ==
  [resources |-> Unset, waitFor |-> Unset, includeVolumes |-> Unset,
   securityContext |-> NoOverride, containerSecurityContext |-> NoOverride,
   volumes |-> Unset, volumeMounts |-> Unset]
OpenIngress == [enabled |-> Unset, className |-> Unset, hostname |-> Unset, tls |-> Unset,
                annotations |-> Empty]

AnEnv ==
  [tier |-> "staging", tenantID |-> "t", domain |-> <<"dom">>, resources |-> Unset,
   console |-> Unset, services |-> [annotations |-> Empty],
   ingress |-> [enabled |-> TRUE, className |-> Unset, tls |-> Unset, annotations |-> Empty],
   vault |-> NoOverride, securityContext |-> NoOverride,
   containerSecurityContext |-> NoOverride, volumes |-> NoOverride,
   includeVolumes |-> Unset]

\* A spec with everything left open.
Open(kind) ==
  [image |-> Unset, version |-> Unset, profile |-> Unset, layers |-> Unset,
   container |-> NoContainer, override |-> NoOverride,
   service |-> [annotations |-> Empty],
   ports |-> IF kind \in DOMAIN DefaultPorts
             THEN [n \in DOMAIN DefaultPorts[kind] |-> Unset] ELSE <<>>,
   ingress |-> [n \in {Charts[c].ingress : c \in {x \in DOMAIN Charts : Charts[x].kind = kind}}
                   |-> OpenIngress]]

\* The kinds listProducts collects.
Listed == {"PingFederate", "PingDirectory", "PingAccess", "PingAuthorize", "PingAuthorizePAP"}
AllOpen == [k \in Listed |-> Open(k)]
Only(kinds) == [k \in kinds |-> Open(k)]

Consoles ==
  {Unset} \cup
  {<<[enabled |-> e, image |-> Unset, version |-> v, ingress |-> OpenIngress]>> :
     e \in {Unset, <<TRUE>>, <<FALSE>>}, v \in {Unset, <<"14">>}}

\* Which ingresses there are, and who names their hosts and secrets.
IngressInputs ==
  {[env |-> [AnEnv EXCEPT !.console = <<[enabled |-> Unset, image |-> Unset,
                                         version |-> Unset, ingress |-> OpenIngress]>>,
                          !.domain = d, !.ingress.enabled = g, !.ingress.tls = t],
    specs |-> [AllOpen EXCEPT !["PingFederate"].ingress["admin"] =
                 [OpenIngress EXCEPT !.enabled = e, !.hostname = h]]] :
     d \in {Unset, <<"dom">>}, g \in BOOLEAN, t \in {Unset, <<"all">>},
     e \in {Unset, <<TRUE>>, <<FALSE>>}, h \in {Unset, <<"own">>}}

Versions ==
  {Unset, <<"13">>, <<"reg", "/", "pd", ":", "13">>, <<"reg", "/", "pd">>,
   <<"reg", ":", "5000", "/", "ping", "/", "pd", ":", "13">>,
   <<"reg", ":", "5000", "/", "pd">>}

\* References and ports of a directory, and a console that leans on them.
DirectoryInputs ==
  {[env |-> [AnEnv EXCEPT !.console = c],
    specs |-> [Only({"PingDirectory"}) EXCEPT
                 !["PingDirectory"].image = i, !["PingDirectory"].version = v,
                 !["PingDirectory"].ports.ldaps = p]] :
     c \in Consoles, i \in {Unset, <<"mirror">>}, v \in Versions, p \in {Unset, <<"2636">>}}
  \cup {[env |-> [AnEnv EXCEPT !.console = c], specs |-> Only({"PingFederate"})] :
          c \in Consoles}

SomeLayers == {[name |-> "base", url |-> <<"git1">>, parent |-> <<"PAZ">>],
               [name |-> "paz", url |-> <<"git2">>, parent |-> Unset],
               [name |-> "BASE", url |-> Unset, parent |-> <<"extensions">>]}

\* Layered profiles, two layers whose names differ in case alone among them.
ProfileInputs ==
  {[env |-> AnEnv,
    specs |-> [Only({"PingAccess", "PingDirectory"}) EXCEPT
                 !["PingAccess"].profile = p, !["PingAccess"].layers = l]] :
     p \in {Unset} \cup {<<[url |-> <<"git">>, parent |-> q]>> : q \in {Unset, <<"base">>}},
     l \in {Unset} \cup [1 .. 2 -> SomeLayers]}

Resources(r, l) ==
  <<[requests |-> IF r = Unset THEN Empty ELSE [cpu |-> r],
     limits |-> IF l = Unset THEN Empty ELSE [cpu |-> l, memory |-> l]]>>

\* Resources of the environment, of the tier and of the product, of a product
\* with a row in the tier table and of one without.
ResourceInputs ==
  {[env |-> [AnEnv EXCEPT !.resources = g, !.tier = t],
    specs |-> [Only({"PingAccess", "PingDirectory", "PingAuthorizePAP"}) EXCEPT
                 ![k].container.resources = own]] :
     k \in {"PingAccess", "PingDirectory", "PingAuthorizePAP"},
     g \in {Unset, Resources(<<"3">>, <<"6">>)},
     t \in {"production", "development"},
     own \in {Unset} \cup {Resources(r, l) : r \in {Unset, <<"1">>}, l \in {Unset, <<"4">>}}}

\* Dependencies under every documented name, and two for one sub-chart.
WaitInputs ==
  {[env |-> AnEnv,
    specs |-> [Only({"PingAccess"}) EXCEPT !["PingAccess"].container.waitFor = w]] :
     w \in [1 .. 1 -> {[application |-> a, service |-> <<"https">>] :
                          a \in DOMAIN Applications}]
           \cup [1 .. 2 -> {[application |-> a, service |-> s] :
                              a \in {"pingFederate", "pingFederateEngine", "pingDirectory"},
                              s \in {<<"https">>, <<"admin">>}}]}

OneKey(k, n) == Map(Entry(k, n))

\* Leaves over maps and maps over leaves, new keys, nulls, and two overrides
\* that are not objects: the CRDs keep those out, BuildPingValues does not.
Overrides ==
  {NoOverride, Null, Leaf(<<"text">>),
   OneKey("pingfederate-engine", OneKey("image", OneKey("tag", Leaf(<<"12">>)))),
   OneKey("pingfederate-engine", OneKey("image", OneKey("tag", OneKey("x", Leaf(<<"y">>))))),
   OneKey("pingfederate-engine", OneKey("image", Null)),
   OneKey("pingdirectory", Map([enabled |-> Leaf(<<"false">>),
                                services |-> OneKey("ldap", Leaf(<<"389">>))])),
   OneKey("extra", Map(Empty))}

OverrideInputs ==
  {[env |-> AnEnv,
    specs |-> [Only({"PingFederate", "PingDirectory", "PingAccess"}) EXCEPT
                 !["PingFederate"].version = <<"11">>,
                 !["PingFederate"].override = a, !["PingDirectory"].override = b,
                 !["PingAccess"].override = c]] :
     a, b, c \in Overrides}

Annotated(v) == [a \in {"protocol"} |-> v]
Override(c, block, n) == OneKey(c, OneKey(block, n))

\* Annotations of the environment and of a product, and an override that adds
\* one to those of a service or an ingress.
AnnotationInputs ==
  {[env |-> [AnEnv EXCEPT !.services.annotations = s, !.ingress.annotations = i],
    specs |-> [Only({"PingFederate"}) EXCEPT
                 !["PingFederate"].service.annotations = p,
                 !["PingFederate"].override = o]] :
     s, i \in {Empty, Annotated("http")}, p \in {Empty, Annotated("https")},
     o \in {NoOverride} \cup
           {Override("pingfederate-engine", b, OneKey("annotations", n)) :
              b \in {"services", "ingress"}, n \in {Leaf(<<"text">>), OneKey("more", Leaf(<<"1">>))}}}

\* Raw extensions of the environment and of a product, and an override of what
\* one of them says.
RawInputs ==
  {[env |-> [AnEnv EXCEPT !.vault = v, !.securityContext = g,
                          !.containerSecurityContext = c, !.volumes = v,
                          !.includeVolumes = i],
    specs |-> [Only({"PingAuthorize"}) EXCEPT
                 !["PingAuthorize"].container =
                    [NoContainer EXCEPT !.securityContext = g,
                                        !.containerSecurityContext = c,
                                        !.includeVolumes = i, !.volumes = l,
                                        !.volumeMounts = l],
                 !["PingAuthorize"].override = o]] :
     v \in {NoOverride, OneKey("keys", Leaf(<<"k">>))},
     g, c \in {NoOverride, OneKey("runAsUser", Leaf(<<"9031">>))},
     i \in {Unset, <<"keys">>}, l \in {Unset, <<"">>, <<"", "cfg">>},
     o \in {NoOverride,
            Override("pingauthorize", "workload",
                    OneKey("securityContext", OneKey("fsGroup", Leaf(<<"0">>))))}}

\* A reference to a registry with a port, two layers, two dependencies on one
\* sub-chart, and resources of the environment alone; of each, also the sort that
\* the documents and the code agree on.
PromiseInputs ==
  {[env |-> [AnEnv EXCEPT !.resources = g],
    specs |-> [Only({"PingAccess"}) EXCEPT
                 !["PingAccess"].version = v,
                 !["PingAccess"].profile = p,
                 !["PingAccess"].layers =
                    <<[name |-> "base", url |-> <<"git1">>, parent |-> Unset],
                      [name |-> "paz", url |-> <<"git2">>, parent |-> <<"base">>]>>,
                 !["PingAccess"].container.waitFor =
                    <<[application |-> "pingFederate", service |-> <<"https">>],
                      [application |-> a, service |-> <<"admin">>]>>]] :
     v \in {<<"reg", ":", "5000", "/", "pd">>, <<"reg", "/", "pd", ":", "13">>},
     p \in {Unset, <<[url |-> <<"git">>, parent |-> <<"base">>]>>},
     a \in {"pingFederate", "pingDirectory"},
     g \in {Unset, Resources(<<"3">>, <<"6">>)}}

AllInputs == IngressInputs \cup DirectoryInputs \cup ProfileInputs \cup ResourceInputs
             \cup WaitInputs \cup OverrideInputs \cup AnnotationInputs \cup RawInputs
=============================================================================
