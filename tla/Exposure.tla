------------------------------ MODULE Exposure ------------------------------
(***************************************************************************)
(* pkg/analyzer/exposure.go: Services, Ingresses and Routes that open a    *)
(* way into the cluster, and how wide and how protected it is.             *)
(*                                                                         *)
(* A host is the sequence of its labels, the empty one if a field holds    *)
(* none; a wildcard host begins with the label "*".                        *)
(***************************************************************************)
EXTENDS Documents, Models, SequencesExt

IsWildcard(host) == Len(host) > 1 /\ Head(host) = "*"

HostOf(rule) == StringOr(At(rule, "host"), << >>)

\* External reachability, as the type of a Service or its addresses declare it.
analyzeService(doc) ==
  LET spec == At(doc, "spec")
  IN  TripIf(\/ At(spec, "type") \in {Str("LoadBalancer"), Str("NodePort"), Str("ExternalName")}
             \/ StringItems(At(spec, "externalIPs")) # {},
             "KC-025", SeverityWarning)

hasDefaultBackend(spec) == Has(spec, "defaultBackend")

ingressHasBroadHost(spec) ==
  LET rules == At(spec, "rules")
  IN  IF Items(rules) = << >> THEN hasDefaultBackend(spec)
      ELSE \E rule \in MapItems(rules) : HostOf(rule) = << >> \/ IsWildcard(HostOf(rule))

\* Mutant: a wildcard does not cover the hosts below it.
ingressHostCovered_Literally(host, tlsHosts) == host \in tlsHosts

\* A wildcard covers what ends like it, whatever stands before.
ingressHostCovered(host, tlsHosts) ==
  \E tlsHost \in tlsHosts :
    \/ tlsHost = host
    \/ IsWildcard(tlsHost) /\ IsStrictSuffix(Tail(tlsHost), host)

\* An entry of the tls list that names no host.
CoversAll(tlsEntry) == StringItems(At(tlsEntry, "hosts")) = {}

ingressHasUnencryptedHosts(spec) ==
  LET tls      == At(spec, "tls")
      tlsHosts == UNION {StringItems(At(entry, "hosts")) : entry \in MapItems(tls)}
      rules    == At(spec, "rules")
  IN  \/ Items(tls) = << >>
      \/ /\ ~\E entry \in MapItems(tls) : CoversAll(entry)
         /\ IF Items(rules) = << >> THEN hasDefaultBackend(spec)
            ELSE \E rule \in ItemSet(rules) :
                   HostOf(rule) = << >> \/ ~ingressHostCovered(HostOf(rule), tlsHosts)

\* An Ingress with neither rules nor a default backend opens nothing.
analyzeIngress(doc) ==
  LET spec == At(doc, "spec")
  IN  IF Items(At(spec, "rules")) = << >> /\ ~hasDefaultBackend(spec) THEN {}
      ELSE TripIf(ingressHasUnencryptedHosts(spec), "KC-026", SeverityWarning)
           \cup TripIf(ingressHasBroadHost(spec), "KC-027", SeverityWarning)

\* A Route whose spec is no mapping is passed over.
analyzeRoute(doc) ==
  LET spec     == At(doc, "spec")
      tls      == At(spec, "tls")
      hasTLS   == StringOr(At(tls, "termination"), "") # ""
      insecure == At(tls, "insecureEdgeTerminationPolicy") = Str("Allow")
  IN  IF ~IsMap(spec) THEN {}
      ELSE TripIf(insecure, "KC-026", SeverityHigh)
           \cup TripIf(~insecure /\ ~hasTLS, "KC-026", SeverityWarning)
           \cup TripIf(At(spec, "wildcardPolicy") = Str("Subdomain"), "KC-027", SeverityWarning)

=============================================================================
