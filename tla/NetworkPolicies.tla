-------------------------- MODULE NetworkPolicies --------------------------
(***************************************************************************)
(* pkg/analyzer/networkpolicy.go: which directions of a policy are open to *)
(* peers that are broader than a policy usually needs.                     *)
(***************************************************************************)
EXTENDS Documents, Models

networkPolicyDirectionEnabled(spec, direction) ==
  LET policyTypes == StringItems(At(spec, "policyTypes"))
  IN  IF policyTypes # {} THEN direction \in policyTypes
      ELSE direction = "Ingress" \/ Items(At(spec, "egress")) # << >>

\* Mutant: the expressions of a selector not looked at.
selectorSelectsAll_LabelsOnly(selector) ==
  IsMap(selector) /\ DOMAIN Fields(At(selector, "matchLabels")) = {}

\* The selector of a mapping that is empty, or whose parts are.
selectorSelectsAll(selector) ==
  /\ IsMap(selector)
  /\ \A key \in DOMAIN selector.fields :
       LET v == At(selector, key)
       IN  CASE key = "matchLabels"      -> v = Null \/ (IsMap(v) /\ DOMAIN v.fields = {})
             [] key = "matchExpressions" -> v = Null \/ (IsList(v) /\ v.items = << >>)
             [] OTHER -> FALSE

\* A cidr is what netip.ParsePrefix reads of it, blanks around it trimmed: the family
\* of the addresses and the bits they begin with, or none.
NoPrefix == [family |-> "none", bits |-> << >>]

ipBlockMatchesAllIPs(ipBlock) ==
  LET cidr   == StringOr(At(ipBlock, "cidr"), NoPrefix)
      except == At(ipBlock, "except")
  IN  /\ cidr # NoPrefix /\ cidr.bits = << >>
      /\ except = Null \/ (IsList(except) /\ except.items = << >>)

\* Mutant: a podSelector counts whatever stands beside it.
BroadPeer_AnyPodSelector(peer) ==
  \/ DOMAIN peer.fields = {}
  \/ selectorSelectsAll(At(peer, "namespaceSelector"))
  \/ selectorSelectsAll(At(peer, "podSelector"))
  \/ ipBlockMatchesAllIPs(At(peer, "ipBlock"))

\* A podSelector counts where the key of the other selector is missing.
BroadPeer(peer) ==
  \/ DOMAIN peer.fields = {}
  \/ selectorSelectsAll(At(peer, "namespaceSelector"))
  \/ /\ selectorSelectsAll(At(peer, "podSelector"))
     /\ ~Has(peer, "namespaceSelector")
  \/ ipBlockMatchesAllIPs(At(peer, "ipBlock"))

\* Peers that are left out, or none, are all of them.
BroadRule(rule, peerKey) ==
  LET peers == At(rule, peerKey)
  IN  \/ peers = Null
      \/ /\ IsList(peers)
         /\ peers.items = << >>
      \/ \E peer \in MapItems(peers) : BroadPeer(peer)

broadNetworkPolicyPeers(rules, peerKey) ==
  \E rule \in MapItems(rules) : BroadRule(rule, peerKey)

networkPolicySeverity(spec) ==
  LET selector == At(spec, "podSelector")
  IN  IF selector = Null \/ selectorSelectsAll(selector)
      THEN SeverityHigh ELSE SeverityWarning

\* The rules a policy trips, each with its severity.
analyzeNetworkPolicy(doc) ==
  LET spec == At(doc, "spec")
  IN  TripIf(/\ networkPolicyDirectionEnabled(spec, "Ingress")
             /\ broadNetworkPolicyPeers(At(spec, "ingress"), "from"),
             "KC-017", networkPolicySeverity(spec))
      \cup
      TripIf(/\ networkPolicyDirectionEnabled(spec, "Egress")
             /\ broadNetworkPolicyPeers(At(spec, "egress"), "to"),
             "KC-018", networkPolicySeverity(spec))

=============================================================================
