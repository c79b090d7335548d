------------------------------- MODULE Models -------------------------------
(***************************************************************************)
(* The vocabulary shared by every part of kube-chainsaw, from              *)
(* pkg/models/models.go: severities and their order, and the scope a role  *)
(* is bound at.                                                            *)
(*                                                                         *)
(* Severities are the iota values of the Go enum, so that the order of the *)
(* code (a threshold test s >= failOn, the cap of capSeverity) is the      *)
(* order of the naturals.                                                  *)
(***************************************************************************)
EXTENDS Integers

SeverityInfo     == 0
SeverityWarning  == 1
SeverityHigh     == 2
SeverityCritical == 3
Severity         == SeverityInfo .. SeverityCritical

\* How the bindings of the manifests reach a role.  The code also lists the
\* names of the bindings and counts subject kinds; no decision reads those.
BindingScope ==
  [ClusterWide : BOOLEAN, NamespaceScoped : BOOLEAN, Unbound : BOOLEAN]

\* The severity table: INFO for an unbound role, else one level by the widest
\* scope and one more for a wildcard.
computeSeverity(scope, hasWildcards) ==
  LET base == IF scope.ClusterWide THEN SeverityHigh ELSE SeverityWarning
  IN  IF scope.Unbound \/ ~(scope.ClusterWide \/ scope.NamespaceScoped)
      THEN SeverityInfo
      ELSE IF hasWildcards THEN base + 1 ELSE base

capSeverity(s, max) == IF s > max THEN max ELSE s

=============================================================================
