------------------------ MODULE SecurityConstraints ------------------------
(***************************************************************************)
(* pkg/analyzer/scc.go: the SecurityContextConstraints that permit much    *)
(* and name someone who may use them.                                      *)
(*                                                                         *)
(* The name of a user or a group is the sequence of its parts between      *)
(* colons.                                                                 *)
(***************************************************************************)
EXTENDS WorkloadSecurity

AnyCapability == [name |-> "*", prefixes |-> 0, upper |-> TRUE]

\* Mutant: a field that is not set taken for false.
PrivilegeEscalation_UnsetIsFalse(doc) ==
  IsTrue(At(doc, "allowPrivilegeEscalation")) \/ IsTrue(At(doc, "defaultAllowPrivilegeEscalation"))

\* A field that is no Boolean counts as one that is not set.
PrivilegeEscalation(doc) ==
  LET allow   == At(doc, "allowPrivilegeEscalation")
      default == At(doc, "defaultAllowPrivilegeEscalation")
  IN  \/ IsTrue(allow) \/ IsTrue(default)
      \/ allow.type # "bool" /\ default.type # "bool"

\* The settings, as the field each is about and the value that makes it one.
permissiveSCCSettings(doc) ==
  {field \in {"allowPrivilegedContainer", "allowHostNetwork", "allowHostPID", "allowHostIPC",
              "allowHostPorts", "allowHostDirVolumePlugin"} : IsTrue(At(doc, field))}
  \cup {field \in {"allowPrivilegeEscalation"} : PrivilegeEscalation(doc)}
  \cup {field \in {"allowedCapabilities"} : AnyCapability \in StringItems(At(doc, field))}
  \cup {field \in {"allowedCapabilities", "defaultAddCapabilities"} :
          \E capability \in StringItems(At(doc, field)) :
            IsOneOf(capability, dangerousCapabilities)}
  \cup {field \in {"volumes", "allowedUnsafeSysctls", "seccompProfiles"} :
          "*" \in StringItems(At(doc, field))}
  \cup {field \in {"runAsUser", "seLinuxContext", "fsGroup", "supplementalGroups"} :
          At(At(doc, field), "type") = Str("RunAsAny")}

broadSCCGroup(group) ==
  \/ group \in {<<"*">>, <<"system", "authenticated">>, <<"system", "unauthenticated">>,
                <<"system", "serviceaccounts">>}
  \/ IsStrictPrefix(<<"system", "serviceaccounts">>, group)

sccSubjects(doc) == StringItems(At(doc, "users")) \cup StringItems(At(doc, "groups"))

analyzeSecurityContextConstraint(doc) ==
  LET broad == \E group \in StringItems(At(doc, "groups")) : broadSCCGroup(group)
  IN  TripIf(permissiveSCCSettings(doc) # {} /\ sccSubjects(doc) # {},
             "KC-024", IF broad THEN SeverityHigh ELSE SeverityWarning)

=============================================================================
