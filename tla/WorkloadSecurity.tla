-------------------------- MODULE WorkloadSecurity --------------------------
(***************************************************************************)
(* pkg/analyzer/workload_security.go: what a pod, or the pods of a         *)
(* workload, ask of their host.                                            *)
(*                                                                         *)
(* A capability is written as its name after any number of CAP_ prefixes,  *)
(* in capitals or not; a path as its segments, an empty one for each slash *)
(* that follows another or ends it.                                        *)
(***************************************************************************)
EXTENDS Documents, Models, Listings, SequencesExt

dangerousCapabilities ==
  {"ALL", "DAC_READ_SEARCH", "BPF", "MAC_ADMIN", "NET_ADMIN", "NET_RAW", "PERFMON",
   "SYS_ADMIN", "SYS_CHROOT", "SYS_MODULE", "SYS_PTRACE", "SYS_RAWIO"}

highRiskCapabilities ==
  dangerousCapabilities \ {"NET_ADMIN", "NET_RAW", "PERFMON", "SYS_CHROOT"}

\* Capitals, and one prefix less: then looked up as it is spelled.
Normalized(capability) ==
  [name |-> capability.name,
   prefixes |-> IF capability.prefixes = 0 THEN 0 ELSE capability.prefixes - 1]

IsOneOf(capability, names) ==
  Normalized(capability) \in [name : names, prefixes : {0}]

\* One slash at the end does not count; "/" itself is a path.
Trimmed(path) ==
  IF Len(path) > 1 /\ Last(path) = "" THEN Front(path) ELSE path

sensitiveHostPath(path) ==
  \/ Trimmed(path) = <<"">>
  \/ \E dir \in {<<"dev">>, <<"etc">>, <<"etc", "kubernetes">>, <<"proc">>, <<"sys">>,
                 <<"var", "lib", "kubelet">>, <<"var", "lib", "containers">>,
                 <<"var", "run">>} : IsPrefix(dir, Trimmed(path))

\* The specification of the pods of an object, Null if there is none.
extractPodSpec(doc, kind) ==
  LET spec == At(doc, "spec")
      job  == IF kind = "CronJob" THEN At(At(spec, "jobTemplate"), "spec") ELSE spec
  IN  IF kind = "Pod" THEN spec ELSE At(At(job, "template"), "spec")

AllContainers(podSpec) ==
  LET listed == Items(At(podSpec, "containers")) \o Items(At(podSpec, "initContainers"))
                  \o Items(At(podSpec, "ephemeralContainers"))
  IN  Sublist(listed, {n \in DOMAIN listed : IsMap(listed[n])})

\* mountedVolumes: the names a container mounts or maps as a device.
MountedVolumes(podSpec) ==
  {StringOr(At(m, "name"), "") :
     m \in UNION {MapItems(At(c, "volumeMounts")) \cup MapItems(At(c, "volumeDevices")) :
                    c \in ToSet(AllContainers(podSpec))}} \ {""}

\* Mutant: the last one decides.
Raise_Last(severity, high) == IF high THEN SeverityHigh ELSE SeverityWarning

\* severityByRule after one more thing found.
Raise(severity, high) ==
  IF high THEN SeverityHigh ELSE IF severity < SeverityWarning THEN SeverityWarning ELSE severity

\* The severity after all of them, INFO if there were none: those at the positions
\* in high are HIGH.
RaisedBy(found, high) ==
  LET after[n \in 0 .. Len(found)] ==
        IF n = 0 THEN SeverityInfo ELSE Raise(after[n - 1], n \in high)
  IN  after[Len(found)]

SecurityContext(container) == At(container, "securityContext")

privilegedContainers(podSpec) ==
  LET containers == AllContainers(podSpec)
  IN  Sublist(containers, {n \in DOMAIN containers :
                             IsTrue(At(SecurityContext(containers[n]), "privileged"))})

\* The dangerous ones of a container, in the order they are added.
AddedCapabilities(container) ==
  LET add == Items(At(At(SecurityContext(container), "capabilities"), "add"))
  IN  Sublist(add, {n \in DOMAIN add : /\ add[n].type = "string"
                                       /\ IsOneOf(add[n].string, dangerousCapabilities)})

capabilityDetails(podSpec) ==
  LET containers == AllContainers(podSpec)
  IN  FlattenSeq([n \in DOMAIN containers |-> AddedCapabilities(containers[n])])

hostNamespaces(podSpec) ==
  {field \in {"hostNetwork", "hostPID", "hostIPC"} : IsTrue(At(podSpec, field))}

hostPathDetails(podSpec) ==
  LET volumes == Items(At(podSpec, "volumes"))
  IN  Sublist(volumes, {n \in DOMAIN volumes :
                          /\ IsMap(At(volumes[n], "hostPath"))
                          /\ StringOr(At(volumes[n], "name"), "") \in MountedVolumes(podSpec)})

\* The path of a volume of the host.
HostPath(volume) == StringOr(At(At(volume, "hostPath"), "path"), <<"<unspecified>">>)

\* The rules an object trips, each with its severity.
analyzeWorkloadSecurityObject(doc, kind) ==
  LET podSpec == extractPodSpec(doc, kind)
      privileged   == privilegedContainers(podSpec)
      paths        == hostPathDetails(podSpec)
      capabilities == capabilityDetails(podSpec)
      severityByRule ==
        [privileged |-> RaisedBy(privileged, DOMAIN privileged),
         host |-> IF hostNamespaces(podSpec) = {} THEN SeverityInfo ELSE SeverityHigh,
         paths |-> RaisedBy(paths, {n \in DOMAIN paths : sensitiveHostPath(HostPath(paths[n]))}),
         capabilities |-> RaisedBy(capabilities,
                            {n \in DOMAIN capabilities :
                               IsOneOf(capabilities[n].string, highRiskCapabilities)})]
      Trip(part, rule) ==
        TripIf(severityByRule[part] # SeverityInfo, rule, severityByRule[part])
  IN  Trip("privileged", "KC-019") \cup Trip("host", "KC-020")
        \cup Trip("paths", "KC-021") \cup Trip("capabilities", "KC-022")

=============================================================================
