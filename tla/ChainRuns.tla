------------------------------ MODULE ChainRuns ------------------------------
(***************************************************************************)
(* Two runs of the privilege chain analysis on the same manifests, one     *)
(* after the other, each visiting the pod and workload maps in an order of *)
(* its own.  "Same manifests always produce same findings"                 *)
(* (site/docs/architecture/overview.md:129) is a statement about both.     *)
(*                                                                         *)
(* What the first of them promises by itself is in module ChainContract;   *)
(* the second, whose variables end in 2, is an instance of it.             *)
(***************************************************************************)
EXTENDS ChainContract

ASSUME InputsAssumption == LoadedInputs

VARIABLES pc2, unread2, refs2, r2, b2, findings2

Second == INSTANCE ChainContract WITH
            pc <- pc2, unread <- unread2, refs <- refs2, r <- r2, b <- b2,
            findings <- findings2

own1 == <<pc, unread, refs, r, b, findings>>
own2 == <<pc2, unread2, refs2, r2, b2, findings2>>

RunsInit == Init /\ Second!Init

RunFirst == Next /\ UNCHANGED own2

RunSecond == Returned /\ Second!Next /\ UNCHANGED own1

RunsNext == RunFirst \/ RunSecond

runsVars == <<res, own1, own2>>

\* Each run is one goroutine over finite slices and maps.
RunsSpec == RunsInit /\ [][RunsNext]_runsVars /\ WF_runsVars(RunsNext)

BothReturned == Returned /\ Second!Returned

-----------------------------------------------------------------------------

\* Both runs return (analyzer.go:324-416).
RunsReturn == <>BothReturned

\* Two runs agree on the verdicts: rule, resource and severity of every finding,
\* and the file in which the pod or workload of a KC-013 is declared
\* (analyzer.go:337-413).
VerdictsRepeat ==
  BothReturned =>
    {Verdict(f) : f \in ToSet(findings)} = {Verdict(f) : f \in ToSet(findings2)}

\* Two pods or workloads whose accounts are bound by RoleBindings of one name.
Shared ==
  \E u, v \in Users, x, y \in ToSet(res.roleBindings) :
    /\ u # v
    /\ x.name = y.name /\ x.namespace = y.namespace
    /\ \E s \in x.subjects : s.name = u.sa /\ s.namespace = u.namespace
    /\ \E s \in y.subjects : s.name = v.sa /\ s.namespace = v.namespace

\* Where no RoleBinding is shared, two runs agree on everything, the descriptions
\* and the order of the bindings behind them included (analyzer.go:360-413).
FindingsRepeatUnlessShared ==
  (BothReturned /\ ~Shared) => ToSet(findings) = ToSet(findings2)

\* The documented claim: same manifests, same findings
\* (site/docs/architecture/overview.md:129).
FindingsRepeat == BothReturned => ToSet(findings) = ToSet(findings2)

=============================================================================
