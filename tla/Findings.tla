------------------------------ MODULE Findings ------------------------------
(***************************************************************************)
(* The finding list of the analyzers: the fingerprint of a finding and the *)
(* append that ignores a fingerprint already in the list (ComputeFinger-   *)
(* print of pkg/models/models.go, appendIfNew of pkg/analyzer).            *)
(*                                                                         *)
(* SHA-256 is taken as injective.  The file, the severity and the          *)
(* description of a finding are not part of its fingerprint.               *)
(***************************************************************************)
EXTENDS Models, Sequences

\* Mutant: the namespace left out of the hash.
Fingerprint_NoNamespace(f) == <<f.rule, f.kind, f.name>>

Fingerprint(f) == <<f.rule, f.kind, f.name, f.namespace>>

Fingerprints(list) == {Fingerprint(list[n]) : n \in DOMAIN list}

\* Mutant: a plain append.
appendIfNew_Always(list, f) == Append(list, f)

appendIfNew(list, f) ==
  IF Fingerprint(f) \in Fingerprints(list) THEN list ELSE Append(list, f)

=============================================================================
