------------------------------ MODULE Secrets ------------------------------
(***************************************************************************)
(* pkg/analyzer/secrets.go: Secrets that hold a credential in a manifest.  *)
(*                                                                         *)
(* A key of a Secret is written as its parts, the words of letters and     *)
(* digits in it put in small letters, and whether it is bare, that is one  *)
(* word in small letters and nothing around it.  Keys that differ only in  *)
(* their separators and capitals are one: no check tells them apart.       *)
(***************************************************************************)
EXTENDS Documents, Models

credentialSecretTypes ==
  {"kubernetes.io/basic-auth", "kubernetes.io/dockercfg", "kubernetes.io/dockerconfigjson",
   "kubernetes.io/ssh-auth", "kubernetes.io/tls", "bootstrap.kubernetes.io/token"}

credentialKeyNames ==
  {"accesskey", "apikey", "auth", "authorization", "clientcertificate", "clientkey",
   "clientsecret", "credential", "credentials", "jwt", "password", "passwd", "private",
   "privatekey", "secret", "token"}

TokenKey == [parts |-> <<"token">>, bare |-> TRUE]

ServiceAccountName == "kubernetes.io/service-account.name"

Annotations(doc) ==
  IF IsMap(At(doc, "metadata.annotations")) THEN At(doc, "metadata.annotations")
  ELSE At(At(doc, "metadata"), "annotations")

\* Mutant: the entries in clear text not looked at.
isLongLivedServiceAccountToken_DataOnly(doc) ==
  \/ At(doc, "type") = Str("kubernetes.io/service-account-token")
  \/ Has(Annotations(doc), ServiceAccountName) /\ Has(At(doc, "data"), TokenKey)

isLongLivedServiceAccountToken(doc) ==
  \/ At(doc, "type") = Str("kubernetes.io/service-account-token")
  \/ /\ Has(Annotations(doc), ServiceAccountName)
     /\ Has(At(doc, "data"), TokenKey) \/ Has(At(doc, "stringData"), TokenKey)

Entries(doc) == DOMAIN Fields(At(doc, "data")) \cup DOMAIN Fields(At(doc, "stringData"))

\* A name in the table has no separators: as a whole it is its only part.
isCredentialKey(key) == \E n \in DOMAIN key.parts : key.parts[n] \in credentialKeyNames

knownCredentialType(doc) ==
  StringOr(At(doc, "type"), "") \in credentialSecretTypes /\ Entries(doc) # {}

credentialKeys(doc) == {key \in Entries(doc) : isCredentialKey(key)}

analyzeSecret(doc) ==
  IF isLongLivedServiceAccountToken(doc)
  THEN {[rule |-> "KC-029", severity |-> SeverityHigh]}
  ELSE IF knownCredentialType(doc) \/ credentialKeys(doc) # {}
       THEN {[rule |-> "KC-028", severity |-> SeverityWarning]} ELSE {}

=============================================================================
