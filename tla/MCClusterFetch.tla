--------------------------- MODULE MCClusterFetch ---------------------------
(***************************************************************************)
(* ClusterFetch on clusters of a few objects in two namespaces: two for a  *)
(* dump of mandatory resources, which then exceeds the file size limit or  *)
(* does not, and some of the optional ones.                                *)
(***************************************************************************)
EXTENDS FetchContract

Object(kind, version, name, ns) ==
  [type |-> "object", split |-> TRUE, kind |-> kind, apiVersion |-> version,
   name |-> [expr |-> "", rest |-> name], namespace |-> ns, metadata |-> TRUE,
   doc |-> [type |-> "map", fields |-> << >>]]

RBAC == "rbac.authorization.k8s.io/v1"

Admins   == Object("ClusterRoleBinding", RBAC, "admins", "")
Viewer   == Object("ClusterRole", RBAC, "viewer", "")
Reader   == Object("Role", RBAC, "reader", "n")
Reader2  == Object("Role", RBAC, "reader", "m")
AnyUID   == Object("SecurityContextConstraints", "security.openshift.io/v1", "anyuid", "")
Legacy   == Object("DeploymentConfig", "apps.openshift.io/v1", "legacy", "n")
Shop     == Object("Route", "route.openshift.io/v1", "shop", "n")
Shop2    == Object("Route", "route.openshift.io/v1", "shop", "m")
NewBind  == Object("RoleBinding", RBAC, "new", "n")

MCClusters ==
  {{}, {Viewer, Admins, Reader}, {Reader, Reader2, Shop2}, {Reader2, AnyUID, Legacy},
   {Reader, Shop, Shop2}}

MCCreatable  == {Viewer, NewBind}
MCNamespaces == {"", "n"}

=============================================================================
