---------------------------- MODULE MCProxyBulk ----------------------------
(* The configurations of this module give ProxyBulk its back-ends as model  *)
(* values. They are not declared symmetric: symmetry is unsound for the      *)
(* liveness property.                                                        *)
EXTENDS ProxyBulk
=============================================================================
