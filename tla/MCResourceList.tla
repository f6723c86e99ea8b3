--------------------------- MODULE MCResourceList ---------------------------
(***************************************************************************)
(* ResourceList for TLC: two storages, one local and one shared, in two    *)
(* zones; two clusters in two zones on one wire; three disks, one with no  *)
(* storage; two resources of the clusters.                                 *)
(***************************************************************************)
EXTENDS ResourceList

CONSTANTS sa, sb, ca, cb, d1, d2, d3, g1, g2, z1, z2, m1, w1

MCColumn == (d1 :> sa) @@ (d2 :> sb) @@ (d3 :> Null) @@ (g1 :> ca) @@ (g2 :> cb)

MCRow ==
    (sa :> [zone |-> z1, other |-> m1,   type |-> "local"]) @@
    (sb :> [zone |-> z2, other |-> Null, type |-> "rbd"]) @@
    (ca :> [zone |-> z1, other |-> w1,   type |-> Null]) @@
    (cb :> [zone |-> z2, other |-> w1,   type |-> Null])

MCLocalTypes == {"local"}

MCField == {"storage", "storage_type", "zone", "manager", "cluster", "wire", "status"}

=============================================================================
