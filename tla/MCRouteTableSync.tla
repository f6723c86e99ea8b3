-------------------------- MODULE MCRouteTableSync --------------------------
(***************************************************************************)
(* RouteTableSync for TLC.  The constants are given in the .cfg files;     *)
(* this module adds what a .cfg cannot say.                                *)
(***************************************************************************)
EXTENDS RouteTableSync, TLC

\* Syncers are interchangeable, and so are editors: no definition picks one.
Symmetry == Permutations(Syncer) \cup Permutations(Editor)

=============================================================================
