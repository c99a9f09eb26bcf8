----------------------------- MODULE MCOpenBuilding -----------------------------
(***************************************************************************)
(* A small open building for TLC.                                          *)
(***************************************************************************)
EXTENDS OpenBuilding

AllTrips == {t \in [source: Floors, dest: Floors] : t.source # t.dest}
=============================================================================
