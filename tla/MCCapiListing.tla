---------------------------- MODULE MCCapiListing ----------------------------
(* Model-checking instance of CapiListing: three apps, two of them named  *)
(* alike, and two service instances, one resource a page.                 *)
EXTENDS CapiListing

MCAppGuids == {1, 2, 3}
MCServiceGuids == {4, 5}
MCAppName == (1 :> "web") @@ (2 :> "worker") @@ (3 :> "web")
MCNames == {"web", "worker"}
=============================================================================
