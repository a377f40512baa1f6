----------------------------- MODULE CameraList -----------------------------
(***************************************************************************)
(* GET /api/cameras (apps/api/src/routes/cameras.ts) as fetchCameras and   *)
(* partitionCameras (apps/web/src/lib/api/cameras.ts) give it to the pages *)
(* that call it: the cameras that have a row, by whether the row has       *)
(* coordinates.                                                            *)
(***************************************************************************)

CONSTANT Camera      \* the cameras of all boxes

CameraLists ==
    {list \in [geocoded : SUBSET Camera, noCoord : SUBSET Camera] :
        list.geocoded \cap list.noCoord = {}}

NoCameras == [geocoded |-> {}, noCoord |-> {}]

=============================================================================
