----------------------------- MODULE HlsLoader -----------------------------
(***************************************************************************)
(* import('hls.js'), which GridCell.svelte and ChannelPreview.svelte both  *)
(* await: the browser loads a module once for the whole tab.  While it is  *)
(* being fetched every import waits; when it is there the waiting ones     *)
(* continue, in the order in which they were called and before any other   *)
(* event, and a later import does not wait.  A fetch that fails rejects    *)
(* all that wait, and the next import tries again.                         *)
(***************************************************************************)

VARIABLE hlsModule

HlsModule == {"absent", "fetching", "loaded"}

HlsInit == hlsModule = "absent"

HlsLoaded == hlsModule = "loaded"

\* After a step with a start that waits for the import, if there is one.
Import(waiting) ==
    hlsModule' = IF waiting /\ ~ HlsLoaded THEN "fetching" ELSE hlsModule

=============================================================================
