-------------------------- MODULE MCDetectionPoller --------------------------
(* Small instances of DetectionPoller for TLC.                             *)
EXTENDS DetectionPoller

=============================================================================
