--------------------------- MODULE MCAlertHistory ---------------------------
(* Small instances of AlertHistory for TLC.                                *)
EXTENDS AlertHistory

=============================================================================
