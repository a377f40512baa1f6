--------------------------- MODULE MCAlertDelivery ---------------------------
(* Small instances of AlertDelivery for TLC.                               *)
EXTENDS AlertDelivery, TLC

CONSTANTS u1, ta

\* One tab of one user.
OneTab == ta :> u1

=============================================================================
