---------------------------- MODULE MCBoxRegistry ----------------------------
(* A small instance of BoxRegistry and its pages for TLC.                  *)
EXTENDS BoxPages

=============================================================================
