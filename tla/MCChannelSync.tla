---------------------------- MODULE MCChannelSync ----------------------------
(* A small instance of ChannelSync with coordinates for TLC.               *)
EXTENDS CameraPlace

=============================================================================
