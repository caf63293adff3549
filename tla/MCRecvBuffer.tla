---------------------------- MODULE MCRecvBuffer ----------------------------
(* Instances of RecvBuffer for TLC, with a header of two bytes and buffers   *)
(* of a few bytes, so that headers and packets are split everywhere.         *)
EXTENDS RecvBuffer

=============================================================================
