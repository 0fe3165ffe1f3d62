---------------------------- MODULE MCMediaStore ----------------------------
(* Instances of MediaStore for TLC. *)
EXTENDS MediaStore
=============================================================================
