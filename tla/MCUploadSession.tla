-------------------------- MODULE MCUploadSession --------------------------
(* Instances of UploadSession for TLC. *)
EXTENDS UploadSession
=============================================================================
