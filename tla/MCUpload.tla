------------------------------- MODULE MCUpload -------------------------------
(***************************************************************************)
(* An upload with at most two batches of device text.                      *)
(***************************************************************************)
EXTENDS Upload
=============================================================================
