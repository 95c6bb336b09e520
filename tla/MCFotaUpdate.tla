---------------------------- MODULE MCFotaUpdate ----------------------------
(* An update on a small instance: three versions, so that a manifest can   *)
(* be ahead of an image that is older than the running firmware.           *)
EXTENDS FotaUpdate
=============================================================================
