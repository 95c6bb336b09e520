---------------------------- MODULE MCLogUpload ----------------------------
(* The upload with chunks of up to three bytes that compress to anything   *)
(* between one byte and worse than nothing, one or two members a run.      *)
EXTENDS LogUpload

AllFaults == {"read", "memory", "lost", "ghost", "refused", "cut", "reply", "power"}
NoFaults == {}
=============================================================================
