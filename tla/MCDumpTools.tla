---------------------------- MODULE MCDumpTools ----------------------------
(* A small instance of DumpTools: a post with a video and a photo that are *)
(* the same bytes, so that the store keeps them twice.                     *)
EXTENDS DumpTools

CONSTANT x

MCItems == <<<<<<"videos", x>>, <<"photos", x>>>>>>

=============================================================================
