---------------------------- MODULE MCPostsSync ----------------------------
(* A small instance of PostsSync.  The posts p1 and p2 carry the same date *)
(* and title and share a photo; p3 has no media, and its title gives the   *)
(* name that is the first suffixed name of the other two.                  *)
EXTENDS PostsSync, TLC

CONSTANTS p1, p2, p3, b1, b2

MCSlug     == [p \in Posts |-> IF p = p3 THEN "walk-1" ELSE "walk"]
MCSuffixed == [s \in {"walk", "walk-1"}, n \in 1 .. MaxSuffix |-> s \o "-" \o ToString(n)]
MCMedia    == p1 :> <<b1, b2>> @@ p2 :> <<b1>> @@ p3 :> <<>>

=============================================================================
