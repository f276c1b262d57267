----------------------------- MODULE MCReadPath -----------------------------
(* Nine clusters of two bytes in words of four bits: a read may begin in the *)
(* first word, cross the second and end in the third, whose byte has a bit   *)
(* that stands for no cluster.  The device goes on behind the clusters, into *)
(* a chunk that has none.                                                    *)
EXTENDS ReadPath
=============================================================================
