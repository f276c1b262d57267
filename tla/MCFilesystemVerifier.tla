------------------------ MODULE MCFilesystemVerifier ------------------------
(***************************************************************************)
(* The paths are, in their order, the root, the excluded directory System  *)
(* Volume Information (1) with a file (2), a directory (3) with a file     *)
(* (4), and two files in the root (5 and 6).                               *)
(***************************************************************************)
EXTENDS FilesystemVerifier

MCParent == 1 :> 0 @@ 2 :> 1 @@ 3 :> 0 @@ 4 :> 3 @@ 5 :> 0 @@ 6 :> 0
MCVssExcluded == {1, 2}
MCWorkers == "synthetic" :> {"w1", "w2"} @@ "real" :> {"w1"}

Object(kind, identity, streams) ==
    [kind |-> kind, identity |-> identity, streams |-> streams,
     open |-> "none", query |-> "none", list |-> "none",
     reopen |-> "none", read |-> "none"]

\* The first bytes of the chunks agree, so that a short read hides the rest.
AB == <<"a", "b">>
AC == <<"a", "c">>

Excluding ==
    0 :> Object("Directory", 10, <<>>) @@
    1 :> Object("Directory", 11, <<>>) @@
    2 :> Object("File", 12, 0 :> <<AB>>)

Nested ==
    0 :> Object("Directory", 10, <<>>) @@
    3 :> Object("Directory", 13, <<>>) @@
    4 :> Object("File", 14, 0 :> <<AB, AB>>)

Without4 == [p \in {0, 3} |-> Nested[p]]
Streams4(streams) == [Nested EXCEPT ![4].streams = streams]
Changed4 == Streams4(0 :> <<AB, AC>>)

\* 5 and 6 are names of one file, or two files.
Linked ==
    0 :> Object("Directory", 10, <<>>) @@
    5 :> Object("File", 15, 0 :> <<AB>>) @@
    6 :> Object("File", 15, 0 :> <<AB>>)

Unlinked == [Linked EXCEPT ![6] = Object("File", 16, 0 :> <<AC>>)]

Pair(synthetic, real) == "synthetic" :> synthetic @@ "real" :> real

MCVolumes ==
    {Pair(Nested, volume) :
        volume \in {Nested, Without4, Changed4,
                    Streams4(0 :> <<AB>> @@ 1 :> <<>>),
                    [Without4 EXCEPT ![3].kind = "File"],
                    [Nested EXCEPT ![3].open = "denied"],
                    [Nested EXCEPT ![3].query = "corrupt", ![3].list = "corrupt"],
                    [Nested EXCEPT ![4].reopen = "denied"],
                    [Nested EXCEPT ![4].read = "short"]}}
    \cup {Pair([Nested EXCEPT ![4].read = "short"],
               [Changed4 EXCEPT ![4].read = "short"]),
          Pair([Nested EXCEPT ![3].list = "corrupt"],
               [Without4 EXCEPT ![3].list = "corrupt"])}
    \cup {Pair(Excluding, [Excluding EXCEPT ![2].streams = 0 :> <<AC>>,
                                           ![1].list = "corrupt"]),
          Pair(Linked, Linked), Pair(Linked, Unlinked)}

=============================================================================
