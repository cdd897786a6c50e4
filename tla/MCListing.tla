----------------------------- MODULE MCListing -----------------------------
(***************************************************************************)
(* Small instances of DirHandle: a directory "a" with a file, a marker, a  *)
(* subdirectory that shares its name with a file, and a key with an empty  *)
(* segment, as other tools may write it.                                   *)
(***************************************************************************)
EXTENDS DirHandle

MCRank == [a |-> 1, r |-> 2, x |-> 3, y |-> 4]

MCRoot == <<"r", "">>
MCPaths == {<<>>, <<"a">>, <<"y">>}
MCKeys == {<<"r", "a">>, <<"r", "a", "">>, <<"r", "a", "", "x">>, <<"r", "a", "x">>,
           <<"r", "a", "x", "y">>, <<"r", "a", "x", "">>, <<"r", "a", "y">>}
MCBuckets == {[k \in K |-> Empty] : K \in SUBSET MCKeys}

=============================================================================
