----------------------------- MODULE MCDownload ----------------------------
(***************************************************************************)
(* Small instances of Download: versions of up to three units, told apart  *)
(* by the units they hold.                                                 *)
(***************************************************************************)
EXTENDS DownloadProps

Version(tag, n) == [i \in 1 .. n |-> <<tag, i>>]

MCOffsets == {-1, 0, 1, 3, 4}
MCSeekPoints == {-1, 0, 1, 5}

MCContents == {Version("v1", 3), Version("v2", 2), Version("v3", 0)}

=============================================================================
