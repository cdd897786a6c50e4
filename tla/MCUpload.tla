------------------------------ MODULE MCUpload -----------------------------
(***************************************************************************)
(* Small instances of Upload.                                              *)
(***************************************************************************)
EXTENDS UploadProps

Filled(tag, n) == [i \in 1 .. n |-> <<tag, i>>]

\* No object, or one of up to two units; other writers store one or two.
MCObjects == {{}} \cup {{Filled("old", n)} : n \in 0 .. 2}
MCUnits == {Filled("other", n) : n \in {1, 2}}

=============================================================================
