--------------------------- MODULE DownloadProps ---------------------------
(***************************************************************************)
(* The properties of module Download.                                      *)
(***************************************************************************)
EXTENDS Download

\* What is left of a version from a position on.
Suffix(v, p) == SubSeq(v, p + 1, Len(v))

\* What a reader gets from where it (re)positioned itself is a contiguous
\* piece of one version of the object, and at EOF all of the rest of it,
\* although the size comes from a HeadObject and the data from a later
\* GetObject (download.go:33-46, 71-82) while the object is being replaced.
OneVersion ==
  pc \in {"reading", "closed"} =>
    \E v \in versions :
      /\ Len(got) =< Len(Suffix(v, from))
      /\ got = SubSeq(Suffix(v, from), 1, Len(got))
      /\ last = "eof" => got = Suffix(v, from)

\* A handle holds at most one response of S3 open, and none once it is
\* closed, whatever sequence of Read, Seek and Close it went through
\* (download.go:100-103, 161-165, 212-214).
NoBodyLeaks == conns =< 1 /\ (pc \in {"closed", "refused"} => conns = 0)

\* A transfer ends: every object is read to its end, also one that shrinks or
\* disappears while it is read.
TransferEnds == pc = "reading" ~> pc = "closed"

=============================================================================
