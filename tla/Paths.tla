------------------------------- MODULE Paths -------------------------------
(***************************************************************************)
(* Cleaned FTP paths and S3 keys (internal/s3fs/path.go).                  *)
(*                                                                         *)
(* A cleaned FTP path is the sequence of its segments; "/" is the empty    *)
(* sequence.  A key is what strings.Split(key, "/") yields, so a key that  *)
(* ends in "/" (a directory marker, a root prefix) ends in the empty       *)
(* string, and the empty key is the empty sequence.                        *)
(***************************************************************************)
EXTENDS Integers, Sequences

CONSTANT Names  \* the path segments, never empty

ASSUME NamesAssumption == "" \notin Names

Path == Seq(Names)

Segment == Names \cup {""}

Key == Seq(Segment)

EndsInSlash(k) == k # <<>> /\ k[Len(k)] = ""

\* What NormalizePrefix makes of a configured prefix: "" or "a/b/".
RootPrefix == {r \in Key : r = <<>> \/ EndsInSlash(r)}

\* The object key of a path; the root path maps to the prefix itself.
joinRoot(rootPrefix, p) ==
  IF p = <<>> THEN rootPrefix ELSE SubSeq(rootPrefix, 1, Len(rootPrefix) - 1) \o p

\* The directory marker of a path: empty, or terminated by "/".
dirKey(rootPrefix, p) ==
  LET k == joinRoot(rootPrefix, p)
  IN  IF k = <<>> \/ EndsInSlash(k) THEN k ELSE Append(k, "")

\* strings.HasPrefix, for the only prefixes the code uses: empty, or ending
\* in "/".
HasPrefix(k, prefix) ==
  \/ prefix = <<>>
  \/ /\ Len(prefix) =< Len(k)
     /\ \A i \in 1 .. (Len(prefix) - 1) : k[i] = prefix[i]

\* newPrefix + strings.TrimPrefix(key, oldPrefix), for a key under oldPrefix.
Retarget(key, oldPrefix, newPrefix) ==
  SubSeq(newPrefix, 1, Len(newPrefix) - 1) \o SubSeq(key, Len(oldPrefix), Len(key))

=============================================================================
