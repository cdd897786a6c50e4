------------------------------ MODULE PathText ------------------------------
(***************************************************************************)
(* The text side of path mapping (internal/s3fs/path.go and                *)
(* NormalizePrefix, internal/config/config.go): what a client types and    *)
(* what a configuration holds, as sequences of characters, and the keys    *)
(* made of them.  Module Paths, on which the file system's modules stand,  *)
(* has the same mapping on sequences of segments; Segments relates them.   *)
(***************************************************************************)
EXTENDS Integers, Sequences

LOCAL INSTANCE SequencesExt

Trim(t, cutset) ==
  LET kept == {i \in DOMAIN t : t[i] \notin cutset}
  IN  IF kept = {} THEN <<>> ELSE SubSeq(t, Min(kept), Max(kept))

TrimSpace(t) == Trim(t, {" "})

\* strings.Split(t, "/")
Split(t) ==
  LET step(segs, c) == IF c = "/" THEN Append(segs, <<>>)
                       ELSE [segs EXCEPT ![Len(segs)] = Append(@, c)]
  IN  FoldLeft(step, << <<>> >>, t)

\* A rooted path of segments.
Rooted(segs) ==
  IF segs = <<>> THEN <<"/">> ELSE FoldLeft(LAMBDA t, s : t \o <<"/">> \o s, <<>>, segs)

\* Mutant: ".." at the root is kept, as path.Clean does for a relative path.
CleanSegmentsRelative(t) ==
  LET step(segs, s) == CASE s \in {<<>>, <<".">>} -> segs
                         [] s = <<".", ".">> /\ segs # <<>> -> Front(segs)
                         [] OTHER -> Append(segs, s)
  IN  FoldLeft(step, <<>>, Split(t))

\* The segments path.Clean leaves of a rooted path: ".." at the root stays there.
CleanSegments(t) ==
  LET step(segs, s) == CASE s \in {<<>>, <<".">>} -> segs
                         [] s = <<".", ".">> -> SubSeq(segs, 1, Len(segs) - 1)
                         [] OTHER -> Append(segs, s)
  IN  FoldLeft(step, <<>>, Split(t))

\* A missing "/" in front is added, which is no more than an empty segment.
CleanFTPPath(t) == Rooted(CleanSegments(TrimSpace(t)))

joinRootText(rootPrefix, t) ==
  LET clean == CleanFTPPath(t)
  IN  IF clean = <<"/">> THEN rootPrefix ELSE rootPrefix \o Tail(clean)

\* Mutant: "/" is always added.
dirKeyTextAlways(rootPrefix, t) == Append(joinRootText(rootPrefix, t), "/")

dirKeyText(rootPrefix, t) ==
  LET k == joinRootText(rootPrefix, t)
  IN  IF k = <<>> \/ Last(k) = "/" THEN k ELSE Append(k, "/")

\* Mutant: strings.TrimLeft instead of strings.TrimPrefix.
relativeNameTrimLeft(prefix, key) ==
  LET name == IF key # <<>> /\ Last(key) = "/" THEN Front(key) ELSE key
      kept == {i \in DOMAIN name : name[i] \notin Range(prefix)}
  IN  IF kept = {} THEN <<>> ELSE SubSeq(name, Min(kept), Len(name))

relativeName(prefix, key) ==
  LET name == IF key # <<>> /\ Last(key) = "/" THEN Front(key) ELSE key
  IN  CASE key = prefix -> <<>>
        [] key # prefix /\ IsPrefix(prefix, name) -> SubSeq(name, Len(prefix) + 1, Len(name))
        [] OTHER -> name

\* Mutant: slashes in front are kept.
NormalizePrefixSuffix(t) ==
  LET p == TrimSpace(t)
  IN  IF p \in {<<>>, <<"/">>} THEN <<>> ELSE IF Last(p) = "/" THEN p ELSE Append(p, "/")

NormalizePrefix(t) ==
  LET p == Trim(TrimSpace(t), {"/"})
  IN  IF p = <<>> THEN <<>> ELSE Append(p, "/")

(***************************************************************************)
(* Relation to module Paths                                                *)
(***************************************************************************)

\* A segment as a string, and a key as module Paths has it.
Word(s) == FoldLeft(LAMBDA w, c : w \o c, "", s)

Words(segs) == [i \in DOMAIN segs |-> Word(segs[i])]

Segments(key) == IF key = <<>> THEN <<>> ELSE Words(Split(key))

=============================================================================
