---------------------------- MODULE ConfigProps ----------------------------
(***************************************************************************)
(* What a configuration that is accepted means for the server that runs    *)
(* with it, and what the file system's modules assume of paths.            *)
(***************************************************************************)
EXTENDS Config

LOCAL INSTANCE SequencesExt

P == INSTANCE Paths WITH Names <- {}

Started == stage \in {"serving", "session"}

\* What Validate accepts (config.go:262) is not refused later on for a value it
\* has checked (backend.go:89, driver.go:86), but for a part size so large that
\* its bytes wrap around (main.go:108), which Validate lets pass (config.go:289);
\* only the session token (backend.go:67) and the files of TLS (tls.go:13, 40)
\* are looked at later.
ValidStarts ==
  \/ refused \in {"none", "Load", "session token", "key pair", "min_version"}
  \/ refused = "part size" /\ cfg.part > Range64

Parsed(k) == k \in IntSettings \cup BoolSettings

\* A setting is what the environment says, else what the file says, else the
\* default, normalized (Load, config.go:128-153): but a number the environment
\* does not spell is passed over (setInt, config.go:241), and the least version
\* of TLS has no variable (config.go:192-231).  A prefix of the file is
\* normalized twice, which may cut more of it: see PrefixShape.
EnvironmentWins ==
  Started => \A k \in DOMAIN cfg :
    LET fromEnv == k \in DOMAIN input.env \ NoEnv /\ (Parsed(k) => input.env[k] # {})
        given == IF fromEnv
                 THEN IF Parsed(k) THEN CHOOSE v \in input.env[k] : TRUE ELSE input.env[k]
                 ELSE Unmarshal(Default, input.file)[k]
    IN  \/ cfg[k] = normalize([Default EXCEPT ![k] = given])[k]
        \/ k = "root_prefix" /\ ~fromEnv

\* A server that asks for TLS has a certificate to offer (Validate, TLSEnabled,
\* New and GetSettings agree: config.go:270, 326, driver.go:52, 92).
TLSOffered == Started /\ TLSRequired => tls

\* Every account of a server that runs can be found by its name (normalize and
\* Validate against LookupUser: config.go:176, 303, 374).
AccountsFound ==
  Started => \A i \in DOMAIN users : LookupUser(Neat(input.users[i].username[1])) = {i}

\* Nobody logs in with an empty password, although an account that has only a
\* hash has an empty one (Validate, CheckPassword: config.go:307, 387), unless
\* the account was given the hash of the empty password, which Validate does
\* not notice.
NoEmptyPassword ==
  stage = "session" /\ secret = "" => users[who].hash # <<>> /\ "" \in users[who].hash[1]

\* A root prefix is "" or a text that ends in "/" and does not begin with it
\* (NormalizePrefix, config.go:183), whichever way it came.
PrefixShape ==
  stage = "session" =>
    LET p == view.rootPrefix
    IN  p = <<>> \/ (Len(p) > 1 /\ Head(p) # "/" /\ Last(p) = "/" /\ p[Len(p) - 1] # "/")

\* Whatever a client types, the key is under the prefix of its account, and has
\* no empty, "." or ".." segment behind it (path.go:11, 32).
KeyInView ==
  clean # <<>> =>
    /\ IsPrefix(view.rootPrefix, key)
    /\ \A s \in Range(Split(SubSeq(key, Len(view.rootPrefix) + 1, Len(key)))) :
         s \in {<<>>, <<".">>, <<".", ".">>} => key = view.rootPrefix

\* The second cleaning (path.go:33) cuts the spaces at the end of a path the
\* first one has left there: such a path is not the one the key is made of.
NoSpaceLast == \A s \in Range(CleanSegments(clean)) : Last(s) # " "

\* The mapping of module Paths is that of the text, for a path none of whose
\* names ends in a space (path.go:11-50).
MapsLikePaths ==
  clean # <<>> /\ NoSpaceLast =>
    LET root == Segments(view.rootPrefix)
        p == Words(CleanSegments(clean))
    IN  /\ Segments(key) = P!joinRoot(root, p)
        /\ Segments(dirKeyText(view.rootPrefix, clean)) = P!dirKey(root, p)

\* The name a listing gives a key or a common prefix, typed behind the
\* directory's path, leads back to it (dir.go:58, 74; path.go:53).
NamesLeadBack ==
  clean # <<>> /\ NoSpaceLast /\ key # view.rootPrefix =>
    LET dir == Rooted(Front(CleanSegments(clean)))
        prefix == dirKeyText(view.rootPrefix, dir)
    IN  \A listed \in {key, Append(key, "/")} :
          joinRootText(view.rootPrefix, dir \o <<"/">> \o relativeName(prefix, listed)) = key

=============================================================================
