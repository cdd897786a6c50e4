------------------------------- MODULE Config -------------------------------
(***************************************************************************)
(* From the configuration to a client's key: Load (internal/config), the   *)
(* checks of NewClient (internal/s3fs/backend.go), New, GetSettings and    *)
(* AuthUser (internal/ftpdriver), and the key of a path a client names     *)
(* (internal/s3fs/path.go), in the order run and a session call them.      *)
(*                                                                         *)
(* A file and an environment give some of the settings.  The environment's *)
(* numbers and booleans are text: {v} stands for text that is parsed as v, *)
(* {} for any other.  A word that normalize lowers and trims is a pair of  *)
(* the word and whether it is written that way already; prefixes and paths *)
(* are texts.  A passive port range is what SplitN yields: a sequence of   *)
(* at most two fields, each {n} or {}.  An account's bcrypt hash is <<>>   *)
(* if it is not set, <<{p}>> if it is one of the password p, and <<{}>> if *)
(* it is text that is no hash.  Settings nothing depends on (the banner,   *)
(* the hosts, the timeouts, the booleans of the connections) are left out. *)
(***************************************************************************)
EXTENDS PathText, FiniteSets

CONSTANTS Inputs,  \* records of a file, its accounts, an environment, and a kind of client
          Typed,   \* the paths a client of each kind types
          Range64  \* the numbers of MiB an int64 of bytes tells apart: 2^44 in the code

User == [username: STRING \X BOOLEAN, password: STRING, hash: Seq(SUBSET STRING),
         bucket: STRING, root_prefix: Seq(STRING), read_only: BOOLEAN]

ASSUME ConfigAssumption ==
  /\ Range64 \in Nat \ {0}
  /\ \A i \in Inputs :
       /\ i.users \in Seq(User)
       /\ "part" \in DOMAIN i.file => i.file["part"] \in Int
       /\ "part" \in DOMAIN i.env => i.env["part"] \subseteq Int
       /\ \A given \in {i.file, i.env} :
            "root_prefix" \in DOMAIN given => given["root_prefix"] \in Seq(STRING)

VARIABLES input,
          stage,   \* the next call, "session" or "failed"
          refused, \* the call that refused, or "none"
          cfg, users,
          tls,     \* whether Driver.tlsConfig is set
          view,    \* of the session: bucket, rootPrefix, dirMarker, readOnly
          who, secret, \* history: the account of the session, the password given for it
          clean, key

vars == <<input, stage, refused, cfg, users, tls, view, who, secret, clean, key>>

Neat(w) == <<w, TRUE>>

Default ==
  [listen_ip |-> "0.0.0.0", port |-> 2121, passive |-> <<>>, max_clients |-> 0,
   mode |-> Neat("off"), cert |-> "", key_file |-> "", min_version |-> "1.2",
   region |-> "us-east-1", access |-> "", secret |-> "", token |-> "",
   bucket |-> "", root_prefix |-> <<>>, part |-> 8, concurrency |-> 4,
   create |-> FALSE, marker |-> TRUE,
   level |-> Neat("info"), format |-> Neat("text")]

IntSettings == {"port", "max_clients", "part", "concurrency"}
BoolSettings == {"create", "marker"}
NoEnv == {"min_version"}  \* has no variable

\* yaml.Unmarshal replaces what the file has.
Unmarshal(c, file) == [k \in DOMAIN c |-> IF k \in DOMAIN file THEN file[k] ELSE c[k]]

normalize(c) ==
  [c EXCEPT !.mode = Neat(IF @[1] = "" THEN "off" ELSE @[1]),
            !.level = Neat(@[1]), !.format = Neat(@[1]),
            !.part = IF @ = 0 THEN 8 ELSE @,
            !.concurrency = IF @ = 0 THEN 4 ELSE @,
            !.region = IF @ = "" THEN "us-east-1" ELSE @,
            !.root_prefix = NormalizePrefix(@)]

normalizeUsers(us) ==
  [i \in DOMAIN us |-> [us[i] EXCEPT !.username = Neat(@[1]),
                                     !.root_prefix = NormalizePrefix(@)]]

\* setInt ignores what it cannot parse; setBool refuses it, see EnvErrors.
applyEnv(c, env) ==
  [k \in DOMAIN c |->
     IF k \notin DOMAIN env \ NoEnv THEN c[k]
     ELSE IF k \notin IntSettings \cup BoolSettings THEN env[k]
     ELSE IF env[k] = {} THEN c[k] ELSE CHOOSE v \in env[k] : TRUE]

EnvErrors(env) == \E k \in DOMAIN env \cap BoolSettings : env[k] = {}

\* Mutant: the mode is not looked at.
TLSEnabledFiles(c) == c.cert # "" /\ c.key_file # ""

TLSEnabled(c) ==
  IF c.mode \in {Neat(""), Neat("off")} THEN c.cert # "" /\ c.key_file # "" ELSE TRUE

MaxPort == 65535

\* ParsePassivePortRange fails: for an empty text it does not.
PortRangeError(c) ==
  /\ c.passive # <<>>
  /\ \/ Len(c.passive) # 2
     \/ {} \in {c.passive[1], c.passive[2]}
     \/ \E start \in c.passive[1], end \in c.passive[2] :
          start < 1 \/ end > MaxPort \/ start > end

\* Mutant: nobody looks for duplicates.
ValidateUsersOnce(us) ==
  /\ us # <<>>
  /\ \A i \in DOMAIN us : us[i].username # Neat("") /\ (us[i].password # "" \/ us[i].hash # <<>>)

ValidateUsers(us) ==
  /\ us # <<>>
  /\ \A i \in DOMAIN us :
       /\ us[i].username # Neat("")
       /\ us[i].password # "" \/ us[i].hash # <<>>
       /\ \A j \in 1 .. (i - 1) : us[j].username # us[i].username

Validate(c) ==
  /\ c.port \in 0 .. MaxPort /\ c.listen_ip # "host:port"
  /\ TLSEnabled(c) => c.cert # "" /\ c.key_file # ""
  /\ c.mode \in {Neat("off"), Neat("explicit"), Neat("required"), Neat("implicit")}
  /\ ~PortRangeError(c) /\ c.bucket # ""
  /\ (c.access = "") = (c.secret = "")
  /\ c.part >= 5 /\ c.concurrency >= 1
  /\ c.level \in {Neat(l) : l \in {"", "debug", "info", "warn", "warning", "error"}}
  /\ c.format \in {Neat(f) : f \in {"", "text", "json"}}

(***************************************************************************)
(* Start-up                                                                *)
(***************************************************************************)
Init ==
  /\ input \in Inputs
  /\ stage = "Load" /\ refused = "none"
  /\ cfg = Default /\ users = <<>>
  /\ tls = FALSE /\ view = <<>> /\ who = 0 /\ secret = "" /\ clean = <<>> /\ key = <<>>

sessionVars == <<view, who, secret, clean, key>>

Refuse(call) == stage' = "failed" /\ refused' = call /\ UNCHANGED <<cfg, users, tls>>

Goto(call) == stage' = call /\ UNCHANGED refused

\* Mutant: the environment is applied to the validated configuration.
LoadEnvLast ==
  LET c == normalize(normalize(Unmarshal(Default, input.file)))
      us == normalizeUsers(normalizeUsers(input.users))
  IN  /\ stage = "Load"
      /\ \/ /\ ~EnvErrors(input.env) /\ Validate(c) /\ ValidateUsers(us)
            /\ cfg' = normalize(applyEnv(c, input.env)) /\ users' = us
            /\ Goto("NewClient") /\ UNCHANGED tls
         \/ Refuse("Load")
      /\ UNCHANGED <<input, sessionVars>>

\* Mutant: the environment is applied to the defaults.
LoadEnvFirst ==
  LET c == normalize(Unmarshal(normalize(applyEnv(Default, input.env)), input.file))
      us == normalizeUsers(normalizeUsers(input.users))
  IN  /\ stage = "Load"
      /\ \/ /\ ~EnvErrors(input.env) /\ Validate(c) /\ ValidateUsers(us)
            /\ cfg' = c /\ users' = us
            /\ Goto("NewClient") /\ UNCHANGED tls
         \/ Refuse("Load")
      /\ UNCHANGED <<input, sessionVars>>

\* The file's settings are normalized twice, the environment's once.  A file
\* that cannot be read or is no YAML is refused as well.
Load ==
  LET c == normalize(applyEnv(normalize(Unmarshal(Default, input.file)), input.env))
      us == normalizeUsers(normalizeUsers(input.users))
  IN  /\ stage = "Load"
      /\ \/ /\ ~EnvErrors(input.env) /\ Validate(c) /\ ValidateUsers(us)
            /\ cfg' = c /\ users' = us
            /\ Goto("NewClient") /\ UNCHANGED tls
         \/ Refuse("Load")
      /\ UNCHANGED <<input, sessionVars>>

\* int64(n) * 1024 * 1024, in MiB: it wraps around to a signed number.
PartSizeMiB(n) == LET m == n % Range64 IN IF m < Range64 - m THEN m ELSE m - Range64

\* A part size that is not positive is replaced by the default; S3's minimum
\* is 5 MiB.
NewClient ==
  /\ stage = "NewClient"
  /\ \/ cfg.token # "" /\ "" \in {cfg.access, cfg.secret} /\ Refuse("session token")
     \/ /\ ~(cfg.token # "" /\ "" \in {cfg.access, cfg.secret})
        /\ \/ PartSizeMiB(cfg.part) \in 1 .. 4 /\ Refuse("part size")
           \/ PartSizeMiB(cfg.part) \notin 1 .. 4 /\ Goto("New") /\ UNCHANGED <<cfg, users, tls>>
  /\ UNCHANGED <<input, sessionVars>>

\* What parseTLSVersion knows.
TLSVersions == {"", "1.2", "1.2.0", "tls1.2", "1.0", "tls1.0", "1.1", "tls1.1", "1.3", "tls1.3"}

\* loadTLSConfig reads the key pair, which may be none, before the version.
New ==
  /\ stage = "New"
  /\ \/ /\ TLSEnabled(cfg)
        /\ \/ Refuse("key pair")
           \/ /\ cfg.cert # "" /\ cfg.key_file # "" /\ cfg.min_version \notin TLSVersions
              /\ Refuse("min_version")
           \/ /\ cfg.cert # "" /\ cfg.key_file # "" /\ cfg.min_version \in TLSVersions
              /\ tls' = TRUE /\ Goto("GetSettings") /\ UNCHANGED <<cfg, users>>
     \/ ~TLSEnabled(cfg) /\ Goto("GetSettings") /\ UNCHANGED <<cfg, users, tls>>
  /\ UNCHANGED <<input, sessionVars>>

\* Called by Listen: the port range is parsed again, the rest is copied.
GetSettings ==
  /\ stage = "GetSettings"
  /\ \/ PortRangeError(cfg) /\ Refuse("port range")
     \/ ~PortRangeError(cfg) /\ Goto("serving") /\ UNCHANGED <<cfg, users, tls>>
  /\ UNCHANGED <<input, sessionVars>>

TLSRequired == cfg.mode \in {Neat("implicit"), Neat("required")}

(***************************************************************************)
(* A session                                                               *)
(***************************************************************************)

\* The first account of that name.
LookupUser(name) == {i \in DOMAIN users : /\ users[i].username = name
                                          /\ \A j \in 1 .. (i - 1) : users[j].username # name}

\* Mutant: the password is tried when the hash does not match.
CheckPasswordEither(u, password) ==
  (u.hash # <<>> /\ password \in u.hash[1]) \/ u.password = password

\* A hash wins over a password.
CheckPassword(u, password) ==
  IF u.hash # <<>> THEN password \in u.hash[1] ELSE u.password = password

ViewOf(u) ==
  [bucket |-> IF u.bucket # "" THEN u.bucket ELSE cfg.bucket,
   rootPrefix |-> IF u.root_prefix # <<>> THEN u.root_prefix ELSE cfg.root_prefix,
   dirMarker |-> cfg.marker,
   readOnly |-> u.read_only]

\* A login that fails leaves no trace.
AuthUser(name, password) ==
  /\ stage = "serving"
  /\ \E i \in LookupUser(name) :
       /\ CheckPassword(users[i], password)
       /\ view' = ViewOf(users[i])
       /\ who' = i
  /\ secret' = password
  /\ Goto("session")
  /\ UNCHANGED <<input, cfg, users, tls, clean, key>>

\* Every operation cleans the name it gets, and joinRoot cleans it again.
Command(t) ==
  /\ stage = "session"
  /\ clean' = CleanFTPPath(t)
  /\ key' = joinRootText(view.rootPrefix, clean')
  /\ UNCHANGED <<input, stage, refused, cfg, users, tls, view, who, secret>>

Next ==
  \/ Load \/ NewClient \/ New \/ GetSettings
  \/ \E name \in {input.users[i].username[1] : i \in DOMAIN input.users},
        password \in {"", "p", "q"} : AuthUser(Neat(name), password)
  \/ \E t \in Typed[input.client] : Command(t)

Spec == Init /\ [][Next]_vars

=============================================================================
