---------------------------- MODULE ConfigProofs ---------------------------
(***************************************************************************)
(* Proofs about modules Config and ConfigProps, for every file, every      *)
(* environment and every list of accounts.                                 *)
(***************************************************************************)
EXTENDS ConfigProps, TLAPS

LOCAL INSTANCE SequencesExt
LOCAL INSTANCE WellFoundedInduction

(***************************************************************************)
(* What normalize and Validate do to a configuration                       *)
(***************************************************************************)
Settings == DOMAIN Default

Normalized == {"mode", "level", "format", "part", "concurrency", "region", "root_prefix"}

IsConfig(c) == c = [k \in Settings |-> c[k]]

\* What normalize makes of the settings it touches.
LEMMA NormalizeAt ==
  ASSUME NEW c, IsConfig(c)
  PROVE  /\ normalize(c)["mode"] = Neat(IF c["mode"][1] = "" THEN "off" ELSE c["mode"][1])
         /\ normalize(c)["level"] = Neat(c["level"][1])
         /\ normalize(c)["format"] = Neat(c["format"][1])
         /\ normalize(c)["part"] = IF c["part"] = 0 THEN 8 ELSE c["part"]
         /\ normalize(c)["concurrency"] = IF c["concurrency"] = 0 THEN 4 ELSE c["concurrency"]
         /\ normalize(c)["region"] = IF c["region"] = "" THEN "us-east-1" ELSE c["region"]
         /\ normalize(c)["root_prefix"] = NormalizePrefix(c["root_prefix"])
<1>1. \A k \in Normalized : k \in DOMAIN c
  BY Zenon DEF IsConfig, Settings, Default, Normalized
<1>2. normalize(c)["mode"] = Neat(IF c["mode"][1] = "" THEN "off" ELSE c["mode"][1])
  BY <1>1, Zenon DEF normalize, Normalized
<1>3. normalize(c)["level"] = Neat(c["level"][1])
  BY <1>1, Zenon DEF normalize, Normalized
<1>4. normalize(c)["format"] = Neat(c["format"][1])
  BY <1>1, Zenon DEF normalize, Normalized
<1>5. normalize(c)["part"] = IF c["part"] = 0 THEN 8 ELSE c["part"]
  BY <1>1, Zenon DEF normalize, Normalized
<1>6. normalize(c)["concurrency"] = IF c["concurrency"] = 0 THEN 4 ELSE c["concurrency"]
  BY <1>1, Zenon DEF normalize, Normalized
<1>7. normalize(c)["region"] = IF c["region"] = "" THEN "us-east-1" ELSE c["region"]
  BY <1>1, Zenon DEF normalize, Normalized
<1>8. normalize(c)["root_prefix"] = NormalizePrefix(c["root_prefix"])
  BY <1>1, Zenon DEF normalize, Normalized
<1> QED
  BY <1>2, <1>3, <1>4, <1>5, <1>6, <1>7, <1>8, Zenon

\* normalize leaves the other settings alone.
LEMMA NormalizeElse ==
  ASSUME NEW c, IsConfig(c)
  PROVE  /\ IsConfig(normalize(c))
         /\ \A k \in Settings \ Normalized : normalize(c)[k] = c[k]
<1>1. DOMAIN c = Settings
  BY Zenon DEF IsConfig
<1>2. ASSUME NEW k \in Settings \ Normalized
      PROVE  normalize(c)[k] = c[k]
  BY <1>1, <1>2, Zenon DEF normalize, Normalized
<1>3. IsConfig(normalize(c))
  BY <1>1, Zenon DEF normalize, IsConfig
<1> QED
  BY <1>2, <1>3, Zenon

\* What Validate has accepted.
LEMMA Valid ==
  ASSUME NEW c, Validate(c)
  PROVE  /\ c.part >= 5
         /\ ~PortRangeError(c)
  BY Zenon DEF Validate

\* TLSEnabled holds of the modes that require TLS.
LEMMA Required ==
  ASSUME TLSRequired
  PROVE  TLSEnabled(cfg)
<1>1. "implicit" # "" /\ "required" # "" /\ "implicit" # "off" /\ "required" # "off"
  BY Zenon
<1>2. \A x, y : Neat(x) = Neat(y) => x = y
  BY DEF Neat
<1> QED
  BY <1>1, <1>2, Zenon DEF TLSRequired, TLSEnabled

(***************************************************************************)
(* The invariant                                                           *)
(***************************************************************************)
LoadedCfg(i) == normalize(applyEnv(normalize(Unmarshal(Default, i.file)), i.env))

LoadedUsers(i) == normalizeUsers(normalizeUsers(i.users))

\* Behind Load there is only what Load accepted.
Accepted ==
  stage # "Load" /\ refused # "Load" =>
    /\ cfg = LoadedCfg(input) /\ users = LoadedUsers(input)
    /\ ~EnvErrors(input.env) /\ Validate(cfg) /\ ValidateUsers(users)

Refusals == (stage # "failed" => refused = "none") /\ (stage = "failed" => refused # "none")

TLSLoaded == stage \in {"GetSettings", "serving", "session"} /\ TLSEnabled(cfg) => tls

\* A session sees the bucket below the prefix of its account, or of the server.
RootPrefixes == {cfg["root_prefix"]} \cup {users[i].root_prefix : i \in DOMAIN users}

Viewed == stage = "session" => view.rootPrefix \in RootPrefixes

ConfigInv ==
  /\ input \in Inputs /\ Refusals /\ Accepted /\ TLSLoaded /\ Viewed
  /\ ValidStarts /\ NoEmptyPassword

\* The part size of a loaded configuration is a number.
LEMMA PartNumber ==
  ASSUME NEW in \in Inputs
  PROVE  LoadedCfg(in)["part"] \in Int
<1> DEFINE u == Unmarshal(Default, in.file)
           c == normalize(u)
           a == applyEnv(c, in.env)
           k == "part"
<1>1. k \in Settings /\ Default[k] = 8
  BY Zenon DEF Settings, Default
<1>2. k \in IntSettings /\ k \notin NoEnv
  BY Zenon DEF IntSettings, NoEnv
<1>3. /\ k \in DOMAIN in.file => in.file[k] \in Int
      /\ k \in DOMAIN in.env => in.env[k] \subseteq Int
  BY ConfigAssumption, Zenon
<1>4. 8 \in Int
  OBVIOUS
<1>5. u[k] \in Int
  <2>1. u[k] = IF k \in DOMAIN in.file THEN in.file[k] ELSE Default[k]
    BY <1>1, Zenon DEF Unmarshal, Settings
  <2> QED
    BY <1>1, <1>3, <1>4, <2>1, Zenon
<1>6. IsConfig(u)
  BY Zenon DEF Unmarshal, IsConfig, Settings
<1>7. IsConfig(c) /\ c[k] \in Int
  <2>1. IsConfig(c) /\ c[k] = IF u[k] = 0 THEN 8 ELSE u[k]
    BY <1>6, NormalizeAt, NormalizeElse, Zenon
  <2> QED
    BY <1>4, <1>5, <2>1, Zenon
<1> HIDE DEF u, c
<1>8. DOMAIN c = Settings
  BY <1>7, Zenon DEF IsConfig
<1> DEFINE e(j) == IF j \notin DOMAIN in.env \ NoEnv THEN c[j]
                   ELSE IF j \notin IntSettings \cup BoolSettings THEN in.env[j]
                   ELSE IF in.env[j] = {} THEN c[j] ELSE CHOOSE v \in in.env[j] : TRUE
<1>9. a = [j \in DOMAIN c |-> e(j)]
  BY Zenon DEF applyEnv
<1>10. e(k) = c[k] \/ (k \in DOMAIN in.env /\ in.env[k] # {} /\ e(k) = CHOOSE v \in in.env[k] : TRUE)
  BY <1>2, Zenon
<1>11. k \in DOMAIN in.env /\ in.env[k] # {} => (CHOOSE v \in in.env[k] : TRUE) \in in.env[k]
  BY Zenon
<1>12. e(k) \in Int
  BY <1>3, <1>7, <1>10, <1>11, Zenon
<1> HIDE DEF e, a
<1>13. IsConfig(a) /\ a[k] = e(k)
  BY <1>1, <1>8, <1>9, Zenon DEF IsConfig
<1>14. normalize(a)[k] = IF a[k] = 0 THEN 8 ELSE a[k]
  BY <1>13, NormalizeAt, Zenon
<1>15. normalize(a)[k] \in Int
  BY <1>4, <1>12, <1>13, <1>14, Zenon
<1> QED
  BY <1>15, Zenon DEF LoadedCfg, a, c, u

\* A part size of 5 MiB or more is too small in bytes only if it wraps around.
LEMMA WrapsAround ==
  ASSUME NEW n \in Int, n >= 5, PartSizeMiB(n) \in 1 .. 4
  PROVE  n > Range64
<1>1. Range64 \in Nat \ {0}
  BY ConfigAssumption
<1> DEFINE m == n % Range64
<1>2. m \in 0 .. (Range64 - 1) /\ (n < Range64 => m = n)
  BY <1>1
<1> HIDE DEF m
<1>3. m \in 1 .. 4
  BY <1>1, <1>2 DEF PartSizeMiB, m
<1>4. n # Range64
  BY <1>1, <1>3 DEF m
<1> QED
  BY <1>1, <1>2, <1>3, <1>4

\* Before Load nothing is known.
LEMMA InitConfig ==
  ASSUME Init
  PROVE  ConfigInv
<1>1. input \in Inputs /\ stage = "Load" /\ refused = "none"
  BY Zenon DEF Init
<1>2. Refusals /\ Accepted /\ TLSLoaded /\ Viewed /\ ValidStarts
  BY <1>1 DEF Refusals, Accepted, TLSLoaded, Viewed, ValidStarts
<1>3. NoEmptyPassword
  BY <1>1, Zenon DEF NoEmptyPassword
<1> QED
  BY <1>1, <1>2, <1>3 DEF ConfigInv

\* Every call of the start-up refuses, or leads to the next one.
LEMMA StartStep ==
  ASSUME ConfigInv, UNCHANGED <<input, sessionVars>>, UNCHANGED <<cfg, users>>,
         stage \notin {"Load", "failed", "session"}, stage' # "session",
         \/ stage' = "failed" /\ refused' \in {"session token", "key pair", "min_version"}
         \/ stage' = "failed" /\ refused' = "part size" /\ cfg.part > Range64
         \/ stage' \notin {"Load", "failed"} /\ refused' = refused,
         TLSLoaded'
  PROVE  ConfigInv'
<1>1. input' \in Inputs /\ Refusals' /\ Viewed' /\ ValidStarts'
  BY DEF ConfigInv, Refusals, Viewed, ValidStarts
<1>2. Accepted'
  BY DEF ConfigInv, Accepted, Refusals
<1>3. NoEmptyPassword'
  BY Zenon DEF NoEmptyPassword
<1> QED
  BY <1>1, <1>2, <1>3 DEF ConfigInv

\* Load establishes Accepted, or refuses.
LEMMA LoadStep ==
  ASSUME ConfigInv, Load
  PROVE  ConfigInv'
<1>1. /\ stage = "Load" /\ UNCHANGED input
      /\ \/ /\ ~EnvErrors(input.env) /\ Validate(cfg') /\ ValidateUsers(users')
            /\ cfg' = LoadedCfg(input) /\ users' = LoadedUsers(input)
            /\ stage' = "NewClient" /\ UNCHANGED refused
         \/ stage' = "failed" /\ refused' = "Load"
  BY Zenon DEF Load, LoadedCfg, LoadedUsers, Goto, Refuse
<1>2. input' \in Inputs /\ Refusals' /\ TLSLoaded' /\ Viewed' /\ ValidStarts'
  BY <1>1 DEF ConfigInv, Refusals, TLSLoaded, Viewed, ValidStarts
<1>3. Accepted'
  <2>1. CASE stage' = "failed" /\ refused' = "Load"
    BY <2>1 DEF Accepted
  <2>2. CASE /\ ~EnvErrors(input.env) /\ Validate(cfg') /\ ValidateUsers(users')
             /\ cfg' = LoadedCfg(input) /\ users' = LoadedUsers(input)
    <3>1. LoadedCfg(input)' = LoadedCfg(input) /\ LoadedUsers(input)' = LoadedUsers(input)
      BY <1>1, Zenon
    <3>2. (~EnvErrors(input.env))' /\ Validate(cfg)' /\ ValidateUsers(users)'
      BY <1>1, <2>2, Zenon
    <3> QED
      BY <2>2, <3>1, <3>2, Zenon DEF Accepted
  <2> QED
    BY <1>1, <2>1, <2>2
<1>4. NoEmptyPassword'
  BY <1>1, Zenon DEF NoEmptyPassword
<1> QED
  BY <1>2, <1>3, <1>4 DEF ConfigInv

\* The part size that was validated is not refused again, unless it wraps.
LEMMA NewClientStep ==
  ASSUME ConfigInv, NewClient
  PROVE  ConfigInv'
<1>1. /\ stage = "NewClient" /\ UNCHANGED <<input, sessionVars>> /\ UNCHANGED <<cfg, users>>
      /\ \/ stage' = "failed" /\ refused' = "session token"
         \/ stage' = "failed" /\ refused' = "part size" /\ PartSizeMiB(cfg.part) \in 1 .. 4
         \/ stage' = "New" /\ refused' = refused
  BY Zenon DEF NewClient, Goto, Refuse
<1>2. refused = "none" /\ Validate(cfg)
  BY <1>1 DEF ConfigInv, Refusals, Accepted
<1>3. PartSizeMiB(cfg.part) \in 1 .. 4 => cfg.part > Range64
  <2>1. cfg.part \in Int
    BY <1>1, PartNumber DEF ConfigInv, Refusals, Accepted
  <2>2. cfg.part >= 5
    BY <1>2, Valid
  <2> QED
    BY <2>1, <2>2, WrapsAround
<1>4. TLSLoaded'
  BY <1>1 DEF TLSLoaded
<1> QED
  BY <1>1, <1>3, <1>4, StartStep

\* The driver loads its certificate if TLS is enabled.
LEMMA NewStep ==
  ASSUME ConfigInv, New
  PROVE  ConfigInv'
<1>1. /\ stage = "New" /\ UNCHANGED <<input, sessionVars>> /\ UNCHANGED <<cfg, users>>
      /\ \/ stage' = "failed" /\ refused' \in {"key pair", "min_version"}
         \/ stage' = "GetSettings" /\ refused' = refused /\ (tls' \/ ~TLSEnabled(cfg))
  BY Zenon DEF New, Goto, Refuse
<1>2. TLSLoaded'
  <2>1. TLSEnabled(cfg)' => TLSEnabled(cfg)
    BY <1>1, Zenon
  <2> QED
    BY <1>1, <2>1 DEF TLSLoaded
<1> QED
  BY <1>1, <1>2, StartStep

\* Nor is the port range.
LEMMA GetSettingsStep ==
  ASSUME ConfigInv, GetSettings
  PROVE  ConfigInv'
<1>1. /\ stage = "GetSettings" /\ UNCHANGED <<input, sessionVars>> /\ UNCHANGED <<cfg, users, tls>>
      /\ \/ stage' = "failed" /\ PortRangeError(cfg)
         \/ stage' = "serving" /\ refused' = refused
  BY Zenon DEF GetSettings, Goto, Refuse
<1>2. refused = "none" /\ Validate(cfg)
  BY <1>1 DEF ConfigInv, Refusals, Accepted
<1>3. ~PortRangeError(cfg)
  BY <1>2, Valid
<1>4. TLSLoaded'
  <2>1. TLSEnabled(cfg)' => TLSEnabled(cfg)
    BY <1>1, Zenon
  <2> QED
    BY <1>1, <1>3, <2>1 DEF ConfigInv, TLSLoaded
<1> QED
  BY <1>1, <1>3, <1>4, StartStep

\* An account has a password or a hash, so it takes one to log in.
LEMMA AuthUserStep ==
  ASSUME ConfigInv, NEW name, NEW password, AuthUser(name, password)
  PROVE  ConfigInv'
<1>1. /\ stage = "serving" /\ stage' = "session" /\ secret' = password
      /\ UNCHANGED <<input, cfg, users, tls, refused>>
  BY Zenon DEF AuthUser, Goto
<1>2. PICK i \in DOMAIN users :
        CheckPassword(users[i], password) /\ view' = ViewOf(users[i]) /\ who' = i
  BY Zenon DEF AuthUser, LookupUser
<1>3. refused = "none" /\ Accepted /\ ValidateUsers(users)
  BY <1>1 DEF ConfigInv, Refusals, Accepted
<1>4. NoEmptyPassword'
  <2>1. users[i].password # "" \/ users[i].hash # <<>>
    BY <1>3, Zenon DEF ValidateUsers
  <2>2. password = "" => users[i].hash # <<>> /\ "" \in users[i].hash[1]
    BY <1>2, <2>1, Zenon DEF CheckPassword
  <2> QED
    BY <1>1, <1>2, <2>2, Zenon DEF NoEmptyPassword
<1>5. Viewed'
  <2>1. view'.rootPrefix \in {cfg["root_prefix"], users[i].root_prefix}
    BY <1>2, Zenon DEF ViewOf
  <2>2. view'.rootPrefix \in RootPrefixes
    BY <2>1 DEF RootPrefixes
  <2> QED
    BY <1>1, <2>2 DEF Viewed, RootPrefixes
<1>6. Accepted'
  BY <1>1, <1>3 DEF Accepted
<1>7. input' \in Inputs /\ Refusals' /\ ValidStarts'
  BY <1>1 DEF ConfigInv, Refusals, ValidStarts
<1>8. TLSLoaded'
  <2>1. TLSEnabled(cfg)' => TLSEnabled(cfg)
    BY <1>1, Zenon
  <2> QED
    BY <1>1, <2>1 DEF ConfigInv, TLSLoaded
<1> QED
  BY <1>4, <1>5, <1>6, <1>7, <1>8 DEF ConfigInv

\* A step that leaves the configuration leaves what was accepted.
LEMMA SameConfig ==
  ASSUME ConfigInv, UNCHANGED <<input, stage, refused, cfg, users, tls, view, who, secret>>
  PROVE  ConfigInv'
<1>1. input' \in Inputs /\ Refusals' /\ ValidStarts' /\ Accepted' /\ Viewed'
  BY DEF ConfigInv, Refusals, ValidStarts, Accepted, Viewed, RootPrefixes
<1>2. NoEmptyPassword'
  BY Zenon DEF ConfigInv, NoEmptyPassword
<1>3. TLSLoaded'
  <2>1. TLSEnabled(cfg)' => TLSEnabled(cfg)
    BY Zenon
  <2> QED
    BY <2>1 DEF ConfigInv, TLSLoaded
<1> QED
  BY <1>1, <1>2, <1>3 DEF ConfigInv

\* ConfigInv is inductive.
LEMMA ConfigInvariant == Spec => []ConfigInv
<1>1. Init => ConfigInv
  BY InitConfig
<1>2. ASSUME ConfigInv, [Next]_vars
      PROVE  ConfigInv'
  <2>1. CASE UNCHANGED vars
    BY <1>2, <2>1, SameConfig DEF vars
  <2>2. CASE \E t \in Typed[input.client] : Command(t)
    BY <1>2, <2>2, SameConfig DEF Command
  <2>3. CASE \E name, password : AuthUser(name, password)
    BY <1>2, <2>3, AuthUserStep
  <2>4. CASE Load \/ NewClient \/ New \/ GetSettings
    BY <1>2, <2>4, LoadStep, NewClientStep, NewStep, GetSettingsStep
  <2> QED
    BY <1>2, <2>1, <2>2, <2>3, <2>4, Zenon DEF Next
<1> QED
  BY <1>1, <1>2, PTL DEF Spec

\* What Validate has accepted is not refused by NewClient or GetSettings
\* (config.go:262 against backend.go:89 and driver.go:86), for every file and
\* environment whose part size does not wrap around in bytes (main.go:108).
THEOREM ValidatedStarts == Spec => []ValidStarts
<1>1. ConfigInv => ValidStarts
  BY DEF ConfigInv
<1> QED
  BY <1>1, ConfigInvariant, PTL

\* A server that requires TLS has loaded its certificate (config.go:270, 326;
\* driver.go:52, 92).
THEOREM RequiredOffered == Spec => []TLSOffered
<1>1. ConfigInv => TLSOffered
  BY Required DEF ConfigInv, TLSOffered, TLSLoaded, Started
<1> QED
  BY <1>1, ConfigInvariant, PTL

\* Nobody logs in with an empty password, unless the hash of the account is one
\* of the empty password (config.go:307, 387).
THEOREM PasswordGiven == Spec => []NoEmptyPassword
<1>1. ConfigInv => NoEmptyPassword
  BY DEF ConfigInv
<1> QED
  BY <1>1, ConfigInvariant, PTL

(***************************************************************************)
(* Accounts                                                                *)
(***************************************************************************)

\* normalize changes the name and the prefix of each account.
LEMMA NormalizedUsers ==
  ASSUME NEW us, NEW i \in DOMAIN us,
         "username" \in DOMAIN us[i], "root_prefix" \in DOMAIN us[i]
  PROVE  /\ normalizeUsers(us)[i].username = Neat(us[i].username[1])
         /\ normalizeUsers(us)[i].root_prefix = NormalizePrefix(us[i].root_prefix)
         /\ DOMAIN normalizeUsers(us) = DOMAIN us
         /\ DOMAIN (normalizeUsers(us)[i]) = DOMAIN us[i]
<1>1. normalizeUsers(us)[i] = [us[i] EXCEPT !.username = Neat(@[1]), !.root_prefix = NormalizePrefix(@)]
  BY Zenon DEF normalizeUsers
<1> QED
  BY <1>1, Zenon DEF normalizeUsers

\* The accounts of a server that got past Load.
LEMMA LoadedAccounts ==
  ASSUME NEW in \in Inputs
  PROVE  /\ in.users \in Seq(User)
         /\ DOMAIN LoadedUsers(in) = 1 .. Len(in.users)
         /\ \A i \in 1 .. Len(in.users) :
              /\ LoadedUsers(in)[i].username = Neat(in.users[i].username[1])
              /\ LoadedUsers(in)[i].root_prefix = NormalizePrefix(NormalizePrefix(in.users[i].root_prefix))
<1> DEFINE us == in.users
           once == normalizeUsers(us)
<1>1. us \in Seq(User) /\ DOMAIN us = 1 .. Len(us)
  BY ConfigAssumption
<1> HIDE DEF us
<1>2. DOMAIN once = 1 .. Len(us) /\ DOMAIN normalizeUsers(once) = 1 .. Len(us)
  BY <1>1, Zenon DEF normalizeUsers
<1>3. ASSUME NEW i \in 1 .. Len(us)
      PROVE  /\ normalizeUsers(once)[i].username = Neat(us[i].username[1])
             /\ normalizeUsers(once)[i].root_prefix = NormalizePrefix(NormalizePrefix(us[i].root_prefix))
  <2>1. "username" \in DOMAIN us[i] /\ "root_prefix" \in DOMAIN us[i]
    <3>1. us[i] \in User
      BY <1>1
    <3>2. PICK n, p, h, b, r, o : us[i] = [username |-> n, password |-> p, hash |-> h, bucket |-> b,
                                           root_prefix |-> r, read_only |-> o]
      BY <3>1 DEF User
    <3> QED
      BY <3>2, Zenon
  <2>2. /\ once[i].username = Neat(us[i].username[1])
        /\ once[i].root_prefix = NormalizePrefix(us[i].root_prefix)
        /\ DOMAIN once[i] = DOMAIN us[i]
    <3>1. i \in DOMAIN us
      BY <1>1
    <3> QED
      BY <2>1, <3>1, NormalizedUsers, Zenon
  <2> HIDE DEF once
  <2>3. /\ normalizeUsers(once)[i].username = Neat(once[i].username[1])
        /\ normalizeUsers(once)[i].root_prefix = NormalizePrefix(once[i].root_prefix)
    BY <1>2, <2>1, <2>2, NormalizedUsers
  <2>4. \A w : Neat(Neat(w)[1]) = Neat(w)
    BY DEF Neat
  <2> QED
    BY <2>2, <2>3, <2>4
<1> QED
  BY <1>1, <1>2, <1>3 DEF LoadedUsers, us, once

\* An account of a server that runs is found under its name, and only it
\* (config.go:176, 303, 374).
THEOREM FoundByName == Spec => []AccountsFound
<1>1. ASSUME ConfigInv
      PROVE  AccountsFound
  <2> SUFFICES ASSUME Started, NEW i \in DOMAIN users
               PROVE  LookupUser(Neat(input.users[i].username[1])) = {i}
    BY DEF AccountsFound
  <2>1. users = LoadedUsers(input) /\ ValidateUsers(users) /\ input \in Inputs
    BY <1>1 DEF ConfigInv, Started, Refusals, Accepted
  <2>2. DOMAIN users = 1 .. Len(input.users) /\ Len(input.users) \in Nat
    BY <2>1, LoadedAccounts
  <2>3. users[i].username = Neat(input.users[i].username[1])
    BY <2>1, <2>2, LoadedAccounts
  <2>4. \A m \in DOMAIN users : \A n \in 1 .. (m - 1) : users[n].username # users[m].username
    BY <2>1, Zenon DEF ValidateUsers
  <2>5. ASSUME NEW m \in DOMAIN users, users[m].username = users[i].username
        PROVE  m = i
    BY <2>2, <2>4, <2>5
  <2>6. LookupUser(users[i].username) = {i}
    BY <2>2, <2>4, <2>5 DEF LookupUser
  <2> QED
    BY <2>3, <2>6
<1> QED
  BY <1>1, ConfigInvariant, PTL

(***************************************************************************)
(* Where a setting comes from                                              *)
(***************************************************************************)

\* normalize looks at each setting for itself.
LEMMA NormalizeEach ==
  ASSUME NEW c, IsConfig(c), NEW d, IsConfig(d), NEW k \in Settings, c[k] = d[k]
  PROVE  normalize(c)[k] = normalize(d)[k]
<1>1. CASE k \notin Normalized
  BY <1>1, NormalizeElse, Zenon
<1>2. CASE k = "mode"
  BY <1>2, NormalizeAt, Zenon
<1>3. CASE k = "level"
  BY <1>3, NormalizeAt, Zenon
<1>4. CASE k = "format"
  BY <1>4, NormalizeAt, Zenon
<1>5. CASE k = "part"
  BY <1>5, NormalizeAt, Zenon
<1>6. CASE k = "concurrency"
  BY <1>6, NormalizeAt, Zenon
<1>7. CASE k = "region"
  BY <1>7, NormalizeAt, Zenon
<1>8. CASE k = "root_prefix"
  BY <1>8, NormalizeAt, Zenon
<1> QED
  BY <1>1, <1>2, <1>3, <1>4, <1>5, <1>6, <1>7, <1>8, Zenon DEF Normalized

\* To normalize twice is to normalize once, but for the prefix.
LEMMA NormalizeTwice ==
  ASSUME NEW c, IsConfig(c), NEW k \in Settings, k # "root_prefix"
  PROVE  normalize(normalize(c))[k] = normalize(c)[k]
<1>1. IsConfig(normalize(c))
  BY NormalizeElse, Zenon
<1>2. \A w : Neat(w)[1] = w
  BY DEF Neat
<1>3. CASE k \notin Normalized
  BY <1>1, <1>3, NormalizeElse, Zenon
<1>4. CASE k = "mode"
  <2> DEFINE w == IF c["mode"][1] = "" THEN "off" ELSE c["mode"][1]
  <2>1. normalize(c)["mode"] = Neat(w)
    BY NormalizeAt, Zenon
  <2>2. w # ""
    BY Zenon
  <2> HIDE DEF w
  <2>3. normalize(c)["mode"][1] # ""
    BY <1>2, <2>1, <2>2, Zenon
  <2>4. normalize(normalize(c))["mode"] = Neat(normalize(c)["mode"][1])
    BY <1>1, <2>3, NormalizeAt, Zenon
  <2>5. normalize(normalize(c))["mode"] = normalize(c)["mode"]
    BY <1>2, <2>1, <2>4, Zenon
  <2> QED
    BY <1>4, <2>5, Zenon
<1> DEFINE c1 == normalize(c)
           c2 == normalize(c1)
<1> HIDE DEF c1, c2
<1>5. CASE k = "level"
  <2>1. c1["level"] = Neat(c["level"][1]) /\ c2["level"] = Neat(c1["level"][1])
    BY <1>1, NormalizeAt, Zenon DEF c1, c2
  <2> QED
    BY <1>2, <1>5, <2>1, Zenon DEF c1, c2
<1>6. CASE k = "format"
  <2>1. c1["format"] = Neat(c["format"][1]) /\ c2["format"] = Neat(c1["format"][1])
    BY <1>1, NormalizeAt, Zenon DEF c1, c2
  <2> QED
    BY <1>2, <1>6, <2>1, Zenon DEF c1, c2
<1>7. CASE k = "part"
  <2>1. /\ c1["part"] = IF c["part"] = 0 THEN 8 ELSE c["part"]
        /\ c2["part"] = IF c1["part"] = 0 THEN 8 ELSE c1["part"]
    BY <1>1, NormalizeAt, Zenon DEF c1, c2
  <2> QED
    BY <1>7, <2>1, Zenon DEF c1, c2
<1>8. CASE k = "concurrency"
  <2>1. /\ c1["concurrency"] = IF c["concurrency"] = 0 THEN 4 ELSE c["concurrency"]
        /\ c2["concurrency"] = IF c1["concurrency"] = 0 THEN 4 ELSE c1["concurrency"]
    BY <1>1, NormalizeAt, Zenon DEF c1, c2
  <2> QED
    BY <1>8, <2>1, Zenon DEF c1, c2
<1>9. CASE k = "region"
  <2>1. /\ c1["region"] = IF c["region"] = "" THEN "us-east-1" ELSE c["region"]
        /\ c2["region"] = IF c1["region"] = "" THEN "us-east-1" ELSE c1["region"]
    BY <1>1, NormalizeAt, Zenon DEF c1, c2
  <2> QED
    BY <1>9, <2>1, Zenon DEF c1, c2
<1> QED
  BY <1>3, <1>4, <1>5, <1>6, <1>7, <1>8, <1>9, Zenon DEF Normalized

\* A setting is what the environment, the file or the default says of it
\* (config.go:128-153, 241).
THEOREM SettingOrigin == Spec => []EnvironmentWins
<1>1. ASSUME ConfigInv
      PROVE  EnvironmentWins
  <2> SUFFICES ASSUME Started, NEW k \in DOMAIN cfg
      PROVE LET fromEnv == k \in DOMAIN input.env \ NoEnv /\ (Parsed(k) => input.env[k] # {})
                given == IF fromEnv
                         THEN IF Parsed(k) THEN CHOOSE v \in input.env[k] : TRUE ELSE input.env[k]
                         ELSE Unmarshal(Default, input.file)[k]
            IN  \/ cfg[k] = normalize([Default EXCEPT ![k] = given])[k]
                \/ k = "root_prefix" /\ ~fromEnv
    BY Zenon DEF EnvironmentWins
  <2> DEFINE u == Unmarshal(Default, input.file)
             c == normalize(u)
             a == applyEnv(c, input.env)
             fromEnv == k \in DOMAIN input.env \ NoEnv /\ (Parsed(k) => input.env[k] # {})
             given == IF fromEnv
                      THEN IF Parsed(k) THEN CHOOSE v \in input.env[k] : TRUE ELSE input.env[k]
                      ELSE u[k]
             d == [Default EXCEPT ![k] = given]
  <2>1. cfg = normalize(a)
    <3>1. cfg = LoadedCfg(input)
      BY <1>1 DEF ConfigInv, Started, Refusals, Accepted
    <3> QED
      BY <3>1, Zenon DEF LoadedCfg
  <2>2. IsConfig(u)
    BY Zenon DEF Unmarshal, IsConfig, Settings
  <2>3. IsConfig(c)
    BY <2>2, NormalizeElse, Zenon
  <2> HIDE DEF u, c
  <2>4. DOMAIN c = Settings
    BY <2>3, Zenon DEF IsConfig
  <2> DEFINE e(j) == IF j \notin DOMAIN input.env \ NoEnv THEN c[j]
                     ELSE IF j \notin IntSettings \cup BoolSettings THEN input.env[j]
                     ELSE IF input.env[j] = {} THEN c[j] ELSE CHOOSE v \in input.env[j] : TRUE
  <2>e. a = [j \in DOMAIN c |-> e(j)] /\ e(k) = IF fromEnv THEN given ELSE c[k]
    <3>1. a = [j \in DOMAIN c |-> e(j)]
      BY Zenon DEF applyEnv
    <3>2. CASE fromEnv
      <4>1. k \in DOMAIN input.env \ NoEnv /\ (Parsed(k) => input.env[k] # {})
        BY <3>2, Zenon
      <4>2. given = IF Parsed(k) THEN CHOOSE v \in input.env[k] : TRUE ELSE input.env[k]
        BY <3>2, Zenon
      <4>3. e(k) = given
        BY <4>1, <4>2 DEF Parsed
      <4> HIDE DEF e, given
      <4> QED
        BY <3>1, <3>2, <4>3
    <3>3. CASE ~fromEnv
      <4>1. e(k) = c[k]
        BY <3>3, Zenon DEF Parsed
      <4> QED
        BY <3>1, <3>3, <4>1, Zenon
    <3> QED
      BY <3>2, <3>3, Zenon
  <2> HIDE DEF e, a
  <2>5. IsConfig(a)
    BY <2>4, <2>e, Zenon DEF IsConfig
  <2>6. IsConfig(cfg) /\ k \in Settings
    <3>1. IsConfig(cfg)
      BY <2>1, <2>5, NormalizeElse, Zenon
    <3> QED
      BY <3>1, Zenon DEF IsConfig
  <2>7. a[k] = IF fromEnv THEN given ELSE c[k]
    BY <2>4, <2>6, <2>e, Zenon
  <2> HIDE DEF given, fromEnv
  <2>8. IsConfig(d) /\ d[k] = given
    BY <2>6, Zenon DEF IsConfig, Settings
  <2> HIDE DEF d
  <2>9. CASE fromEnv
    <3>1. a[k] = d[k]
      BY <2>7, <2>8, <2>9, Zenon
    <3>2. cfg[k] = normalize(d)[k]
      BY <2>1, <2>5, <2>6, <2>8, <3>1, NormalizeEach, Zenon
    <3> QED
      BY <3>2, Zenon DEF d, given, fromEnv, u
  <2>10. CASE ~fromEnv /\ k # "root_prefix"
    <3>1. a[k] = c[k] /\ d[k] = u[k]
      BY <2>7, <2>8, <2>10, Zenon DEF given
    <3>2. cfg[k] = normalize(c)[k] /\ normalize(d)[k] = normalize(u)[k]
      BY <2>1, <2>2, <2>3, <2>5, <2>6, <2>8, <3>1, NormalizeEach, Zenon
    <3>3. normalize(c)[k] = normalize(u)[k]
      BY <2>2, <2>6, <2>10, NormalizeTwice, Zenon DEF c
    <3>4. cfg[k] = normalize(d)[k]
      BY <3>2, <3>3, Zenon
    <3> QED
      BY <3>4, Zenon DEF d, given, fromEnv, u
  <2>11. CASE ~fromEnv /\ k = "root_prefix"
    BY <2>11, Zenon DEF fromEnv
  <2> QED
    BY <2>9, <2>10, <2>11, Zenon
<1> QED
  BY <1>1, ConfigInvariant, PTL

(***************************************************************************)
(* Root prefixes                                                           *)
(***************************************************************************)

\* A set of numbers has a least one.
LEMMA LeastNumber ==
  ASSUME NEW T, T \subseteq Nat, T # {}
  PROVE  \E m \in T : \A n \in T : m =< n
<1>1. PICK m \in T : \A n \in T : ~(<<n, m>> \in OpToRel(<, Nat))
  BY WFMin, NatLessThanWellFounded
<1>2. ASSUME NEW n \in T
      PROVE  m =< n
  <2>1. m \in Nat /\ n \in Nat
    OBVIOUS
  <2>2. ~(n < m)
    BY <1>1, <2>1 DEF OpToRel
  <2> QED
    BY <2>1, <2>2
<1> QED
  BY <1>2

\* A set of indices has a least and a greatest element.
LEMMA Extremes ==
  ASSUME NEW n \in Nat, NEW T, T \subseteq 1 .. n, T # {}
  PROVE  Min(T) \in T /\ Max(T) \in T /\ Min(T) =< Max(T)
<1>1. T \subseteq Nat
  OBVIOUS
<1>2. \E x \in T : \A y \in T : x =< y
  BY <1>1, LeastNumber
<1>3. \E x \in T : \A y \in T : x >= y
  <2> DEFINE U == {i \in Nat : n - i \in T}
  <2>1. U # {}
    <3>1. PICK i \in T : TRUE
      OBVIOUS
    <3>2. n - i \in Nat /\ n - (n - i) = i
      OBVIOUS
    <3> QED
      BY <3>2
  <2>2. PICK m \in U : \A u \in U : m =< u
    BY <2>1, LeastNumber
  <2>3. ASSUME NEW y \in T
        PROVE  n - m >= y
    <3>1. y \in Nat /\ n - y \in Nat /\ n - (n - y) = y
      OBVIOUS
    <3>2. m =< n - y /\ m \in Nat
      BY <2>2, <3>1
    <3> QED
      BY <3>1, <3>2
  <2> QED
    BY <2>2, <2>3
<1>4. Min(T) \in T /\ \A y \in T : Min(T) =< y
  BY <1>2 DEF Min
<1>5. Max(T) \in T
  BY <1>3 DEF Max
<1> QED
  BY <1>4, <1>5

\* The provers do not know that "/" is a string.
Char == STRING \cup {"/"}

\* What Trim leaves begins and ends with a character that is kept.
LEMMA TrimFacts ==
  ASSUME NEW t \in Seq(Char), NEW cut
  PROVE  /\ Trim(t, cut) \in Seq(Char)
         /\ Trim(t, cut) # <<>> =>
              /\ Trim(t, cut)[1] \notin cut
              /\ Trim(t, cut)[Len(Trim(t, cut))] \notin cut
<1> DEFINE kept == {i \in DOMAIN t : t[i] \notin cut}
           x == Min(kept)
           y == Max(kept)
           s == Trim(t, cut)
<1>1. s = IF kept = {} THEN <<>> ELSE SubSeq(t, x, y)
  BY Zenon DEF Trim
<1>2. CASE kept = {}
  BY <1>1, <1>2
<1>3. CASE kept # {}
  <2>1. Len(t) \in Nat /\ kept \subseteq 1 .. Len(t)
    OBVIOUS
  <2>2. x \in kept /\ y \in kept /\ x =< y
    BY <1>3, <2>1, Extremes
  <2>3. t[x] \notin cut /\ t[y] \notin cut /\ x \in 1 .. Len(t) /\ y \in 1 .. Len(t)
    BY <2>2
  <2> HIDE DEF x, y
  <2>4. /\ SubSeq(t, x, y) \in Seq(Char) /\ Len(SubSeq(t, x, y)) = y - x + 1
        /\ SubSeq(t, x, y)[1] = t[x] /\ SubSeq(t, x, y)[y - x + 1] = t[y]
    BY <2>2, <2>3
  <2> HIDE DEF s, kept
  <2> QED
    BY <1>1, <1>3, <2>3, <2>4 DEF s
<1> QED
  BY <1>2, <1>3

Shape(p) == p = <<>> \/ (Len(p) > 1 /\ Head(p) # "/" /\ Last(p) = "/" /\ p[Len(p) - 1] # "/")

\* NormalizePrefix gives a text of the shape it promises.
LEMMA PrefixFacts ==
  ASSUME NEW t \in Seq(Char)
  PROVE  NormalizePrefix(t) \in Seq(Char) /\ Shape(NormalizePrefix(t))
<1> DEFINE p == Trim(TrimSpace(t), {"/"})
<1>1. TrimSpace(t) \in Seq(Char)
  BY TrimFacts DEF TrimSpace
<1>2. p \in Seq(Char) /\ (p # <<>> => p[1] \notin {"/"} /\ p[Len(p)] \notin {"/"})
  BY <1>1, TrimFacts
<1>3. NormalizePrefix(t) = IF p = <<>> THEN <<>> ELSE Append(p, "/")
  BY DEF NormalizePrefix
<1> HIDE DEF p
<1>4. CASE p = <<>>
  BY <1>3, <1>4 DEF Shape
<1>5. CASE p # <<>>
  <2> DEFINE q == Append(p, "/")
  <2>1. /\ q \in Seq(Char) /\ Len(q) = Len(p) + 1 /\ Len(p) \in Nat \ {0}
        /\ q[1] = p[1] /\ q[Len(p)] = p[Len(p)] /\ q[Len(p) + 1] = "/"
    <3>1. p \in Seq(Char) /\ Len(p) \in Nat \ {0} /\ "/" \in Char
      <4>1. p \in Seq(Char) /\ Len(p) \in Nat
        BY <1>2
      <4>2. Len(p) # 0
        BY <1>2, <1>5
      <4>3. "/" \in Char
        BY DEF Char
      <4> QED
        BY <4>1, <4>2, <4>3, Zenon
    <3>2. q \in Seq(Char) /\ Len(q) = Len(p) + 1
      BY <3>1
    <3>3. q[1] = p[1] /\ q[Len(p)] = p[Len(p)] /\ q[Len(p) + 1] = "/"
      BY <3>1
    <3> QED
      BY <3>1, <3>2, <3>3
  <2> HIDE DEF q
  <2>2. Len(q) > 1 /\ Len(q) - 1 = Len(p) /\ Head(q) = q[1] /\ Last(q) = q[Len(q)]
    BY <2>1 DEF Last
  <2>3. Shape(q)
    BY <1>2, <1>5, <2>1, <2>2 DEF Shape
  <2> QED
    BY <1>3, <1>5, <2>1, <2>3 DEF q
<1> QED
  BY <1>4, <1>5

\* Both the server's prefix and those of the accounts are normalized texts.
LEMMA CfgPrefix ==
  ASSUME NEW in \in Inputs
  PROVE  Shape(LoadedCfg(in)["root_prefix"])
<1> DEFINE u == Unmarshal(Default, in.file)
           c == normalize(u)
           a == applyEnv(c, in.env)
           k == "root_prefix"
<1>1. k \in Settings /\ Default[k] = <<>>
  BY Zenon DEF Settings, Default
<1>2. k \notin IntSettings \cup BoolSettings /\ k \notin NoEnv
  BY Zenon DEF IntSettings, BoolSettings, NoEnv
<1>3. \A x : x \in Seq(STRING) => x \in Seq(Char)
  BY DEF Char
<1>4. \A given \in {in.file, in.env} : k \in DOMAIN given => given[k] \in Seq(Char)
  BY <1>3, ConfigAssumption, Zenon
<1>5. u[k] \in Seq(Char)
  <2>1. u[k] = IF k \in DOMAIN in.file THEN in.file[k] ELSE Default[k]
    BY <1>1, Zenon DEF Unmarshal, Settings
  <2>2. <<>> \in Seq(Char)
    OBVIOUS
  <2> QED
    BY <1>1, <1>4, <2>1, <2>2, Zenon
<1>6. IsConfig(u)
  BY Zenon DEF Unmarshal, IsConfig, Settings
<1>7. IsConfig(c) /\ c[k] = NormalizePrefix(u[k])
  BY <1>6, NormalizeAt, NormalizeElse, Zenon
<1> HIDE DEF u, c
<1>8. c[k] \in Seq(Char)
  BY <1>5, <1>7, PrefixFacts, Zenon
<1>9. DOMAIN c = Settings
  BY <1>7, Zenon DEF IsConfig
<1> DEFINE e(j) == IF j \notin DOMAIN in.env \ NoEnv THEN c[j]
                   ELSE IF j \notin IntSettings \cup BoolSettings THEN in.env[j]
                   ELSE IF in.env[j] = {} THEN c[j] ELSE CHOOSE v \in in.env[j] : TRUE
<1>10. a = [j \in DOMAIN c |-> e(j)]
  BY Zenon DEF applyEnv
<1>11. e(k) = IF k \in DOMAIN in.env THEN in.env[k] ELSE c[k]
  BY <1>2, Zenon
<1> HIDE DEF e, a
<1>12. IsConfig(a) /\ a[k] = e(k)
  BY <1>1, <1>9, <1>10, Zenon DEF IsConfig
<1>13. a[k] \in Seq(Char)
  BY <1>4, <1>8, <1>11, <1>12, Zenon
<1>14. normalize(a)[k] = NormalizePrefix(a[k])
  BY <1>12, NormalizeAt, Zenon
<1>15. Shape(normalize(a)[k])
  BY <1>13, <1>14, PrefixFacts, Zenon
<1> QED
  BY <1>15, Zenon DEF LoadedCfg, a, c, u

\* Every account of a server has a normalized prefix.
LEMMA UserPrefix ==
  ASSUME NEW in \in Inputs, NEW i \in DOMAIN LoadedUsers(in)
  PROVE  Shape(LoadedUsers(in)[i].root_prefix)
<1>1. in.users \in Seq(User) /\ i \in 1 .. Len(in.users)
  BY LoadedAccounts
<1>2. in.users[i].root_prefix \in Seq(Char)
  <2>1. in.users[i] \in User
    BY <1>1
  <2>2. in.users[i].root_prefix \in Seq(STRING)
    BY <2>1 DEF User
  <2> QED
    BY <2>2 DEF Char
<1>3. NormalizePrefix(in.users[i].root_prefix) \in Seq(Char)
  BY <1>2, PrefixFacts
<1>4. Shape(NormalizePrefix(NormalizePrefix(in.users[i].root_prefix)))
  BY <1>3, PrefixFacts
<1> QED
  BY <1>1, <1>4, LoadedAccounts

\* A session's prefix is empty or ends in its only trailing "/"
\* (config.go:183), whichever of the file, the environment and the account
\* gave it.
THEOREM PrefixNormal == Spec => []PrefixShape
<1>1. ASSUME ConfigInv
      PROVE  PrefixShape
  <2> SUFFICES ASSUME stage = "session"
               PROVE  Shape(view.rootPrefix)
    BY Zenon DEF PrefixShape, Shape
  <2>1. view.rootPrefix \in RootPrefixes
    BY <1>1 DEF ConfigInv, Viewed
  <2>2. input \in Inputs /\ cfg = LoadedCfg(input) /\ users = LoadedUsers(input)
    BY <1>1 DEF ConfigInv, Refusals, Accepted
  <2> QED
    BY <2>1, <2>2, CfgPrefix, UserPrefix DEF RootPrefixes
<1> QED
  BY <1>1, ConfigInvariant, PTL

=============================================================================
