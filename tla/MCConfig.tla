------------------------------ MODULE MCConfig ------------------------------
(***************************************************************************)
(* Inputs for Config: every pair of values for two settings, from the file *)
(* or the environment; lists of accounts; and prefixes and paths as text.  *)
(***************************************************************************)
EXTENDS ConfigProps, TLC

Texts(chars, n) == UNION {[1 .. m -> chars] : m \in 0 .. n}

Account(name, password, hash, prefix) ==
  [username |-> name, password |-> password, hash |-> hash, bucket |-> "",
   root_prefix |-> prefix, read_only |-> FALSE]

Admin == <<Account(Neat("admin"), "p", <<>>, <<>>)>>

Odd(w) == <<w, FALSE>>

FileValues ==
  [mode |-> {Odd(""), Odd("OFF"), Neat("required"), Odd("implicit"), Neat("explicit"), Neat("maybe")},
   cert |-> {"crt"}, key_file |-> {"pem"}, min_version |-> {"1.3", "9"},
   listen_ip |-> {"", "host:port"}, port |-> {-1, 0, 65535, 65536},
   passive |-> {<<{}>>, <<{5}>>, <<{5}, {}>>, <<{0}, {5}>>, <<{5}, {5}>>, <<{6}, {5}>>, <<{5}, {65536}>>},
   max_clients |-> {2}, region |-> {""},
   access |-> {"ak"}, secret |-> {"sk"}, token |-> {"st"}, bucket |-> {""},
   part |-> {-1, 0, 4, 5, 40, 65, 69}, concurrency |-> {0, -1, 1},
   create |-> {TRUE}, marker |-> {FALSE},
   level |-> {Neat(""), Odd("WARN"), Neat("loud")}, format |-> {Odd("JSON"), Neat("xml")}]

EnvValues ==
  [k \in DOMAIN FileValues |->
     IF k \in IntSettings \cup BoolSettings THEN {{v} : v \in FileValues[k]} \cup {{}}
     ELSE FileValues[k]]

\* What sets one setting, or two.
Singles(values) == UNION {{k :> v : v \in values[k]} : k \in DOMAIN values}
Pairs(values) == {f @@ g : f, g \in Singles(values)}

Base == [bucket |-> "b"]

Input(file, env, us, client) == [file |-> file @@ Base, env |-> env, users |-> us, client |-> client]

SettingInputs ==
  {Input(f, e, Admin, "silent") : f \in Singles(FileValues), e \in Singles(EnvValues)} \cup
  {Input(f, <<>>, Admin, "silent") : f \in Pairs(FileValues)} \cup
  {Input(<<>>, e, Admin, "silent") : e \in Pairs(EnvValues)} \cup
  {Input(m @@ [cert |-> "crt", key_file |-> "pem"], e, Admin, "silent") :
     m \in {"mode" :> v : v \in FileValues.mode}, e \in Singles(EnvValues)}

Accounts ==
  {Account(name, password, hash, <<>>) :
     name \in {Neat("a"), Odd("a"), Neat("b"), Odd("")}, password \in {"", "p"},
     hash \in {<<>>, <<{"q"}>>, <<{""}>>, <<{}>>}}

AccountInputs ==
  {Input(<<>>, <<>>, us, "silent") : us \in UNION {[1 .. n -> Accounts] : n \in 0 .. 2}}

\* Prefixes of the file, of the environment and of the account, and the paths
\* typed below them.
PrefixTexts == Texts({"a", "/", " "}, 3)
PathTexts == Texts({"a", "/", ".", " "}, 5) \cup
             {<<"/", ".", ".", "/", "a">>, <<"a", "/", ".", ".", "/", ".", ".", "/", "a">>,
              <<"a", "/", "a", "/", ".", ".">>, <<"/", "a", "a", "/", "a", ".">>}

PrefixInputs ==
  {Input([root_prefix |-> p], <<>>, Admin, "busy") : p \in {<<>>, <<"a">>, <<"a", "/", "a">>}} \cup
  {Input([root_prefix |-> p], <<>>, Admin, "brief") : p \in PrefixTexts} \cup
  {Input(<<>>, [root_prefix |-> p], Admin, "brief") : p \in PrefixTexts} \cup
  {Input([root_prefix |-> <<"g">>], <<>>, <<Account(Neat("admin"), "p", <<>>, p)>>, "brief") :
     p \in PrefixTexts}

MCTyped == [silent |-> {}, brief |-> {<<"a">>, <<"/">>}, busy |-> PathTexts]

MCInputs == SettingInputs \cup AccountInputs \cup PrefixInputs

=============================================================================
