--------------------------- MODULE ManifestsProofs --------------------------
(***************************************************************************)
(* Theorems about the environments that the operator builds, for options   *)
(* and providers of any number.                                            *)
(***************************************************************************)
EXTENDS Manifests, SequenceTheorems, FiniteSetTheorems, TLAPS

EnvVar(names) == [name: names, from: From]

(***************************************************************************)
(* The defaults name no variable twice: groups without a common name are   *)
(* joined.                                                                 *)
(***************************************************************************)
Within(variables, names) ==
    variables \in Seq(EnvVar(names)) /\ Unique(variables)

\* A sequence over a set is one over a larger set.
LEMMA Widen ==
    ASSUME NEW A, NEW B, A \subseteq B, NEW s \in Seq(A)
    PROVE  s \in Seq(B)
<1>1. \A k \in 1..Len(s) : s[k] \in B
  OBVIOUS
<1>2. s = [k \in 1..Len(s) |-> s[k]] /\ Len(s) \in Nat
  OBVIOUS
<1>3. [k \in 1..Len(s) |-> s[k]] \in Seq(B)
  BY <1>1, <1>2
<1> QED  BY <1>2, <1>3

\* Groups without a name in common may be joined.
LEMMA Join ==
    ASSUME NEW a, NEW b, NEW S, NEW T, Within(a, S), Within(b, T),
           S \cap T = {}
    PROVE  Within(a \o b, S \cup T)
<1>1. a \in Seq(EnvVar(S)) /\ b \in Seq(EnvVar(T))
  BY DEF Within
<1>2. EnvVar(S) \subseteq EnvVar(S \cup T) /\ EnvVar(T) \subseteq EnvVar(S \cup T)
  BY DEF EnvVar
<1>3. a \in Seq(EnvVar(S \cup T)) /\ b \in Seq(EnvVar(S \cup T))
  BY <1>1, <1>2, Widen
<1>4. /\ a \o b \in Seq(EnvVar(S \cup T))
      /\ DOMAIN (a \o b) = 1 .. Len(a) + Len(b)
      /\ DOMAIN a = 1 .. Len(a) /\ DOMAIN b = 1 .. Len(b)
      /\ Len(a) \in Nat /\ Len(b) \in Nat
  BY <1>3
<1>5. \A k \in DOMAIN (a \o b) :
         \/ k \in DOMAIN a /\ (a \o b)[k] = a[k]
         \/ k - Len(a) \in DOMAIN b /\ (a \o b)[k] = b[k - Len(a)]
  BY <1>3, <1>4
<1>6. \A k \in DOMAIN a, l \in DOMAIN b : a[k].name # b[l].name
  <2>1. \A k \in DOMAIN a : a[k].name \in S
    <3>1. \A k \in DOMAIN a : a[k] \in EnvVar(S)
      BY <1>1
    <3> QED  BY <3>1 DEF EnvVar
  <2>2. \A k \in DOMAIN b : b[k].name \in T
    <3>1. \A k \in DOMAIN b : b[k] \in EnvVar(T)
      BY <1>1
    <3> QED  BY <3>1 DEF EnvVar
  <2> QED  BY <2>1, <2>2
<1>7. ASSUME NEW k \in DOMAIN (a \o b), NEW l \in DOMAIN (a \o b),
             (a \o b)[k].name = (a \o b)[l].name
      PROVE  k = l
  BY <1>4, <1>5, <1>6, <1>7 DEF Unique, Within
<1> QED  BY <1>4, <1>7 DEF Unique, Within

\* A group of literals.
LEMMA FixedWithin ==
    ASSUME NEW S, NEW names \in Seq(S),
           \A k, l \in DOMAIN names : names[k] = names[l] => k = l
    PROVE  Within(Fixed(names), S)
<1>1. \A k \in DOMAIN names :
         [name |-> names[k], from |-> Value("fixed")] \in EnvVar(S)
  BY DEF EnvVar, From, Value
<1>2. Fixed(names) \in Seq(EnvVar(S)) /\ DOMAIN Fixed(names) = DOMAIN names
      /\ \A k \in DOMAIN names : Fixed(names)[k].name = names[k]
  BY <1>1 DEF Fixed
<1> QED  BY <1>2 DEF Within, Unique

\* A variable from a SecretOption.
LEMMA GetType ==
    ASSUME NEW S, NEW name \in S, NEW selector \in SecretOption
    PROVE  /\ getENV(name, selector) \in EnvVar(S)
           /\ getENV(name, selector).name = name
BY DEF getENV, SecretOption, EnvVar, From, Value, Secret

Server1 == {"KC_HOSTNAME", "KC_HTTPS_PORT", "KC_HTTP_MANAGEMENT_PORT",
            "KC_HEALTH_ENABLED", "KC_CACHE", "KC_CACHE_STACK"}
Server2 == {"KC_BOOTSTRAP_ADMIN_USERNAME", "KC_BOOTSTRAP_ADMIN_PASSWORD"}
Server3 == {"KC_TRUSTSTORE_PATHS", "KC_TRACING_SERVICE_NAME",
            "KC_TRACING_RESOURCE_ATTRIBUTES", "KC_METRICS_ENABLED",
            "KC_HTTPS_CERTIFICATE_FILE", "KC_HTTPS_CERTIFICATE_KEY_FILE"}
ServerNames == (Server1 \cup Server2) \cup Server3

\* What Build passes to DecorateENV.
LEMMA ServerWithin ==
    ASSUME NEW s \in KeycloakSpec
    PROVE  Within(ServerEnv(s), ServerNames)
<1> DEFINE N1 == <<"KC_HOSTNAME", "KC_HTTPS_PORT", "KC_HTTP_MANAGEMENT_PORT",
                   "KC_HEALTH_ENABLED", "KC_CACHE", "KC_CACHE_STACK">>
           N3 == <<"KC_TRUSTSTORE_PATHS", "KC_TRACING_SERVICE_NAME",
                   "KC_TRACING_RESOURCE_ATTRIBUTES", "KC_METRICS_ENABLED",
                   "KC_HTTPS_CERTIFICATE_FILE",
                   "KC_HTTPS_CERTIFICATE_KEY_FILE">>
           E2 == <<getENV("KC_BOOTSTRAP_ADMIN_USERNAME", s.login),
                   getENV("KC_BOOTSTRAP_ADMIN_PASSWORD", s.login)>>
<1>1. Within(Fixed(N1), Server1)
  <2>1. N1 \in Seq(Server1)
    BY DEF Server1
  <2>2. DOMAIN N1 = 1..6
    OBVIOUS
  <2>3. \A k, l \in 1..6 : N1[k] = N1[l] => k = l
    OBVIOUS
  <2> HIDE DEF N1
  <2> QED  BY <2>1, <2>2, <2>3, FixedWithin
<1>2. Within(E2, Server2)
  <2>1. s.login \in SecretOption
    BY DEF KeycloakSpec
  <2>2. \A name \in Server2 : /\ getENV(name, s.login) \in EnvVar(Server2)
                              /\ getENV(name, s.login).name = name
    BY <2>1, GetType
  <2>3. /\ getENV("KC_BOOTSTRAP_ADMIN_USERNAME", s.login) \in EnvVar(Server2)
        /\ getENV("KC_BOOTSTRAP_ADMIN_PASSWORD", s.login) \in EnvVar(Server2)
        /\ getENV("KC_BOOTSTRAP_ADMIN_USERNAME", s.login).name
              = "KC_BOOTSTRAP_ADMIN_USERNAME"
        /\ getENV("KC_BOOTSTRAP_ADMIN_PASSWORD", s.login).name
              = "KC_BOOTSTRAP_ADMIN_PASSWORD"
    BY <2>2 DEF Server2
  <2> QED  BY <2>3 DEF Within, Unique
<1>3. Within(Fixed(N3), Server3)
  <2>1. N3 \in Seq(Server3)
    BY DEF Server3
  <2>2. DOMAIN N3 = 1..6
    OBVIOUS
  <2>3. \A k, l \in 1..6 : N3[k] = N3[l] => k = l
    OBVIOUS
  <2> HIDE DEF N3
  <2> QED  BY <2>1, <2>2, <2>3, FixedWithin
<1>4. Server1 \cap Server2 = {} /\ (Server1 \cup Server2) \cap Server3 = {}
  BY DEF Server1, Server2, Server3
<1>5. ServerEnv(s) = (Fixed(N1) \o E2) \o Fixed(N3)
  BY DEF ServerEnv
<1> HIDE DEF N1, N3, E2
<1>6. Within(Fixed(N1) \o E2, Server1 \cup Server2)
  BY <1>1, <1>2, <1>4, Join
<1>7. Within((Fixed(N1) \o E2) \o Fixed(N3), ServerNames)
  BY <1>3, <1>4, <1>6, Join DEF ServerNames
<1> QED  BY <1>5, <1>7

DB1 == {"KC_DB"}
DB2 == {"KC_DB_USERNAME", "KC_DB_PASSWORD", "KC_DB_URL_HOST", "KC_DB_URL_PORT"}
DB3 == {"KC_DB_POOL_INITIAL_SIZE", "KC_DB_POOL_MIN_SIZE", "KC_DB_POOL_MAX_SIZE"}
DatabaseNames == (DB1 \cup DB2) \cup DB3

\* The options of the database.
LEMMA DatabaseWithin ==
    ASSUME NEW s \in KeycloakSpec
    PROVE  Within(DatabaseEnv(s), DatabaseNames)
<1> DEFINE N1 == <<"KC_DB">>
           N3 == <<"KC_DB_POOL_INITIAL_SIZE", "KC_DB_POOL_MIN_SIZE",
                   "KC_DB_POOL_MAX_SIZE">>
           E2 == <<getENV("KC_DB_USERNAME", s.login),
                   getENV("KC_DB_PASSWORD", s.login),
                   getENV("KC_DB_URL_HOST", s.login),
                   getENV("KC_DB_URL_PORT", s.login)>>
<1>1. Within(Fixed(N1), DB1)
  <2>1. N1 \in Seq(DB1)
    BY DEF DB1
  <2>2. DOMAIN N1 = 1..1
    OBVIOUS
  <2> HIDE DEF N1
  <2> QED  BY <2>1, <2>2, FixedWithin
<1>2. Within(E2, DB2)
  <2>1. s.login \in SecretOption
    BY DEF KeycloakSpec
  <2>2. \A name \in DB2 : /\ getENV(name, s.login) \in EnvVar(DB2)
                          /\ getENV(name, s.login).name = name
    BY <2>1, GetType
  <2>3. /\ getENV("KC_DB_USERNAME", s.login) \in EnvVar(DB2)
        /\ getENV("KC_DB_PASSWORD", s.login) \in EnvVar(DB2)
        /\ getENV("KC_DB_URL_HOST", s.login) \in EnvVar(DB2)
        /\ getENV("KC_DB_URL_PORT", s.login) \in EnvVar(DB2)
        /\ getENV("KC_DB_USERNAME", s.login).name = "KC_DB_USERNAME"
        /\ getENV("KC_DB_PASSWORD", s.login).name = "KC_DB_PASSWORD"
        /\ getENV("KC_DB_URL_HOST", s.login).name = "KC_DB_URL_HOST"
        /\ getENV("KC_DB_URL_PORT", s.login).name = "KC_DB_URL_PORT"
    BY <2>2 DEF DB2
  <2> QED  BY <2>3 DEF Within, Unique
<1>3. Within(Fixed(N3), DB3)
  <2>1. N3 \in Seq(DB3)
    BY DEF DB3
  <2>2. DOMAIN N3 = 1..3
    OBVIOUS
  <2>3. \A k, l \in 1..3 : N3[k] = N3[l] => k = l
    OBVIOUS
  <2> HIDE DEF N3
  <2> QED  BY <2>1, <2>2, <2>3, FixedWithin
<1>4. DB1 \cap DB2 = {} /\ (DB1 \cup DB2) \cap DB3 = {}
  BY DEF DB1, DB2, DB3
<1>5. DatabaseEnv(s) = IF ~s.database THEN <<>>
                       ELSE (Fixed(N1) \o E2) \o Fixed(N3)
  BY DEF DatabaseEnv
<1> HIDE DEF N1, N3, E2
<1>6. Within(Fixed(N1) \o E2, DB1 \cup DB2)
  BY <1>1, <1>2, <1>4, Join
<1>7. Within((Fixed(N1) \o E2) \o Fixed(N3), DatabaseNames)
  BY <1>3, <1>4, <1>6, Join DEF DatabaseNames
<1>8. Within(<<>>, DatabaseNames)
  BY DEF Within, Unique
<1> QED  BY <1>5, <1>7, <1>8

NetworkNames == {"KC_HOSTNAME_STRICT", "KC_HTTP_ENABLED", "KC_PROXY_HEADERS"}

\* The options of the network.
LEMMA NetworkWithin ==
    ASSUME NEW s
    PROVE  Within(NetworkEnv(s), NetworkNames)
<1> DEFINE N2 == <<"KC_HOSTNAME_STRICT", "KC_PROXY_HEADERS">>
           N3 == <<"KC_HOSTNAME_STRICT", "KC_HTTP_ENABLED", "KC_PROXY_HEADERS">>
<1>1. N2 \in Seq(NetworkNames) /\ N3 \in Seq(NetworkNames)
  BY DEF NetworkNames
<1>2. DOMAIN N2 = 1..2 /\ DOMAIN N3 = 1..3
  OBVIOUS
<1>3. /\ \A k, l \in 1..2 : N2[k] = N2[l] => k = l
      /\ \A k, l \in 1..3 : N3[k] = N3[l] => k = l
  OBVIOUS
<1>4. NetworkEnv(s) = IF s.proxy THEN Fixed(N2) ELSE Fixed(N3)
  BY DEF NetworkEnv
<1> HIDE DEF N2, N3
<1> QED  BY <1>1, <1>2, <1>3, <1>4, FixedWithin

Names == (ServerNames \cup DatabaseNames) \cup NetworkNames

\* DecorateENV starts with distinct names, KC_CACHE among them.
LEMMA DefaultsWithin ==
    ASSUME NEW s \in KeycloakSpec
    PROVE  /\ Within(Defaults(s), Names)
           /\ \E k \in DOMAIN Defaults(s) : Defaults(s)[k].name = "KC_CACHE"
<1> DEFINE A == ServerEnv(s)
           B == DatabaseEnv(s)
           C == NetworkEnv(s)
<1>1. Within(A, ServerNames) /\ Within(B, DatabaseNames) /\ Within(C, NetworkNames)
  BY ServerWithin, DatabaseWithin, NetworkWithin
<1>2. /\ ServerNames \cap DatabaseNames = {}
      /\ (ServerNames \cup DatabaseNames) \cap NetworkNames = {}
  BY DEF ServerNames, Server1, Server2, Server3, DatabaseNames, DB1, DB2, DB3,
         NetworkNames
<1>3. 5 \in DOMAIN A /\ A[5].name = "KC_CACHE"
  BY DEF ServerEnv, Fixed
<1>4. Defaults(s) = (A \o B) \o C
  BY DEF Defaults
<1> HIDE DEF A, B, C
<1>5. Within(A \o B, ServerNames \cup DatabaseNames)
  BY <1>1, <1>2, Join
<1>6. Within((A \o B) \o C, Names)
  BY <1>1, <1>2, <1>5, Join DEF Names
<1>7. /\ 5 \in DOMAIN ((A \o B) \o C)
      /\ ((A \o B) \o C)[5] = A[5]
  BY <1>1, <1>3, <1>5 DEF Within
<1> QED  BY <1>3, <1>4, <1>6, <1>7

-----------------------------------------------------------------------------
(***************************************************************************)
(* AddOrReplaceEnv.                                                        *)
(***************************************************************************)

\* Names stay distinct, the variable is set and the others are kept.
LEMMA AddOrReplace ==
    ASSUME NEW S, NEW variables, Within(variables, S), NEW e \in EnvVar(S)
    PROVE  LET r == AddOrReplaceEnv(e, variables) IN
           /\ Within(r, S)
           /\ \E k \in DOMAIN r : r[k] = e
           /\ \A k \in DOMAIN variables :
                 /\ k \in DOMAIN r
                 /\ IF variables[k].name = e.name THEN r[k] = e
                    ELSE r[k] = variables[k]
<1> DEFINE r == AddOrReplaceEnv(e, variables)
           at == {k \in DOMAIN variables : variables[k].name = e.name}
<1>1. /\ variables \in Seq(EnvVar(S)) /\ Unique(variables)
      /\ DOMAIN variables = 1..Len(variables) /\ Len(variables) \in Nat
  BY DEF Within
<1>2. CASE at = {}
  <2>1. r = Append(variables, e)
    BY <1>2 DEF AddOrReplaceEnv
  <2>2. /\ r \in Seq(EnvVar(S)) /\ DOMAIN r = 1..Len(variables) + 1
        /\ \A k \in DOMAIN variables : r[k] = variables[k]
        /\ r[Len(variables) + 1] = e
    BY <1>1, <2>1
  <2>3. \A k \in DOMAIN variables : variables[k].name # e.name
    BY <1>2
  <2> HIDE DEF r
  <2>4. Unique(r)
    BY <1>1, <2>2, <2>3 DEF Unique
  <2> QED  BY <1>1, <2>2, <2>3, <2>4 DEF Within, r
<1>3. CASE at # {}
  <2>1. PICK m \in DOMAIN variables : variables[m].name = e.name
    BY <1>3
  <2>2. at = {m}
    BY <1>1, <2>1 DEF Unique
  <2>3. (CHOOSE k \in at : \A l \in at : k <= l) = m
    <3> HIDE DEF at
    <3> QED  BY <1>1, <2>1, <2>2
  <2>4. r = [variables EXCEPT ![m] = e]
    BY <1>3, <2>3 DEF AddOrReplaceEnv
  <2>5. /\ r \in Seq(EnvVar(S)) /\ DOMAIN r = DOMAIN variables
        /\ \A k \in DOMAIN variables :
              r[k] = IF k = m THEN e ELSE variables[k]
    BY <1>1, <2>1, <2>4
  <2>6. \A k \in DOMAIN variables : variables[k].name = e.name <=> k = m
    BY <1>1, <2>1 DEF Unique
  <2> HIDE DEF r, at
  <2>7. Unique(r)
    BY <1>1, <2>1, <2>5, <2>6 DEF Unique
  <2> QED  BY <1>1, <2>1, <2>5, <2>6, <2>7 DEF Within, r
<1> QED  BY <1>2, <1>3

-----------------------------------------------------------------------------
(***************************************************************************)
(* The invariants of the loops.                                            *)
(***************************************************************************)
AllNames == Names \cup STRING

\* After m options the last one of each name is in force, and every default
\* that none of them names.
Applied(m) ==
    /\ Within(env, AllNames)
    /\ \A i \in 1..m :
          (\A l \in 1..m : l > i => spec.options[l].name # spec.options[i].name)
          => \E k \in DOMAIN env : env[k] = Replacement(spec.options[i])
    /\ \A d \in DOMAIN Defaults(spec) :
          (\A i \in 1..m : spec.options[i].name # Defaults(spec)[d].name)
          => \E k \in DOMAIN env : env[k] = Defaults(spec)[d]
    /\ \E k \in DOMAIN env : env[k].name = "KC_CACHE"

\* The job has what the first m variables of the server come to, in order.
Built(m) ==
    /\ job \in Seq(EnvVar(AllNames))
    /\ \A j \in DOMAIN job : \E k \in 1..m : ForJob(env[k]) = <<job[j]>>
    /\ \A k \in 1..m : env[k].name # "KC_CACHE_STACK" =>
          \E j \in DOMAIN job : ForJob(env[k]) = <<job[j]>>
    /\ Unique(job)

BuildInv ==
    /\ spec \in KeycloakSpec /\ n \in Nat
    /\ pc \in {"providers", "options", "job", "marshal", "done", "failed"}
    /\ pc \in {"providers", "failed"} => env = <<>>
    /\ pc \in {"providers", "failed", "options"} => job = <<>>
    /\ pc = "options" => n <= Len(spec.options) /\ Applied(n)
    /\ pc = "job" => /\ n <= Len(env)
                     /\ Applied(Len(spec.options)) /\ Built(n)
    /\ pc \in {"marshal", "done"} => /\ Applied(Len(spec.options))
                                     /\ Built(Len(env))

\* The variable that an option stands for.
LEMMA ReplacementType ==
    ASSUME NEW o \in Option
    PROVE  Replacement(o) \in EnvVar(AllNames) /\ Replacement(o).name = o.name
BY DEF Option, Replacement, EnvVar, AllNames, From, Value, Secret

\* The options are a sequence.
LEMMA OptionsType ==
    ASSUME NEW s \in KeycloakSpec
    PROVE  /\ s.options \in Seq(Option) /\ Len(s.options) \in Nat
           /\ DOMAIN s.options = 1..Len(s.options)
           /\ \A m \in 1..Len(s.options) : s.options[m] \in Option
<1>1. s.options \in Seq(Option)
  BY DEF KeycloakSpec
<1> QED  BY <1>1

\* A variable keeps its name on its way into the job, unless it is dropped.
LEMMA ForJobType ==
    ASSUME NEW e \in EnvVar(AllNames)
    PROVE  /\ e.name = "KC_CACHE_STACK" => ForJob(e) = <<>>
           /\ e.name # "KC_CACHE_STACK" =>
                \E f \in EnvVar(AllNames) :
                    /\ ForJob(e) = <<f>> /\ f.name = e.name
                    /\ e.name = "KC_CACHE" => f.from = Value("local")
                    /\ e.name \notin Modified => f = e
<1>1. CASE e.name = "KC_CACHE_STACK"
  BY <1>1 DEF ForJob
<1>2. CASE e.name = "KC_CACHE"
  <2> DEFINE f == [e EXCEPT !.from = Value("local")]
  <2>1. /\ f \in EnvVar(AllNames) /\ f.name = e.name
        /\ f.from = Value("local")
    BY DEF EnvVar, From, Value
  <2>2. ForJob(e) = <<f>>
    BY <1>2 DEF ForJob
  <2> HIDE DEF f
  <2> QED  BY <1>2, <2>1, <2>2 DEF Modified
<1>3. CASE e.name = "KC_HEALTH_ENABLED"
  <2> DEFINE f == [e EXCEPT !.from = Value("false")]
  <2>1. f \in EnvVar(AllNames) /\ f.name = e.name
    BY DEF EnvVar, From, Value
  <2>2. ForJob(e) = <<f>>
    BY <1>3 DEF ForJob
  <2> HIDE DEF f
  <2> QED  BY <1>3, <2>1, <2>2 DEF Modified
<1>4. CASE e.name \notin Modified
  <2>1. ForJob(e) = <<e>>
    BY <1>4 DEF ForJob, Modified
  <2> QED  BY <1>4, <2>1 DEF Modified
<1> QED  BY <1>1, <1>2, <1>3, <1>4 DEF Modified

\* The defaults are in force before the first option.
LEMMA DefaultsApplied ==
    ASSUME spec \in KeycloakSpec, SetDefaults
    PROVE  Applied(0)'
<1>1. env' = Defaults(spec) /\ spec' = spec
  BY DEF SetDefaults
<1>2. Within(Defaults(spec), AllNames)
  <2>1. Within(Defaults(spec), Names)
    BY DefaultsWithin
  <2>2. EnvVar(Names) \subseteq EnvVar(AllNames)
    BY DEF EnvVar, AllNames
  <2> QED  BY <2>1, <2>2, Widen DEF Within
<1>3. \E k \in DOMAIN Defaults(spec) : Defaults(spec)[k].name = "KC_CACHE"
  BY DefaultsWithin
<1> QED  BY <1>1, <1>2, <1>3 DEF Applied

\* One more option is in force.
LEMMA OptionApplied ==
    ASSUME spec \in KeycloakSpec, n \in Nat, Applied(n), AddOption
    PROVE  Applied(n)'
<1> DEFINE o == spec.options[n + 1]
           e == Replacement(spec.options[n + 1])
<1>1. /\ env' = AddOrReplaceEnv(e, env) /\ spec' = spec /\ n' = n + 1
      /\ n < Len(spec.options)
  BY DEF AddOption
<1>2. e \in EnvVar(AllNames) /\ e.name = o.name
  BY <1>1, OptionsType, ReplacementType
<1>3. \A i \in 1..(n + 1) : spec.options[i] \in Option
  BY <1>1, OptionsType
<1>4. \A i \in 1..(n + 1) : Replacement(spec.options[i]).name = spec.options[i].name
  BY <1>3, ReplacementType
<1>5. /\ Within(env', AllNames)
      /\ \E k \in DOMAIN env' : env'[k] = e
      /\ \A k \in DOMAIN env :
            /\ k \in DOMAIN env'
            /\ IF env[k].name = e.name THEN env'[k] = e ELSE env'[k] = env[k]
  <2>1. Within(env, AllNames)
    BY DEF Applied
  <2> HIDE DEF e
  <2> QED  BY <1>1, <1>2, <2>1, AddOrReplace
<1> HIDE DEF e, o
<1>6. ASSUME NEW i \in 1..(n + 1),
             \A l \in 1..(n + 1) :
                 l > i => spec.options[l].name # spec.options[i].name
      PROVE  \E k \in DOMAIN env' : env'[k] = Replacement(spec.options[i])
  <2>1. CASE i = n + 1
    BY <1>5, <2>1 DEF e
  <2>2. CASE i # n + 1
    <3>1. i \in 1..n /\ spec.options[i].name # o.name
      BY <1>6, <2>2 DEF o
    <3>2. PICK k \in DOMAIN env : env[k] = Replacement(spec.options[i])
      BY <1>6, <3>1 DEF Applied
    <3>3. env[k].name # e.name
      BY <1>2, <1>4, <3>1, <3>2
    <3> QED  BY <1>5, <3>2, <3>3
  <2> QED  BY <2>1, <2>2
<1>7. ASSUME NEW d \in DOMAIN Defaults(spec),
             \A i \in 1..(n + 1) : spec.options[i].name # Defaults(spec)[d].name
      PROVE  \E k \in DOMAIN env' : env'[k] = Defaults(spec)[d]
  <2>1. PICK k \in DOMAIN env : env[k] = Defaults(spec)[d]
    BY <1>7 DEF Applied
  <2>2. env[k].name # e.name
    BY <1>2, <1>7, <2>1 DEF o
  <2> QED  BY <1>5, <2>1, <2>2
<1>8. \E k \in DOMAIN env' : env'[k].name = "KC_CACHE"
  <2>1. PICK k \in DOMAIN env : env[k].name = "KC_CACHE"
    BY DEF Applied
  <2> QED  BY <1>5, <2>1
<1> QED  BY <1>1, <1>5, <1>6, <1>7, <1>8 DEF Applied

\* One more variable of the server is taken over into the job.
LEMMA VariableBuilt ==
    ASSUME n \in Nat, Within(env, AllNames), Built(n), BuildJob
    PROVE  Built(n)'
<1> DEFINE e == env[n + 1]
<1>1. /\ env' = env /\ n' = n + 1 /\ n < Len(env)
      /\ job' = job \o ForJob(e)
  BY DEF BuildJob
<1>2. /\ env \in Seq(EnvVar(AllNames)) /\ Unique(env)
      /\ DOMAIN env = 1..Len(env) /\ n + 1 \in DOMAIN env
  BY <1>1 DEF Within
<1>3. \A k \in 1..(n + 1) : env[k] \in EnvVar(AllNames)
  BY <1>1, <1>2
<1>4. /\ job \in Seq(EnvVar(AllNames)) /\ DOMAIN job = 1..Len(job)
      /\ Len(job) \in Nat
  BY DEF Built
<1>5. CASE e.name = "KC_CACHE_STACK"
  <2>1. ForJob(e) = <<>>
    BY <1>3, <1>5, ForJobType
  <2>2. job' = job
    BY <1>1, <1>4, <2>1
  <2> QED  BY <1>1, <1>5, <2>2 DEF Built, Unique
<1>6. CASE e.name # "KC_CACHE_STACK"
  <2>1. PICK f \in EnvVar(AllNames) : ForJob(e) = <<f>> /\ f.name = e.name
    BY <1>3, <1>6, ForJobType
  <2>2. job' = Append(job, f)
    BY <1>1, <1>4, <2>1
  <2>3. /\ job' \in Seq(EnvVar(AllNames)) /\ DOMAIN job' = 1..(Len(job) + 1)
        /\ \A j \in DOMAIN job : job'[j] = job[j]
        /\ job'[Len(job) + 1] = f
    BY <1>4, <2>2
  <2>4. \A j \in DOMAIN job' : \E k \in 1..(n + 1) : ForJob(env[k]) = <<job'[j]>>
    BY <1>4, <2>1, <2>3 DEF Built
  <2>5. \A k \in 1..(n + 1) : env[k].name # "KC_CACHE_STACK" =>
           \E j \in DOMAIN job' : ForJob(env[k]) = <<job'[j]>>
    <3>1. Len(job) + 1 \in DOMAIN job' /\ DOMAIN job \subseteq DOMAIN job'
      BY <1>4, <2>3
    <3> SUFFICES ASSUME NEW k \in 1..(n + 1), env[k].name # "KC_CACHE_STACK"
                 PROVE  \E j \in DOMAIN job' : ForJob(env[k]) = <<job'[j]>>
      OBVIOUS
    <3>2. CASE k = n + 1
      BY <2>1, <2>3, <3>1, <3>2
    <3>3. CASE k \in 1..n
      <4>1. PICK j \in DOMAIN job : ForJob(env[k]) = <<job[j]>>
        BY <3>3 DEF Built
      <4> QED  BY <2>3, <3>1, <4>1
    <3> QED  BY <3>2, <3>3
  <2>6. ASSUME NEW j \in DOMAIN job PROVE job[j].name # f.name
    <3>1. PICK k \in 1..n : ForJob(env[k]) = <<job[j]>>
      BY DEF Built
    <3>2. env[k].name # "KC_CACHE_STACK"
      <4>1. env[k].name = "KC_CACHE_STACK" => ForJob(env[k]) = <<>>
        BY <1>3, ForJobType
      <4>2. <<job[j]>> # <<>>
        OBVIOUS
      <4> QED  BY <3>1, <4>1, <4>2
    <3>3. PICK g \in EnvVar(AllNames) :
             ForJob(env[k]) = <<g>> /\ g.name = env[k].name
      BY <1>3, <3>2, ForJobType
    <3>4. job[j].name = env[k].name
      BY <3>1, <3>3
    <3>5. k \in DOMAIN env /\ k # n + 1
      BY <1>2
    <3> QED  BY <1>2, <2>1, <3>4, <3>5 DEF Unique
  <2>7. Unique(job')
    BY <1>4, <2>3, <2>6 DEF Unique, Built
  <2> QED  BY <1>1, <2>3, <2>4, <2>5, <2>7 DEF Built, Unique
<1> QED  BY <1>5, <1>6

\* The loops keep their invariants.
LEMMA BuildStep ==
    ASSUME BuildInv, [Next]_vars
    PROVE  BuildInv'
<1> USE DEF BuildInv
<1>1. CASE AddProvider
  BY <1>1 DEF AddProvider, Goto
<1>2. CASE SetDefaults
  <2>1. Applied(0)'
    BY <1>2, DefaultsApplied
  <2>2. /\ pc' = "options" /\ n' = 0 /\ spec' = spec /\ job' = job
        /\ pc = "providers"
    BY <1>2 DEF SetDefaults, Goto
  <2>3. Applied(n)'
    BY <2>1, <2>2 DEF Applied
  <2>4. Len(spec.options) \in Nat
    BY OptionsType
  <2> QED  BY <2>2, <2>3, <2>4
<1>3. CASE AddOption
  <2>1. /\ pc = "options" /\ pc' = "options" /\ n' = n + 1 /\ spec' = spec
        /\ job' = job /\ n < Len(spec.options)
    BY <1>3 DEF AddOption
  <2>2. Applied(n)'
    BY <1>3, <2>1, OptionApplied
  <2>3. Len(spec.options) \in Nat
    BY OptionsType
  <2> QED  BY <2>1, <2>2, <2>3
<1>4. CASE DecorateSizing
  <2>1. /\ pc = "options" /\ pc' = "job" /\ n' = 0 /\ spec' = spec
        /\ job' = job /\ env' = env /\ n = Len(spec.options)
    BY <1>4 DEF DecorateSizing, Goto
  <2>2. Applied(Len(spec.options))'
    BY <2>1 DEF Applied
  <2>3. Built(n)'
    <3>1. job' = <<>>
      BY <2>1
    <3> QED  BY <2>1, <3>1 DEF Built, Unique
  <2>4. Len(env) \in Nat
    BY <2>1 DEF Applied, Within
  <2> QED  BY <2>1, <2>2, <2>3, <2>4
<1>5. CASE BuildJob
  <2>1. /\ pc = "job" /\ pc' = "job" /\ n' = n + 1 /\ spec' = spec
        /\ env' = env /\ n < Len(env)
    BY <1>5 DEF BuildJob
  <2>2. Built(n)'
    BY <1>5, <2>1, VariableBuilt DEF Applied
  <2>3. Applied(Len(spec.options))'
    BY <2>1 DEF Applied
  <2>4. Len(env) \in Nat
    BY <2>1 DEF Applied, Within
  <2> QED  BY <2>1, <2>2, <2>3, <2>4
<1>6. CASE FillIn
  <2>1. /\ pc = "job" /\ pc' \in {"marshal", "done"} /\ n' = 0
        /\ spec' = spec /\ env' = env /\ job' = job /\ n = Len(env)
    BY <1>6 DEF FillIn, Goto
  <2>2. Applied(Len(spec.options))' /\ Built(Len(env))'
    BY <2>1 DEF Applied, Built
  <2> QED  BY <2>1, <2>2
<1>7. CASE Marshal
  <2>1. /\ pc = "marshal" /\ pc' \in {"marshal", "done"} /\ n' \in Nat
        /\ spec' = spec /\ env' = env /\ job' = job
    BY <1>7 DEF Marshal, Goto
  <2>2. Applied(Len(spec.options))' /\ Built(Len(env))'
    BY <2>1 DEF Applied, Built
  <2> QED  BY <2>1, <2>2
<1>8. CASE UNCHANGED vars
  BY <1>8 DEF vars, Applied, Built
<1> QED  BY <1>1, <1>2, <1>3, <1>4, <1>5, <1>6, <1>7, <1>8 DEF Next

\* Every state of a build satisfies the invariants of its loops.
THEOREM Building == Spec => []BuildInv
<1>1. Init => BuildInv
  BY BuildsAssumption DEF Init, BuildInv
<1>2. BuildInv /\ [Next]_vars => BuildInv'
  BY BuildStep
<1> QED  BY <1>1, <1>2, PTL DEF Spec

\* However many options there are and whatever they repeat, neither the server
\* nor the import job is given two values for one variable.
THEOREM OneValue == Spec => []OneValuePerName
<1>1. BuildInv => OneValuePerName
  <2>1. Unique(<<>>)
    BY DEF Unique
  <2> QED  BY <2>1 DEF BuildInv, Applied, Within, Built, OneValuePerName
<1> QED  BY <1>1, Building, PTL

\* The last option of each name is in force, and every default that no option
\* names.
THEOREM Override == Spec => []OptionsOverride
<1>1. BuildInv => OptionsOverride
  <2> SUFFICES ASSUME BuildInv, pc \in {"job", "done"} PROVE OptionsOverride
    BY DEF OptionsOverride
  <2>1. Applied(Len(spec.options))
    BY DEF BuildInv
  <2>2. DOMAIN spec.options = 1..Len(spec.options)
    BY OptionsType DEF BuildInv
  <2> QED  BY <2>1, <2>2 DEF Applied, OptionsOverride, Range
<1> QED  BY <1>1, Building, PTL

\* The server of the import job has a local cache, no cache stack, and otherwise
\* the configuration of the real one.
THEOREM StandsAlone == Spec => []JobStandsAlone
<1>1. BuildInv => JobStandsAlone
  <2> SUFFICES ASSUME BuildInv, pc = "done" PROVE JobStandsAlone
    BY DEF JobStandsAlone
  <2>1. Applied(Len(spec.options)) /\ Built(Len(env))
    BY DEF BuildInv
  <2>2. /\ env \in Seq(EnvVar(AllNames)) /\ DOMAIN env = 1..Len(env)
        /\ \A k \in 1..Len(env) : env[k] \in EnvVar(AllNames)
    BY <2>1 DEF Applied, Within
  <2>3. ASSUME NEW j \in DOMAIN job
        PROVE  \E k \in DOMAIN env :
                  /\ job[j].name = env[k].name
                  /\ env[k].name # "KC_CACHE_STACK"
                  /\ env[k].name = "KC_CACHE" => job[j].from = Value("local")
                  /\ env[k].name \notin Modified => job[j] = env[k]
    <3>1. PICK k \in 1..Len(env) : ForJob(env[k]) = <<job[j]>>
      BY <2>1 DEF Built
    <3>2. env[k].name # "KC_CACHE_STACK"
      <4>1. env[k].name = "KC_CACHE_STACK" => ForJob(env[k]) = <<>>
        BY <2>2, ForJobType
      <4>2. <<job[j]>> # <<>>
        OBVIOUS
      <4> QED  BY <3>1, <4>1, <4>2
    <3>3. PICK f \in EnvVar(AllNames) :
             /\ ForJob(env[k]) = <<f>> /\ f.name = env[k].name
             /\ env[k].name = "KC_CACHE" => f.from = Value("local")
             /\ env[k].name \notin Modified => f = env[k]
      BY <2>2, <3>2, ForJobType
    <3>4. job[j] = f
      BY <3>1, <3>3
    <3> QED  BY <2>2, <3>2, <3>3, <3>4
  <2>4. ASSUME NEW k \in DOMAIN env, env[k].name # "KC_CACHE_STACK"
        PROVE  \E j \in DOMAIN job :
                  /\ job[j].name = env[k].name
                  /\ env[k].name \notin Modified => job[j] = env[k]
    <3>1. PICK j \in DOMAIN job : ForJob(env[k]) = <<job[j]>>
      BY <2>1, <2>2, <2>4 DEF Built
    <3>2. PICK f \in EnvVar(AllNames) :
             /\ ForJob(env[k]) = <<f>> /\ f.name = env[k].name
             /\ env[k].name \notin Modified => f = env[k]
      BY <2>2, <2>4, ForJobType
    <3>3. job[j] = f
      BY <3>1, <3>2
    <3> QED  BY <3>2, <3>3
  <2>5. \E j \in DOMAIN job : job[j].name = "KC_CACHE"
    BY <2>1, <2>4 DEF Applied
  <2>6. \A k \in DOMAIN env : env[k].name \notin Modified =>
            env[k].name # "KC_CACHE_STACK"
    BY DEF Modified
  <2> QED  BY <2>3, <2>4, <2>5, <2>6 DEF JobStandsAlone, Range
<1> QED  BY <1>1, Building, PTL
-----------------------------------------------------------------------------
(***************************************************************************)
(* The CPU of an instance.                                                 *)
(***************************************************************************)

\* What \div and % compute for a positive divisor.
LEMMA Division ==
    ASSUME NEW num \in Nat, NEW den \in Nat \ {0}
    PROVE  /\ num \div den \in Nat
           /\ den * (num \div den) <= num
           /\ num < den * (num \div den + 1)
           /\ num % den = 0 => num = den * (num \div den)
<1>1. num \div den \in Int /\ num % den \in 0..(den - 1)
  OBVIOUS
<1>2. num = den * (num \div den) + (num % den)
  OBVIOUS
<1>3. den * (num \div den + 1) = den * (num \div den) + den
  BY <1>1
<1> QED  BY <1>1, <1>2, <1>3

\* A common factor of an inequation may be cancelled.
LEMMA Cancel ==
    ASSUME NEW a \in Int, NEW b \in Int, NEW d \in Nat, d * a < d * b
    PROVE  a < b
<1> SUFFICES ASSUME b <= a PROVE FALSE
  OBVIOUS
<1>1. d * (a - b) \in Nat
  OBVIOUS
<1>2. d * (a - b) = d * a - d * b
  OBVIOUS
<1> QED  BY <1>1, <1>2

\* The larger of two numbers.
LEMMA MaxOfTwo ==
    ASSUME NEW a \in Int, NEW x \in Int
    PROVE  Max({a, x}) = IF x > a THEN x ELSE a
<1> DEFINE m == IF x > a THEN x ELSE a
<1>1. \A y, z \in {a, x} : y >= z /\ z >= y => y = z
  OBVIOUS
<1>2. m \in {a, x} /\ \A y \in {a, x} : m >= y
  OBVIOUS
<1> QED  BY <1>1, <1>2 DEF Max

\* The conversion truncates, and may truncate a whole number to the one before.
LEMMA Truncated ==
    ASSUME NEW num \in Nat, NEW den \in Nat \ {0}, NEW q \in Int64(num, den)
    PROVE  /\ q \in Int /\ den * q <= num /\ num <= den * (q + 1)
           /\ num = 0 => q = 0
<1> DEFINE d == num \div den
<1>1. /\ d \in Nat /\ den * d <= num /\ num < den * (d + 1)
      /\ num % den = 0 => num = den * d
  BY Division
<1>2. q = d \/ (num > 0 /\ num % den = 0 /\ q = d - 1)
  BY DEF Int64
<1> HIDE DEF d
<1>3. CASE q = d
  <2>1. num = 0 => d = 0
    <3> SUFFICES ASSUME num = 0, d > 0 PROVE FALSE
      BY <1>1
    <3>1. den * d > 0
      BY <1>1
    <3> QED  BY <1>1, <3>1
  <2> QED  BY <1>1, <1>3, <2>1
<1>4. CASE num > 0 /\ num % den = 0 /\ q = d - 1
  <2>1. /\ num = den * d /\ q + 1 = d /\ q \in Int
    BY <1>1, <1>4
  <2>2. den * q = den * d - den
    BY <1>1, <1>4
  <2> QED  BY <1>1, <1>4, <2>1, <2>2
<1> QED  BY <1>2, <1>3, <1>4
\* Between them the instances request the load, up to truncation, and a limit is
\* not below the request.
LEMMA LimitsFollowLoad ==
    ASSUME NEW load \in Nat, NEW inst \in Nat \ {0},
           NEW request \in Int64(1000 * load, 120 * inst),
           NEW limit \in Int64(2500 * load, 120 * inst)
    PROVE  /\ inst * request * 120 <= 1000 * load
           /\ 1000 * load <= inst * (request + 1) * 120
           /\ request <= limit
<1> DEFINE den == 120 * inst
<1>1. den \in Nat \ {0} /\ 1000 * load \in Nat /\ 2500 * load \in Nat
  OBVIOUS
<1>2. /\ request \in Int /\ den * request <= 1000 * load
      /\ 1000 * load <= den * (request + 1) /\ (1000 * load = 0 => request = 0)
  BY <1>1, Truncated
<1>3. /\ limit \in Int /\ 2500 * load <= den * (limit + 1)
      /\ (2500 * load = 0 => limit = 0)
  BY <1>1, Truncated
<1>4. /\ inst * request * 120 = den * request
      /\ inst * (request + 1) * 120 = den * (request + 1)
  <2>1. \A q \in Int : inst * q * 120 = den * q
    OBVIOUS
  <2> QED  BY <1>2, <2>1
<1>5. request + 1 \in Int /\ limit + 1 \in Int
  BY <1>2, <1>3
<1> HIDE DEF den
<1>6. request <= limit
  <2>1. CASE load = 0
    BY <1>2, <1>3, <2>1
  <2>2. CASE load > 0
    <3>1. den * request < den * (limit + 1)
      <4>1. den * request \in Int /\ den * (limit + 1) \in Int
        BY <1>1, <1>2, <1>5
      <4> QED  BY <1>2, <1>3, <2>2, <4>1
    <3>2. request < limit + 1
      BY <1>1, <1>2, <1>5, <3>1, Cancel
    <3> QED  BY <1>2, <1>3, <3>2
  <2> QED  BY <2>1, <2>2
<1>7. inst * request * 120 <= 1000 * load
  BY <1>1, <1>2, <1>4
<1>8. 1000 * load <= inst * (request + 1) * 120
  BY <1>1, <1>2, <1>4, <1>5
<1> QED  BY <1>6, <1>7, <1>8

\* decorateSizing leaves the limits that the computation yields.
SizeInv ==
    /\ spec \in KeycloakSpec
    /\ pc \in {"job", "marshal", "done"} /\ spec.sized =>
           limits \in CalculateResourceLimits(spec.sizing, spec.instances)

\* Whatever the load and the number of instances, the instances request the load
\* between them and no limit is below a request.
THEOREM LoadFollowed == Spec => []CpuFollowsLoad
<1>1. Init => SizeInv
  BY BuildsAssumption DEF Init, SizeInv
<1>2. SizeInv /\ [Next]_vars => SizeInv'
  <2> SUFFICES ASSUME SizeInv, [Next]_vars PROVE SizeInv'
    OBVIOUS
  <2>1. CASE DecorateSizing
    BY <2>1 DEF SizeInv, DecorateSizing
  <2>2. CASE AddProvider \/ SetDefaults \/ AddOption
    BY <2>2 DEF SizeInv, AddProvider, SetDefaults, AddOption, Goto
  <2>3. CASE BuildJob \/ FillIn \/ Marshal
    BY <2>3 DEF SizeInv, BuildJob, FillIn, Marshal, Goto
  <2>4. CASE UNCHANGED vars
    BY <2>4 DEF SizeInv, vars
  <2> QED  BY <2>1, <2>2, <2>3, <2>4 DEF Next
<1>3. SizeInv => CpuFollowsLoad
  <2> SUFFICES ASSUME SizeInv, pc \in {"job", "done"}, spec.sized
               PROVE  CpuFollowsLoad
    BY DEF CpuFollowsLoad
  <2> DEFINE z == spec.sizing
             Rate(x) == Max({0, x})
             demand == 8 * Rate(z.logins) + Rate(z.clients) + Rate(z.refreshes)
             inst == Max({1, spec.instances})
  <2>1. /\ z.logins \in Int /\ z.clients \in Int /\ z.refreshes \in Int
        /\ spec.instances \in Nat
    BY BuildsAssumption DEF SizeInv, KeycloakSpec, Sizes
  <2>2. /\ Rate(z.logins) = Positive(z.logins)
        /\ Rate(z.clients) = Positive(z.clients)
        /\ Rate(z.refreshes) = Positive(z.refreshes)
        /\ Positive(z.logins) \in Nat /\ Positive(z.clients) \in Nat
        /\ Positive(z.refreshes) \in Nat
    BY <2>1, MaxOfTwo DEF Positive
  <2>3. demand = Load(z) /\ demand \in Nat
    BY <2>2 DEF Load
  <2>4. inst = Inst(spec.instances) /\ inst \in Nat \ {0}
    BY <2>1, MaxOfTwo DEF Inst
  <2>5. /\ limits.request \in Int64(1000 * demand, 120 * inst)
        /\ limits.limit \in Int64(2500 * demand, 120 * inst)
    BY <2>3, <2>4 DEF SizeInv, CalculateResourceLimits
  <2> HIDE DEF demand, inst
  <2>6. /\ inst * limits.request * 120 <= 1000 * demand
        /\ 1000 * demand <= inst * (limits.request + 1) * 120
        /\ limits.request <= limits.limit
    BY <2>3, <2>4, <2>5, LimitsFollowLoad
  <2> QED  BY <2>6 DEF CpuFollowsLoad, demand, inst
<1> QED  BY <1>1, <1>2, <1>3, PTL DEF Spec
-----------------------------------------------------------------------------
(***************************************************************************)
(* The providers: names of variables are equal only for names alike.       *)
(***************************************************************************)
InFront(c, input) == <<c>> \o input

Underscored(input) == InFront("_", input)

Prefixed(input) == IF Sanitize(input[1]) \in Digits THEN Underscored(input)
                   ELSE input

\* A sequence with one more element in front.
LEMMA OneInFront ==
    ASSUME NEW S, NEW c \in S, NEW a \in Seq(S)
    PROVE  /\ InFront(c, a) \in Seq(S)
           /\ Len(a) \in Nat /\ Len(InFront(c, a)) = Len(a) + 1
           /\ DOMAIN InFront(c, a) = 1..(Len(a) + 1)
           /\ InFront(c, a)[1] = c
           /\ \A k \in 1..Len(a) : InFront(c, a)[k + 1] = a[k]
<1>1. <<c>> \o a \in Seq(S) /\ Len(a) \in Nat
  OBVIOUS
<1>2. Len(<<c>> \o a) = Len(a) + 1
  OBVIOUS
<1>3. DOMAIN (<<c>> \o a) = 1..(Len(a) + 1)
  OBVIOUS
<1>4. (<<c>> \o a)[1] = c
  OBVIOUS
<1>5. ASSUME NEW k \in 1..Len(a) PROVE (<<c>> \o a)[k + 1] = a[k]
  OBVIOUS
<1> QED  BY <1>1, <1>2, <1>3, <1>4, <1>5, Zenon DEF InFront

\* The "_" that ConvertToEnvName puts in front.
LEMMA Prepended ==
    ASSUME NEW a \in Seq(Chars)
    PROVE  /\ Underscored(a) \in Seq(Chars)
           /\ Len(a) \in Nat /\ Len(Underscored(a)) = Len(a) + 1
           /\ DOMAIN Underscored(a) = 1..(Len(a) + 1)
           /\ Underscored(a)[1] = "_"
           /\ \A k \in 1..Len(a) : Underscored(a)[k + 1] = a[k]
<1>1. "_" \in Chars
  BY DEF Chars
<1>2. PICK c \in Chars : c = "_"
  BY <1>1
<1>3. Underscored(a) = InFront(c, a)
  BY <1>2 DEF Underscored
<1>4. /\ InFront(c, a) \in Seq(Chars)
      /\ Len(a) \in Nat /\ Len(InFront(c, a)) = Len(a) + 1
      /\ DOMAIN InFront(c, a) = 1..(Len(a) + 1)
      /\ InFront(c, a)[1] = c
      /\ \A k \in 1..Len(a) : InFront(c, a)[k + 1] = a[k]
  <2> DEFINE S == Chars
  <2> HIDE DEF S
  <2>1. c \in S /\ a \in Seq(S)
    BY DEF S
  <2>2. /\ InFront(c, a) \in Seq(S)
        /\ Len(a) \in Nat /\ Len(InFront(c, a)) = Len(a) + 1
        /\ DOMAIN InFront(c, a) = 1..(Len(a) + 1)
        /\ InFront(c, a)[1] = c
        /\ \A k \in 1..Len(a) : InFront(c, a)[k + 1] = a[k]
    BY <2>1, OneInFront
  <2> QED  BY <2>2 DEF S
<1> QED  BY <1>2, <1>3, <1>4, Zenon

\* Sanitize works on each character alike, the "_" in front included.
LEMMA Sanitized ==
    ASSUME NEW a \in Seq(Chars), a # <<>>
    PROVE  LET sanitized == [k \in DOMAIN a |-> Sanitize(a[k])] IN
           /\ sanitized \in Seq(Chars) /\ Len(sanitized) = Len(a)
           /\ Len(a) \in Nat \ {0} /\ sanitized[1] = Sanitize(a[1])
           /\ \A k \in 1..Len(a) : sanitized[k] = Sanitize(a[k])
           /\ \A k \in 1..(Len(a) + 1) :
                 Underscored(sanitized)[k] = Sanitize(Underscored(a)[k])
<1> DEFINE sanitized == [k \in DOMAIN a |-> Sanitize(a[k])]
<1>1. "_" \in Chars /\ Sanitize("_") = "_"
  BY DEF Chars, Sanitize
<1>2. Len(a) \in Nat \ {0} /\ DOMAIN a = 1..Len(a)
  <2>1. Len(a) \in Nat /\ DOMAIN a = 1..Len(a)
    OBVIOUS
  <2>2. Len(a) # 0
    BY EmptySeq
  <2> QED  BY <2>1, <2>2
<1>3. \A k \in 1..Len(a) : Sanitize(a[k]) \in Chars
  <2>1. \A k \in 1..Len(a) : a[k] \in Chars
    OBVIOUS
  <2>2. \A c \in Chars : Sanitize(c) \in Chars
    BY <1>1 DEF Sanitize
  <2> QED  BY <2>1, <2>2, Zenon
<1>4. /\ sanitized \in Seq(Chars) /\ Len(sanitized) = Len(a)
      /\ \A k \in 1..Len(a) : sanitized[k] = Sanitize(a[k])
  BY <1>2, <1>3
<1> HIDE DEF sanitized
<1>5. ASSUME NEW k \in 1..(Len(a) + 1)
      PROVE  Underscored(sanitized)[k] = Sanitize(Underscored(a)[k])
  <2>1. CASE k = 1
    BY <1>1, <1>4, <2>1, Prepended
  <2>2. CASE k # 1
    <3>1. k - 1 \in 1..Len(a) /\ k = (k - 1) + 1
      BY <1>2, <2>2
    <3>2. /\ Underscored(a)[k] = a[k - 1]
          /\ Underscored(sanitized)[k] = sanitized[k - 1]
      <4>1. /\ \A l \in 1..Len(a) : Underscored(a)[l + 1] = a[l]
            /\ \A l \in 1..Len(a) : Underscored(sanitized)[l + 1] = sanitized[l]
        BY <1>4, Prepended, Zenon
      <4> QED  BY <3>1, <4>1
    <3> QED  BY <1>4, <3>1, <3>2
  <2> QED  BY <2>1, <2>2
<1>6. sanitized[1] = Sanitize(a[1])
  BY <1>2, <1>4
<1> QED  BY <1>2, <1>4, <1>5, <1>6 DEF sanitized

\* ConvertToEnvName works on each character of the name with its prefix.
LEMMA Converted ==
    ASSUME NEW a \in Seq(Chars), a # <<>>
    PROVE  /\ Prefixed(a) \in Seq(Chars)
           /\ DOMAIN ConvertToEnvName(a) = 1..Len(Prefixed(a))
           /\ \A k \in 1..Len(Prefixed(a)) :
                 ConvertToEnvName(a)[k] = ToUpper[Sanitize(Prefixed(a)[k])]
<1> DEFINE sanitized == [k \in DOMAIN a |-> Sanitize(a[k])]
           prefixed == IF sanitized[1] \in Digits
                       THEN Underscored(sanitized) ELSE sanitized
<1>1. ConvertToEnvName(a) = [k \in DOMAIN prefixed |-> ToUpper[prefixed[k]]]
  BY DEF ConvertToEnvName, Underscored, InFront
<1>2. /\ sanitized \in Seq(Chars) /\ Len(sanitized) = Len(a)
      /\ Len(a) \in Nat \ {0} /\ sanitized[1] = Sanitize(a[1])
      /\ \A k \in 1..Len(a) : sanitized[k] = Sanitize(a[k])
      /\ \A k \in 1..(Len(a) + 1) :
            Underscored(sanitized)[k] = Sanitize(Underscored(a)[k])
  BY Sanitized
<1> HIDE DEF sanitized
<1>3. /\ Len(Underscored(a)) = Len(a) + 1
      /\ DOMAIN Underscored(sanitized) = 1..(Len(a) + 1)
      /\ Underscored(a) \in Seq(Chars)
  BY <1>2, Prepended, Zenon
<1>3a. DOMAIN sanitized = 1..Len(a)
  BY <1>2
<1>4. /\ Prefixed(a) \in Seq(Chars) /\ DOMAIN prefixed = 1..Len(Prefixed(a))
      /\ \A k \in 1..Len(Prefixed(a)) : prefixed[k] = Sanitize(Prefixed(a)[k])
  BY <1>2, <1>3, <1>3a DEF Prefixed
<1> HIDE DEF prefixed
<1> QED  BY <1>1, <1>4

\* Characters that are converted to the same one are alike.
LEMMA ConvertedChar ==
    ASSUME NEW c \in Chars, NEW d \in Chars,
           ToUpper[Sanitize(c)] = ToUpper[Sanitize(d)]
    PROVE  ToUpper[c] = ToUpper[d] \/ {c, d} \subseteq Marks \cup {"_"}
<1>1. "_" \in Chars /\ ToUpper["_"] = "_"
  BY ToUpperAssumption DEF Chars
<1>2. \A x \in Chars : ToUpper[x] = "_" => x = "_"
  BY ToUpperAssumption
<1> QED  BY <1>1, <1>2 DEF Sanitize

\* Providers that share a variable have names alike.
LEMMA SharedVariable ==
    ASSUME NEW a \in Seq(Chars), NEW b \in Seq(Chars), a # <<>>, b # <<>>,
           ConvertToEnvName(a) = ConvertToEnvName(b)
    PROVE  Alike(a, b)
<1> DEFINE x == Prefixed(a)
           y == Prefixed(b)
<1>1. /\ x \in Seq(Chars) /\ y \in Seq(Chars)
      /\ 1..Len(x) = 1..Len(y)
      /\ \A k \in 1..Len(x) : ToUpper[Sanitize(x[k])] = ToUpper[Sanitize(y[k])]
  BY Converted
<1>2. x \in {a, Underscored(a)} /\ y \in {b, Underscored(b)}
  BY DEF Prefixed
<1> HIDE DEF x, y
<1>3. Len(x) = Len(y)
  BY <1>1
<1>4. Similar(x, y)
  <2>1. ASSUME NEW k \in DOMAIN x
        PROVE  \/ ToUpper[x[k]] = ToUpper[y[k]]
               \/ {x[k], y[k]} \subseteq Marks \cup {"_"}
    <3>1. x[k] \in Chars /\ y[k] \in Chars /\ k \in 1..Len(x)
      BY <1>1, <1>3
    <3> QED  BY <1>1, <3>1, ConvertedChar
  <2> QED  BY <1>3, <2>1 DEF Similar
<1>5. CASE x = Underscored(a) /\ y = Underscored(b)
  <2>1. /\ Len(x) = Len(a) + 1 /\ Len(y) = Len(b) + 1
        /\ DOMAIN x = 1..(Len(a) + 1)
        /\ \A k \in 1..Len(a) : x[k + 1] = a[k]
        /\ \A k \in 1..Len(b) : y[k + 1] = b[k]
        /\ Len(a) \in Nat /\ Len(b) \in Nat
    BY <1>5, Prepended
  <2>2. Len(a) = Len(b)
    <3>1. \A i, j \in Nat : i + 1 = j + 1 => i = j
      OBVIOUS
    <3> QED  BY <1>3, <2>1, <3>1, Zenon
  <2>3. DOMAIN a = 1..Len(a)
    OBVIOUS
  <2>4. ASSUME NEW k \in DOMAIN a
        PROVE  \/ ToUpper[a[k]] = ToUpper[b[k]]
               \/ {a[k], b[k]} \subseteq Marks \cup {"_"}
    <3>1. k + 1 \in DOMAIN x
      BY <2>1, <2>3
    <3>2. \/ ToUpper[x[k + 1]] = ToUpper[y[k + 1]]
          \/ {x[k + 1], y[k + 1]} \subseteq Marks \cup {"_"}
      BY <1>4, <3>1 DEF Similar
    <3>3. x[k + 1] = a[k] /\ y[k + 1] = b[k]
      BY <2>1, <2>2, <2>3, Zenon
    <3>4. CASE ToUpper[x[k + 1]] = ToUpper[y[k + 1]]
      BY <3>3, <3>4, Zenon
    <3>5. CASE {x[k + 1], y[k + 1]} \subseteq Marks \cup {"_"}
      BY <3>3, <3>5, Zenon
    <3> QED  BY <3>2, <3>4, <3>5, Zenon
  <2> QED  BY <2>2, <2>4 DEF Similar, Alike
<1> QED  BY <1>2, <1>4, <1>5 DEF Alike, Underscored, InFront

FetchVar(p) == [name |-> ConvertToEnvName(p.name), from |-> URL(p)]
CurlOf(p) == [to |-> p.name, var |-> ConvertToEnvName(p.name)]

\* The init container has a variable and a command for each of the first m
\* providers.
Fetched(m) ==
    /\ fetch \in Seq({FetchVar(p) : p \in Provider}) /\ Len(fetch) = m
    /\ curl \in Seq({CurlOf(p) : p \in Provider}) /\ Len(curl) = m
    /\ \A k \in 1..m : /\ spec.providers[k].name # <<>>
                       /\ fetch[k] = FetchVar(spec.providers[k])
                       /\ curl[k] = CurlOf(spec.providers[k])

FetchInv ==
    /\ spec \in KeycloakSpec
    /\ pc = "providers" => /\ n \in 0..Len(spec.providers)
                           /\ Fetched(n)
    /\ pc \in {"options", "job", "marshal", "done"} =>
           Fetched(Len(spec.providers))

\* One more provider.
LEMMA ProviderFetched ==
    ASSUME FetchInv, AddProvider
    PROVE  FetchInv'
<1> DEFINE p == spec.providers[n + 1]
<1>1. /\ pc = "providers" /\ n < Len(spec.providers) /\ spec' = spec
  BY DEF AddProvider
<1>2. /\ spec.providers \in Seq(Provider) /\ n \in Nat
      /\ Len(spec.providers) \in Nat
  BY <1>1 DEF FetchInv, KeycloakSpec
<1>3. p \in Provider /\ n \in Nat /\ Len(spec.providers) \in Nat
  BY <1>1, <1>2
<1>4. CASE pc' = "failed"
  BY <1>1, <1>4 DEF FetchInv
<1>5. CASE /\ p.name # <<>> /\ pc' = pc /\ n' = n + 1
           /\ fetch' = Append(fetch, FetchVar(p))
           /\ curl' = Append(curl, CurlOf(p))
  <2>1. Fetched(n)
    BY <1>1 DEF FetchInv
  <2>2. /\ FetchVar(p) \in {FetchVar(x) : x \in Provider}
        /\ CurlOf(p) \in {CurlOf(x) : x \in Provider}
    BY <1>3
  <2>3. /\ fetch' \in Seq({FetchVar(x) : x \in Provider}) /\ Len(fetch') = n + 1
        /\ \A k \in 1..n : fetch'[k] = fetch[k]
        /\ fetch'[n + 1] = FetchVar(p)
    BY <1>3, <1>5, <2>1, <2>2 DEF Fetched
  <2>4. /\ curl' \in Seq({CurlOf(x) : x \in Provider}) /\ Len(curl') = n + 1
        /\ \A k \in 1..n : curl'[k] = curl[k]
        /\ curl'[n + 1] = CurlOf(p)
    BY <1>3, <1>5, <2>1, <2>2 DEF Fetched
  <2>5. \A k \in 1..(n + 1) : k \in 1..n \/ k = n + 1
    BY <1>3
  <2>6. Fetched(n)'
    BY <1>1, <1>5, <2>1, <2>3, <2>4, <2>5 DEF Fetched
  <2>7. n' \in 0..Len(spec.providers)
    BY <1>1, <1>3, <1>5
  <2> QED  BY <1>1, <1>5, <2>6, <2>7 DEF FetchInv
<1> QED  BY <1>4, <1>5 DEF AddProvider, Goto, FetchVar, CurlOf

\* However many providers there are, each is fetched from its own URL unless
\* another has a name alike.
THEOREM FetchedFromTheirURL == Spec => []ProvidersFromTheirURL
<1>1. Init => FetchInv
  <2> SUFFICES ASSUME Init PROVE FetchInv
    OBVIOUS
  <2>1. spec \in KeycloakSpec /\ spec.providers \in Seq(Provider)
    BY BuildsAssumption DEF Init, KeycloakSpec
  <2>2. Len(spec.providers) \in Nat
    BY <2>1
  <2> QED  BY <2>1, <2>2 DEF Init, FetchInv, Fetched
<1>2. FetchInv /\ [Next]_vars => FetchInv'
  <2> SUFFICES ASSUME FetchInv, [Next]_vars PROVE FetchInv'
    OBVIOUS
  <2>1. CASE AddProvider
    BY <2>1, ProviderFetched
  <2>2. CASE SetDefaults
    BY <2>2 DEF SetDefaults, Goto, FetchInv, Fetched
  <2>3. CASE \/ AddOption \/ DecorateSizing \/ BuildJob \/ FillIn \/ Marshal
             \/ UNCHANGED vars
    BY <2>3 DEF AddOption, DecorateSizing, BuildJob, FillIn, Marshal, vars, Goto,
                FetchInv, Fetched
  <2> QED  BY <2>1, <2>2, <2>3 DEF Next
<1>3. FetchInv => ProvidersFromTheirURL
  <2> SUFFICES ASSUME FetchInv, pc = "done", NEW m \in DOMAIN spec.providers,
                      \A l \in DOMAIN spec.providers \ {m} :
                          ~Alike(spec.providers[m].name, spec.providers[l].name)
               PROVE  \E c \in Range(curl) :
                          /\ c.to = spec.providers[m].name
                          /\ Expanded(c.var) = URL(spec.providers[m])
    BY DEF ProvidersFromTheirURL
  <2> DEFINE p == spec.providers[m]
             at == {k \in DOMAIN fetch : fetch[k].name = ConvertToEnvName(p.name)}
  <2>1. /\ spec.providers \in Seq(Provider)
        /\ DOMAIN spec.providers = 1..Len(spec.providers)
        /\ Fetched(Len(spec.providers))
    BY DEF FetchInv, KeycloakSpec
  <2>2. /\ DOMAIN fetch = DOMAIN spec.providers
        /\ DOMAIN curl = DOMAIN spec.providers
        /\ \A k \in DOMAIN spec.providers :
              /\ spec.providers[k].name # <<>>
              /\ fetch[k] = FetchVar(spec.providers[k])
              /\ curl[k] = CurlOf(spec.providers[k])
    BY <2>1 DEF Fetched
  <2>3. \A k \in DOMAIN spec.providers : spec.providers[k].name \in Seq(Chars)
    <3>1. \A k \in DOMAIN spec.providers : spec.providers[k] \in Provider
      BY <2>1
    <3> QED  BY <3>1 DEF Provider
  <2> HIDE DEF p
  <2>4. /\ fetch[m].name = ConvertToEnvName(p.name) /\ fetch[m].from = URL(p)
        /\ curl[m].to = p.name /\ curl[m].var = ConvertToEnvName(p.name)
    <3>1. fetch[m] = FetchVar(p) /\ curl[m] = CurlOf(p)
      BY <2>2 DEF p
    <3> QED  BY <3>1 DEF FetchVar, CurlOf
  <2>5. ASSUME NEW k \in at PROVE k = m
    <3> DEFINE q == spec.providers[k]
    <3>1. k \in DOMAIN spec.providers /\ fetch[k] = FetchVar(q)
      BY <2>2
    <3> HIDE DEF q
    <3>2. FetchVar(q).name = ConvertToEnvName(q.name)
      BY DEF FetchVar
    <3>3. ConvertToEnvName(q.name) = ConvertToEnvName(p.name)
      BY <2>5, <3>1, <3>2
    <3>4. Alike(p.name, q.name)
      BY <2>2, <2>3, <3>1, <3>3, SharedVariable DEF p, q
    <3> QED  BY <3>1, <3>4 DEF p, q
  <2>6. at = {m} /\ m \in Nat
    BY <2>1, <2>2, <2>4, <2>5
  <2>7. (CHOOSE k \in at : \A l \in at : l <= k) = m
    <3> HIDE DEF at
    <3> QED  BY <2>6
  <2>8. Expanded(curl[m].var) = URL(p)
    BY <2>4, <2>7 DEF Expanded
  <2>9. curl[m] \in Range(curl)
    BY <2>2 DEF Range
  <2> QED  BY <2>4, <2>8, <2>9 DEF p
<1> QED  BY <1>1, <1>2, <1>3, PTL DEF Spec
-----------------------------------------------------------------------------
(***************************************************************************)
(* The realm file: what stands in it after m symbols of a value denotes    *)
(* these, with the backslashes at the positions in esc dropped.            *)
(***************************************************************************)
Read(text, value, esc, p) ==
    IF p \in esc THEN p + 1 \in DOMAIN text \ esc
    ELSE /\ p - 1 \in esc \/ text[p] \notin Special
         /\ value[p - Cardinality(esc \cap 1..p)] = text[p]

Fits(text, value, m, esc) ==
    /\ esc \subseteq {p \in DOMAIN text : text[p] = "backslash"}
    /\ Len(text) = m + Cardinality(esc)
    /\ \A p \in DOMAIN text : Read(text, value, esc, p)

One(a, c) == a \o <<c>>
Two(a, b, c) == a \o <<b, c>>

\* A sequence with one more element at its end.
LEMMA OneMore ==
    ASSUME NEW S, NEW a \in Seq(S), NEW c \in S
    PROVE  /\ Len(a) \in Nat /\ One(a, c) \in Seq(S)
           /\ Len(One(a, c)) = Len(a) + 1
           /\ DOMAIN One(a, c) = 1..(Len(a) + 1) /\ DOMAIN a = 1..Len(a)
           /\ \A p \in 1..Len(a) : One(a, c)[p] = a[p]
           /\ One(a, c)[Len(a) + 1] = c
<1>1. Len(a) \in Nat /\ a \o <<c>> \in Seq(S) /\ DOMAIN a = 1..Len(a)
  OBVIOUS
<1>2. Len(a \o <<c>>) = Len(a) + 1
  OBVIOUS
<1>3. DOMAIN (a \o <<c>>) = 1..(Len(a) + 1)
  OBVIOUS
<1>4. \A p \in 1..Len(a) : (a \o <<c>>)[p] = a[p]
  OBVIOUS
<1>5. (a \o <<c>>)[Len(a) + 1] = c
  OBVIOUS
<1> QED  BY <1>1, <1>2, <1>3, <1>4, <1>5, Zenon DEF One

\* A sequence with two more elements at its end.
LEMMA TwoMore ==
    ASSUME NEW S, NEW a \in Seq(S), NEW b \in S, NEW c \in S
    PROVE  /\ Len(a) \in Nat /\ Two(a, b, c) \in Seq(S)
           /\ Len(Two(a, b, c)) = Len(a) + 2
           /\ DOMAIN Two(a, b, c) = 1..(Len(a) + 2) /\ DOMAIN a = 1..Len(a)
           /\ \A p \in 1..Len(a) : Two(a, b, c)[p] = a[p]
           /\ Two(a, b, c)[Len(a) + 1] = b /\ Two(a, b, c)[Len(a) + 2] = c
<1>1. Len(a) \in Nat /\ a \o <<b, c>> \in Seq(S) /\ DOMAIN a = 1..Len(a)
  OBVIOUS
<1>2. Len(a \o <<b, c>>) = Len(a) + 2
  OBVIOUS
<1>3. DOMAIN (a \o <<b, c>>) = 1..(Len(a) + 2)
  OBVIOUS
<1>4. \A p \in 1..Len(a) : (a \o <<b, c>>)[p] = a[p]
  OBVIOUS
<1>5. (a \o <<b, c>>)[Len(a) + 1] = b
  OBVIOUS
<1>6. (a \o <<b, c>>)[Len(a) + 2] = c
  OBVIOUS
<1> QED  BY <1>1, <1>2, <1>3, <1>4, <1>5, <1>6, Zenon DEF Two

\* The positions of dropped backslashes are finitely many.
LEMMA Dropped ==
    ASSUME NEW L \in Nat, NEW esc, esc \subseteq 1..L
    PROVE  /\ IsFiniteSet(esc) /\ Cardinality(esc) \in Nat
           /\ \A q \in Nat : q >= L => esc \cap 1..q = esc
<1>1. IsFiniteSet(1..L)
  BY FS_Interval
<1>2. IsFiniteSet(esc)
  BY <1>1, FS_Subset
<1>3. Cardinality(esc) \in Nat
  BY <1>2, FS_CardinalityType
<1>4. ASSUME NEW q \in Nat, q >= L PROVE esc \cap 1..q = esc
  <2>1. ASSUME NEW p \in esc PROVE p \in 1..q
    <3>1. p \in 1..L
      BY <2>1
    <3> QED  BY <1>4, <3>1
  <2> QED  BY <2>1, Zenon
<1> QED  BY <1>2, <1>3, <1>4

\* A symbol that needs no escaping.
LEMMA BareSymbol ==
    ASSUME NEW text \in Seq(Symbols), NEW value, NEW m \in Nat, NEW esc,
           Fits(text, value, m, esc),
           NEW c \in Symbols, c \notin Special, value[m + 1] = c
    PROVE  Fits(One(text, c), value, m + 1, esc)
<1> DEFINE L == Len(text)
           more == One(text, c)
<1>1. /\ L \in Nat /\ Len(more) = L + 1
      /\ DOMAIN more = 1..(L + 1) /\ DOMAIN text = 1..L
      /\ \A p \in 1..L : more[p] = text[p]
      /\ more[L + 1] = c
  <2> DEFINE S == Symbols
  <2> HIDE DEF S
  <2>1. text \in Seq(S) /\ c \in S
    BY DEF S
  <2> QED  BY <2>1, OneMore
<1>2. /\ esc \subseteq 1..L /\ L = m + Cardinality(esc)
      /\ \A p \in esc : text[p] = "backslash"
      /\ \A p \in 1..L : Read(text, value, esc, p)
  BY <1>1 DEF Fits
<1> HIDE DEF L, more
<1>3. Cardinality(esc) \in Nat /\ esc \cap 1..(L + 1) = esc
  <2>1. L + 1 \in Nat /\ L + 1 >= L
    BY <1>1
  <2> QED  BY <1>1, <1>2, <2>1, Dropped, Zenon
<1>4. esc \subseteq {p \in DOMAIN more : more[p] = "backslash"}
  BY <1>1, <1>2
<1>5. Len(more) = (m + 1) + Cardinality(esc)
  BY <1>1, <1>2, <1>3
<1>6. ASSUME NEW p \in DOMAIN more PROVE Read(more, value, esc, p)
  <2>1. CASE p \in 1..L
    <3>1. Read(text, value, esc, p) /\ more[p] = text[p]
      BY <1>1, <1>2, <2>1
    <3>2. DOMAIN text \ esc \subseteq DOMAIN more \ esc
      BY <1>1
    <3> QED  BY <3>1, <3>2 DEF Read
  <2>2. CASE p = L + 1
    <3>1. p \notin esc /\ p - Cardinality(esc) = m + 1
      BY <1>1, <1>2, <1>3, <2>2
    <3> QED  BY <1>1, <1>3, <2>2, <3>1 DEF Read
  <2> QED  BY <1>1, <2>1, <2>2
<1> QED  BY <1>4, <1>5, <1>6 DEF Fits, more

\* A symbol that is escaped.
LEMMA EscapedSymbol ==
    ASSUME NEW text \in Seq(Symbols), NEW value, NEW m \in Nat, NEW esc,
           Fits(text, value, m, esc),
           NEW b \in Symbols, b = "backslash",
           NEW c \in Symbols, value[m + 1] = c
    PROVE  Fits(Two(text, b, c), value, m + 1, esc \cup {Len(text) + 1})
<1> DEFINE L == Len(text)
           more == Two(text, b, c)
           esc2 == esc \cup {L + 1}
<1>1. /\ L \in Nat /\ Len(more) = L + 2
      /\ DOMAIN more = 1..(L + 2) /\ DOMAIN text = 1..L
      /\ \A p \in 1..L : more[p] = text[p]
      /\ more[L + 1] = b /\ more[L + 2] = c
  BY TwoMore
<1>2. /\ esc \subseteq 1..L /\ L = m + Cardinality(esc)
      /\ \A p \in esc : text[p] = "backslash"
      /\ \A p \in 1..L : Read(text, value, esc, p)
  BY <1>1 DEF Fits
<1> HIDE DEF L, more
<1>3. IsFiniteSet(esc) /\ Cardinality(esc) \in Nat /\ L + 1 \notin esc
  <2>1. L + 1 \notin 1..L
    BY <1>1
  <2> QED  BY <1>1, <1>2, <2>1, Dropped, Zenon
<1>4. Cardinality(esc2) = Cardinality(esc) + 1
  BY <1>3, FS_AddElement
<1>5. ASSUME NEW p \in esc2
      PROVE  p \in 1..(L + 2) /\ more[p] = "backslash"
  <2>1. CASE p \in esc
    <3>1. p \in 1..L
      BY <1>2, <2>1
    <3>2. p \in 1..(L + 2)
      BY <1>1, <3>1
    <3> QED  BY <1>1, <1>2, <2>1, <3>1, <3>2
  <2>2. CASE p = L + 1
    BY <1>1, <2>2
  <2> QED  BY <2>1, <2>2
<1>6. /\ esc2 \cap 1..(L + 2) = esc2
      /\ esc2 \subseteq {p \in DOMAIN more : more[p] = "backslash"}
  <2> HIDE DEF esc2
  <2> QED  BY <1>1, <1>5, Zenon
<1>7. Len(more) = (m + 1) + Cardinality(esc2)
  BY <1>1, <1>2, <1>3, <1>4
<1>8. ASSUME NEW p \in DOMAIN more PROVE Read(more, value, esc2, p)
  <2>1. CASE p \in 1..L
    <3>1. Read(text, value, esc, p) /\ more[p] = text[p]
      BY <1>1, <1>2, <2>1
    <3>2. /\ p \in esc2 <=> p \in esc
          /\ p - 1 \in esc => p - 1 \in esc2
      BY <1>1, <2>1
    <3>3. esc2 \cap 1..p = esc \cap 1..p
      BY <1>1, <2>1
    <3>4. p + 1 \in DOMAIN text \ esc => p + 1 \in DOMAIN more \ esc2
      BY <1>1, <2>1
    <3> HIDE DEF esc2
    <3> QED  BY <3>1, <3>2, <3>3, <3>4 DEF Read
  <2>2. CASE p = L + 1
    <3>1. p \in esc2 /\ p + 1 = L + 2 /\ p + 1 \in DOMAIN more
      BY <1>1, <2>2
    <3>2. L + 2 \notin esc2
      BY <1>1, <1>2
    <3> QED  BY <3>1, <3>2 DEF Read
  <2>3. CASE p = L + 2
    <3>1. p \notin esc2 /\ p - 1 \in esc2
      BY <1>1, <1>2, <2>3
    <3> HIDE DEF esc2
    <3>2. p - Cardinality(esc2) = m + 1
      BY <1>1, <1>2, <1>3, <1>4, <2>3
    <3> QED  BY <1>1, <1>6, <2>3, <3>1, <3>2 DEF Read
  <2> QED  BY <1>1, <2>1, <2>2, <2>3
<1> QED  BY <1>6, <1>7, <1>8 DEF Fits, more, L

Denoted(m) == \E esc : Fits(file, spec.value, m, esc)

MarshalInv ==
    /\ spec \in KeycloakSpec /\ file \in Seq(Symbols)
    /\ pc \in {"providers", "options", "job", "failed"} => file = <<>>
    /\ pc = "marshal" => n \in 0..Len(spec.value) /\ Denoted(n)
    /\ pc = "done" /\ ~IsPEM(spec.value) => Denoted(Len(spec.value))

\* One more symbol.
LEMMA SymbolMarshalled ==
    ASSUME MarshalInv, Marshal
    PROVE  MarshalInv'
<1> DEFINE value == spec.value
           c == value[n + 1]
<1>1. /\ pc = "marshal" /\ spec' = spec
      /\ n \in 0..Len(value) /\ Denoted(n)
      /\ spec \in KeycloakSpec /\ file \in Seq(Symbols)
  BY DEF Marshal, MarshalInv
<1>2. value \in Seq(Symbols) /\ Len(value) \in Nat
  BY <1>1 DEF KeycloakSpec
<1>3. PICK esc : Fits(file, value, n, esc)
  BY <1>1 DEF Denoted
<1>4. CASE n < Len(value) /\ file' = file \o Escape(c) /\ n' = n + 1 /\ pc' = pc
  <2>1. n \in Nat /\ n + 1 \in 1..Len(value)
    BY <1>1, <1>2, <1>4
  <2>2. c \in Symbols
    BY <1>2, <2>1
  <2> HIDE DEF c
  <2>3. file' \in Seq(Symbols) /\ \E e : Fits(file', value, n + 1, e)
    <3>1. CASE c \notin Special
      <4>1. file' = One(file, c)
        BY <1>4, <3>1 DEF Escape, One
      <4>2. One(file, c) \in Seq(Symbols)
        BY <1>1, <2>2, OneMore
      <4>3. Fits(One(file, c), value, n + 1, esc)
        BY <1>1, <1>3, <2>1, <2>2, <3>1, BareSymbol DEF c
      <4> QED  BY <4>1, <4>2, <4>3
    <3>2. CASE c \in Special
      <4>1. PICK b \in Symbols : b = "backslash"
        BY DEF Symbols
      <4>2. file' = Two(file, b, c)
        BY <1>4, <3>2, <4>1 DEF Escape, Two
      <4>3. Two(file, b, c) \in Seq(Symbols)
        BY <1>1, <2>2, TwoMore
      <4>4. Fits(Two(file, b, c), value, n + 1, esc \cup {Len(file) + 1})
        BY <1>1, <1>3, <2>1, <2>2, <4>1, EscapedSymbol DEF c
      <4> QED  BY <4>2, <4>3, <4>4
    <3> QED  BY <3>1, <3>2
  <2>4. n' \in 0..Len(value) /\ Denoted(n)'
    BY <1>1, <1>2, <1>4, <2>1, <2>3 DEF Denoted
  <2> QED  BY <1>1, <1>4, <2>3, <2>4 DEF MarshalInv
<1>5. CASE n = Len(value) /\ pc' = "done" /\ file' = file
  <2>1. Denoted(Len(spec.value))'
    BY <1>1, <1>5 DEF Denoted
  <2> QED  BY <1>1, <1>5, <2>1 DEF MarshalInv
<1> QED  BY <1>4, <1>5 DEF Marshal, Goto

\* Whatever the length of a value, it is read back from the realm file as it was
\* unless it is taken for a PEM block.
THEOREM ReadBack == Spec => []ValuesReadBack
<1>1. Init => MarshalInv
  <2> SUFFICES ASSUME Init PROVE MarshalInv
    OBVIOUS
  <2>1. file \in Seq(Symbols)
    BY DEF Init
  <2> QED  BY <2>1, BuildsAssumption DEF Init, MarshalInv
<1>2. MarshalInv /\ [Next]_vars => MarshalInv'
  <2> SUFFICES ASSUME MarshalInv, [Next]_vars PROVE MarshalInv'
    OBVIOUS
  <2>1. CASE Marshal
    BY <2>1, SymbolMarshalled
  <2>2. CASE FillIn
    <3>1. spec' = spec /\ spec \in KeycloakSpec /\ file = <<>>
      BY <2>2 DEF FillIn, MarshalInv
    <3>2. spec.value \in Seq(Symbols) /\ Len(spec.value) \in Nat
      BY <3>1 DEF KeycloakSpec
    <3>3. CASE IsPEM(spec.value)
      <4>1. file' = spec.value /\ pc' = "done"
        BY <2>2, <3>3 DEF FillIn, Goto
      <4> QED  BY <3>1, <3>2, <3>3, <4>1 DEF MarshalInv
    <3>4. CASE ~IsPEM(spec.value)
      <4>1. file' = <<>> /\ pc' = "marshal" /\ n' = 0
        BY <2>2, <3>1, <3>4 DEF FillIn, Goto
      <4>2. Fits(<<>>, spec.value, 0, {})
        BY FS_EmptySet DEF Fits
      <4>3. Denoted(n)'
        BY <3>1, <4>1, <4>2 DEF Denoted
      <4>4. file' \in Seq(Symbols) /\ n' \in 0..Len(spec.value)
        BY <3>2, <4>1
      <4> QED  BY <3>1, <4>1, <4>3, <4>4 DEF MarshalInv
    <3> QED  BY <3>3, <3>4
  <2>3. CASE AddProvider \/ SetDefaults \/ AddOption \/ DecorateSizing \/ BuildJob
    BY <2>3 DEF AddProvider, SetDefaults, AddOption, DecorateSizing, BuildJob,
                Goto, MarshalInv
  <2>4. CASE UNCHANGED vars
    BY <2>4 DEF vars, MarshalInv, Denoted
  <2> QED  BY <2>1, <2>2, <2>3, <2>4 DEF Next
<1>3. MarshalInv => ValuesReadBack
  <2> SUFFICES ASSUME MarshalInv, pc = "done",
                      \A k \in DOMAIN spec.value : spec.value[k] # "BEGIN"
               PROVE  Denotes(file, spec.value)
    BY DEF ValuesReadBack
  <2>1. PICK esc : Fits(file, spec.value, Len(spec.value), esc)
    BY DEF MarshalInv, IsPEM, Denoted
  <2> QED  BY <2>1 DEF Fits, Read, Denotes
<1> QED  BY <1>1, <1>2, <1>3, PTL DEF Spec
=============================================================================
