----------------------------- MODULE Manifests ------------------------------
(***************************************************************************)
(* What the operator writes into the objects it builds: the pod template of*)
(* the server (RHBKStatefulSet.Build), the pod template of the import job  *)
(* that is made from it (realm.Build), and a value that is filled into the *)
(* realm file (EscapeString).  One build is one behaviour, with a step for *)
(* each iteration of a loop.                                               *)
(***************************************************************************)
EXTENDS Sizing, SequencesExt

CONSTANTS
    Lower, Digits, Marks,  \* characters of provider names, next to "_"
    ToUpper,               \* strings.ToUpper, for a character of a name
    Texts, NoText,         \* values and keys of secrets; the empty string
    Builds                 \* the specs to build from

(***************************************************************************)
(* A SecretOption has a value, a secret or both.  A variable of the        *)
(* environment comes from one of them.  Literals of the code are "fixed".  *)
(***************************************************************************)
SecretOption == [value: Texts \cup {NoText}, secret: Texts \cup {NoText}]

Value(text) == <<"value", text>>
Secret(text) == <<"secret", text>>
From == {"value", "secret"} \X (Texts \cup {NoText, "fixed", "local", "false"})

Option == [name: STRING, value: Texts \cup {NoText}, secret: Texts \cup {NoText}]

Chars == Lower \cup {ToUpper[c] : c \in Lower} \cup Digits \cup Marks \cup {"_"}

Provider == [name: Seq(Chars), url: SecretOption]

\* login: the SecretOptions of the admin user and of the database.
\* value: a value of a substitution, as symbols of a JSON string; "BEGIN" is the
\* mark at either end of a PEM block.
Symbols == {"plain", "quote", "newline", "backslash", "BEGIN"}

KeycloakSpec == [database: BOOLEAN, proxy: BOOLEAN, login: SecretOption,
                 options: Seq(Option), providers: Seq(Provider),
                 sized: BOOLEAN, sizing: Sizes, instances: Nat,
                 value: Seq(Symbols)]

ASSUME BuildsAssumption == /\ Builds \subseteq KeycloakSpec
                           /\ Rates \subseteq Int

\* No letter becomes a "_".
ASSUME ToUpperAssumption == /\ ToUpper \in [Chars -> Chars]
                            /\ \A c \in Chars : ToUpper[c] = "_" <=> c = "_"

VARIABLES
    spec,      \* what is built from
    pc,        \* where the build is
    n,         \* iterations of the loop that have been done
    fetch,     \* the environment of the init container
    curl,      \* its command: what is fetched into which file
    env,       \* the environment of the server
    limits,    \* the resources of the server
    job,       \* the environment of the import job
    file       \* the value as it is filled into the realm file

vars == <<spec, pc, n, fetch, curl, env, limits, job, file>>

-----------------------------------------------------------------------------
(***************************************************************************)
(* The providers that the init container fetches.                          *)
(***************************************************************************)
Sanitize(c) == IF c \in Marks THEN "_" ELSE c

\* ConvertToEnvName.  A digit must not come first.
ConvertByDroppingDigit(input) ==
    LET sanitized == [k \in DOMAIN input |-> Sanitize(input[k])]
        prefixed == IF sanitized[1] \in Digits
                    THEN [sanitized EXCEPT ![1] = "_"] ELSE sanitized
    IN  [k \in DOMAIN prefixed |-> ToUpper[prefixed[k]]]

ConvertToEnvName(input) ==
    LET sanitized == [k \in DOMAIN input |-> Sanitize(input[k])]
        prefixed == IF sanitized[1] \in Digits
                    THEN <<"_">> \o sanitized ELSE sanitized
    IN  [k \in DOMAIN prefixed |-> ToUpper[prefixed[k]]]

\* The URL of a provider: the value, if there is one.
URL(p) == IF p.url.value # NoText THEN Value(p.url.value)
          ELSE Secret(p.url.secret)

-----------------------------------------------------------------------------
(***************************************************************************)
(* The environment of the server.                                          *)
(***************************************************************************)
Fixed(names) == [k \in DOMAIN names |->
                    [name |-> names[k], from |-> Value("fixed")]]

\* getENV: the secret, if there is one.
getENV(name, selector) ==
    [name |-> name,
     from |-> IF selector.secret # NoText THEN Secret(selector.secret)
              ELSE Value(selector.value)]

\* What Build passes to DecorateENV.
ServerEnv(s) ==
    Fixed(<<"KC_HOSTNAME", "KC_HTTPS_PORT", "KC_HTTP_MANAGEMENT_PORT",
            "KC_HEALTH_ENABLED", "KC_CACHE", "KC_CACHE_STACK">>)
    \o <<getENV("KC_BOOTSTRAP_ADMIN_USERNAME", s.login),
         getENV("KC_BOOTSTRAP_ADMIN_PASSWORD", s.login)>>
    \o Fixed(<<"KC_TRUSTSTORE_PATHS", "KC_TRACING_SERVICE_NAME",
               "KC_TRACING_RESOURCE_ATTRIBUTES", "KC_METRICS_ENABLED",
               "KC_HTTPS_CERTIFICATE_FILE", "KC_HTTPS_CERTIFICATE_KEY_FILE">>)

DatabaseEnv(s) ==
    IF ~s.database THEN <<>>
    ELSE Fixed(<<"KC_DB">>)
         \o <<getENV("KC_DB_USERNAME", s.login),
              getENV("KC_DB_PASSWORD", s.login),
              getENV("KC_DB_URL_HOST", s.login),
              getENV("KC_DB_URL_PORT", s.login)>>
         \o Fixed(<<"KC_DB_POOL_INITIAL_SIZE", "KC_DB_POOL_MIN_SIZE",
                    "KC_DB_POOL_MAX_SIZE">>)

NetworkEnv(s) ==
    IF s.proxy THEN Fixed(<<"KC_HOSTNAME_STRICT", "KC_PROXY_HEADERS">>)
    ELSE Fixed(<<"KC_HOSTNAME_STRICT", "KC_HTTP_ENABLED", "KC_PROXY_HEADERS">>)

Defaults(s) == ServerEnv(s) \o DatabaseEnv(s) \o NetworkEnv(s)

\* An additional option: the value, if there is one.
Replacement(o) ==
    [name |-> o.name,
     from |-> IF o.value # NoText THEN Value(o.value)
              ELSE IF o.secret # NoText THEN Secret(o.secret)
              ELSE Value(NoText)]

AddEnv(e, variables) == Append(variables, e)

KeepEnv(e, variables) ==
    IF \E k \in DOMAIN variables : variables[k].name = e.name
    THEN variables ELSE Append(variables, e)

AddOrReplaceEnv(e, variables) ==
    LET at == {k \in DOMAIN variables : variables[k].name = e.name} IN
    IF at = {} THEN Append(variables, e)
    ELSE [variables EXCEPT ![CHOOSE k \in at : \A l \in at : k <= l] = e]

-----------------------------------------------------------------------------
(***************************************************************************)
(* The environment of the import job.  The job runs a server of its own,   *)
(* which must not join the cluster of the real one.                        *)
(***************************************************************************)
Modified == {"KC_CACHE", "KC_HEALTH_ENABLED", "KC_CACHE_STACK"}

ForJobKeepingStack(e) ==
    IF e.name = "KC_CACHE" THEN <<[e EXCEPT !.from = Value("local")]>>
    ELSE <<e>>

ForJob(e) ==
    IF e.name = "KC_CACHE_STACK" THEN <<>>
    ELSE IF e.name = "KC_CACHE" THEN <<[e EXCEPT !.from = Value("local")]>>
    ELSE IF e.name = "KC_HEALTH_ENABLED"
         THEN <<[e EXCEPT !.from = Value("false")]>>
    ELSE <<e>>

-----------------------------------------------------------------------------
(***************************************************************************)
(* EscapeString: json.Marshal escapes what may not stand in a JSON string. *)
(* A value that looks like a PEM block is left as it is.                   *)
(***************************************************************************)
Special == {"quote", "newline", "backslash"}

EscapeQuotes(c) == IF c = "quote" THEN <<"backslash", c>> ELSE <<c>>

Escape(c) == IF c \in Special THEN <<"backslash", c>> ELSE <<c>>

IsPEM(value) == \E k \in DOMAIN value : value[k] = "BEGIN"

-----------------------------------------------------------------------------
Init ==
    /\ spec \in Builds
    /\ pc = "providers" /\ n = 0
    /\ fetch = <<>> /\ curl = <<>> /\ env = <<>> /\ job = <<>> /\ file = <<>>
    /\ limits = [request |-> 0, limit |-> 0, limited |-> FALSE]

Goto(label) == pc' = label /\ n' = 0

\* GetInitContainer, for one provider.  An empty name makes ConvertToEnvName
\* index beyond it: the panic ends the reconcile and nothing is built.
AddProvider ==
    /\ pc = "providers" /\ n < Len(spec.providers)
    /\ LET p == spec.providers[n + 1] IN
       \/ /\ p.name # <<>>
          /\ fetch' = Append(fetch, [name |-> ConvertToEnvName(p.name),
                                     from |-> URL(p)])
          /\ curl' = Append(curl, [to |-> p.name,
                                   var |-> ConvertToEnvName(p.name)])
          /\ n' = n + 1 /\ UNCHANGED pc
       \/ /\ p.name = <<>>
          /\ Goto("failed") /\ UNCHANGED <<fetch, curl>>
    /\ UNCHANGED <<spec, env, limits, job, file>>

\* DecorateENV, up to the additional options.
SetDefaults ==
    /\ pc = "providers" /\ n = Len(spec.providers)
    /\ env' = Defaults(spec)
    /\ Goto("options")
    /\ UNCHANGED <<spec, fetch, curl, limits, job, file>>

\* DecorateENV, one of the additional options.
AddOption ==
    /\ pc = "options" /\ n < Len(spec.options)
    /\ env' = AddOrReplaceEnv(Replacement(spec.options[n + 1]), env)
    /\ n' = n + 1
    /\ UNCHANGED <<spec, pc, fetch, curl, limits, job, file>>

\* decorateSizing.  Without sizing there are no CPU requests or limits.
DecorateSizing ==
    /\ pc = "options" /\ n = Len(spec.options)
    /\ \/ /\ ~spec.sized
          /\ UNCHANGED limits
       \/ /\ spec.sized
          /\ limits' \in CalculateResourceLimits(spec.sizing, spec.instances)
    /\ Goto("job")
    /\ UNCHANGED <<spec, fetch, curl, env, job, file>>

\* realm.Build, for one variable of the StatefulSet's container.
BuildJob ==
    /\ pc = "job" /\ n < Len(env)
    /\ job' = job \o ForJob(env[n + 1])
    /\ n' = n + 1
    /\ UNCHANGED <<spec, pc, fetch, curl, env, limits, file>>

\* ImportRealmSecret.CreateOrUpdate, for one value: EscapeString returns it, or
FillIn ==
    /\ pc = "job" /\ n = Len(env)
    /\ IF IsPEM(spec.value)
       THEN file' = spec.value /\ Goto("done")
       ELSE UNCHANGED file /\ Goto("marshal")
    /\ UNCHANGED <<spec, fetch, curl, env, limits, job>>

\* hands it to json.Marshal, symbol by symbol.
Marshal ==
    /\ pc = "marshal"
    /\ \/ /\ n < Len(spec.value)
          /\ file' = file \o Escape(spec.value[n + 1])
          /\ n' = n + 1 /\ UNCHANGED pc
       \/ /\ n = Len(spec.value)
          /\ Goto("done") /\ UNCHANGED file
    /\ UNCHANGED <<spec, fetch, curl, env, limits, job>>

Next == \/ AddProvider \/ SetDefaults \/ AddOption
        \/ DecorateSizing \/ BuildJob \/ FillIn \/ Marshal

Spec == Init /\ [][Next]_vars

-----------------------------------------------------------------------------
(***************************************************************************)
(* Properties.                                                             *)
(***************************************************************************)
Unique(variables) == \A a, b \in DOMAIN variables :
                         variables[a].name = variables[b].name => a = b

\* Neither the server nor the import job is given two values for one variable,
\* of which the kubelet would pick the last: options that repeat a default or
\* each other replace it in AddOrReplaceEnv.
OneValuePerName == Unique(env) /\ Unique(job)

\* "Extra options to load, or override existing ENVs": the server runs with the
\* last option of each name, and with every default that no option names.
OptionsOverride ==
    pc \in {"job", "done"} =>
        /\ \A m \in DOMAIN spec.options :
              (\A l \in DOMAIN spec.options :
                  l > m => spec.options[l].name # spec.options[m].name)
              => Replacement(spec.options[m]) \in Range(env)
        /\ \A e \in Range(Defaults(spec)) :
              (\A m \in DOMAIN spec.options : spec.options[m].name # e.name)
              => e \in Range(env)

\* The server that the import job runs never joins the cluster: whatever the
\* options say it has a local cache and no cache stack.  Apart from that and
\* the health endpoint it is configured like the real one, so that it writes to
\* the same database.
JobStandsAlone ==
    pc = "done" =>
        /\ \A e \in Range(job) : e.name # "KC_CACHE_STACK"
        /\ \E e \in Range(job) : e.name = "KC_CACHE"
        /\ \A e \in Range(job) : e.name = "KC_CACHE" => e.from = Value("local")
        /\ \A e \in Range(env) : e.name \notin Modified => e \in Range(job)
        /\ \A e \in Range(job) : e.name \notin Modified => e \in Range(env)

\* The kubelet puts the last value of a variable into the command.
Expanded(var) ==
    LET at == {k \in DOMAIN fetch : fetch[k].name = var}
    IN  fetch[CHOOSE k \in at : \A l \in at : l <= k].from

\* Names that differ in case and punctuation only, and in the "_" that goes
\* before a digit.
Similar(a, b) ==
    /\ Len(a) = Len(b)
    /\ \A k \in DOMAIN a : \/ ToUpper[a[k]] = ToUpper[b[k]]
                           \/ {a[k], b[k]} \subseteq Marks \cup {"_"}

Alike(a, b) == \/ Similar(a, b)
               \/ Similar(<<"_">> \o a, b) \/ Similar(a, <<"_">> \o b)

\* Every provider is fetched from its own URL, although the name of the variable
\* that holds it loses case and punctuation, unless the names are alike.
ProvidersFromTheirURL ==
    pc = "done" => \A m \in DOMAIN spec.providers :
        LET p == spec.providers[m] IN
        (\A l \in DOMAIN spec.providers \ {m} :
            ~Alike(p.name, spec.providers[l].name))
        => \E c \in Range(curl) : c.to = p.name /\ Expanded(c.var) = URL(p)

\* "The total load will be distributed across all instances": what the instances
\* request together is the load, less at most one thousandth of a core for each
\* of them that truncation may cost; a limit is not below the request.
CpuFollowsLoad ==
    pc \in {"job", "done"} /\ spec.sized =>
        LET Rate(x) == Max({0, x})
            instances == Max({1, spec.instances})
            demand == 8 * Rate(spec.sizing.logins) + Rate(spec.sizing.clients)
                      + Rate(spec.sizing.refreshes)
        IN  /\ instances * limits.request * 120 <= 1000 * demand
            /\ 1000 * demand <= instances * (limits.request + 1) * 120
            /\ limits.limited => limits.request <= limits.limit

\* What a JSON parser makes of the characters between two quotes: a backslash
\* that is not itself escaped is dropped and escapes the next one, and nothing
\* that needs to be escaped stands alone.
Denotes(text, value) ==
    \E esc \in SUBSET {p \in DOMAIN text : text[p] = "backslash"} :
        /\ Len(text) = Len(value) + Cardinality(esc)
        /\ \A p \in DOMAIN text :
              IF p \in esc THEN p + 1 \in DOMAIN text \ esc
              ELSE /\ p - 1 \in esc \/ text[p] \notin Special
                   /\ value[p - Cardinality(esc \cap 1..p)] = text[p]

\* "ensure it's properly escaped": a value that is not taken for a PEM block is
\* read back from the realm file as it was, quotes and newlines included.
ValuesReadBack ==
    pc = "done" /\ (\A k \in DOMAIN spec.value : spec.value[k] # "BEGIN")
    => Denotes(file, spec.value)
=============================================================================
