------------------------------- MODULE Config -------------------------------
(***************************************************************************)
(* What config.yaml and the environment mean to each program that reads    *)
(* them, as pure operators: agent/config.py's schema, agent/registry.py's  *)
(* resolve, the checks of agent/__main__.py and the host names that        *)
(* container/extract-allowlist.sh takes from the file.                     *)
(*                                                                         *)
(* A configuration is [providers, agents, fallback, extra]: providers maps *)
(* a name to its specification, agents a group to its model reference,     *)
(* extra says that the file holds a field or a value the schema forbids.   *)
(***************************************************************************)
EXTENDS Integers, Sequences, FiniteSets

(* A base_url is known by its host; one without a host ("nohost") is still *)
(* a base_url.                                                             *)
NoUrl == ""
NoHost == "nohost"
NoKeyEnv == ""

ProviderSpec(kind, url, keyEnv, models) ==
  [kind |-> kind, url |-> url, keyEnv |-> keyEnv, models |-> models]

(* A reference, split at its first slash; "" is a part that is empty or,   *)
(* without a slash, missing.                                               *)
Ref(provider, model) == [provider |-> provider, model |-> model]
WellFormed(ref) == ref.provider # "" /\ ref.model # ""

Entries(config) == {config.fallback[i] : i \in DOMAIN config.fallback}
Primaries(config) == {config.agents[g] : g \in DOMAIN config.agents}

(* The schema's types.  A file that breaks them is one with extra.         *)
Typed(config) ==
  /\ \A p \in DOMAIN config.providers :
       config.providers[p].kind \in {"openai_compatible", "anthropic"}
  /\ \A ref \in Primaries(config) \union Entries(config) :
       ref \in [provider : STRING, model : STRING]
  /\ config.fallback \in Seq([provider : STRING, model : STRING])

Group == "personal-assistant"
FallbackMaxLength == 5

UrlsGiven(config) ==
  \A p \in DOMAIN config.providers :
    config.providers[p].kind = "openai_compatible" => config.providers[p].url # NoUrl

RefsWellFormed(config) == \A ref \in Primaries(config) \union Entries(config) : WellFormed(ref)

(* Mutated form: only repeats within the list are looked for.              *)
BugFallbackSound(config) ==
  /\ Len(config.fallback) <= FallbackMaxLength
  /\ \A i, j \in DOMAIN config.fallback : config.fallback[i] = config.fallback[j] => i = j

(* _fallback_invariants                                                    *)
FallbackSound(config) ==
  /\ Len(config.fallback) <= FallbackMaxLength
  /\ \A i, j \in DOMAIN config.fallback : config.fallback[i] = config.fallback[j] => i = j
  /\ Entries(config) \intersect Primaries(config) = {}

Valid(config) ==
  /\ ~config.extra
  /\ UrlsGiven(config)
  /\ RefsWellFormed(config)
  /\ FallbackSound(config)

(* config.yaml on disk: absent (Docker mounts a directory in its place),   *)
(* undecodable (not UTF-8), malformed (not YAML) or a configuration.       *)
NoConfig == [form |-> "absent"]
ConfigFile(config) == [form |-> "config", config |-> config]

(* load_config returns; raises ConfigError; or raises what it does not     *)
(* catch.                                                                  *)
Loads(file) == file.form = "config" /\ Valid(file.config)
LoadRaises(file) == file.form = "undecodable"
LoadRefuses(file) == ~Loads(file) /\ ~LoadRaises(file)
-----------------------------------------------------------------------------
(* registry.resolve                                                        *)

(* Deny by default.                                                        *)
Permitted(spec, model) == "*" \in spec.models \/ model \in spec.models

(* A value of the environment: its text without surrounding blanks, and    *)
(* whether there are such blanks.  os.environ.get's default "" and an      *)
(* absent variable are one.                                                *)
Value(text, padded) == [text |-> text, padded |-> padded]
Unset == Value("", FALSE)

Strip(value) == value.text
Truthy(value) == value # Unset

Refused == [provider |-> "none"]
ResolvedProvider(name, spec, key, model) ==
  [provider |-> name, url |-> spec.url, key |-> key, model |-> model]

(* The provider behind a reference, or Refused: ConfigError and            *)
(* NotImplementedError end alike.                                          *)
Resolve(config, ref, env) ==
  LET spec == config.providers[ref.provider]
      key == IF spec.keyEnv = NoKeyEnv THEN Unset ELSE env[spec.keyEnv]
  IN  IF /\ WellFormed(ref)
         /\ ref.provider \in DOMAIN config.providers
         /\ Permitted(spec, ref.model)
         /\ spec.keyEnv # NoKeyEnv => Truthy(key)
         /\ spec.kind # "anthropic"
      THEN ResolvedProvider(ref.provider, spec, key, ref.model)
      ELSE Refused
-----------------------------------------------------------------------------
(* What main demands of a file before it serves, whatever the order in     *)
(* which it looks: names is the set of variables with a value that is not  *)
(* blank.                                                                  *)
Supported(config, ref) ==
  /\ ref.provider \in DOMAIN config.providers
  /\ Permitted(config.providers[ref.provider], ref.model)
  /\ config.providers[ref.provider].kind # "anthropic"

Complete(file, names) ==
  /\ Loads(file)
  /\ Group \in DOMAIN file.config.agents
  /\ \A p \in DOMAIN file.config.providers :
       file.config.providers[p].keyEnv \in names \union {NoKeyEnv}
  /\ \A ref \in {file.config.agents[Group]} \union Entries(file.config) :
       Supported(file.config, ref)
-----------------------------------------------------------------------------
(* extract-allowlist.sh: the hosts of every provider in the file, used or  *)
(* not, valid or not.                                                      *)
HostsOf(file) ==
  IF file.form # "config" THEN {}
  ELSE LET specs == {file.config.providers[p] : p \in DOMAIN file.config.providers}
       IN  ({s.url : s \in specs} \ {NoUrl, NoHost})
           \union {h \in {"api.anthropic.com"} : \E s \in specs : s.kind = "anthropic"}

(* The wizard's pair: build_config_dict, and the variables render_env      *)
(* sets.                                                                   *)
SetupConfig(provider, url, keyEnv, model) ==
  [providers |-> [p \in {provider} |-> ProviderSpec("openai_compatible", url, keyEnv, {model})],
   agents |-> [g \in {Group} |-> Ref(provider, model)],
   fallback |-> <<>>,
   extra |-> FALSE]

SetupEnv(keyEnv) == {"TELEGRAM_BOT_TOKEN", "ALLOWED_TELEGRAM_CHAT_IDS", keyEnv}

(* Mutated form: the list of providers grew and this one did not.          *)
BugForwarded == {"TELEGRAM_BOT_TOKEN", "ALLOWED_TELEGRAM_CHAT_IDS", "OPENROUTER_API_KEY"}

(* docker-compose.yaml: the variables of .env that reach the agent.        *)
Forwarded == {"TELEGRAM_BOT_TOKEN", "ALLOWED_TELEGRAM_CHAT_IDS", "OPENROUTER_API_KEY",
              "DEEPINFRA_API_KEY", "GROQ_API_KEY"}
=============================================================================
