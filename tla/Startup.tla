------------------------------- MODULE Startup -------------------------------
(***************************************************************************)
(* One start of the agent's container: container/entrypoint.sh, then       *)
(* agent/__main__.py's main through config.py, registry.py and memory.py   *)
(* to connectors/telegram.py's run, until it polls or the process ends.    *)
(* Everything it is given stays as it is for the length of a start.        *)
(***************************************************************************)
EXTENDS Config

CONSTANTS
  Files,        \* contents of config.yaml
  KeyVars,      \* names that api_key_env may give
  ApiKeyVars,   \* those that end in _API_KEY
  ChatIdLists,  \* ALLOWED_TELEGRAM_CHAT_IDS, split at its commas and stripped
  Chats         \* the integers in them

ASSUME StartupAssumption ==
  /\ ApiKeyVars \subseteq KeyVars
  /\ "" \notin KeyVars
  /\ \A ids \in ChatIdLists : ids \in Seq(Chats \union {"", "word"})
  /\ {"", "word"} \intersect Chats = {}
  /\ \A f \in Files : f.form = "config" =>
       /\ Typed(f.config)
       /\ \A p \in DOMAIN f.config.providers :
            f.config.providers[p].keyEnv \in KeyVars \union {NoKeyEnv}

Token == "TELEGRAM_BOT_TOKEN"
EnvNames == KeyVars \union {Token}

VARIABLES
  file,       \* config.yaml
  env,        \* env[n]: the value of environment variable n
  chatIds,    \* ALLOWED_TELEGRAM_CHAT_IDS
  disk,       \* AGENT_DATA_DIR: "fine", "unwritable", "locked" or "broken"
  at,         \* where the start is
  unchecked,  \* providers whose key main has not looked at yet
  secrets,    \* agent.logging's _SECRETS
  chain,      \* resolved, then resolved_fallbacks
  allowlist,
  how         \* how the process ended

given == <<file, env, chatIds, disk>>
vars == <<file, env, chatIds, disk, at, unchecked, secrets, chain, allowlist, how>>

(* The text of a variable stands for itself; no two hold the same.         *)
ValuesOf(n) == {Unset, Value("", TRUE), Value(n, FALSE), Value(n, TRUE)}

Init ==
  /\ file \in Files
  /\ env \in {e \in [EnvNames -> UNION {ValuesOf(n) : n \in EnvNames}] :
                \A n \in EnvNames : e[n] \in ValuesOf(n)}
  /\ chatIds \in ChatIdLists
  /\ disk \in {"fine", "unwritable", "locked", "broken"}
  /\ at = "entrypoint" /\ unchecked = {} /\ secrets = {} /\ chain = <<>>
  /\ allowlist = {} /\ how = "none"

End(manner) ==
  /\ at' = "ended" /\ how' = manner
  /\ UNCHANGED <<given, unchecked, secrets, chain, allowlist>>

Go(to) == at' = to /\ UNCHANGED <<given, how>>

(* A ConfigError or NotImplementedError inside main's first try: one       *)
(* CRITICAL line and exit 1.                                               *)
Refuse == End("refused")

(* An exception that main lets through.                                    *)
Raise == End("traceback")
-----------------------------------------------------------------------------
(* -d, -w and -f, -r of the entrypoint.                                    *)
MountsUsable == disk # "unwritable" /\ file.form # "absent"

Entrypoint ==
  /\ at = "entrypoint"
  /\ \/ ~MountsUsable /\ End("unmounted")
     \/ MountsUsable /\ Go("main") /\ UNCHANGED <<unchecked, secrets, chain, allowlist>>

(* `init`, and words main does not know.                                   *)
OtherCommand == at = "main" /\ \E manner \in {"wizard", "usage"} : End(manner)

(* Importing agent.logging takes the first secrets from the environment,   *)
(* as they are.                                                            *)
Collected == {env[n] : n \in {m \in ApiKeyVars \union {Token} : Truthy(env[m])}}

Import ==
  /\ at = "main" /\ Go("config")
  /\ secrets' = Collected
  /\ UNCHANGED <<unchecked, chain, allowlist>>

LoadConfig ==
  /\ at = "config"
  /\ \/ LoadRaises(file) /\ Raise
     \/ LoadRefuses(file) /\ Refuse
     \/ Loads(file) /\ Go("group") /\ UNCHANGED <<unchecked, secrets, chain, allowlist>>

config == file.config

FindGroup ==
  /\ at = "group"
  /\ \/ Group \notin DOMAIN config.agents /\ Refuse
     \/ /\ Group \in DOMAIN config.agents /\ Go("keys")
        /\ unchecked' = DOMAIN config.providers
        /\ UNCHANGED <<secrets, chain, allowlist>>

(* Mutated form: only the names the import looks for are registered.       *)
BugRegister(n) == UNCHANGED secrets

(* register_secret(os.environ[n].strip())                                  *)
Register(n) == secrets' = secrets \union {Value(Strip(env[n]), FALSE)}

(* Mutated form: a key that is set only to blanks passes.                  *)
BugKeyMissing(n) == ~Truthy(env[n])

KeyMissing(n) == Strip(env[n]) = ""

CheckKey(p) ==
  LET n == config.providers[p].keyEnv
  IN  /\ at = "keys"
      /\ IF n # NoKeyEnv /\ KeyMissing(n) THEN Refuse
         ELSE /\ Go("keys")
              /\ unchecked' = unchecked \ {p}
              /\ IF n = NoKeyEnv THEN UNCHANGED secrets ELSE Register(n)
              /\ UNCHANGED <<chain, allowlist>>

Primary == Resolve(config, config.agents[Group], env)

ResolvePrimary ==
  /\ at = "keys" /\ unchecked = {}
  /\ \/ Primary = Refused /\ Refuse
     \/ /\ Primary # Refused /\ Go("fallbacks")
        /\ chain' = <<Primary>>
        /\ UNCHANGED <<unchecked, secrets, allowlist>>

Fallback(k) == Resolve(config, config.fallback[k], env)

FallbackJoins ==
  /\ Fallback(Len(chain)) # Refused /\ Go("fallbacks")
  /\ chain' = Append(chain, Fallback(Len(chain)))
  /\ UNCHANGED <<unchecked, secrets, allowlist>>

(* Mutated form: the fallbacks are resolved after the try.                 *)
BugResolveFallback ==
  /\ at = "fallbacks" /\ Len(chain) <= Len(config.fallback)
  /\ FallbackJoins \/ (Fallback(Len(chain)) = Refused /\ Raise)

(* The next entry of the list comprehension.                               *)
ResolveFallback ==
  /\ at = "fallbacks" /\ Len(chain) <= Len(config.fallback)
  /\ FallbackJoins \/ (Fallback(Len(chain)) = Refused /\ Refuse)

(* Memory(default_db_path()): only OperationalError becomes a line.        *)
OpenMemory ==
  /\ at = "fallbacks" /\ Len(chain) > Len(config.fallback)
  /\ \/ disk = "locked" /\ Refuse
     \/ disk = "broken" /\ Raise
     \/ disk = "fine" /\ Go("connector") /\ UNCHANGED <<unchecked, secrets, chain, allowlist>>
-----------------------------------------------------------------------------
(* connectors/telegram.py: run, outside main's first try                   *)

(* Mutated form: empty segments are kept.                                  *)
BugIds == {chatIds[i] : i \in DOMAIN chatIds}

Ids == {chatIds[i] : i \in DOMAIN chatIds} \ {""}

EnvUsable == Strip(env[Token]) # "" /\ "word" \notin Ids /\ Ids # {}

LoadEnv ==
  /\ at = "connector"
  /\ \/ ~EnvUsable /\ Raise
     \/ /\ EnvUsable /\ Go("again")
        /\ allowlist' = Ids
        /\ Register(Token)
        /\ UNCHANGED <<unchecked, chain>>

ResolveAgain ==
  /\ at = "again"
  /\ \/ Primary = Refused /\ Raise
     \/ /\ Primary # Refused /\ Go("connect")
        /\ chain' = [chain EXCEPT ![1] = Primary]
        /\ UNCHANGED <<unchecked, secrets, allowlist>>

(* run_polling's first calls: Telegram takes the token, or InvalidToken or *)
(* NetworkError ends the process.                                          *)
Connect ==
  /\ at = "connect"
  /\ \/ Raise
     \/ Go("serving") /\ UNCHANGED <<unchecked, secrets, chain, allowlist>>

Stop == at = "serving" /\ End("stopped")

Ended == at = "ended" /\ UNCHANGED vars

Next ==
  \/ Entrypoint
  \/ OtherCommand
  \/ Import
  \/ LoadConfig
  \/ FindGroup
  \/ \E p \in unchecked : CheckKey(p)
  \/ ResolvePrimary
  \/ ResolveFallback
  \/ OpenMemory
  \/ LoadEnv
  \/ ResolveAgain
  \/ Connect
  \/ Stop
  \/ Ended

Spec == Init /\ [][Next]_vars
-----------------------------------------------------------------------------
Places == {"entrypoint", "main", "config", "group", "keys", "fallbacks", "connector", "again",
           "connect", "serving", "ended"}

TypeOK ==
  /\ at \in Places
  /\ unchecked \subseteq (IF file.form = "config" THEN DOMAIN config.providers ELSE {})
  /\ secrets \subseteq [text : EnvNames \union {""}, padded : BOOLEAN]
  /\ allowlist \subseteq Chats
  /\ how \in {"none", "unmounted", "wizard", "usage", "refused", "traceback", "stopped"}
  /\ how # "none" <=> at = "ended"

NonBlank == {n \in EnvNames : Strip(env[n]) # ""}

(* The agent serves only with a complete configuration: every reference    *)
(* resolves and every provider in the file, used or not, has a key that is *)
(* not blank, however the checks of stripped and of raw values and the two *)
(* resolutions follow each other (__main__.py 45-83, telegram.py 174-187). *)
ServesOnlyComplete ==
  at = "serving" => Complete(file, NonBlank) /\ allowlist = Ids /\ Ids # {}

(* No start is refused without a cause in what it was given; and none with *)
(* an incomplete configuration or a locked database gets past main: it     *)
(* ends in the one CRITICAL line, unless config.yaml holds bytes that are  *)
(* no text, whichever check meets it first and however the checks of       *)
(* stripped and of raw values differ (__main__.py 44-95).                  *)
RefusedForCause ==
  /\ how = "refused" => ~Complete(file, NonBlank) \/ disk # "fine" \/ ~EnvUsable
  /\ how \in {"traceback", "stopped"} =>
       LoadRaises(file) \/ (Complete(file, NonBlank) /\ disk # "locked")

(* main "converts every startup-failure class into one CRITICAL log": with *)
(* a file that loads and a database that opens no start ends in a          *)
(* traceback, the connector's checks of its own environment and Telegram's *)
(* refusal of the token included (__main__.py 3-4, 98).                    *)
FailuresAreLines ==
  Loads(file) /\ disk = "fine" => how # "traceback"

(* The chain the handler is given tries no model of a provider twice, and  *)
(* each entry has where to go: what Bot.tla assumes of Chain (config.py    *)
(* 40-44, 76-112, registry.py 46-93).                                      *)
ChainSound ==
  at = "serving" =>
    /\ Len(chain) \in 1 .. FallbackMaxLength + 1
    /\ \A i, j \in DOMAIN chain :
         chain[i].provider = chain[j].provider /\ chain[i].model = chain[j].model => i = j
    /\ \A i \in DOMAIN chain : chain[i].url # NoUrl

(* A text that holds value is redacted.                                    *)
Covered(value) == {value, Value(Strip(value), FALSE)} \intersect secrets # {}

(* No key and no token is in use before the scrubber knows it, whatever    *)
(* its variable is called and whatever blanks surround it (logging.py      *)
(* 12-27, __main__.py 54-77, telegram.py 174-179).                         *)
KeysScrubbed ==
  /\ \A i \in DOMAIN chain : Truthy(chain[i].key) => Covered(chain[i].key)
  /\ at \in {"again", "connect", "serving"} => Covered(Value(Strip(env[Token]), FALSE))
=============================================================================
