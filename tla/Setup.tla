-------------------------------- MODULE Setup --------------------------------
(***************************************************************************)
(* `kayaclaw init`: agent/init/cli.py's walk through the questions and     *)
(* writers.py's laying down of .env and config.yaml, over any number of    *)
(* runs, each of which may be left with Ctrl-C, killed or fail on a write. *)
(* The answers to the validators' calls (Validators.tla) may differ from   *)
(* one call to the next; ChatCapture.tla models the wait for a message,    *)
(* Config.tla what the agent and the proxy make of the files.              *)
(***************************************************************************)
EXTENDS Config, Validators

CONSTANTS
  Keys,        \* API keys the person may paste
  PrefixOf,    \* PrefixOf[k]: the prefix of key k
  Tokens,      \* bot tokens the person may paste
  Customs,     \* the person's answers to the questions about a custom provider
  MaxRuns      \* bound of the model: runs of init

ASSUME SetupAssumption ==
  /\ "" \notin Keys \union Tokens
  /\ PrefixOf \in [Keys -> Prefixes]
  /\ \A p \in Customs : p.name = "custom"
  /\ MaxRuns \in Nat \ {0}

VARIABLES
  at,         \* where the run is
  asking,     \* whose loop of _retry_validator: "detected", "picked", "token"
  run,        \* number of this run
  provider,   \* provider_key and provider_cfg
  value,      \* raw, then _retry_validator's value
  key,        \* api_key
  accepted,   \* <<host, value>> pairs a service accepted in this run
  agreed,     \* in this run the person chose to overwrite, or there was nothing
  env, cfg,   \* .env and config.yaml
  envTmp, cfgTmp,
  before      \* <<env, cfg>> when this run started

files == <<env, cfg, envTmp, cfgTmp>>
answers == <<provider, value, key, accepted>>
vars == <<at, asking, run, answers, agreed, files, before>>

(* A provider as PROVIDER_DEFAULTS or the person describes it: url stands  *)
(* for base_url and is its host.                                           *)
Provider(name, url, keyEnv, model) ==
  [name |-> name, url |-> url, keyEnv |-> keyEnv, model |-> model]

Defaults == {Provider("openrouter", "openrouter.ai", "OPENROUTER_API_KEY", "llama"),
             Provider("deepinfra", "api.deepinfra.com", "DEEPINFRA_API_KEY", "Llama"),
             Provider("groq", "api.groq.com", "GROQ_API_KEY", "versatile")}
None == Provider("none", "", "", "")
Telegram == "api.telegram.org"

NoFile == [run |-> 0, state |-> "absent"]
Partial == [run |-> run, state |-> "partial"]
EnvFile == [run |-> run, state |-> "whole", provider |-> provider, key |-> key, token |-> value]
CfgFile == [run |-> run, state |-> "whole", provider |-> provider]

HandMade == [run |-> 0, state |-> "whole"]

Over == {"kept", "written", "aborted", "failed"}

Init ==
  /\ at = "docker" /\ asking = "none" /\ run = 1
  /\ provider = None /\ value = "" /\ key = "" /\ accepted = {} /\ agreed = FALSE
  /\ env \in {NoFile, HandMade} /\ cfg \in {NoFile, HandMade}
  /\ envTmp = NoFile /\ cfgTmp = NoFile
  /\ before = <<env, cfg>>

Goto(from, to) == at = from /\ at' = to
Passes(from, to) == Goto(from, to) /\ UNCHANGED <<asking, run, answers, agreed, files, before>>
-----------------------------------------------------------------------------
(* _step_existing_files                                                    *)

Exists(file) == file.state # "absent"

NoSetupYet ==
  /\ ~Exists(env) /\ ~Exists(cfg)
  /\ Goto("docker", "paste") /\ agreed' = TRUE
  /\ UNCHANGED <<asking, run, answers, files, before>>

FoundSetup == (Exists(env) \/ Exists(cfg)) /\ Passes("docker", "existing")

Overwrite ==
  /\ Goto("existing", "paste") /\ agreed' = TRUE
  /\ UNCHANGED <<asking, run, answers, files, before>>

(* Mutated form: "keep" goes on with the setup.                            *)
BugKeep == Passes("existing", "paste")

Keep == Passes("existing", "kept")
-----------------------------------------------------------------------------
(* _step_provider and _step_telegram_token                                 *)

Known(k) == \E p \in Defaults : p.name = DetectProvider[PrefixOf[k]]

(* A key with a known prefix: "Looks like a ... key. Proceed?"             *)
PasteKnown(k) ==
  /\ Known(k) /\ Goto("paste", "proceed")
  /\ value' = k
  /\ provider' \in {p \in Defaults : p.name = DetectProvider[PrefixOf[k]]}
  /\ UNCHANGED <<asking, run, key, accepted, agreed, files, before>>

(* Mutated form: an empty line is taken for a key.                         *)
BugPasteOther == Passes("paste", "check")

(* An empty line, or a key that says nothing of its provider: pick it from *)
(* the list.                                                               *)
PasteOther == Passes("paste", "pick")
Decline == Passes("proceed", "pick")

(* A loop of _retry_validator begins: with a value in hand, or a prompt.   *)
Loop(from, to, whose) ==
  /\ Goto(from, to) /\ asking' = whose
  /\ UNCHANGED <<run, value, key, accepted, agreed, files, before>>

Proceed == Loop("proceed", "check", "detected") /\ UNCHANGED provider

(* One of the list, or "Other" and three lines nobody looks at.            *)
Pick(p) == Loop("pick", "type", "picked") /\ provider' = p

(* The loop's prompt takes an empty line too.                              *)
TypeValue(v) ==
  /\ Goto("type", "check")
  /\ value' = v
  /\ UNCHANGED <<asking, run, provider, key, accepted, agreed, files, before>>

Accepts(answer) ==
  IF asking = "token" THEN TelegramAccepts(value, answer)
  ELSE ProviderAccepts(provider.url, value, answer)

Breaks(answer) ==
  IF asking = "token" THEN TelegramBreaks(value, answer)
  ELSE ProviderBreaks(provider.url, value, answer)

KeyAccepted ==
  /\ asking # "token" /\ \E answer \in Answers : Accepts(answer)
  /\ Goto("check", "type") /\ asking' = "token"
  /\ key' = value
  /\ accepted' = accepted \union {<<provider.url, value>>}
  /\ UNCHANGED <<run, provider, value, agreed, files, before>>

TokenAccepted ==
  /\ asking = "token" /\ \E answer \in Answers : Accepts(answer)
  /\ Goto("check", "chat")
  /\ accepted' = accepted \union {<<Telegram, value>>}
  /\ UNCHANGED <<asking, run, provider, value, key, agreed, files, before>>

(* A verdict of no: diagnostics and the menu.                              *)
Rejected ==
  /\ \E answer \in Answers : ~Accepts(answer) /\ ~Breaks(answer)
  /\ Passes("check", "menu")

(* What the validator does not catch, nobody does.                         *)
CheckBreaks == (\E answer \in Answers : Breaks(answer)) /\ Passes("check", "failed")

(* [r] and [n]                                                             *)
Retry == Passes("menu", "check")
NewValue == Passes("menu", "type")

InDetected == asking = "detected" /\ at \in {"check", "menu", "type"}

(* Mutated form: the key that was not accepted goes on to the next step.   *)
BugSwitchToPicker ==
  /\ InDetected /\ at' = "type" /\ asking' = "token" /\ key' = value
  /\ UNCHANGED <<run, provider, value, accepted, agreed, files, before>>

(* [q] or Ctrl-C while the detected provider's key is checked.             *)
SwitchToPicker == InDetected /\ Passes(at, "pick")

ChatChosen == Passes("chat", "render")
-----------------------------------------------------------------------------
(* write_files: each file is written whole beside its place, then renamed  *)
(* into it.                                                                *)

RenderBad == Passes("render", "failed")
Rendered == Passes("render", "openEnv")

WriteTmp(from, to, newEnvTmp, newCfgTmp) ==
  /\ Goto(from, to)
  /\ envTmp' = newEnvTmp /\ cfgTmp' = newCfgTmp
  /\ UNCHANGED <<asking, run, answers, agreed, env, cfg, before>>

(* Mutated form: a temporary file that is there already is taken as it is. *)
BugOpenEnvTmp ==
  IF Exists(envTmp) THEN Passes("openEnv", "openCfg")
  ELSE WriteTmp("openEnv", "fillEnv", Partial, cfgTmp)

OpenEnvTmp == WriteTmp("openEnv", "fillEnv", Partial, cfgTmp)
FillEnvTmp == WriteTmp("fillEnv", "openCfg", EnvFile, cfgTmp)

(* Mutated form: config.yaml itself is opened for writing.                 *)
BugOpenCfgTmp ==
  /\ Goto("openCfg", "fillCfg")
  /\ cfgTmp' = Partial /\ cfg' = Partial
  /\ UNCHANGED <<asking, run, answers, agreed, env, envTmp, before>>

OpenCfgTmp == WriteTmp("openCfg", "fillCfg", envTmp, Partial)
FillCfgTmp == WriteTmp("fillCfg", "renameEnv", envTmp, CfgFile)

RenameEnv ==
  /\ Goto("renameEnv", "renameCfg")
  /\ env' = envTmp /\ envTmp' = NoFile
  /\ UNCHANGED <<asking, run, answers, agreed, cfg, cfgTmp, before>>

RenameCfg ==
  /\ Goto("renameCfg", "written")
  /\ cfg' = cfgTmp /\ cfgTmp' = NoFile
  /\ UNCHANGED <<asking, run, answers, agreed, env, envTmp, before>>

Writing == {"openEnv", "fillEnv", "openCfg", "fillCfg", "renameEnv", "renameCfg"}

(* OSError: _step_write reports it and raises it again.                    *)
WriteFails == \E from \in Writing : Passes(from, "failed")
-----------------------------------------------------------------------------
(* Ctrl-C, or [q] where nothing catches it: main's except clause.          *)
Abort ==
  /\ ~InDetected
  /\ \E from \in {"existing", "paste", "proceed", "pick", "type", "check", "menu", "chat",
                  "render"} \union Writing : Passes(from, "aborted")

Kill == at \notin Over /\ Passes(at, "failed")

RunAgain ==
  /\ at \in Over /\ run < MaxRuns
  /\ at' = "docker" /\ run' = run + 1
  /\ asking' = "none" /\ agreed' = FALSE
  /\ provider' = None /\ value' = "" /\ key' = "" /\ accepted' = {}
  /\ before' = <<env, cfg>>
  /\ UNCHANGED files

Ended == at \in Over /\ run = MaxRuns /\ UNCHANGED vars

Next ==
  \/ NoSetupYet
  \/ FoundSetup
  \/ Overwrite
  \/ Keep
  \/ \E k \in Keys : PasteKnown(k)
  \/ PasteOther
  \/ Proceed
  \/ Decline
  \/ \E p \in Defaults \union Customs : Pick(p)
  \/ \E v \in (IF asking = "token" THEN Tokens ELSE Keys) \union {""} : TypeValue(v)
  \/ KeyAccepted
  \/ TokenAccepted
  \/ Rejected
  \/ CheckBreaks
  \/ Retry
  \/ NewValue
  \/ SwitchToPicker
  \/ ChatChosen
  \/ RenderBad
  \/ Rendered
  \/ OpenEnvTmp
  \/ FillEnvTmp
  \/ OpenCfgTmp
  \/ FillCfgTmp
  \/ RenameEnv
  \/ RenameCfg
  \/ WriteFails
  \/ Abort
  \/ Kill
  \/ RunAgain
  \/ Ended

Spec == Init /\ [][Next]_vars
-----------------------------------------------------------------------------
FileStates == {"absent", "partial", "whole"}

TypeOK ==
  /\ run \in 1 .. MaxRuns
  /\ asking \in {"none", "detected", "picked", "token"}
  /\ at \in {"type", "check", "menu"} => asking # "none"
  /\ provider \in Defaults \union Customs \union {None}
  /\ value \in Keys \union Tokens \union {""} /\ key \in Keys \union {""}
  /\ agreed \in BOOLEAN
  /\ \A file \in {env, cfg, envTmp, cfgTmp} :
       file.run \in 0 .. run /\ file.state \in FileStates

(* .env and config.yaml are never half written, whenever the wizard is     *)
(* interrupted or killed (writers.py 3-5, 116-119).                        *)
NoHalfFile == {env.state, cfg.state} \subseteq {"absent", "whole"}

(* A run that says "All set" leaves a pair of its own making, whatever     *)
(* earlier runs left behind (writers.py 111-119).                          *)
FinishedPairMatches ==
  at = "written" => env.run = run /\ cfg.run = run /\ env.provider = cfg.provider

(* The key that reaches .env was accepted by the provider written with it, *)
(* and the token by Telegram, through detection, switching to the picker,  *)
(* new values and retries (cli.py 218-299).                                *)
WrittenKeyAccepted ==
  env.run = run =>
    {<<env.provider.url, env.key>>, <<Telegram, env.token>>} \subseteq accepted

(* A setup that exists is replaced only after "Overwrite" (cli.py          *)
(* 344-366, 415).                                                          *)
AskedBeforeOverwriting == <<env, cfg>> # before => agreed

(* "Setup aborted. Nothing was written."                                   *)
AbortWritesNothing == at = "aborted" => <<env, cfg>> = before

(* What the agent finds in the files: config.yaml, and of .env what        *)
(* docker-compose.yaml hands on.                                           *)
Starts ==
  LET p == cfg.provider
  IN  Complete(ConfigFile(SetupConfig(p.name, p.url, p.keyEnv, p.model)),
               SetupEnv(env.provider.keyEnv) \intersect Forwarded)

(* After "All set" with a provider of the list the agent's own checks find *)
(* nothing missing: the wizard's table, the files it renders, the variables*)
(* that reach the container and the checks at boot agree (cli.py 96-117,   *)
(* writers.py 32-70, docker-compose.yaml 61-71, __main__.py 44-83).        *)
KnownPairStarts == at = "written" /\ env.provider \in Defaults => Starts
=============================================================================
