----------------------------- MODULE Setup_proofs -----------------------------
(***************************************************************************)
(* Theorems about Setup.tla for any keys, prefixes, tokens, custom answers *)
(* and number of runs: what the wizard's files hold, whenever a run is     *)
(* left.                                                                   *)
(***************************************************************************)
EXTENDS Setup, TLAPS

(* Until the key is accepted the run is in no loop about a token.          *)
BeforeKey == at \in {"docker", "existing", "paste", "proceed", "pick"} => asking # "token"

(* What is in hand may become the key, until the token is asked for.       *)
ValueIsKey == asking # "token" => value \in Keys \union {""}

(* A run that asks for the token has a key its provider accepted.          *)
KeyFits == asking = "token" => <<provider.url, key>> \in accepted

(* From the chat id on it has a token, too.                                *)
AfterToken == {"chat", "render", "written"} \union Writing
TokenFits == at \in AfterToken => asking = "token" /\ <<Telegram, value>> \in accepted

Agreed == at \notin {"docker", "existing"} \union Over => agreed

(* What write_files has done so far.                                       *)
Laid ==
  /\ at \in {"openCfg", "fillCfg", "renameEnv"} => envTmp = EnvFile
  /\ at \in {"renameEnv", "renameCfg"} => cfgTmp = CfgFile
  /\ at \in {"renameCfg", "written"} => env = EnvFile
  /\ at = "written" => cfg = CfgFile

(* The answers, the files, and both together.                              *)
Asking == TypeOK /\ BeforeKey /\ ValueIsKey /\ KeyFits /\ TokenFits
Files == Laid /\ NoHalfFile /\ WrittenKeyAccepted
Consent == Agreed /\ AskedBeforeOverwriting

IInv == Asking /\ Files /\ Consent
-----------------------------------------------------------------------------
LEMMA RunsCounted == MaxRuns \in Nat /\ 1 <= MaxRuns
<1>1. MaxRuns \in Nat \ {0}
  BY SetupAssumption, Zenon
<1>2. QED
  BY <1>1

LEMMA InitHolds == Init => IInv
<1> SUFFICES ASSUME Init PROVE IInv
  OBVIOUS
<1>1. TypeOK
  <2>1. \A file \in {NoFile, HandMade} : file.run \in 0 .. 1 /\ file.state \in FileStates
    BY DEF NoFile, HandMade, FileStates
  <2>2. 1 \in 1 .. MaxRuns
    BY RunsCounted
  <2>3. {env, cfg, envTmp, cfgTmp} \subseteq {NoFile, HandMade} /\ run = 1
    BY DEF Init
  <2>4. QED
    BY <2>1, <2>2, <2>3 DEF Init, TypeOK
<1>2. Asking
  BY <1>1 DEF Init, Asking, BeforeKey, ValueIsKey, KeyFits, TokenFits, AfterToken, Writing
<1>3. Files
  <2>1. \A file \in {NoFile, HandMade} : file.run = 0 /\ file.state \in {"absent", "whole"}
    BY DEF NoFile, HandMade
  <2>2. {env, cfg} \subseteq {NoFile, HandMade} /\ run = 1 /\ at = "docker"
    BY DEF Init
  <2>3. NoHalfFile
    BY <2>1, <2>2 DEF NoHalfFile
  <2>4. env.run # run
    BY <2>1, <2>2
  <2>5. QED
    BY <2>2, <2>3, <2>4 DEF Files, Laid, WrittenKeyAccepted
<1>4. Consent
  BY DEF Init, Consent, Agreed, AskedBeforeOverwriting
<1>5. QED
  BY <1>2, <1>3, <1>4 DEF IInv

(* A step that only moves on keeps what does not speak of the place, and   *)
(* the rest if the new place asks for nothing new.                         *)
LEMMA PassesKeeps ==
  ASSUME IInv, NEW from, NEW to, Passes(from, to),
         to \in {"type", "check", "menu"} => asking # "none",
         to \in {"docker", "existing", "paste", "proceed", "pick"} => asking # "token",
         to \in AfterToken => from \in AfterToken,
         to \in {"openCfg", "fillCfg", "renameEnv", "renameCfg", "written"} => FALSE,
         from \in {"docker", "existing"} \union Over => to \in {"docker", "existing"} \union Over
  PROVE  IInv'
<1>1. at = from /\ at' = to /\ UNCHANGED <<asking, run, answers, agreed, files, before>>
  BY DEF Passes, Goto
<1>2. Asking'
  BY <1>1 DEF IInv, Asking, TypeOK, BeforeKey, ValueIsKey, KeyFits, TokenFits, AfterToken, answers, files
<1>3. Files'
  BY <1>1 DEF IInv, Files, Laid, NoHalfFile, WrittenKeyAccepted, answers, files
<1>4. Consent'
  BY <1>1 DEF IInv, Consent, Agreed, AskedBeforeOverwriting, files
<1>5. QED
  BY <1>2, <1>3, <1>4 DEF IInv

LEMMA MovesOnKeeps ==
  ASSUME IInv,
         \/ FoundSetup \/ Keep \/ PasteOther \/ Decline \/ Rejected \/ CheckBreaks \/ Retry
         \/ NewValue \/ SwitchToPicker \/ ChatChosen \/ RenderBad \/ Rendered \/ WriteFails
         \/ Abort \/ Kill
  PROVE  IInv'
<1>1. CASE FoundSetup \/ Keep
  BY <1>1, PassesKeeps DEF FoundSetup, Keep, AfterToken, Writing, Over, IInv, Asking, BeforeKey, Passes, Goto
<1>2. CASE PasteOther \/ Decline \/ SwitchToPicker
  BY <1>2, PassesKeeps DEF PasteOther, Decline, SwitchToPicker, InDetected, AfterToken, Writing, Over,
    IInv, Asking, BeforeKey, Passes, Goto
<1>3. CASE Rejected \/ CheckBreaks \/ Retry \/ NewValue
  BY <1>3, PassesKeeps DEF Rejected, CheckBreaks, Retry, NewValue, AfterToken, Writing, Over, IInv, Asking,
    TypeOK, Passes, Goto
<1>4. CASE ChatChosen \/ RenderBad \/ Rendered
  BY <1>4, PassesKeeps DEF ChatChosen, RenderBad, Rendered, AfterToken, Writing, Over
<1>5. CASE WriteFails \/ Abort \/ Kill
  BY <1>5, PassesKeeps DEF WriteFails, Abort, Kill, AfterToken, Writing, Over
<1>6. QED
  BY <1>1, <1>2, <1>3, <1>4, <1>5

(* The person agrees to replace what is there.                             *)
LEMMA AgreeingKeeps == IInv /\ (NoSetupYet \/ Overwrite) => IInv'
<1> SUFFICES ASSUME IInv, NoSetupYet \/ Overwrite PROVE IInv'
  OBVIOUS
<1>1. /\ at \in {"docker", "existing"} /\ at' = "paste" /\ agreed' = TRUE
      /\ UNCHANGED <<asking, run, answers, files, before>>
  BY DEF NoSetupYet, Overwrite, Goto
<1>2. Asking'
  BY <1>1 DEF IInv, Asking, TypeOK, BeforeKey, ValueIsKey, KeyFits, TokenFits, AfterToken, Writing,
    answers, files
<1>3. Files'
  BY <1>1 DEF IInv, Files, Laid, NoHalfFile, WrittenKeyAccepted, answers, files
<1>4. Consent'
  BY <1>1 DEF Consent, Agreed, AskedBeforeOverwriting
<1>5. QED
  BY <1>2, <1>3, <1>4 DEF IInv

(* A step of the questions leaves the files and the consent alone.         *)
Questions == {"paste", "proceed", "pick", "type", "check", "menu", "chat"}

LEMMA QuestionKeeps ==
  ASSUME IInv, at \in Questions, at' \in Questions, UNCHANGED <<run, agreed, files, before>>,
         accepted \subseteq accepted'
  PROVE  Files' /\ Consent'
<1>1. Files'
  BY DEF IInv, Files, Laid, NoHalfFile, WrittenKeyAccepted, Questions, files
<1>2. Consent'
  BY DEF IInv, Consent, Agreed, AskedBeforeOverwriting, Questions, Over, files
<1>3. QED
  BY <1>1, <1>2

LEMMA PasteKnownKeeps == ASSUME IInv, NEW k \in Keys, PasteKnown(k) PROVE IInv'
<1>1. Files' /\ Consent'
  BY QuestionKeeps DEF PasteKnown, Goto, Questions
<1>2. Asking'
  BY DEF IInv, Asking, PasteKnown, Goto, TypeOK, BeforeKey, ValueIsKey, KeyFits, TokenFits,
    AfterToken, Writing, files
<1>3. QED
  BY <1>1, <1>2 DEF IInv

LEMMA LoopKeeps ==
  ASSUME IInv, NEW p \in Defaults \union Customs, Proceed \/ Pick(p)
  PROVE  IInv'
<1>1. Files' /\ Consent'
  BY QuestionKeeps DEF Proceed, Pick, Loop, Goto, Questions
<1>2. Asking'
  BY DEF IInv, Asking, Proceed, Pick, Loop, Goto, TypeOK, BeforeKey, ValueIsKey, KeyFits, TokenFits,
    AfterToken, Writing, files
<1>3. QED
  BY <1>1, <1>2 DEF IInv

LEMMA TypeValueKeeps ==
  ASSUME IInv, NEW v \in (IF asking = "token" THEN Tokens ELSE Keys) \union {""}, TypeValue(v)
  PROVE  IInv'
<1>1. Files' /\ Consent'
  BY QuestionKeeps DEF TypeValue, Goto, Questions
<1>2. Asking'
  BY DEF IInv, Asking, TypeValue, Goto, TypeOK, BeforeKey, ValueIsKey, KeyFits, TokenFits,
    AfterToken, Writing, files
<1>3. QED
  BY <1>1, <1>2 DEF IInv

(* The value in hand becomes the key of the provider that accepted it.     *)
LEMMA KeyAcceptedKeeps == IInv /\ KeyAccepted => IInv'
<1> SUFFICES ASSUME IInv, KeyAccepted PROVE IInv'
  OBVIOUS
<1>1. Files' /\ Consent'
  BY QuestionKeeps DEF KeyAccepted, Goto, Questions
<1>2. /\ at = "check" /\ at' = "type" /\ asking # "token" /\ asking' = "token" /\ key' = value
      /\ accepted' = accepted \union {<<provider.url, value>>}
      /\ UNCHANGED <<run, provider, value, agreed, files, before>>
  BY DEF KeyAccepted, Goto
<1>3. Asking'
  BY <1>2 DEF IInv, Asking, TypeOK, BeforeKey, ValueIsKey, KeyFits, TokenFits,
    AfterToken, Writing, files
<1>4. QED
  BY <1>1, <1>3 DEF IInv

LEMMA TokenAcceptedKeeps == IInv /\ TokenAccepted => IInv'
<1> SUFFICES ASSUME IInv, TokenAccepted PROVE IInv'
  OBVIOUS
<1>1. Files' /\ Consent'
  BY QuestionKeeps DEF TokenAccepted, Goto, Questions
<1>2. /\ at = "check" /\ at' = "chat" /\ asking = "token"
      /\ accepted' = accepted \union {<<Telegram, value>>}
      /\ UNCHANGED <<asking, run, provider, value, key, agreed, files, before>>
  BY DEF TokenAccepted, Goto
<1>3. Asking'
  BY <1>2 DEF IInv, Asking, TypeOK, BeforeKey, ValueIsKey, KeyFits, TokenFits, files
<1>4. QED
  BY <1>1, <1>3 DEF IInv

(* What a step of write_files has to keep: the answers stay, the temporary *)
(* files and the files follow each other.                                  *)
LEMMA WritingKeeps ==
  ASSUME IInv, at \in Writing, at' \in Writing \union {"written"},
         UNCHANGED <<asking, run, answers, agreed, before>>,
         \A file \in {env', cfg', envTmp', cfgTmp'} :
           file \in {env, cfg, envTmp, cfgTmp, NoFile, Partial, EnvFile, CfgFile}
  PROVE  Asking' /\ Consent'
<1>1. \A file \in {env', cfg', envTmp', cfgTmp'} : file.run \in 0 .. run /\ file.state \in FileStates
  <2>1. \A file \in {env, cfg, envTmp, cfgTmp} : file.run \in 0 .. run /\ file.state \in FileStates
    BY DEF IInv, Asking, TypeOK
  <2>2. run \in Nat
    <3>1. run \in 1 .. MaxRuns
      BY DEF IInv, Asking, TypeOK
    <3>2. QED
      BY <3>1, RunsCounted
  <2>3. \A file \in {NoFile, Partial, EnvFile, CfgFile} :
          file.run \in 0 .. run /\ file.state \in FileStates
    BY <2>2 DEF NoFile, Partial, EnvFile, CfgFile, FileStates
  <2>4. QED
    BY <2>1, <2>3
<1>2. Asking'
  BY <1>1 DEF IInv, Asking, TypeOK, BeforeKey, ValueIsKey, KeyFits, TokenFits, AfterToken, Writing,
    answers
<1>3. Consent'
  BY DEF IInv, Consent, Agreed, AskedBeforeOverwriting, Writing, Over
<1>4. QED
  BY <1>2, <1>3

LEMMA WriteTmpKeeps ==
  ASSUME IInv, OpenEnvTmp \/ FillEnvTmp \/ OpenCfgTmp \/ FillCfgTmp
  PROVE  IInv'
<1>1. Asking' /\ Consent'
  BY WritingKeeps DEF OpenEnvTmp, FillEnvTmp, OpenCfgTmp, FillCfgTmp, WriteTmp, Goto, Writing
<1>2. Files'
  BY DEF OpenEnvTmp, FillEnvTmp, OpenCfgTmp, FillCfgTmp, WriteTmp, Goto, IInv, Files, Laid,
    NoHalfFile, WrittenKeyAccepted, EnvFile, CfgFile, answers
<1>3. QED
  BY <1>1, <1>2 DEF IInv

(* .env is renamed into place with the accepted key and token in it.       *)
LEMMA RenameEnvKeeps == IInv /\ RenameEnv => IInv'
<1> SUFFICES ASSUME IInv, RenameEnv PROVE IInv'
  OBVIOUS
<1>1. Asking' /\ Consent'
  BY WritingKeeps DEF RenameEnv, Goto, Writing
<1>2. envTmp = EnvFile /\ env' = EnvFile /\ EnvFile' = EnvFile /\ CfgFile' = CfgFile
  BY DEF IInv, Files, Laid, RenameEnv, Goto, EnvFile, CfgFile, answers
<1>3. {<<provider.url, key>>, <<Telegram, value>>} \subseteq accepted
  BY DEF IInv, Asking, KeyFits, TokenFits, AfterToken, Writing, RenameEnv, Goto
<1>4. WrittenKeyAccepted'
  BY <1>2, <1>3 DEF WrittenKeyAccepted, RenameEnv, EnvFile, answers
<1>5. NoHalfFile'
  BY <1>2 DEF IInv, Files, NoHalfFile, RenameEnv, EnvFile
<1>6. Laid'
  BY <1>2 DEF IInv, Files, Laid, RenameEnv, Goto
<1>7. QED
  BY <1>1, <1>4, <1>5, <1>6 DEF IInv, Files

LEMMA RenameCfgKeeps == IInv /\ RenameCfg => IInv'
<1> SUFFICES ASSUME IInv, RenameCfg PROVE IInv'
  OBVIOUS
<1>1. Asking' /\ Consent'
  BY WritingKeeps DEF RenameCfg, Goto, Writing
<1>2. cfgTmp = CfgFile /\ cfg' = CfgFile /\ EnvFile' = EnvFile /\ CfgFile' = CfgFile
  BY DEF IInv, Files, Laid, RenameCfg, Goto, EnvFile, CfgFile, answers
<1>3. Files'
  BY <1>2 DEF IInv, Files, Laid, NoHalfFile, WrittenKeyAccepted, RenameCfg, Goto, CfgFile, answers
<1>4. QED
  BY <1>1, <1>3 DEF IInv

(* A new run: what earlier runs wrote is theirs.                           *)
LEMMA RunAgainKeeps == IInv /\ RunAgain => IInv'
<1> SUFFICES ASSUME IInv, RunAgain PROVE IInv'
  OBVIOUS
<1>1. run \in 1 .. MaxRuns /\ run' = run + 1 /\ run' \in 1 .. MaxRuns
  <2>1. MaxRuns \in Nat /\ run \in 1 .. MaxRuns /\ run < MaxRuns /\ run' = run + 1
    BY RunsCounted DEF RunAgain, IInv, Asking, TypeOK
  <2>2. QED
    BY <2>1
<1>0. \A file \in {env, cfg, envTmp, cfgTmp} :
        file.run \in 0 .. run /\ file.state \in FileStates
  BY DEF IInv, Asking, TypeOK
<1>2. TypeOK'
  <2>1. \A file \in {env, cfg, envTmp, cfgTmp} :
          file.run \in 0 .. run' /\ file.state \in FileStates
    BY <1>0, <1>1
  <2>2. QED
    BY <1>1, <2>1 DEF RunAgain, TypeOK, files
<1>3. Asking'
  BY <1>2 DEF RunAgain, Asking, BeforeKey, ValueIsKey, KeyFits, TokenFits, AfterToken, Writing
<1>4. Files'
  <2>1. env.run \in 0 .. run /\ env' = env /\ cfg' = cfg
    BY <1>0 DEF RunAgain, files
  <2>2. env'.run # run'
    BY <1>1, <2>1
  <2>3. QED
    BY <2>1, <2>2 DEF RunAgain, IInv, Files, Laid, NoHalfFile, WrittenKeyAccepted
<1>5. Consent'
  BY DEF RunAgain, Consent, Agreed, AskedBeforeOverwriting, files
<1>6. QED
  BY <1>3, <1>4, <1>5 DEF IInv

LEMMA NextKeeps == IInv /\ [Next]_vars => IInv'
<1> SUFFICES ASSUME IInv, [Next]_vars PROVE IInv'
  OBVIOUS
<1>1. CASE UNCHANGED vars
  <2>1. UNCHANGED <<at, asking, run, answers, agreed, files, before>>
    BY <1>1 DEF vars
  <2>2. Asking'
    BY <2>1 DEF IInv, Asking, TypeOK, BeforeKey, ValueIsKey, KeyFits, TokenFits, answers, files
  <2>3. Files' /\ Consent'
    BY <2>1 DEF IInv, Files, Laid, NoHalfFile, WrittenKeyAccepted, EnvFile, CfgFile, Consent, Agreed,
      AskedBeforeOverwriting, answers, files
  <2>4. QED
    BY <2>2, <2>3 DEF IInv
<1>2. CASE \/ FoundSetup \/ Keep \/ PasteOther \/ Decline \/ Rejected \/ CheckBreaks \/ Retry
           \/ NewValue \/ SwitchToPicker \/ ChatChosen \/ RenderBad \/ Rendered \/ WriteFails
           \/ Abort \/ Kill
  BY <1>2, MovesOnKeeps
<1>3. CASE NoSetupYet \/ Overwrite
  BY <1>3, AgreeingKeeps
<1>4. CASE \E k \in Keys : PasteKnown(k)
  BY <1>4, PasteKnownKeeps
<1>5. CASE Proceed \/ \E p \in Defaults \union Customs : Pick(p)
  BY <1>5, LoopKeeps DEF Proceed, Loop, Defaults
<1>6. CASE \E v \in (IF asking = "token" THEN Tokens ELSE Keys) \union {""} : TypeValue(v)
  BY <1>6, TypeValueKeeps
<1>7. CASE KeyAccepted \/ TokenAccepted
  BY <1>7, KeyAcceptedKeeps, TokenAcceptedKeeps
<1>8. CASE OpenEnvTmp \/ FillEnvTmp \/ OpenCfgTmp \/ FillCfgTmp \/ RenameEnv \/ RenameCfg
  BY <1>8, WriteTmpKeeps, RenameEnvKeeps, RenameCfgKeeps
<1>9. CASE RunAgain
  BY <1>9, RunAgainKeeps
<1>10. CASE Ended
  BY <1>1, <1>10 DEF Ended
<1>11. QED
  BY <1>1, <1>2, <1>3, <1>4, <1>5, <1>6, <1>7, <1>8, <1>9, <1>10 DEF Next

LEMMA Invariant == Spec => []IInv
BY InitHolds, NextKeeps, PTL DEF Spec
-----------------------------------------------------------------------------
(* The answers and the files keep their types over any number of runs.     *)
THEOREM TypeCorrect == Spec => []TypeOK
<1>1. IInv => TypeOK
  BY DEF IInv, Asking
<1>2. QED
  BY <1>1, Invariant, PTL

(* Whenever a run is interrupted, killed or fails on a write, .env and     *)
(* config.yaml are as a whole run left them, or absent (writers.py 108-119)*)
(* for any keys, providers and number of runs.                             *)
THEOREM FilesAreWhole == Spec => []NoHalfFile
<1>1. IInv => NoHalfFile
  BY DEF IInv, Files
<1>2. QED
  BY <1>1, Invariant, PTL

(* "All set" is said of a pair this run made, for one provider, whatever   *)
(* temporary and real files earlier runs left (writers.py 111-119, cli.py  *)
(* 409-421).                                                               *)
THEOREM FinishedPairIsOwn == Spec => []FinishedPairMatches
<1>1. IInv => FinishedPairMatches
  BY DEF IInv, Files, Laid, FinishedPairMatches, EnvFile, CfgFile
<1>2. QED
  BY <1>1, Invariant, PTL

(* The key in .env was accepted by the provider written with it, the token *)
(* by Telegram, however often values and providers were changed and        *)
(* however the services changed their minds (cli.py 214-299).              *)
THEOREM WrittenKeysAreAccepted == Spec => []WrittenKeyAccepted
<1>1. IInv => WrittenKeyAccepted
  BY DEF IInv, Files
<1>2. QED
  BY <1>1, Invariant, PTL

(* No path to write_files avoids the question about what is there (cli.py  *)
(* 340-366, 415).                                                          *)
THEOREM OverwritingIsAgreed == Spec => []AskedBeforeOverwriting
<1>1. IInv => AskedBeforeOverwriting
  BY DEF IInv, Consent
<1>2. QED
  BY <1>1, Invariant, PTL

(* The wizard's table, the files it renders, the variables Compose hands   *)
(* on and main's checks agree about each provider of the list.             *)
LEMMA DefaultsComplete ==
  ASSUME NEW p \in Defaults
  PROVE  Complete(ConfigFile(SetupConfig(p.name, p.url, p.keyEnv, p.model)),
                  SetupEnv(p.keyEnv) \intersect Forwarded)
<1> DEFINE c == SetupConfig(p.name, p.url, p.keyEnv, p.model)
           spec == ProviderSpec("openai_compatible", p.url, p.keyEnv, {p.model})
           ref == Ref(p.name, p.model)
<1>1. /\ p.name # "" /\ p.model # "" /\ p.url # NoUrl /\ p.keyEnv \in Forwarded
  <2>1. CASE p = Provider("openrouter", "openrouter.ai", "OPENROUTER_API_KEY", "llama")
    BY <2>1 DEF Provider, Forwarded, NoUrl
  <2>2. CASE p = Provider("deepinfra", "api.deepinfra.com", "DEEPINFRA_API_KEY", "Llama")
    BY <2>2 DEF Provider, Forwarded, NoUrl
  <2>3. CASE p = Provider("groq", "api.groq.com", "GROQ_API_KEY", "versatile")
    BY <2>3 DEF Provider, Forwarded, NoUrl
  <2>4. QED
    BY <2>1, <2>2, <2>3 DEF Defaults
<1>2. /\ c.providers = [q \in {p.name} |-> spec] /\ c.agents = [g \in {Group} |-> ref]
      /\ c.fallback = <<>> /\ c.extra = FALSE
  BY DEF SetupConfig
<1>3. /\ DOMAIN c.providers = {p.name} /\ c.providers[p.name] = spec
      /\ DOMAIN c.agents = {Group} /\ c.agents[Group] = ref
      /\ Primaries(c) = {ref} /\ Entries(c) = {} /\ Len(c.fallback) = 0
  BY <1>2 DEF Primaries, Entries
<1>4. /\ spec.kind = "openai_compatible" /\ spec.url = p.url /\ spec.keyEnv = p.keyEnv
      /\ spec.models = {p.model} /\ ref.provider = p.name /\ ref.model = p.model
  BY DEF ProviderSpec, Ref
<1> HIDE DEF c, spec, ref
<1>5. Valid(c)
  <2>1. UrlsGiven(c)
    BY <1>1, <1>3, <1>4 DEF UrlsGiven
  <2>2. RefsWellFormed(c)
    BY <1>1, <1>3, <1>4 DEF RefsWellFormed, WellFormed
  <2>3. DOMAIN c.fallback = {}
    BY <1>2
  <2>4. FallbackSound(c)
    BY <1>3, <2>3 DEF FallbackSound, FallbackMaxLength
  <2>5. QED
    BY <1>2, <2>1, <2>2, <2>4 DEF Valid
<1>6. Supported(c, ref)
  BY <1>3, <1>4 DEF Supported, Permitted
<1>7. Complete(ConfigFile(c), SetupEnv(p.keyEnv) \intersect Forwarded)
  BY <1>1, <1>3, <1>4, <1>5, <1>6 DEF Complete, Loads, ConfigFile, SetupEnv
<1>8. QED
  BY <1>7 DEF c

(* What the wizard finishes for a provider of its list passes every check  *)
(* the agent makes at boot (cli.py 96-117, writers.py 32-70, docker-       *)
(* compose.yaml 61-71, __main__.py 44-83).                                 *)
THEOREM KnownProvidersStart == Spec => []KnownPairStarts
<1>1. IInv => KnownPairStarts
  BY DefaultsComplete DEF IInv, Files, Laid, KnownPairStarts, Starts, EnvFile, CfgFile
<1>2. QED
  BY <1>1, Invariant, PTL
=============================================================================
