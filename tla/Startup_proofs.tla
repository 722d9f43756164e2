--------------------------- MODULE Startup_proofs ---------------------------
(***************************************************************************)
(* Theorems about Startup.tla for any files, variables and lists: what is  *)
(* served was checked, the chain is sound and its keys are scrubbed.       *)
(***************************************************************************)
EXTENDS Startup, TLAPS

AfterChain == {"connector", "again", "connect", "serving"}
AfterKeys == AfterChain \union {"fallbacks"}
AfterGroup == AfterKeys \union {"keys"}
AfterConfig == AfterGroup \union {"group"}
AfterEnv == {"again", "connect", "serving"}

Given ==
  /\ file \in Files /\ chatIds \in ChatIdLists
  /\ env \in [EnvNames -> [text : EnvNames \union {""}, padded : BOOLEAN]]

Loaded == at \in AfterConfig => Loads(file)
GroupFound == at \in AfterGroup => Group \in DOMAIN config.agents

Known(n) == ~KeyMissing(n) /\ Value(Strip(env[n]), FALSE) \in secrets

KeysChecked ==
  at \in AfterGroup =>
    /\ unchecked \subseteq DOMAIN config.providers
    /\ \A p \in DOMAIN config.providers \ unchecked :
         config.providers[p].keyEnv # NoKeyEnv => Known(config.providers[p].keyEnv)

(* Entry k of the chain is what reference k resolves to.                   *)
RefAt(k) == IF k = 1 THEN config.agents[Group] ELSE config.fallback[k - 1]
Entry(k) == Resolve(config, RefAt(k), env)

Candidates ==
  {Resolve(config, ref, env) : ref \in {config.agents[Group]} \union Entries(config)}

Resolved ==
  at \in AfterKeys =>
    /\ unchecked = {}
    /\ chain \in Seq(Candidates)
    /\ Len(chain) \in 1 .. Len(config.fallback) + 1
    /\ \A k \in DOMAIN chain : chain[k] = Entry(k) /\ Entry(k) # Refused

Whole == at \in AfterChain => Len(chain) = Len(config.fallback) + 1

EnvLoaded ==
  at \in AfterEnv =>
    allowlist = Ids /\ EnvUsable /\ Value(Strip(env[Token]), FALSE) \in secrets

NothingYet == at \in Places \ (AfterKeys \union {"ended"}) => chain = <<>>

KeysCovered == \A i \in DOMAIN chain : Truthy(chain[i].key) => Covered(chain[i].key)

(* Each part is kept with the help of those before it.                     *)
IInv ==
  /\ TypeOK /\ Given /\ Loaded /\ GroupFound /\ KeysChecked
  /\ Resolved /\ Whole /\ EnvLoaded /\ NothingYet /\ KeysCovered
-----------------------------------------------------------------------------
(* resolve gives a provider only for a reference main supports, and gives  *)
(* the one it names.                                                       *)
LEMMA ResolveSupported ==
  ASSUME NEW c, NEW ref, NEW e, Resolve(c, ref, e) # Refused
  PROVE  /\ Supported(c, ref)
         /\ Resolve(c, ref, e) =
              ResolvedProvider(ref.provider, c.providers[ref.provider],
                IF c.providers[ref.provider].keyEnv = NoKeyEnv THEN Unset
                ELSE e[c.providers[ref.provider].keyEnv], ref.model)
BY DEF Resolve, Supported

(* A start that ends keeps what it had.                                    *)
LEMMA EndKeeps ==
  ASSUME IInv, NEW manner \in {"unmounted", "wizard", "usage", "refused", "traceback", "stopped"},
         End(manner)
  PROVE  IInv'
<1>1. TypeOK' /\ Given'
  BY DEF IInv, TypeOK, Given, End, given, Places, config
<1>2. KeysCovered'
  BY DEF IInv, KeysCovered, Covered, End, given
<1>3. /\ Loaded' /\ GroupFound' /\ KeysChecked' /\ Resolved' /\ Whole' /\ EnvLoaded'
      /\ NothingYet'
  BY DEF End, Loaded, GroupFound, KeysChecked, Resolved, Whole, EnvLoaded, NothingYet,
         AfterConfig, AfterGroup, AfterKeys, AfterChain, AfterEnv
<1>4. QED
  BY <1>1, <1>2, <1>3 DEF IInv

(* The type of what is registered.                                         *)
LEMMA RegisteredType ==
  ASSUME Given, NEW n \in EnvNames
  PROVE  /\ env[n] \in [text : EnvNames \union {""}, padded : BOOLEAN]
         /\ Value(Strip(env[n]), FALSE) \in [text : EnvNames \union {""}, padded : BOOLEAN]
BY DEF Given, Value, Strip

(* Every start begins in it.                                             *)
LEMMA InitHolds == Init => IInv
<1> SUFFICES ASSUME Init PROVE IInv
  OBVIOUS
<1>1. Given
  <2>1. \A n \in EnvNames : ValuesOf(n) \subseteq [text : EnvNames \union {""}, padded : BOOLEAN]
    <3> SUFFICES ASSUME NEW n \in EnvNames, NEW v \in ValuesOf(n)
                 PROVE  v \in [text : EnvNames \union {""}, padded : BOOLEAN]
      OBVIOUS
    <3>1. \/ v = [text |-> "", padded |-> FALSE] \/ v = [text |-> "", padded |-> TRUE]
          \/ v = [text |-> n, padded |-> FALSE] \/ v = [text |-> n, padded |-> TRUE]
      BY DEF ValuesOf, Unset, Value
    <3>2. \A text \in EnvNames \union {""}, padded \in BOOLEAN :
            [text |-> text, padded |-> padded] \in [text : EnvNames \union {""}, padded : BOOLEAN]
      BY Zenon
    <3>3. QED
      BY <3>1, <3>2, Zenon
  <2>2. QED
    BY <2>1 DEF Init, Given
<1>2. QED
  BY <1>1 DEF Init, IInv, TypeOK, Places, Loaded, GroupFound, KeysChecked, Resolved, Whole,
              EnvLoaded, NothingYet, KeysCovered, AfterConfig, AfterGroup, AfterKeys, AfterChain,
              AfterEnv

(* What was registered stays registered.                                   *)
LEMMA SecretsGrow ==
  ASSUME KeysCovered, UNCHANGED <<env, chain>>, secrets \subseteq secrets'
  PROVE  KeysCovered'
BY DEF KeysCovered, Covered

(* The entrypoint, before anything is registered.                        *)
LEMMA EntrypointKeeps == IInv /\ Entrypoint => IInv'
<1> SUFFICES ASSUME IInv, Entrypoint PROVE IInv'
  OBVIOUS
<1>1. CASE End("unmounted")
  BY <1>1, EndKeeps
<1>2. CASE Go("main") /\ UNCHANGED <<unchecked, secrets, chain, allowlist>>
  BY <1>2 DEF IInv, Entrypoint, Go, given, config, TypeOK, Given, Places, Loaded, GroupFound,
    KeysChecked, Resolved, Whole, EnvLoaded, NothingYet, KeysCovered, Covered, AfterConfig,
    AfterGroup, AfterKeys, AfterChain, AfterEnv
<1>3. QED
  BY <1>1, <1>2 DEF Entrypoint

(* `init` and unknown words end the process.                             *)
LEMMA OtherCommandKeeps == IInv /\ OtherCommand => IInv'
BY EndKeeps DEF OtherCommand

(* Nothing was registered before the import and there is no chain yet.   *)
LEMMA ImportKeeps == IInv /\ Import => IInv'
<1> SUFFICES ASSUME IInv, Import PROVE IInv'
  OBVIOUS
<1>1. secrets' \subseteq [text : EnvNames \union {""}, padded : BOOLEAN]
  BY RegisteredType, StartupAssumption DEF Import, Collected, IInv, EnvNames
<1>2. chain = <<>> /\ chain' = <<>>
  BY DEF Import, IInv, NothingYet, Places, AfterKeys, AfterChain
<1>3. TypeOK' /\ Given'
  BY <1>1 DEF IInv, Import, Go, given, config, TypeOK, Given, Places
<1>4. QED
  BY <1>2, <1>3 DEF IInv, Import, Go, Loaded, GroupFound, KeysChecked, Resolved, Whole,
    EnvLoaded, NothingYet, KeysCovered, AfterConfig, AfterGroup, AfterKeys, AfterChain, AfterEnv

(* What goes on is a file that loads.                                    *)
LEMMA LoadConfigKeeps == IInv /\ LoadConfig => IInv'
<1> SUFFICES ASSUME IInv, LoadConfig PROVE IInv'
  OBVIOUS
<1>1. CASE Raise \/ Refuse
  BY <1>1, EndKeeps DEF Raise, Refuse
<1>2. CASE Loads(file) /\ Go("group") /\ UNCHANGED <<unchecked, secrets, chain, allowlist>>
  <2>1. TypeOK' /\ Given' /\ KeysCovered'
    BY <1>2 DEF IInv, LoadConfig, Go, given, config, TypeOK, Given, Places, KeysCovered, Covered
  <2>2. Loaded' /\ NothingYet'
    BY <1>2 DEF IInv, LoadConfig, Go, given, Loaded, NothingYet, Places, AfterKeys, AfterChain
  <2>3. QED
    BY <1>2, <2>1, <2>2 DEF IInv, Go, GroupFound, KeysChecked, Resolved, Whole, EnvLoaded,
      AfterGroup, AfterKeys, AfterChain, AfterEnv
<1>3. QED
  BY <1>1, <1>2 DEF LoadConfig

(* What goes on has the group, and no provider was looked at yet.        *)
LEMMA FindGroupKeeps == IInv /\ FindGroup => IInv'
<1> SUFFICES ASSUME IInv, FindGroup PROVE IInv'
  OBVIOUS
<1>1. CASE Refuse
  BY <1>1, EndKeeps DEF Refuse
<1>2. CASE /\ Group \in DOMAIN config.agents /\ Go("keys")
           /\ unchecked' = DOMAIN config.providers
           /\ UNCHANGED <<secrets, chain, allowlist>>
  <2>1. file.form = "config"
    BY DEF FindGroup, IInv, Loaded, AfterConfig, Loads
  <2>2. TypeOK' /\ Given' /\ KeysCovered'
    BY <1>2, <2>1 DEF IInv, FindGroup, Go, given, config, TypeOK, Given, Places, KeysCovered,
      Covered
  <2>3. Loaded' /\ GroupFound' /\ KeysChecked' /\ NothingYet'
    BY <1>2 DEF IInv, FindGroup, Go, given, config, Loaded, GroupFound, KeysChecked, NothingYet,
      Places, AfterConfig, AfterGroup, AfterKeys, AfterChain
  <2>4. QED
    BY <1>2, <2>2, <2>3 DEF IInv, Go, Resolved, Whole, EnvLoaded, AfterKeys, AfterChain, AfterEnv
<1>3. QED
  BY <1>1, <1>2 DEF FindGroup

(* The names a loaded file gives are variables of the environment.         *)
LEMMA KeyEnvKnown ==
  ASSUME Given, file.form = "config", NEW p \in DOMAIN config.providers
  PROVE  config.providers[p].keyEnv \in EnvNames \union {NoKeyEnv}
BY StartupAssumption DEF Given, config, EnvNames

(* A provider that was looked at has a key, and the scrubber knows it.   *)
LEMMA CheckKeyKeeps == ASSUME NEW p \in unchecked, IInv, CheckKey(p) PROVE IInv'
<1> DEFINE n == config.providers[p].keyEnv
<1>1. CASE n # NoKeyEnv /\ KeyMissing(n)
  BY <1>1, EndKeeps DEF CheckKey, Refuse
<1>2. CASE ~(n # NoKeyEnv /\ KeyMissing(n))
  <2>1. /\ Go("keys") /\ at = "keys"
        /\ unchecked' = unchecked \ {p}
        /\ IF n = NoKeyEnv THEN UNCHANGED secrets ELSE Register(n)
        /\ UNCHANGED <<chain, allowlist>>
    BY <1>2 DEF CheckKey
  <2>2. /\ Loads(file) /\ file.form = "config" /\ p \in DOMAIN config.providers
        /\ Group \in DOMAIN config.agents
    BY <2>1 DEF IInv, Loaded, GroupFound, KeysChecked, AfterConfig, AfterGroup, Loads
  <2>3. n \in EnvNames \union {NoKeyEnv}
    BY <2>2, KeyEnvKnown DEF IInv
  <2>4. /\ secrets \subseteq secrets'
        /\ secrets' \subseteq [text : EnvNames \union {""}, padded : BOOLEAN]
    BY <2>1, <2>3, RegisteredType DEF Register, IInv, TypeOK
  <2>5. TypeOK' /\ Given'
    BY <2>1, <2>2, <2>4 DEF IInv, Go, given, config, TypeOK, Given, Places
  <2>6. KeysCovered'
    BY <2>1, <2>4, SecretsGrow DEF IInv, Go, given
  <2>7. KeysChecked'
    <3>1. unchecked' \subseteq DOMAIN config'.providers
      BY <2>1 DEF IInv, KeysChecked, AfterGroup, Go, given, config
    <3>2. ASSUME NEW q \in DOMAIN config'.providers \ unchecked',
                 config'.providers[q].keyEnv # NoKeyEnv
          PROVE  Known(config.providers[q].keyEnv)'
      <4>1. CASE q = p
        BY <1>2, <2>1, <3>2, <4>1 DEF Known, KeyMissing, Register, Go, given, config
      <4>2. CASE q # p
        BY <2>1, <2>4, <3>2, <4>2
        DEF IInv, KeysChecked, AfterGroup, Known, KeyMissing, Go, given, config
      <4>3. QED
        BY <4>1, <4>2
    <3>3. QED
      BY <3>1, <3>2 DEF KeysChecked
  <2>8. Loaded' /\ GroupFound' /\ NothingYet'
    BY <2>1, <2>2 DEF IInv, Go, given, config, Loaded, GroupFound, NothingYet, Places, AfterKeys,
      AfterChain
  <2>9. QED
    BY <2>1, <2>5, <2>6, <2>7, <2>8 DEF IInv, Go, Resolved, Whole, EnvLoaded, AfterKeys,
      AfterChain, AfterEnv
<1>3. QED
  BY <1>1, <1>2

(* A step of the later part that leaves the checks of the earlier behind.  *)
LEMMA ChecksStay ==
  ASSUME IInv, at \in AfterGroup, at' \in AfterGroup, UNCHANGED given, UNCHANGED unchecked,
         secrets \subseteq secrets'
  PROVE  Loaded' /\ GroupFound' /\ KeysChecked' /\ (NothingYet' \/ at' = "keys")
<1>1. Loaded' /\ GroupFound'
  BY DEF IInv, Loaded, GroupFound, given, config, AfterConfig, AfterGroup
<1>2. KeysChecked'
  BY DEF IInv, KeysChecked, Known, KeyMissing, given, config, AfterGroup
<1>3. NothingYet' \/ at' = "keys"
  BY DEF NothingYet, Places, AfterGroup, AfterKeys, AfterChain
<1>4. QED
  BY <1>1, <1>2, <1>3

(* A provider the references resolve to, once every key was looked at,     *)
(* brings a key the scrubber knows.                                        *)
LEMMA EntryCovered ==
  ASSUME IInv, at \in AfterGroup, unchecked = {},
         NEW ref, Resolve(config, ref, env) # Refused,
         Truthy(Resolve(config, ref, env).key)
  PROVE  Covered(Resolve(config, ref, env).key)
<1> DEFINE spec == config.providers[ref.provider]
<1>1. ref.provider \in DOMAIN config.providers
  BY ResolveSupported DEF Supported
<1>2. Resolve(config, ref, env).key = IF spec.keyEnv = NoKeyEnv THEN Unset ELSE env[spec.keyEnv]
  BY ResolveSupported DEF ResolvedProvider
<1>3. spec.keyEnv # NoKeyEnv
  BY <1>2 DEF Truthy
<1>4. Known(spec.keyEnv)
  BY <1>1, <1>3 DEF IInv, KeysChecked
<1>5. QED
  BY <1>2, <1>3, <1>4 DEF Known, Covered

(* The chain begins with what the primary reference resolves to.         *)
LEMMA ResolvePrimaryKeeps == IInv /\ ResolvePrimary => IInv'
<1> SUFFICES ASSUME IInv, ResolvePrimary PROVE IInv'
  OBVIOUS
<1>1. CASE Refuse
  BY <1>1, EndKeeps DEF Refuse
<1>2. CASE /\ Primary # Refused /\ Go("fallbacks")
           /\ chain' = <<Primary>>
           /\ UNCHANGED <<unchecked, secrets, allowlist>>
  <2>1. at = "keys" /\ unchecked = {} /\ file.form = "config" /\ Typed(config)
    <3>1. at = "keys" /\ unchecked = {} /\ file.form = "config"
      BY DEF ResolvePrimary, IInv, Loaded, AfterConfig, AfterGroup, Loads
    <3>2. QED
      BY <3>1, StartupAssumption DEF IInv, Given, config
  <2>2. TypeOK' /\ Given'
    BY <1>2, <2>1 DEF IInv, Go, given, config, TypeOK, Given, Places
  <2>3. Loaded' /\ GroupFound' /\ KeysChecked' /\ NothingYet'
    BY <1>2, <2>1, ChecksStay DEF Go, AfterGroup, AfterKeys
  <2>4. Resolved'
    <3>1. Primary = Entry(1) /\ Primary \in Candidates
      BY DEF Primary, Entry, RefAt, Candidates
    <3>2. UNCHANGED <<config, Candidates, Entry(1)>>
      BY <1>2 DEF Go, given, config, Candidates, Entry, RefAt
    <3>3. Len(config.fallback) \in Nat
      BY <2>1 DEF Typed
    <3>4. /\ chain' \in Seq(Candidates) /\ Len(chain') = 1 /\ DOMAIN chain' = {1}
          /\ chain'[1] = Primary
      BY <1>2, <3>1
    <3>5. \A k \in DOMAIN chain' : chain'[k] = Entry(k)' /\ Entry(k)' # Refused
      BY <1>2, <3>1, <3>2, <3>4
    <3>6. QED
      BY <1>2, <2>1, <3>2, <3>3, <3>4, <3>5 DEF Resolved
  <2>5. KeysCovered'
    <3>1. Truthy(Primary.key) => Covered(Primary.key)
      BY <1>2, <2>1, EntryCovered DEF Primary, AfterGroup
    <3>2. DOMAIN chain' = {1} /\ chain'[1] = Primary
      BY <1>2
    <3>3. QED
      BY <1>2, <3>1, <3>2 DEF KeysCovered, Covered
  <2>6. QED
    BY <1>2, <2>2, <2>3, <2>4, <2>5 DEF IInv, Go, Whole, EnvLoaded, AfterChain, AfterEnv
<1>3. QED
  BY <1>1, <1>2 DEF ResolvePrimary

(* The chain grows by what the next reference resolves to.               *)
LEMMA ResolveFallbackKeeps == IInv /\ ResolveFallback => IInv'
<1> SUFFICES ASSUME IInv, ResolveFallback PROVE IInv'
  OBVIOUS
<1>1. CASE Refuse
  BY <1>1, EndKeeps DEF Refuse
<1>2. CASE FallbackJoins
  <2> DEFINE k == Len(chain)
             entry == Fallback(k)
  <2>1. /\ at = "fallbacks" /\ k <= Len(config.fallback)
        /\ entry # Refused /\ Go("fallbacks")
        /\ chain' = Append(chain, entry)
        /\ UNCHANGED <<unchecked, secrets, allowlist>>
    BY <1>2 DEF ResolveFallback, FallbackJoins
  <2>2. /\ unchecked = {} /\ chain \in Seq(Candidates)
        /\ Len(chain) \in 1 .. Len(config.fallback) + 1
        /\ \A i \in DOMAIN chain : chain[i] = Entry(i) /\ Entry(i) # Refused
        /\ file.form = "config" /\ Typed(config)
    <3>1. file.form = "config"
      BY <2>1 DEF IInv, Loaded, AfterConfig, AfterGroup, AfterKeys, Loads
    <3>2. Typed(config)
      BY <3>1, StartupAssumption DEF IInv, Given, config
    <3>3. QED
      BY <2>1, <3>1, <3>2 DEF IInv, Resolved, AfterKeys
  <2>3. Len(config.fallback) \in Nat /\ DOMAIN config.fallback = 1 .. Len(config.fallback)
    BY <2>2 DEF Typed
  <2>4. k \in DOMAIN config.fallback
    BY <2>1, <2>2, <2>3
  <2>5. entry = Entry(k + 1) /\ entry \in Candidates
    BY <2>2, <2>3, <2>4 DEF Fallback, Entry, RefAt, Candidates, Entries
  <2>6. TypeOK' /\ Given'
    BY <2>1 DEF IInv, Go, given, config, TypeOK, Given, Places
  <2>7. Loaded' /\ GroupFound' /\ KeysChecked' /\ NothingYet'
    BY <2>1, ChecksStay DEF Go, AfterGroup, AfterKeys
  <2>8. Resolved'
    <3>1. UNCHANGED <<config, Candidates>> /\ \A i : Entry(i)' = Entry(i)
      BY <2>1 DEF Go, given, config, Candidates, Entry, RefAt
    <3>2. /\ chain' \in Seq(Candidates) /\ Len(chain') = k + 1
          /\ Len(chain') \in 1 .. Len(config.fallback) + 1
          /\ DOMAIN chain' = 1 .. k + 1
          /\ chain'[k + 1] = entry
          /\ \A i \in 1 .. k : chain'[i] = chain[i]
      BY <2>1, <2>2, <2>3, <2>5
    <3>3. ASSUME NEW i \in DOMAIN chain'
          PROVE  chain'[i] = Entry(i)' /\ Entry(i)' # Refused
      <4>1. CASE i = k + 1
        BY <2>1, <2>5, <3>1, <3>2, <4>1
      <4>2. CASE i \in 1 .. k
        BY <2>2, <3>1, <3>2, <4>2
      <4>3. QED
        BY <2>2, <3>2, <4>1, <4>2
    <3>4. QED
      BY <2>1, <2>2, <3>1, <3>2, <3>3 DEF Resolved
  <2>9. KeysCovered'
    <3>1. Truthy(entry.key) => Covered(entry.key)
      BY <2>1, <2>2, EntryCovered DEF Fallback, AfterGroup, AfterKeys
    <3>2. /\ DOMAIN chain' = 1 .. k + 1 /\ chain'[k + 1] = entry
          /\ \A i \in 1 .. k : chain'[i] = chain[i] /\ i \in DOMAIN chain
      BY <2>1, <2>2, <2>5
    <3>3. ASSUME NEW i \in DOMAIN chain', Truthy(chain'[i].key)
          PROVE  Covered(chain[i].key)'
      <4>1. CASE i = k + 1
        BY <2>1, <3>1, <3>2, <3>3, <4>1 DEF Covered
      <4>2. CASE i \in 1 .. k
        BY <2>1, <3>2, <3>3, <4>2 DEF IInv, KeysCovered, Covered
      <4>3. QED
        BY <2>2, <3>2, <4>1, <4>2
    <3>4. QED
      BY <3>3 DEF KeysCovered
  <2>10. QED
    BY <2>1, <2>6, <2>7, <2>8, <2>9 DEF IInv, Go, Whole, EnvLoaded, AfterChain, AfterEnv
<1>3. QED
  BY <1>1, <1>2 DEF ResolveFallback

(* The rest of the way changes neither the checks nor the chain.           *)
LEMMA ChainStays ==
  ASSUME IInv, at \in AfterKeys, at' \in AfterKeys, UNCHANGED <<given, how, unchecked, chain>>,
         secrets \subseteq secrets',
         secrets' \subseteq [text : EnvNames \union {""}, padded : BOOLEAN],
         allowlist' \subseteq Chats, Whole', EnvLoaded'
  PROVE  IInv'
<1>1. TypeOK' /\ Given'
  BY DEF IInv, given, config, TypeOK, Given, Places, AfterKeys, AfterChain
<1>2. Loaded' /\ GroupFound' /\ KeysChecked' /\ NothingYet'
  BY ChecksStay DEF AfterGroup, AfterKeys, AfterChain
<1>3. Resolved'
  <2>1. UNCHANGED <<config, Candidates>> /\ \A i : Entry(i)' = Entry(i)
    BY DEF given, config, Candidates, Entry, RefAt
  <2>2. QED
    BY <2>1 DEF IInv, Resolved
<1>4. KeysCovered'
  BY SecretsGrow DEF IInv, given
<1>5. QED
  BY <1>1, <1>2, <1>3, <1>4 DEF IInv

(* What goes on has its whole chain.                                     *)
LEMMA OpenMemoryKeeps == IInv /\ OpenMemory => IInv'
<1> SUFFICES ASSUME IInv, OpenMemory PROVE IInv'
  OBVIOUS
<1>1. CASE Raise \/ Refuse
  BY <1>1, EndKeeps DEF Raise, Refuse
<1>2. CASE Go("connector") /\ UNCHANGED <<unchecked, secrets, chain, allowlist>>
  <2>1. at = "fallbacks" /\ Len(chain) > Len(config.fallback)
    BY DEF OpenMemory
  <2>2. file.form = "config" /\ Typed(config)
    BY <2>1, StartupAssumption
    DEF IInv, Given, config, Loaded, AfterConfig, AfterGroup, AfterKeys, Loads
  <2>3. Len(chain) = Len(config.fallback) + 1
    BY <2>1, <2>2 DEF IInv, Resolved, AfterKeys, Typed
  <2>4. Whole' /\ EnvLoaded'
    BY <1>2, <2>3 DEF Go, given, config, Whole, EnvLoaded, AfterEnv
  <2>5. QED
    BY <1>2, <2>1, <2>4, ChainStays DEF Go, IInv, TypeOK, AfterKeys, AfterChain
<1>3. QED
  BY <1>1, <1>2 DEF OpenMemory

(* The elements of a sequence.                                             *)
LEMMA ElementsInSet ==
  ASSUME NEW S, NEW s \in Seq(S)
  PROVE  \A i \in DOMAIN s : s[i] \in S
OBVIOUS

(* What goes on has its chats, and the scrubber knows the token.         *)
LEMMA LoadEnvKeeps == IInv /\ LoadEnv => IInv'
<1> SUFFICES ASSUME IInv, LoadEnv PROVE IInv'
  OBVIOUS
<1>1. CASE Raise
  BY <1>1, EndKeeps DEF Raise
<1>2. CASE /\ EnvUsable /\ Go("again")
           /\ allowlist' = Ids
           /\ Register(Token)
           /\ UNCHANGED <<unchecked, chain>>
  <2>1. at = "connector"
    BY DEF LoadEnv
  <2>2. allowlist' \subseteq Chats
    <3>1. chatIds \in Seq(Chats \union {"", "word"})
      BY StartupAssumption DEF IInv, Given
    <3>2. \A i \in DOMAIN chatIds : chatIds[i] \in Chats \union {"", "word"}
      BY <3>1, ElementsInSet, Zenon
    <3>3. QED
      BY <1>2, <3>2, Zenon DEF EnvUsable, Ids
  <2>3. secrets' \subseteq [text : EnvNames \union {""}, padded : BOOLEAN]
    BY <1>2, RegisteredType DEF IInv, TypeOK, Register, EnvNames
  <2>4. Whole'
    BY <1>2, <2>1 DEF IInv, Whole, Go, given, config, AfterChain
  <2>5. EnvLoaded'
    BY <1>2 DEF EnvLoaded, Go, given, Ids, EnvUsable, Register
  <2>6. QED
    BY <1>2, <2>1, <2>2, <2>3, <2>4, <2>5, ChainStays DEF Go, Register, AfterKeys, AfterChain
<1>3. QED
  BY <1>1, <1>2 DEF LoadEnv

(* The second resolution gives what the first gave.                      *)
LEMMA ResolveAgainKeeps == IInv /\ ResolveAgain => IInv'
<1> SUFFICES ASSUME IInv, ResolveAgain PROVE IInv'
  OBVIOUS
<1>1. CASE Raise
  BY <1>1, EndKeeps DEF Raise
<1>2. CASE /\ Primary # Refused /\ Go("connect")
           /\ chain' = [chain EXCEPT ![1] = Primary]
           /\ UNCHANGED <<unchecked, secrets, allowlist>>
  <2>1. at = "again"
    BY DEF ResolveAgain
  <2>2. chain' = chain
    <3>1. chain \in Seq(Candidates) /\ \A k \in DOMAIN chain : chain[k] = Entry(k)
      BY <2>1 DEF IInv, Resolved, AfterKeys, AfterChain
    <3>2. Entry(1) = Primary
      BY DEF Entry, RefAt, Primary
    <3>3. QED
      BY <1>2, <3>1, <3>2
  <2>3. Whole'
    BY <1>2, <2>1, <2>2 DEF IInv, Whole, Go, given, config, AfterChain
  <2>4. EnvLoaded'
    BY <1>2, <2>1 DEF IInv, EnvLoaded, Go, given, Ids, EnvUsable, AfterEnv
  <2>5. QED
    BY <1>2, <2>1, <2>2, <2>3, <2>4, ChainStays DEF Go, IInv, TypeOK, AfterKeys, AfterChain
<1>3. QED
  BY <1>1, <1>2 DEF ResolveAgain

(* Telegram changes nothing of what was loaded.                          *)
LEMMA ConnectKeeps == IInv /\ Connect => IInv'
<1> SUFFICES ASSUME IInv, Connect PROVE IInv'
  OBVIOUS
<1>1. CASE Raise
  BY <1>1, EndKeeps DEF Raise
<1>2. CASE Go("serving") /\ UNCHANGED <<unchecked, secrets, chain, allowlist>>
  <2>1. at = "connect"
    BY DEF Connect
  <2>2. Whole' /\ EnvLoaded'
    BY <1>2, <2>1
    DEF IInv, Whole, EnvLoaded, Go, given, config, Ids, EnvUsable, AfterChain, AfterEnv
  <2>3. QED
    BY <1>2, <2>1, <2>2, ChainStays DEF Go, IInv, TypeOK, AfterKeys, AfterChain
<1>3. QED
  BY <1>1, <1>2 DEF Connect

(* Ended, and steps of nobody.                                             *)
LEMMA StutterKeeps == IInv /\ UNCHANGED vars => IInv'
<1> SUFFICES ASSUME IInv, UNCHANGED vars PROVE IInv'
  OBVIOUS
<1>1. TypeOK' /\ Given' /\ Loaded' /\ GroupFound' /\ NothingYet'
  BY DEF IInv, vars, given, config, TypeOK, Given, Loaded, GroupFound, NothingYet
<1>2. KeysChecked' /\ KeysCovered'
  BY DEF IInv, vars, given, config, KeysChecked, Known, KeyMissing, KeysCovered, Covered
<1>3. Resolved' /\ Whole' /\ EnvLoaded'
  <2>1. UNCHANGED <<config, Candidates>> /\ \A i : Entry(i)' = Entry(i)
    BY DEF vars, given, config, Candidates, Entry, RefAt
  <2>2. QED
    BY <2>1 DEF IInv, vars, given, Resolved, Whole, EnvLoaded, Ids, EnvUsable
<1>4. QED
  BY <1>1, <1>2, <1>3 DEF IInv

(* The inductive invariant holds of every start.                           *)
THEOREM Invariant == Spec => []IInv
<1>1. IInv /\ [Next]_vars => IInv'
  <2> SUFFICES ASSUME IInv, [Next]_vars PROVE IInv'
    OBVIOUS
  <2>1. CASE Entrypoint
    BY <2>1, EntrypointKeeps
  <2>2. CASE OtherCommand
    BY <2>2, OtherCommandKeeps
  <2>3. CASE Import
    BY <2>3, ImportKeeps
  <2>4. CASE LoadConfig
    BY <2>4, LoadConfigKeeps
  <2>5. CASE FindGroup
    BY <2>5, FindGroupKeeps
  <2>6. CASE \E p \in unchecked : CheckKey(p)
    BY <2>6, CheckKeyKeeps
  <2>7. CASE ResolvePrimary
    BY <2>7, ResolvePrimaryKeeps
  <2>8. CASE ResolveFallback
    BY <2>8, ResolveFallbackKeeps
  <2>9. CASE OpenMemory
    BY <2>9, OpenMemoryKeeps
  <2>10. CASE LoadEnv
    BY <2>10, LoadEnvKeeps
  <2>11. CASE ResolveAgain
    BY <2>11, ResolveAgainKeeps
  <2>12. CASE Connect
    BY <2>12, ConnectKeeps
  <2>13. CASE Stop
    BY <2>13, EndKeeps DEF Stop
  <2>14. CASE Ended \/ UNCHANGED vars
    BY <2>14, StutterKeeps DEF Ended
  <2>15. QED
    BY <2>1, <2>2, <2>3, <2>4, <2>5, <2>6, <2>7, <2>8, <2>9, <2>10, <2>11, <2>12, <2>13, <2>14
    DEF Next
<1>2. QED
  BY <1>1, InitHolds, PTL DEF Spec
-----------------------------------------------------------------------------
(* The variables keep their types (TypeOK).                                *)
THEOREM TypeCorrect == Spec => []TypeOK
<1>1. IInv => TypeOK
  BY DEF IInv
<1>2. QED
  BY <1>1, Invariant, PTL

(* A chain with an entry for every reference comes of a complete file.     *)
LEMMA WholeIsComplete ==
  ASSUME IInv, at \in AfterKeys, Len(chain) = Len(config.fallback) + 1
  PROVE  Complete(file, NonBlank)
<1> USE DEF AfterConfig, AfterGroup, AfterKeys, AfterChain
<1>1. /\ Loads(file) /\ Group \in DOMAIN config.agents /\ file.form = "config"
      /\ unchecked = {}
  BY DEF IInv, Loaded, GroupFound, Resolved, Loads
<1>2. Typed(config)
  BY <1>1, StartupAssumption DEF IInv, Given, config
<1>3. ASSUME NEW p \in DOMAIN config.providers
      PROVE  config.providers[p].keyEnv \in NonBlank \union {NoKeyEnv}
  BY <1>1, KeyEnvKnown DEF IInv, KeysChecked, Known, KeyMissing, NonBlank
<1>4. ASSUME NEW ref \in {config.agents[Group]} \union Entries(config)
      PROVE  Supported(config, ref)
  <2>1. PICK k \in DOMAIN chain : ref = RefAt(k)
    <3>1. /\ chain \in Seq(Candidates)
          /\ DOMAIN chain = 1 .. Len(config.fallback) + 1 /\ Len(config.fallback) \in Nat
          /\ DOMAIN config.fallback = 1 .. Len(config.fallback)
      BY <1>2 DEF IInv, Resolved, Typed
    <3>2. CASE ref = config.agents[Group]
      BY <3>1, <3>2 DEF RefAt
    <3>3. CASE ref \in Entries(config)
      <4>1. PICK i \in DOMAIN config.fallback : ref = config.fallback[i]
        BY <3>3 DEF Entries
      <4>2. i + 1 \in DOMAIN chain /\ RefAt(i + 1) = config.fallback[i]
        BY <3>1 DEF RefAt
      <4>3. QED
        BY <4>1, <4>2
    <3>4. QED
      BY <3>2, <3>3
  <2>2. Resolve(config, ref, env) # Refused
    BY <2>1 DEF IInv, Resolved, Entry
  <2>3. QED
    BY <2>2, ResolveSupported
<1>5. QED
  BY <1>1, <1>3, <1>4 DEF Complete, config

(* A serving agent has a file that loads, whose every reference resolves   *)
(* and whose every provider has a key that is not blank (__main__.py       *)
(* 45-83), and the chats of the environment (telegram.py 38-74).           *)
THEOREM OnlyCompleteServes == Spec => []ServesOnlyComplete
<1>1. IInv => ServesOnlyComplete
  BY WholeIsComplete DEF ServesOnlyComplete, IInv, Whole, EnvLoaded, EnvUsable,
    AfterKeys, AfterChain, AfterEnv
<1>2. QED
  BY <1>1, Invariant, PTL

(* The chain of a serving agent repeats no provider's model, is no longer  *)
(* than the schema allows, and every entry has an address (config.py       *)
(* 76-112, registry.py 46-93): Bot's assumption on Chain is met.           *)
THEOREM ChainIsSound == Spec => []ChainSound
<1>1. IInv => ChainSound
  <2> SUFFICES ASSUME IInv, at = "serving"
               PROVE  /\ Len(chain) \in 1 .. FallbackMaxLength + 1
                      /\ \A i, j \in DOMAIN chain :
                           chain[i].provider = chain[j].provider /\ chain[i].model = chain[j].model
                             => i = j
                      /\ \A i \in DOMAIN chain : chain[i].url # NoUrl
    BY DEF ChainSound
  <2> USE DEF AfterConfig, AfterGroup, AfterKeys, AfterChain
  <2>1. /\ Loads(file) /\ Group \in DOMAIN config.agents /\ file.form = "config"
    BY DEF IInv, Loaded, GroupFound, Loads
  <2>2. Typed(config) /\ UrlsGiven(config) /\ FallbackSound(config)
    BY <2>1, StartupAssumption DEF IInv, Given, config, Loads, Valid
  <2>3. /\ chain \in Seq(Candidates) /\ Len(chain) = Len(config.fallback) + 1
        /\ DOMAIN chain = 1 .. Len(config.fallback) + 1 /\ Len(config.fallback) \in Nat
        /\ DOMAIN config.fallback = 1 .. Len(config.fallback)
        /\ \A k \in DOMAIN chain : chain[k] = Entry(k) /\ Entry(k) # Refused
    BY <2>2 DEF IInv, Resolved, Whole, Typed
  <2>4. \A k \in DOMAIN chain :
          /\ RefAt(k) \in [provider : STRING, model : STRING]
          /\ RefAt(k).provider \in DOMAIN config.providers
          /\ config.providers[RefAt(k).provider].kind # "anthropic"
          /\ chain[k].provider = RefAt(k).provider
          /\ chain[k].model = RefAt(k).model
          /\ chain[k].url = config.providers[RefAt(k).provider].url
    <3>1. ASSUME NEW k \in DOMAIN chain
          PROVE  RefAt(k) \in Primaries(config) \union Entries(config)
      <4>1. CASE k = 1
        BY <2>1, <4>1 DEF RefAt, Primaries
      <4>2. CASE k # 1
        <5>1. k - 1 \in DOMAIN config.fallback
          BY <2>3, <4>2
        <5>2. QED
          BY <4>2, <5>1 DEF RefAt, Entries
      <4>3. QED
        BY <4>1, <4>2
    <3>2. ASSUME NEW k \in DOMAIN chain
          PROVE  /\ Supported(config, RefAt(k))
                 /\ chain[k].provider = RefAt(k).provider
                 /\ chain[k].model = RefAt(k).model
                 /\ chain[k].url = config.providers[RefAt(k).provider].url
      <4>1. chain[k] = Resolve(config, RefAt(k), env) /\ Resolve(config, RefAt(k), env) # Refused
        BY <2>3 DEF Entry
      <4>2. QED
        BY <4>1, ResolveSupported DEF ResolvedProvider
    <3>3. QED
      BY <2>2, <3>1, <3>2 DEF Typed, Supported
  <2>5. ASSUME NEW i \in DOMAIN chain, NEW j \in DOMAIN chain, RefAt(i) = RefAt(j)
        PROVE  i = j
    <3>1. \A k \in DOMAIN chain \ {1} :
            k - 1 \in DOMAIN config.fallback /\ RefAt(k) = config.fallback[k - 1]
      BY <2>3 DEF RefAt
    <3>2. RefAt(1) \in Primaries(config)
      BY <2>1 DEF RefAt, Primaries
    <3>3. \A k \in DOMAIN chain \ {1} : RefAt(k) # RefAt(1)
      BY <2>2, <3>1, <3>2 DEF FallbackSound, Entries
    <3>4. CASE i = 1 \/ j = 1
      BY <2>5, <3>3, <3>4
    <3>5. CASE i # 1 /\ j # 1
      <4>1. i - 1 = j - 1
        BY <2>2, <2>5, <3>1, <3>5 DEF FallbackSound
      <4>2. QED
        BY <2>3, <4>1
    <3>6. QED
      BY <3>4, <3>5
  <2>6. ASSUME NEW i \in DOMAIN chain, NEW j \in DOMAIN chain,
               chain[i].provider = chain[j].provider, chain[i].model = chain[j].model
        PROVE  i = j
    <3>1. RefAt(i) = RefAt(j)
      BY <2>4, <2>6
    <3>2. QED
      BY <3>1, <2>5
  <2>7. \A i \in DOMAIN chain : chain[i].url # NoUrl
    BY <2>2, <2>4 DEF Typed, UrlsGiven
  <2>8. Len(chain) \in 1 .. FallbackMaxLength + 1
    BY <2>2, <2>3 DEF FallbackSound, FallbackMaxLength
  <2>9. QED
    BY <2>6, <2>7, <2>8
<1>2. QED
  BY <1>1, Invariant, PTL

(* Every key of the chain, and the token from the moment it is used, is    *)
(* known to the scrubber (__main__.py 54-77, telegram.py 174-179).         *)
THEOREM KeysAreScrubbed == Spec => []KeysScrubbed
<1>1. IInv => KeysScrubbed
  BY DEF IInv, KeysCovered, EnvLoaded, AfterEnv, KeysScrubbed, Covered, Value, Strip
<1>2. QED
  BY <1>1, Invariant, PTL
-----------------------------------------------------------------------------
(* Why a start ends, kept with the help of IInv.                           *)
Causes ==
  /\ at \in AfterChain => disk = "fine"
  /\ how = "refused" => ~LoadRaises(file) /\ (~Complete(file, NonBlank) \/ disk = "locked")
  /\ how \in {"traceback", "stopped"} =>
       LoadRaises(file) \/ (Complete(file, NonBlank) /\ disk # "locked")

(* resolve takes every reference of a complete file: no check it makes is  *)
(* stricter than those main has made (registry.py 46-93).                  *)
LEMMA CompleteResolves ==
  ASSUME Complete(file, NonBlank), IInv,
         NEW ref \in {config.agents[Group]} \union Entries(config)
  PROVE  Resolve(config, ref, env) # Refused
<1> DEFINE spec == config.providers[ref.provider]
           key == IF spec.keyEnv = NoKeyEnv THEN Unset ELSE env[spec.keyEnv]
<1>1. /\ Supported(config, ref) /\ Valid(config)
      /\ spec.keyEnv \in NonBlank \union {NoKeyEnv}
  BY DEF Complete, Loads, Supported, config
<1>2. WellFormed(ref)
  <2>1. ref \in Primaries(config) \union Entries(config)
    BY DEF Complete, Primaries, config
  <2>2. QED
    BY <1>1, <2>1 DEF Valid, RefsWellFormed
<1>3. spec.keyEnv # NoKeyEnv => Truthy(key)
  <2> SUFFICES ASSUME spec.keyEnv # NoKeyEnv PROVE Truthy(env[spec.keyEnv])
    OBVIOUS
  <2>1. Strip(env[spec.keyEnv]) # ""
    BY <1>1 DEF NonBlank
  <2>2. Strip(Unset) = ""
    BY DEF Strip, Unset, Value
  <2>3. QED
    BY <2>1, <2>2 DEF Truthy
<1>4. Resolve(config, ref, env) = ResolvedProvider(ref.provider, spec, key, ref.model)
  BY <1>1, <1>2, <1>3 DEF Resolve, Supported
<1>5. ResolvedProvider(ref.provider, spec, key, ref.model) # Refused
  <2>1. DOMAIN ResolvedProvider(ref.provider, spec, key, ref.model)
          = {"provider", "url", "key", "model"}
    BY DEF ResolvedProvider
  <2>2. DOMAIN Refused = {"provider"}
    BY DEF Refused
  <2>3. QED
    BY <2>1, <2>2
<1>6. QED
  BY <1>4, <1>5

(* A step that ends nothing keeps the causes.                              *)
LEMMA GoingOnKeepsCauses ==
  ASSUME Causes, UNCHANGED <<given, how>>, at' \in AfterChain => disk = "fine"
  PROVE  Causes'
BY DEF Causes, given, LoadRaises, Complete, Loads, NonBlank

LEMMA RefusingKeepsCauses ==
  ASSUME Refuse, ~LoadRaises(file), ~Complete(file, NonBlank) \/ disk = "locked"
  PROVE  Causes'
BY DEF Refuse, End, Causes, given, LoadRaises, Complete, Loads, NonBlank, AfterChain

LEMMA OtherEndsKeepCauses ==
  ASSUME NEW manner \in {"unmounted", "wizard", "usage", "traceback", "stopped"}, End(manner),
         manner \in {"traceback", "stopped"} =>
           LoadRaises(file) \/ (Complete(file, NonBlank) /\ disk # "locked")
  PROVE  Causes'
BY DEF End, Causes, given, LoadRaises, Complete, Loads, NonBlank, AfterChain

(* From the connector on nothing can be refused any more.                  *)
LEMMA ConnectorIsComplete ==
  ASSUME IInv, Causes, at \in AfterChain
  PROVE  Complete(file, NonBlank) /\ disk # "locked"
<1>1. Complete(file, NonBlank)
  BY WholeIsComplete DEF IInv, Whole, AfterKeys
<1>2. QED
  BY <1>1 DEF Causes

LEMMA CausesNext == IInv /\ Causes /\ [Next]_vars => Causes'
<1> SUFFICES ASSUME IInv, Causes, [Next]_vars PROVE Causes'
  OBVIOUS
<1> USE DEF AfterConfig, AfterGroup, AfterKeys, AfterChain
<1>1. at \in AfterConfig => Loads(file) /\ ~LoadRaises(file)
  BY DEF IInv, Loaded, Loads, LoadRaises
<1>2. CASE Entrypoint
  BY <1>2, GoingOnKeepsCauses, OtherEndsKeepCauses DEF Entrypoint, Go
<1>3. CASE OtherCommand \/ Import
  BY <1>3, GoingOnKeepsCauses, OtherEndsKeepCauses DEF OtherCommand, Import, Go
<1>4. CASE LoadConfig
  BY <1>4, GoingOnKeepsCauses, OtherEndsKeepCauses, RefusingKeepsCauses
  DEF LoadConfig, Go, Raise, LoadRefuses, Complete
<1>5. CASE FindGroup
  BY <1>1, <1>5, GoingOnKeepsCauses, RefusingKeepsCauses DEF FindGroup, Go, Complete, config
<1>6. ASSUME NEW p \in unchecked, CheckKey(p) PROVE Causes'
  <2> DEFINE n == config.providers[p].keyEnv
  <2>1. CASE n # NoKeyEnv /\ KeyMissing(n)
    <3>1. p \in DOMAIN config.providers
      BY <1>6 DEF IInv, KeysChecked, CheckKey
    <3>2. n \notin NonBlank \union {NoKeyEnv}
      BY <2>1 DEF NonBlank, KeyMissing
    <3>3. ~Complete(file, NonBlank)
      BY <3>1, <3>2 DEF Complete, config
    <3>4. QED
      BY <1>1, <1>6, <2>1, <3>3, RefusingKeepsCauses DEF CheckKey
  <2>2. CASE ~(n # NoKeyEnv /\ KeyMissing(n))
    BY <1>6, <2>2, GoingOnKeepsCauses DEF CheckKey, Go
  <2>3. QED
    BY <2>1, <2>2
<1>7. CASE ResolvePrimary
  BY <1>1, <1>7, CompleteResolves, GoingOnKeepsCauses, RefusingKeepsCauses
  DEF ResolvePrimary, Primary, Go
<1>8. CASE ResolveFallback
  <2>1. CASE FallbackJoins
    BY <1>8, <2>1, GoingOnKeepsCauses DEF FallbackJoins, Go
  <2>2. CASE Fallback(Len(chain)) = Refused /\ Refuse
    <3>0. Typed(config)
      BY <1>1, <1>8, StartupAssumption DEF IInv, Given, config, Loads, ResolveFallback
    <3>1. Len(chain) >= 1 /\ Len(chain) \in Nat
      BY <1>8, <3>0 DEF IInv, Resolved, Typed, ResolveFallback
    <3>2. Len(chain) \in DOMAIN config.fallback
      BY <1>8, <3>0, <3>1 DEF Typed, ResolveFallback
    <3>3. config.fallback[Len(chain)] \in Entries(config)
      BY <3>2 DEF Entries
    <3>4. ~Complete(file, NonBlank)
      BY <2>2, <3>3, CompleteResolves DEF Fallback
    <3>5. QED
      BY <1>1, <1>8, <2>2, <3>4, RefusingKeepsCauses DEF ResolveFallback
  <2>3. QED
    BY <1>8, <2>1, <2>2 DEF ResolveFallback
<1>9. CASE OpenMemory
  <2>1. Complete(file, NonBlank)
    <3>1. Typed(config) /\ Len(chain) \in 1 .. Len(config.fallback) + 1
      BY <1>1, <1>9, StartupAssumption DEF IInv, Given, Resolved, config, Loads, OpenMemory
    <3>2. Len(chain) = Len(config.fallback) + 1
      BY <1>9, <3>1 DEF Typed, OpenMemory
    <3>3. QED
      BY <1>9, <3>2, WholeIsComplete DEF OpenMemory
  <2>2. QED
    BY <1>1, <1>9, <2>1, GoingOnKeepsCauses, OtherEndsKeepCauses, RefusingKeepsCauses
    DEF OpenMemory, Raise, Go
<1>10. CASE LoadEnv \/ ResolveAgain \/ Connect \/ Stop
  <2>1. at \in AfterChain
    BY <1>10 DEF LoadEnv, ResolveAgain, Connect, Stop
  <2>2. Complete(file, NonBlank) /\ disk # "locked" /\ disk = "fine"
    BY <2>1, ConnectorIsComplete DEF Causes
  <2>3. QED
    BY <1>10, <2>2, GoingOnKeepsCauses, OtherEndsKeepCauses
    DEF LoadEnv, ResolveAgain, Connect, Stop, Raise, Go
<1>11. CASE UNCHANGED vars
  BY <1>11, GoingOnKeepsCauses DEF vars, given, Causes
<1>12. QED
  BY <1>2, <1>3, <1>4, <1>5, <1>6, <1>7, <1>8, <1>9, <1>10, <1>11 DEF Next, Ended

(* A start that ends in the one CRITICAL line had an incomplete            *)
(* configuration or no usable database or environment, and a start whose   *)
(* configuration is incomplete or whose database is locked never gets past *)
(* main without that line (__main__.py 44-95).                             *)
THEOREM RefusesOnlyForCause == Spec => []RefusedForCause
<1>1. Init => Causes
  BY DEF Init, Causes, AfterChain
<1>2. Causes => RefusedForCause
  BY DEF Causes, RefusedForCause
<1>3. QED
  BY <1>1, <1>2, CausesNext, Invariant, PTL DEF Spec
=============================================================================
