----------------------------- MODULE Deployment -----------------------------
(***************************************************************************)
(* docker-compose.yaml's three services over one config.yaml and .env:     *)
(* init renders the egress allowlist (container/extract-allowlist.sh) onto *)
(* a volume, the proxy reads it when it starts (tinyproxy/                 *)
(* generate-config.sh), the agent reads config.yaml when it starts and has *)
(* no way out but the proxy.  The operator edits, brings the stack up and  *)
(* down; containers die, start again and the host reboots.                 *)
(*                                                                         *)
(* A start of the agent is one step here: Startup.tla shows that it ends   *)
(* in serving only with a Complete configuration.  The wizard's two        *)
(* renames are an edit of .env and one of config.yaml.                     *)
(***************************************************************************)
EXTENDS Config

CONSTANTS
  Files,        \* contents of config.yaml
  Envs,         \* contents of .env: the variables it sets
  MaxEdits,     \* bound of the model: edits of either file
  MaxCommands,  \* bound of the model: docker compose up and down
  MaxFaults     \* bound of the model: kills, reboots, refused connections

ASSUME DeploymentAssumption ==
  MaxEdits \in Nat /\ MaxCommands \in Nat /\ MaxFaults \in Nat

VARIABLES
  file,      \* ./config.yaml
  dotenv,    \* ./.env
  shared,    \* egress-allowlist.env on its volume: NoList, or its hosts
  init,      \* the containers: "none", "created", "starting", ...
  found,     \* init: the hosts it read
  proxy,
  filter,    \* the hosts the running proxy lets through
  agent,
  agentEnv,  \* the environment the agent's container was created with
  loaded,    \* the config.yaml the running agent read
  up,        \* docker compose up: "idle", the service it waits for, "ok" or "failed"
  touched,   \* config.yaml or .env was edited since the containers were created
  edits, commands, faults

operator == <<file, dotenv, touched, edits>>
renderer == <<init, found, shared>>
egress == <<proxy, filter>>
bot == <<agent, agentEnv, loaded>>
compose == <<up, commands>>
vars == <<file, dotenv, touched, edits, init, found, shared, proxy, filter, agent, agentEnv,
          loaded, up, commands, faults>>

NoList == {"no file"}
Emptied == {}

ASSUME NoListIsNotAList == \A f \in Files : HostsOf(f) # NoList

Init ==
  /\ file \in Files /\ dotenv \in Envs
  /\ shared = NoList /\ init = "none" /\ found = {}
  /\ proxy = "none" /\ filter = {}
  /\ agent = "none" /\ agentEnv = {} /\ loaded = NoConfig
  /\ up = "idle" /\ touched = FALSE
  /\ edits = 0 /\ commands = 0 /\ faults = 0

Busy == up \in {"init", "proxy"}
Fault == faults < MaxFaults /\ faults' = faults + 1
-----------------------------------------------------------------------------
(* The operator                                                            *)

Edit ==
  /\ edits < MaxEdits /\ edits' = edits + 1 /\ touched' = TRUE
  /\ \/ file' \in Files /\ UNCHANGED dotenv
     \/ dotenv' \in Envs /\ UNCHANGED file
  /\ UNCHANGED <<renderer, egress, bot, compose, faults>>

(* Mutated form: env_file: .env.                                           *)
BugPassed == dotenv

(* environment: of the agent names the variables that reach it.            *)
Passed == dotenv \intersect Forwarded

(* up creates the containers there are not, replaces the agent's if its    *)
(* environment is another one, and runs init, which never restarts itself  *)
(* and so has always exited.                                               *)
Up ==
  /\ ~Busy /\ commands < MaxCommands /\ commands' = commands + 1
  /\ up' = "init" /\ init' = "running"
  /\ proxy' = IF proxy = "none" THEN "created" ELSE proxy
  /\ touched' = (touched /\ proxy # "none")
  /\ IF agent # "none" /\ agentEnv = Passed THEN UNCHANGED bot
     ELSE agent' = "created" /\ agentEnv' = Passed /\ loaded' = NoConfig
  /\ UNCHANGED <<file, dotenv, edits, found, shared, filter, faults>>

(* down removes the containers; the volumes stay.                          *)
Down ==
  /\ ~Busy /\ commands < MaxCommands /\ commands' = commands + 1
  /\ up' = "idle" /\ init' = "none" /\ proxy' = "none" /\ agent' = "none"
  /\ agentEnv' = {} /\ loaded' = NoConfig /\ filter' = {} /\ found' = {}
  /\ UNCHANGED <<operator, shared, faults>>

(* Mutated form: depends_on without a condition.                           *)
BugInitCompleted == TRUE

(* depends_on init: service_completed_successfully                         *)
InitCompleted == init = "done"

StartProxy ==
  /\ up = "init" /\ InitCompleted /\ up' = "proxy"
  /\ proxy' = IF proxy \in {"created", "exited"} THEN "starting" ELSE proxy
  /\ UNCHANGED <<operator, renderer, filter, bot, commands, faults>>

(* depends_on proxy: service_healthy                                       *)
StartAgent ==
  /\ up = "proxy" /\ proxy = "running" /\ up' = "ok"
  /\ agent' = IF agent \in {"created", "exited"} THEN "starting" ELSE agent
  /\ UNCHANGED <<operator, renderer, egress, agentEnv, loaded, commands, faults>>

UpFails ==
  /\ \/ up = "init" /\ init = "failed"
     \/ up = "proxy" /\ proxy = "exited"
  /\ up' = "failed"
  /\ UNCHANGED <<operator, renderer, egress, bot, commands, faults>>
-----------------------------------------------------------------------------
(* init                                                                    *)

(* No host, or a file that is none: exit 1 before the volume is touched.   *)
InitRefuses ==
  /\ init = "running" /\ HostsOf(file) = {} /\ init' = "failed"
  /\ UNCHANGED <<operator, found, shared, egress, bot, compose, faults>>

(* > empties the file before printf fills it.                              *)
InitOpens ==
  /\ init = "running" /\ HostsOf(file) # {} /\ init' = "writing"
  /\ found' = HostsOf(file)
  /\ shared' = Emptied
  /\ UNCHANGED <<operator, egress, bot, compose, faults>>

InitWrites ==
  /\ init = "writing" /\ init' = "done"
  /\ shared' = found
  /\ UNCHANGED <<operator, found, egress, bot, compose, faults>>
-----------------------------------------------------------------------------
(* The proxy                                                               *)

(* Sourcing LLM_PROVIDER_HOSTS=a b runs b with a in its environment, and   *)
(* set -e ends the script: the list can be read when it has one host.      *)
Readable(list) == list # NoList /\ Cardinality(list) = 1

ProxyStarts ==
  /\ proxy = "starting"
  /\ \/ ~Readable(shared) /\ proxy' = "exited" /\ UNCHANGED filter
     \/ Readable(shared) /\ proxy' = "running" /\ filter' = shared
  /\ UNCHANGED <<operator, renderer, bot, compose, faults>>

(* Mutated form: restart: "no".                                            *)
BugRestarts == FALSE

(* restart: unless-stopped                                                 *)
Restarts == TRUE

ProxyRestarts ==
  /\ proxy = "exited" /\ Restarts /\ proxy' = "starting"
  /\ UNCHANGED <<operator, renderer, filter, bot, compose, faults>>
-----------------------------------------------------------------------------
(* The agent                                                               *)

(* Mutated form: the keys of the file's providers are not asked for.       *)
BugAgentLoads ==
  /\ agent = "starting"
  /\ agent' = IF Loads(file) THEN "connecting" ELSE "exited"
  /\ loaded' = file
  /\ UNCHANGED <<operator, renderer, egress, agentEnv, compose, faults>>

(* The entrypoint and main up to the connector.                            *)
AgentLoads ==
  /\ agent = "starting"
  /\ agent' = IF Complete(file, agentEnv) THEN "connecting" ELSE "exited"
  /\ loaded' = file
  /\ UNCHANGED <<operator, renderer, egress, agentEnv, compose, faults>>

(* run_polling's first calls go through the proxy.                         *)
AgentConnects ==
  /\ agent = "connecting"
  /\ agent' = IF proxy = "running" THEN "serving" ELSE "exited"
  /\ UNCHANGED <<operator, renderer, egress, agentEnv, loaded, compose, faults>>

AgentRestarts ==
  /\ agent = "exited" /\ Restarts /\ agent' = "starting"
  /\ UNCHANGED <<operator, renderer, egress, agentEnv, loaded, compose, faults>>
-----------------------------------------------------------------------------
(* Faults                                                                  *)

(* What happens to a container that had been started.                      *)
Dies(container) == IF container \in {"none", "created"} THEN container ELSE "exited"

KillProxy ==
  /\ Fault /\ proxy \in {"starting", "running"} /\ proxy' = "exited"
  /\ UNCHANGED <<operator, renderer, filter, bot, compose>>

(* The process is killed, or Telegram is not reached.                      *)
KillAgent ==
  /\ Fault /\ agent \in {"starting", "connecting", "serving"} /\ agent' = "exited"
  /\ UNCHANGED <<operator, renderer, egress, agentEnv, loaded, compose>>

KillInit ==
  /\ Fault /\ init \in {"running", "writing"} /\ init' = "failed"
  /\ UNCHANGED <<operator, found, shared, egress, bot, compose>>

(* The daemon starts proxy and agent again, in any order, and not init.    *)
Reboot ==
  /\ Fault
  /\ up' = IF Busy THEN "failed" ELSE up
  /\ init' = IF init \in {"running", "writing"} THEN "failed" ELSE init
  /\ proxy' = Dies(proxy) /\ agent' = Dies(agent)
  /\ UNCHANGED <<operator, found, shared, filter, agentEnv, loaded, commands>>

Next ==
  \/ Edit
  \/ Up
  \/ Down
  \/ StartProxy
  \/ StartAgent
  \/ UpFails
  \/ InitRefuses
  \/ InitOpens
  \/ InitWrites
  \/ ProxyStarts
  \/ ProxyRestarts
  \/ AgentLoads
  \/ AgentConnects
  \/ AgentRestarts
  \/ KillProxy
  \/ KillAgent
  \/ KillInit
  \/ Reboot

Spec == Init /\ [][Next]_vars

(* Containers run, the daemon keeps its restart policy.  The operator may  *)
(* do nothing.                                                             *)
FairSpec ==
  /\ Spec
  /\ WF_vars(StartProxy \/ StartAgent \/ UpFails)
  /\ WF_vars(InitRefuses \/ InitOpens \/ InitWrites)
  /\ WF_vars(ProxyStarts \/ ProxyRestarts)
  /\ WF_vars(AgentLoads \/ AgentConnects \/ AgentRestarts)
-----------------------------------------------------------------------------
Hosts == UNION {HostsOf(f) : f \in Files}
Running == {"none", "created", "starting", "running", "exited"}

TypeOK ==
  /\ file \in Files /\ dotenv \in Envs
  /\ shared \in (SUBSET Hosts) \union {NoList} /\ found \subseteq Hosts
  /\ init \in {"none", "running", "writing", "done", "failed"}
  /\ proxy \in Running /\ filter \subseteq Hosts
  /\ agent \in {"none", "created", "starting", "connecting", "serving", "exited"}
  /\ agentEnv \subseteq Forwarded /\ loaded \in Files \union {NoConfig}
  /\ up \in {"idle", "init", "proxy", "ok", "failed"}

(* A stack whose files were not edited since its containers were created   *)
(* agrees with them: the agent runs config.yaml and .env as they are and   *)
(* the proxy lets through its hosts, whatever list an earlier stack left   *)
(* on the volume, whoever died and whatever was started again without      *)
(* init (docker-compose.yaml 19-95).                                       *)
FreshStackMatches ==
  ~touched =>
    /\ agent = "serving" => loaded = file /\ agentEnv = Passed
    /\ proxy = "running" => filter = HostsOf(file)

(* Whatever was edited since, and whenever the agent was started again:    *)
(* the file it serves is complete with the variables its container was     *)
(* created with, not with those that .env has by now (docker-compose.yaml  *)
(* 61-76, __main__.py 65-77).                                              *)
ServesWithItsKeys == agent = "serving" => Complete(loaded, agentEnv)

(* docker compose up fails for a cause: a fault, or a config.yaml that has *)
(* no host for the allowlist or more than one (extract-allowlist.sh,       *)
(* generate-config.sh 16-25).                                              *)
UpFailsForCause ==
  up = "failed" /\ faults = 0 /\ ~touched => Cardinality(HostsOf(file)) # 1

(* A stack that came up from complete files serves in the end, and again   *)
(* after every kill and reboot, until the operator acts (docker-compose.   *)
(* yaml 38, 60; FR-L2).                                                    *)
StackServes ==
  (up = "ok" /\ ~touched /\ Complete(file, Passed))
    ~> (agent = "serving" \/ touched \/ up # "ok")

(* A complete configuration comes up, with any number of providers: init   *)
(* writes the union of their hosts and the proxy allows each one.          *)
CompleteComesUp ==
  up = "failed" /\ faults = 0 /\ ~touched => ~Complete(file, Passed)
=============================================================================
