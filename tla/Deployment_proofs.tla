--------------------------- MODULE Deployment_proofs ---------------------------
(***************************************************************************)
(* Theorems about Deployment.tla for any files and any number of edits,    *)
(* commands and faults: what a stack nobody edited under agrees with, and  *)
(* why bringing one up can fail.                                           *)
(***************************************************************************)
EXTENDS Deployment, FiniteSetTheorems, TLAPS

Started == {"starting", "running", "exited"}

(* The two lasting containers are created and removed together.            *)
Together == proxy = "none" <=> agent = "none"

(* init works for the file as it is, and leaves its hosts on the volume.   *)
Rendered ==
  ~touched =>
    /\ init = "writing" => found = HostsOf(file)
    /\ init = "done" => shared = HostsOf(file)

(* A proxy that was started finds the hosts, or the list that a second     *)
(* init is writing.                                                        *)
Listed == ~touched /\ proxy \in Started => shared \in {HostsOf(file), Emptied}

Filtered == ~touched /\ proxy = "running" => filter = HostsOf(file)

AgentFresh ==
  ~touched =>
    /\ agent \in {"connecting", "serving"} => loaded = file
    /\ agent # "none" => agentEnv = Passed

(* From its checks on the agent has the keys they asked for.               *)
HasKeys == agent \in {"connecting", "serving"} => Complete(loaded, agentEnv)

(* Without a fault init fails only for the file, and over one host the     *)
(* proxy starts in one go, while up waits for it.                          *)
Causes ==
  ~touched /\ faults = 0 /\ Cardinality(HostsOf(file)) = 1 =>
    /\ init # "failed" /\ up # "failed" /\ proxy # "exited"
    /\ proxy = "starting" => up = "proxy"
    /\ up = "proxy" => init = "done"

IInv ==
  /\ TypeOK /\ faults \in Nat
  /\ Together /\ Rendered /\ Listed /\ Filtered /\ AgentFresh /\ HasKeys /\ Causes
-----------------------------------------------------------------------------
LEMMA HostsTyped == \A f \in Files : HostsOf(f) \subseteq Hosts
BY DEF Hosts

LEMMA InitHolds == Init => IInv
<1> SUFFICES ASSUME Init PROVE IInv
  OBVIOUS
<1>1. TypeOK
  BY DEF Init, TypeOK, Running
<1>2. Together /\ Rendered /\ Listed /\ Filtered /\ AgentFresh /\ HasKeys
  BY DEF Init, Together, Rendered, Listed, Filtered, AgentFresh, HasKeys, Started
<1>3. Causes
  BY DEF Init, Causes
<1>4. QED
  BY <1>1, <1>2, <1>3 DEF IInv, Init

(* An edit: the files no longer count.                                     *)
LEMMA EditKeeps == IInv /\ Edit => IInv'
BY DEF Edit, renderer, egress, bot, compose, IInv, TypeOK, Together, Rendered, Listed, Filtered,
   AgentFresh, HasKeys, Causes

(* up: containers made now read the files as they are.                     *)
LEMMA UpKeeps == IInv /\ Up => IInv'
<1> SUFFICES ASSUME IInv, Up PROVE IInv'
  OBVIOUS
<1>1. /\ ~Busy /\ up' = "init" /\ init' = "running"
      /\ proxy' = IF proxy = "none" THEN "created" ELSE proxy
      /\ touched' = (touched /\ proxy # "none")
      /\ UNCHANGED <<file, dotenv, found, shared, filter, faults>>
  BY DEF Up
<1>2. /\ agentEnv' = Passed /\ agent' # "none"
      /\ <<agent', loaded'>> \in {<<agent, loaded>>, <<"created", NoConfig>>}
  BY DEF Up, bot
<1>3. Passed' = Passed
  BY <1>1 DEF Passed
<1>4. TypeOK'
  BY <1>1, <1>2 DEF IInv, TypeOK, Running, Passed
<1>5. Together' /\ Rendered'
  BY <1>1, <1>2 DEF Together, Rendered
<1>6. Listed' /\ Filtered'
  BY <1>1 DEF IInv, Listed, Filtered, Started
<1>7. AgentFresh' /\ HasKeys'
  BY <1>1, <1>2, <1>3 DEF Up, bot, IInv, AgentFresh, HasKeys, Together
<1>8. Causes'
  BY <1>1 DEF IInv, Causes, Busy
<1>9. QED
  BY <1>1, <1>4, <1>5, <1>6, <1>7, <1>8 DEF IInv

LEMMA DownKeeps == IInv /\ Down => IInv'
BY DEF Down, operator, IInv, TypeOK, Running, Together, Rendered, Listed, Filtered, AgentFresh, HasKeys,
   Causes, Started, Passed

(* What up waits for.                                                      *)
LEMMA WaitKeeps == IInv /\ (StartProxy \/ StartAgent \/ UpFails) => IInv'
<1> SUFFICES ASSUME IInv, StartProxy \/ StartAgent \/ UpFails PROVE IInv'
  OBVIOUS
<1>1. UNCHANGED <<operator, renderer, filter, agentEnv, loaded, faults>> /\ Passed' = Passed
  BY DEF StartProxy, StartAgent, UpFails, bot, egress, operator, Passed
<1>2. CASE StartProxy
  BY <1>1, <1>2 DEF StartProxy, InitCompleted, operator, renderer, bot, IInv, TypeOK, Running,
     Together, Rendered, Listed, Filtered, AgentFresh, HasKeys, Causes, Started
<1>3. CASE StartAgent
  BY <1>1, <1>3 DEF StartAgent, operator, renderer, egress, IInv, TypeOK, Running,
     Together, Rendered, Listed, Filtered, AgentFresh, HasKeys, Causes, Started
<1>4. CASE UpFails
  BY <1>1, <1>4 DEF UpFails, operator, renderer, egress, bot, IInv, TypeOK, Running,
     Together, Rendered, Listed, Filtered, AgentFresh, HasKeys, Causes, Started
<1>5. QED
  BY <1>2, <1>3, <1>4

(* init works for the file it read.                                        *)
LEMMA RendererKeeps == IInv /\ (InitRefuses \/ InitOpens \/ InitWrites \/ KillInit) => IInv'
<1> SUFFICES ASSUME IInv, InitRefuses \/ InitOpens \/ InitWrites \/ KillInit PROVE IInv'
  OBVIOUS
<1>1. UNCHANGED <<operator, egress, bot, compose>> /\ Passed' = Passed
  BY DEF InitRefuses, InitOpens, InitWrites, KillInit, operator, Passed
<1>2. CASE InitRefuses
  <2>1. Cardinality(HostsOf(file)) # 1
    BY <1>2, FS_EmptySet DEF InitRefuses
  <2>2. QED
    BY <1>1, <1>2, <2>1 DEF InitRefuses, operator, egress, bot, compose, IInv, TypeOK,
       Together, Rendered, Listed, Filtered, AgentFresh, HasKeys, Causes
<1>3. CASE InitOpens
  BY <1>1, <1>3, HostsTyped DEF InitOpens, operator, egress, bot, compose, IInv, TypeOK, Emptied,
     Together, Rendered, Listed, Filtered, AgentFresh, HasKeys, Causes
<1>4. CASE InitWrites
  BY <1>1, <1>4 DEF InitWrites, operator, egress, bot, compose, IInv, TypeOK,
     Together, Rendered, Listed, Filtered, AgentFresh, HasKeys, Causes
<1>5. CASE KillInit
  BY <1>1, <1>5 DEF KillInit, Fault, operator, egress, bot, compose, IInv, TypeOK,
     Together, Rendered, Listed, Filtered, AgentFresh, HasKeys, Causes
<1>6. QED
  BY <1>2, <1>3, <1>4, <1>5

(* The proxy takes the list on the volume, or fails for it.                *)
LEMMA ProxyKeeps == IInv /\ (ProxyStarts \/ ProxyRestarts \/ KillProxy) => IInv'
<1> SUFFICES ASSUME IInv, ProxyStarts \/ ProxyRestarts \/ KillProxy PROVE IInv'
  OBVIOUS
<1>1. UNCHANGED <<operator, renderer, bot, compose>> /\ Passed' = Passed
  BY DEF ProxyStarts, ProxyRestarts, KillProxy, operator, Passed
<1>2. CASE ProxyStarts
  <2>1. Readable(shared) => shared # Emptied /\ shared # NoList
    BY FS_EmptySet DEF Readable, Emptied
  <2>2. shared = HostsOf(file) /\ Cardinality(HostsOf(file)) = 1 => Readable(shared)
    BY NoListIsNotAList DEF Readable, IInv, TypeOK
  <2>3. \/ ~Readable(shared) /\ proxy' = "exited" /\ filter' = filter
        \/ Readable(shared) /\ proxy' = "running" /\ filter' = shared
    BY <1>2 DEF ProxyStarts
  <2>4. proxy = "starting" /\ faults' = faults
    BY <1>2 DEF ProxyStarts
  <2>5. TypeOK'
    BY <1>1, <2>1, <2>3 DEF operator, renderer, bot, compose, IInv, TypeOK, Running
  <2>6. Listed' /\ Filtered'
    BY <1>1, <2>1, <2>3, <2>4 DEF operator, renderer, IInv, Listed, Filtered, Started
  <2>7. Causes'
    BY <1>1, <2>2, <2>3, <2>4 DEF operator, renderer, compose, IInv, Causes, Rendered
  <2>8. QED
    BY <1>1, <2>3, <2>4, <2>5, <2>6, <2>7 DEF operator, renderer, bot, IInv, Together, Rendered,
       AgentFresh, HasKeys
<1>3. CASE ProxyRestarts \/ KillProxy
  BY <1>1, <1>3 DEF ProxyRestarts, KillProxy, Fault, operator, renderer, bot, compose, IInv, TypeOK,
     Running, Together, Rendered, Listed, Filtered, AgentFresh, HasKeys, Causes, Started
<1>4. QED
  BY <1>2, <1>3

(* The agent takes the files as they are.                                  *)
LEMMA AgentKeeps ==
  IInv /\ (AgentLoads \/ AgentConnects \/ AgentRestarts \/ KillAgent) => IInv'
<1> SUFFICES ASSUME IInv, AgentLoads \/ AgentConnects \/ AgentRestarts \/ KillAgent PROVE IInv'
  OBVIOUS
<1>1. /\ UNCHANGED <<operator, renderer, egress, agentEnv, compose>> /\ Passed' = Passed
      /\ agent # "none" /\ agent' \in {"starting", "connecting", "serving", "exited"}
      /\ faults \in Nat => faults' \in Nat /\ (faults' = 0 => faults = 0)
  BY DEF AgentLoads, AgentConnects, AgentRestarts, KillAgent, operator, Passed, Fault
<1>2. /\ loaded' \in {file, loaded}
      /\ agent' \in {"connecting", "serving"} =>
           loaded' = file \/ (agent = "connecting" /\ loaded' = loaded)
  BY DEF AgentLoads, AgentConnects, AgentRestarts, KillAgent
<1>3. HasKeys'
  <2>1. agent' \in {"connecting", "serving"} =>
          \/ agent = "connecting" /\ loaded' = loaded
          \/ loaded' = file /\ Complete(file, agentEnv)
    BY DEF AgentLoads, AgentConnects, AgentRestarts, KillAgent
  <2>2. QED
    BY <1>1, <2>1 DEF IInv, HasKeys
<1>4. QED
  BY <1>1, <1>2, <1>3 DEF operator, renderer, egress, compose, IInv, TypeOK,
     Together, Rendered, Listed, Filtered, AgentFresh, Causes

(* The host goes down and comes up.                                        *)
LEMMA RebootKeeps == IInv /\ Reboot => IInv'
<1> SUFFICES ASSUME IInv, Reboot PROVE IInv'
  OBVIOUS
<1>1. /\ faults' \in Nat /\ faults' # 0 /\ UNCHANGED <<operator, found, shared, filter, agentEnv, loaded>>
      /\ up' \in {up, "failed"} /\ init' \in {init, "failed"} /\ Passed' = Passed
  BY DEF Reboot, Fault, IInv, operator, Passed
<1>2. /\ proxy' \in {proxy, "exited"} /\ agent' \in {agent, "exited"} /\ proxy' # "running"
      /\ agent' \notin {"connecting", "serving"}
      /\ proxy = "none" <=> proxy' = "none"
      /\ agent = "none" <=> agent' = "none"
      /\ proxy' \in Started => proxy \in Started
  BY DEF Reboot, Dies, IInv, TypeOK, Running, Started
<1>3. QED
  BY <1>1, <1>2 DEF operator, IInv, TypeOK, Running, Together, Rendered, Listed, Filtered,
     AgentFresh, HasKeys, Causes

LEMMA NextKeeps == IInv /\ [Next]_vars => IInv'
<1> SUFFICES ASSUME IInv, [Next]_vars PROVE IInv'
  OBVIOUS
<1>1. CASE UNCHANGED vars
  BY <1>1 DEF vars, IInv, TypeOK, Together, Rendered, Listed, Filtered, AgentFresh, HasKeys, Causes, Passed
<1>2. QED
  BY <1>1, EditKeeps, UpKeeps, DownKeeps, WaitKeeps, RendererKeeps, ProxyKeeps, AgentKeeps,
     RebootKeeps DEF Next
-----------------------------------------------------------------------------
LEMMA Invariant == Spec => []IInv
BY InitHolds, NextKeeps, PTL DEF Spec

(* The volume and the proxy's filter only ever hold hosts that some        *)
(* config.yaml named, and the agent the variables it is meant to get.      *)
THEOREM TypeCorrect == Spec => []TypeOK
<1>1. IInv => TypeOK
  BY DEF IInv
<1>2. QED
  BY <1>1, Invariant, PTL

(* Whatever an earlier stack left on the volume and however often          *)
(* containers died and were started without init, a stack nobody edited    *)
(* under serves config.yaml and .env as they are, behind their allowlist.  *)
THEOREM UntouchedStackMatches == Spec => []FreshStackMatches
<1>1. IInv => FreshStackMatches
  BY DEF IInv, FreshStackMatches, AgentFresh, Filtered
<1>2. QED
  BY <1>1, Invariant, PTL

(* Over any edits, restarts and replacements, the agent serves a file that *)
(* was complete with the environment its container has.                    *)
THEOREM ServingHasItsKeys == Spec => []ServesWithItsKeys
<1>1. IInv => ServesWithItsKeys
  BY DEF IInv, ServesWithItsKeys, HasKeys
<1>2. QED
  BY <1>1, Invariant, PTL

(* Without a fault up fails on no untouched stack whose file has one host: *)
(* the restart policy, a second up and the list being rewritten cannot     *)
(* make up fail.                                                           *)
THEOREM UpFailsOnlyForCause == Spec => []UpFailsForCause
<1>1. IInv => UpFailsForCause
  BY DEF IInv, UpFailsForCause, Causes
<1>2. QED
  BY <1>1, Invariant, PTL
=============================================================================
