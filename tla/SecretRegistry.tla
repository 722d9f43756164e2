--------------------------- MODULE SecretRegistry ---------------------------
(***************************************************************************)
(* agent/logging.py: the process-wide list of secrets, the threads that    *)
(* register secrets in it and the threads whose log records are scrubbed   *)
(* with it.  A step is what happens between two points where another       *)
(* thread may run: taking the lock, reading or rebinding the module global *)
(* _SECRETS, releasing the lock.                                           *)
(*                                                                         *)
(* A record mentions one value.  Replacing the value redacts it; replacing *)
(* a shorter secret inside it first leaves its remainder in the text.      *)
(***************************************************************************)
EXTENDS Integers, Sequences, FiniteSets

CONSTANTS
  Threads,
  Values,   \* strings that may be secrets
  Size,     \* Size[v]: len(v)
  Parts     \* <<s, v>>: s occurs inside v and is shorter

ASSUME RegistryAssumption ==
  /\ "free" \notin Threads
  /\ Size \in [Values -> Nat]
  /\ \A s, v \in Values : <<s, v>> \in Parts => Size[s] < Size[v]

VARIABLES
  secrets,     \* _SECRETS
  lock,        \* the thread holding _SECRETS_LOCK, or "free"
  pc,          \* pc[t]: where thread t is
  value,       \* value[t]: the value t registers or logs
  built,       \* built[t]: the list t is about to bind to _SECRETS
  snapshot,    \* snapshot[t]: the list t's loop iterates
  text,        \* text[t]: what t's record says of value[t]
  known,       \* known[t]: value[t] was a secret when t began to log it
  registered   \* values whose registration has returned

vars == <<secrets, lock, pc, value, built, snapshot, text, known, registered>>

Entries(list) == {list[i] : i \in DOMAIN list}

(* The entries of list in any order.                                       *)
Arranged(list) ==
  {[i \in DOMAIN list |-> list[p[i]]] :
     p \in {f \in [DOMAIN list -> DOMAIN list] :
              \A k \in DOMAIN list : \E i \in DOMAIN list : f[i] = k}}

(* Mutated form: sorted(..., key=len), the shortest first.                 *)
BugSorted(list) ==
  {s \in Arranged(list) : \A i, j \in DOMAIN s : i < j => Size[s[i]] <= Size[s[j]]}

(* sorted(list, key=len, reverse=True); which of two values of one length  *)
(* comes first makes no difference to a text.                              *)
Sorted(list) ==
  {s \in Arranged(list) : \A i, j \in DOMAIN s : i < j => Size[s[i]] >= Size[s[j]]}

(* _collect_secrets: the distinct values found in the environment.         *)
Collected(env) ==
  {s \in [1 .. Cardinality(env) -> env] :
     /\ Entries(s) = env
     /\ \A i, j \in DOMAIN s : i < j => Size[s[i]] >= Size[s[j]]}

Init ==
  \E env \in SUBSET Values :
    /\ IsFiniteSet(env)
    /\ secrets \in Collected(env)
    /\ registered = env
    /\ lock = "free"
    /\ pc = [t \in Threads |-> "start"]
    /\ value \in [Threads -> Values]
    /\ built = [t \in Threads |-> <<>>]
    /\ snapshot = [t \in Threads |-> <<>>]
    /\ text = [t \in Threads |-> "none"]
    /\ known = [t \in Threads |-> FALSE]

Goto(t, from, to) == pc[t] = from /\ pc' = [pc EXCEPT ![t] = to]
-----------------------------------------------------------------------------
(* register_secret                                                         *)

(* Mutated form: no lock.                                                  *)
BugAcquire(t) ==
  /\ Goto(t, "start", "locked")
  /\ UNCHANGED <<secrets, lock, value, built, snapshot, text, known, registered>>

Acquire(t) ==
  /\ Goto(t, "start", "locked")
  /\ lock = "free" /\ lock' = t
  /\ UNCHANGED <<secrets, value, built, snapshot, text, known, registered>>

AlreadyThere(t) ==
  /\ Goto(t, "locked", "leaving")
  /\ value[t] \in Entries(secrets)
  /\ UNCHANGED <<secrets, lock, value, built, snapshot, text, known, registered>>

Rebuild(t) ==
  /\ Goto(t, "locked", "rebuilt")
  /\ value[t] \notin Entries(secrets)
  /\ \E list \in Sorted(Append(secrets, value[t])) : built' = [built EXCEPT ![t] = list]
  /\ UNCHANGED <<secrets, lock, value, snapshot, text, known, registered>>

Rebind(t) ==
  /\ Goto(t, "rebuilt", "leaving")
  /\ secrets' = built[t]
  /\ UNCHANGED <<lock, value, built, snapshot, text, known, registered>>

(* Mutated form: acquire() and a release() that the early return skips.    *)
BugRelease(t) ==
  /\ Goto(t, "leaving", "done")
  /\ lock' = IF built[t] = <<>> THEN lock ELSE "free"
  /\ registered' = registered \union {value[t]}
  /\ UNCHANGED <<secrets, value, built, snapshot, text, known>>

(* The with block is left, by the early return too, and the call returns.  *)
Release(t) ==
  /\ Goto(t, "leaving", "done")
  /\ lock' = "free"
  /\ registered' = registered \union {value[t]}
  /\ UNCHANGED <<secrets, value, built, snapshot, text, known>>
-----------------------------------------------------------------------------
(* Logging: the record factory scrubs msg and the string args, then        *)
(* Formatter.format scrubs the finished line.  Each pass reads _SECRETS    *)
(* twice: is it empty, and the list to iterate.                            *)

Say(t) ==
  /\ text' = [text EXCEPT ![t] = "plain"]
  /\ known' = [known EXCEPT ![t] = value[t] \in registered]
  /\ UNCHANGED <<secrets, lock, value, built, snapshot, registered>>

Log(t) == Goto(t, "start", "factory") /\ Say(t)

(* An argument that is no str (an exception) is left to the formatter.     *)
LogObject(t) == Goto(t, "start", "format") /\ Say(t)

NextPass(from) == IF from \in {"factory", "factory-scrub"} THEN "format" ELSE "done"

NoSecrets(t) ==
  /\ \E pass \in {"factory", "format"} : Goto(t, pass, NextPass(pass))
  /\ secrets = <<>>
  /\ UNCHANGED <<secrets, lock, value, built, snapshot, text, known, registered>>

Bind(t) ==
  /\ \/ Goto(t, "factory", "factory-scrub")
     \/ Goto(t, "format", "format-scrub")
  /\ secrets # <<>>
  /\ snapshot' = [snapshot EXCEPT ![t] = secrets]
  /\ UNCHANGED <<secrets, lock, value, built, text, known, registered>>

(* Mutated form: replaced by nothing instead of [REDACTED].                *)
BugScrubbed(list, v) == IF v \in Entries(list) THEN "removed" ELSE "plain"

(* for secret in snapshot: text = text.replace(secret, "[REDACTED]").  A   *)
(* part that comes before v takes v apart.                                 *)
Scrubbed(list, v) ==
  IF \E i \in DOMAIN list : list[i] = v /\ \A j \in 1 .. i - 1 : <<list[j], v>> \notin Parts
  THEN "redacted"
  ELSE IF \E i \in DOMAIN list : <<list[i], v>> \in Parts THEN "remainder"
  ELSE "plain"

Scrub(t) ==
  /\ \E pass \in {"factory-scrub", "format-scrub"} : Goto(t, pass, NextPass(pass))
  /\ text' = [text EXCEPT ![t] = IF @ = "plain" THEN Scrubbed(snapshot[t], value[t]) ELSE @]
  /\ UNCHANGED <<secrets, lock, value, built, snapshot, known, registered>>

(* The thread goes on to register or log another value.                    *)
Again(t, v) ==
  /\ Goto(t, "done", "start")
  /\ value' = [value EXCEPT ![t] = v]
  /\ built' = [built EXCEPT ![t] = <<>>] /\ snapshot' = [snapshot EXCEPT ![t] = <<>>]
  /\ text' = [text EXCEPT ![t] = "none"] /\ known' = [known EXCEPT ![t] = FALSE]
  /\ UNCHANGED <<secrets, lock, registered>>

Registering(t) == AlreadyThere(t) \/ Rebuild(t) \/ Rebind(t) \/ Release(t)
Logging(t) == NoSecrets(t) \/ Bind(t) \/ Scrub(t)

Next ==
  \E t \in Threads :
    \/ Acquire(t)
    \/ Registering(t)
    \/ Log(t)
    \/ LogObject(t)
    \/ Logging(t)
    \/ \E v \in Values : Again(t, v)

Spec == Init /\ [][Next]_vars

(* Every thread is scheduled; it need not call anything.                   *)
FairSpec == Spec /\ \A t \in Threads : WF_vars(Registering(t)) /\ WF_vars(Logging(t))
-----------------------------------------------------------------------------
TypeOK ==
  /\ secrets \in Seq(Values)
  /\ lock \in Threads \union {"free"}
  /\ pc \in [Threads -> {"start", "locked", "rebuilt", "leaving", "done", "factory",
                         "factory-scrub", "format", "format-scrub"}]
  /\ value \in [Threads -> Values]
  /\ built \in [Threads -> Seq(Values)] /\ snapshot \in [Threads -> Seq(Values)]
  /\ text \in [Threads -> {"none", "plain", "redacted", "remainder"}]
  /\ known \in [Threads -> BOOLEAN]
  /\ registered \in SUBSET Values

(* No registration is lost to another thread's: once register_secret has   *)
(* returned for a value, every later list holds it (logging.py 199-203).   *)
NoLostRegistration == registered \subseteq Entries(secrets)

(* A line that mentions a value registered before the call to the logger   *)
(* comes out with neither the value nor a part of it, whoever registers    *)
(* what in the meantime (logging.py 34-40, 80-123, 203).                   *)
KnownSecretsScrubbed ==
  \A t \in Threads : pc[t] = "done" /\ known[t] => text[t] = "redacted"

(* The lock is given back on every path out: whoever has it lets go.       *)
LockComesFree == lock # "free" ~> lock = "free"
=============================================================================
