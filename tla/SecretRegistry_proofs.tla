------------------------ MODULE SecretRegistry_proofs ------------------------
(***************************************************************************)
(* The registry of secrets, for any number of threads and any values.      *)
(***************************************************************************)
EXTENDS SecretRegistry, SequenceTheorems, FiniteSetTheorems, TLAPS

USE RegistryAssumption

LongestFirst(list) ==
  \A i, j \in DOMAIN list : i < j => Size[list[i]] >= Size[list[j]]

InSection(t) == pc[t] \in {"locked", "rebuilt", "leaving"}

(* The lock excludes, and inside it nothing changes under a writer's feet. *)
Mutex == \A t \in Threads : InSection(t) => lock = t

Writing ==
  \A t \in Threads :
    /\ pc[t] = "rebuilt" =>
         /\ Entries(built[t]) = Entries(secrets) \union {value[t]}
         /\ LongestFirst(built[t])
    /\ pc[t] = "leaving" => value[t] \in Entries(secrets)

(* A known secret is in every list its line can meet, and a line that has  *)
(* been through a list with it is redacted.                                *)
Meeting ==
  \A t \in Threads :
    known[t] =>
      /\ value[t] \in Entries(secrets)
      /\ text[t] \in {"plain", "redacted"}
      /\ pc[t] \in {"factory-scrub", "format-scrub"} =>
           value[t] \in Entries(snapshot[t]) /\ LongestFirst(snapshot[t])
      /\ pc[t] = "done" => text[t] = "redacted"
      /\ pc[t] \in {"factory", "factory-scrub", "format", "format-scrub", "done"}

Registry ==
  /\ TypeOK
  /\ Mutex
  /\ LongestFirst(secrets)
  /\ NoLostRegistration
  /\ Writing
  /\ Meeting

LEMMA FunctionIsList ==
  ASSUME NEW n \in Nat, NEW f \in [1 .. n -> Values]
  PROVE  f \in Seq(Values)
  BY SeqDef

(* sorted() keeps what is in the list and orders it (logging.py 203).      *)
LEMMA SortedList ==
  ASSUME NEW list \in Seq(Values), NEW s \in Sorted(list)
  PROVE  s \in Seq(Values) /\ Entries(s) = Entries(list) /\ LongestFirst(s)
  <1>1. PICK p \in [DOMAIN list -> DOMAIN list] :
          /\ \A k \in DOMAIN list : \E i \in DOMAIN list : p[i] = k
          /\ s = [i \in DOMAIN list |-> list[p[i]]]
    BY DEF Sorted, Arranged
  <1>2. DOMAIN list = 1 .. Len(list) /\ Len(list) \in Nat /\ \A i \in DOMAIN list : list[i] \in Values
    BY ElementOfSeq, LenProperties
  <1>3. s \in [1 .. Len(list) -> Values]
    BY <1>1, <1>2
  <1>4. s \in Seq(Values)
    BY <1>2, <1>3, FunctionIsList
  <1>5. Entries(s) = Entries(list)
    BY <1>1, <1>2 DEF Entries
  <1>6. LongestFirst(s)
    BY DEF Sorted, LongestFirst
  <1>7. QED
    BY <1>4, <1>5, <1>6

(* The list at import (logging.py 12-27).                                  *)
LEMMA CollectedList ==
  ASSUME NEW env \in SUBSET Values, IsFiniteSet(env), NEW s \in Collected(env)
  PROVE  s \in Seq(Values) /\ Entries(s) = env /\ LongestFirst(s)
  <1>1. Entries(s) = env /\ LongestFirst(s) /\ s \in [1 .. Cardinality(env) -> Values]
    BY DEF Collected, LongestFirst
  <1>2. QED
    BY <1>1, FS_CardinalityType, FunctionIsList

(* Appending the value before sorting adds it to the entries.              *)
LEMMA AppendedEntries ==
  ASSUME NEW list \in Seq(Values), NEW v \in Values
  PROVE  Append(list, v) \in Seq(Values) /\ Entries(Append(list, v)) = Entries(list) \union {v}
  <1>1. /\ Append(list, v) \in Seq(Values)
        /\ Len(Append(list, v)) = Len(list) + 1 /\ Len(list) \in Nat
        /\ \A i \in 1 .. Len(list) : Append(list, v)[i] = list[i]
        /\ Append(list, v)[Len(list) + 1] = v
    BY AppendProperties, LenProperties
  <1>2. DOMAIN list = 1 .. Len(list) /\ DOMAIN Append(list, v) = 1 .. Len(list) + 1
    BY <1>1, LenProperties
  <1>3. QED
    BY <1>1, <1>2 DEF Entries

(* A list with the value in it, the longest first, redacts it whole: no    *)
(* shorter secret comes before it (logging.py 34-40).                      *)
LEMMA ScrubbedWhole ==
  ASSUME NEW list \in Seq(Values), LongestFirst(list), NEW v \in Entries(list)
  PROVE  Scrubbed(list, v) = "redacted"
  <1>1. PICK i \in DOMAIN list : list[i] = v
    BY DEF Entries
  <1>2. DOMAIN list = 1 .. Len(list) /\ Len(list) \in Nat /\ \A j \in DOMAIN list : list[j] \in Values
    BY ElementOfSeq, LenProperties
  <1>3. ASSUME NEW j \in 1 .. i - 1 PROVE <<list[j], v>> \notin Parts
    <2>1. j \in DOMAIN list /\ j < i
      BY <1>2
    <2>2. Size[list[j]] >= Size[v]
      BY <1>1, <2>1 DEF LongestFirst
    <2>3. list[j] \in Values /\ v \in Values /\ Size[list[j]] \in Nat /\ Size[v] \in Nat
      BY <1>1, <1>2, <2>1
    <2>4. QED
      BY <2>2, <2>3
  <1>4. QED
    BY <1>1, <1>3 DEF Scrubbed

LEMMA RegistryInit == Init => Registry
  <1> SUFFICES ASSUME Init PROVE Registry
    OBVIOUS
  <1>1. PICK env \in SUBSET Values :
          IsFiniteSet(env) /\ secrets \in Collected(env) /\ registered = env
    BY DEF Init
  <1>2. secrets \in Seq(Values) /\ Entries(secrets) = env /\ LongestFirst(secrets)
    BY <1>1, CollectedList
  <1>3. TypeOK
    BY <1>1, <1>2 DEF Init, TypeOK
  <1>4. Mutex /\ Writing /\ Meeting
    BY DEF Init, Mutex, InSection, Writing, Meeting
  <1>5. QED
    BY <1>1, <1>2, <1>3, <1>4 DEF Registry, NoLostRegistration

(* A thread that writes holds the lock, so that it is the only one.        *)
LEMMA OnlyWriter ==
  ASSUME Registry, NEW t \in Threads, InSection(t)
  PROVE  lock = t /\ \A w \in Threads \ {t} : ~InSection(w)
  BY DEF Registry, Mutex

(* A step that leaves the registry alone keeps Registry if the thread's    *)
(* own part of it holds afterwards.                                        *)
LEMMA OneThreadMoves ==
  ASSUME Registry, NEW t \in Threads, TypeOK', UNCHANGED secrets,
         \A w \in Threads \ {t} :
           /\ pc'[w] = pc[w] /\ value'[w] = value[w] /\ built'[w] = built[w]
           /\ snapshot'[w] = snapshot[w] /\ text'[w] = text[w] /\ known'[w] = known[w],
         registered' \subseteq Entries(secrets),
         (lock' = lock /\ (InSection(t)' => InSection(t)))
           \/ (lock = "free" /\ lock' = t)
           \/ (InSection(t) /\ ~InSection(t)'),
         pc'[t] = "rebuilt" =>
           /\ Entries(built'[t]) = Entries(secrets) \union {value'[t]}
           /\ LongestFirst(built'[t]),
         pc'[t] = "leaving" => value'[t] \in Entries(secrets),
         known'[t] =>
           /\ value'[t] \in Entries(secrets)
           /\ text'[t] \in {"plain", "redacted"}
           /\ pc'[t] \in {"factory-scrub", "format-scrub"} =>
                value'[t] \in Entries(snapshot'[t]) /\ LongestFirst(snapshot'[t])
           /\ pc'[t] = "done" => text'[t] = "redacted"
           /\ pc'[t] \in {"factory", "factory-scrub", "format", "format-scrub", "done"}
  PROVE  Registry'
  <1>1. Mutex'
    BY DEF Registry, Mutex, InSection
  <1>2. Writing'
    BY DEF Registry, Writing
  <1>3. Meeting'
    BY DEF Registry, Meeting
  <1>4. LongestFirst(secrets)' /\ NoLostRegistration'
    BY DEF Registry, LongestFirst, NoLostRegistration
  <1>5. QED
    BY <1>1, <1>2, <1>3, <1>4 DEF Registry

LEMMA RegisteringKeepsType ==
  ASSUME TypeOK, NEW t \in Threads, Acquire(t) \/ AlreadyThere(t) \/ Release(t)
  PROVE  TypeOK'
  <1>1. CASE Acquire(t)
    BY <1>1 DEF TypeOK, Acquire, Goto
  <1>2. CASE AlreadyThere(t)
    BY <1>2 DEF TypeOK, AlreadyThere, Goto
  <1>3. CASE Release(t)
    BY <1>3 DEF TypeOK, Release, Goto
  <1>4. QED
    BY <1>1, <1>2, <1>3

(* register_secret's steps (logging.py 199-203).                           *)
LEMMA RegisteringKeeps ==
  ASSUME Registry, NEW t \in Threads, Acquire(t) \/ Registering(t)
  PROVE  Registry'
  <1>0. TypeOK /\ secrets \in Seq(Values) /\ value[t] \in Values /\ registered \subseteq Entries(secrets)
    BY DEF Registry, TypeOK, NoLostRegistration
  <1>1. CASE Acquire(t)
    <2>1. /\ pc[t] = "start" /\ pc'[t] = "locked" /\ lock = "free" /\ lock' = t
          /\ UNCHANGED <<secrets, value, built, snapshot, text, known, registered>>
          /\ \A w \in Threads \ {t} : pc'[w] = pc[w]
          /\ ~known[t]
      BY <1>0, <1>1 DEF Acquire, Goto, TypeOK, Registry, Meeting
    <2>2. QED
      BY <1>0, <1>1, <2>1, RegisteringKeepsType, OneThreadMoves
  <1>2. CASE AlreadyThere(t)
    <2>1. /\ pc[t] = "locked" /\ pc'[t] = "leaving" /\ value[t] \in Entries(secrets)
          /\ UNCHANGED <<secrets, lock, value, built, snapshot, text, known, registered>>
          /\ \A w \in Threads \ {t} : pc'[w] = pc[w]
          /\ ~known[t]
      BY <1>0, <1>2 DEF AlreadyThere, Goto, TypeOK, Registry, Meeting
    <2>2. QED
      BY <1>0, <1>2, <2>1, RegisteringKeepsType, OneThreadMoves DEF InSection
  <1>3. CASE Rebuild(t)
    <2>1. PICK list \in Sorted(Append(secrets, value[t])) : built' = [built EXCEPT ![t] = list]
      BY <1>3 DEF Rebuild
    <2>2. /\ list \in Seq(Values) /\ LongestFirst(list)
          /\ Entries(list) = Entries(secrets) \union {value[t]}
      BY <1>0, <2>1, AppendedEntries, SortedList
    <2>3. /\ pc[t] = "locked" /\ pc'[t] = "rebuilt" /\ built'[t] = list
          /\ UNCHANGED <<secrets, lock, value, snapshot, text, known, registered>>
          /\ \A w \in Threads \ {t} : pc'[w] = pc[w] /\ built'[w] = built[w]
          /\ ~known[t]
      BY <1>0, <1>3, <2>1 DEF Rebuild, Goto, TypeOK, Registry, Meeting
    <2>4. TypeOK'
      BY <1>0, <1>3, <2>1, <2>2 DEF TypeOK, Rebuild, Goto
    <2>5. QED
      BY <1>0, <2>2, <2>3, <2>4, OneThreadMoves DEF InSection
  <1>4. CASE Rebind(t)
    <2>1. /\ pc[t] = "rebuilt" /\ pc'[t] = "leaving" /\ secrets' = built[t]
          /\ UNCHANGED <<lock, value, built, snapshot, text, known, registered>>
          /\ \A w \in Threads \ {t} : pc'[w] = pc[w]
      BY <1>0, <1>4 DEF Rebind, Goto, TypeOK
    <2>2. Entries(secrets') = Entries(secrets) \union {value[t]} /\ LongestFirst(secrets')
      BY <2>1 DEF Registry, Writing
    <2>3. TypeOK'
      BY <1>0, <1>4 DEF TypeOK, Rebind, Goto
    <2>4. Mutex'
      BY <2>1 DEF Registry, Mutex, InSection
    <2>5. Writing'
      <3>1. \A w \in Threads \ {t} : pc'[w] \notin {"rebuilt", "leaving"}
        BY <2>1, OnlyWriter DEF InSection
      <3>2. QED
        BY <2>1, <2>2, <3>1 DEF Writing
    <2>6. Meeting'
      <3>1. \A w \in Threads : known[w] => value[w] \in Entries(secrets')
        BY <2>2 DEF Registry, Meeting
      <3>2. ~known[t]
        BY <2>1 DEF Registry, Meeting
      <3>3. QED
        BY <2>1, <3>1, <3>2 DEF Registry, Meeting
    <2>7. NoLostRegistration'
      BY <1>0, <2>1, <2>2 DEF NoLostRegistration
    <2>8. QED
      BY <2>2, <2>3, <2>4, <2>5, <2>6, <2>7 DEF Registry, LongestFirst
  <1>5. CASE Release(t)
    <2>1. /\ pc[t] = "leaving" /\ pc'[t] = "done" /\ lock' = "free"
          /\ UNCHANGED <<secrets, value, built, snapshot, text, known>>
          /\ registered' = registered \union {value[t]}
          /\ \A w \in Threads \ {t} : pc'[w] = pc[w]
          /\ ~known[t]
      BY <1>0, <1>5 DEF Release, Goto, TypeOK, Registry, Meeting
    <2>2. value[t] \in Entries(secrets)
      BY <2>1 DEF Registry, Writing
    <2>3. QED
      BY <1>0, <1>5, <2>1, <2>2, RegisteringKeepsType, OneThreadMoves DEF InSection
  <1>6. QED
    BY <1>1, <1>2, <1>3, <1>4, <1>5 DEF Registering

(* The steps of a log call (logging.py 80-123).                            *)
LEMMA LoggingKeeps ==
  ASSUME Registry, NEW t \in Threads, Log(t) \/ LogObject(t) \/ Logging(t)
  PROVE  Registry'
  <1>0. /\ TypeOK /\ secrets \in Seq(Values) /\ value[t] \in Values /\ LongestFirst(secrets)
        /\ registered \subseteq Entries(secrets)
    BY DEF Registry, TypeOK, NoLostRegistration
  <1>1. CASE Log(t) \/ LogObject(t)
    <2>1. /\ pc[t] = "start" /\ pc'[t] \in {"factory", "format"} /\ text'[t] = "plain"
          /\ known'[t] = (value[t] \in registered)
          /\ UNCHANGED <<secrets, lock, value, built, snapshot, registered>>
          /\ \A w \in Threads \ {t} : pc'[w] = pc[w] /\ text'[w] = text[w] /\ known'[w] = known[w]
      BY <1>0, <1>1 DEF Log, LogObject, Say, Goto, TypeOK
    <2>2. TypeOK'
      <3>1. known' \in [Threads -> BOOLEAN]
        <4>1. (value[t] \in registered) \in BOOLEAN
          OBVIOUS
        <4>2. known' = [known EXCEPT ![t] = value[t] \in registered]
          BY <1>1 DEF Log, LogObject, Say
        <4>3. known \in [Threads -> BOOLEAN]
          BY <1>0 DEF TypeOK
        <4>4. QED
          BY <4>1, <4>2, <4>3, Zenon
      <3>2. text' \in [Threads -> {"none", "plain", "redacted", "remainder"}]
        BY <1>0, <1>1 DEF Log, LogObject, Say, TypeOK
      <3>3. pc' \in [Threads -> {"start", "locked", "rebuilt", "leaving", "done", "factory",
                                "factory-scrub", "format", "format-scrub"}]
        BY <1>0, <1>1 DEF Log, LogObject, Goto, TypeOK
      <3>4. QED
        BY <1>0, <2>1, <3>1, <3>2, <3>3 DEF TypeOK
    <2>3. QED
      BY <1>0, <2>1, <2>2, OneThreadMoves DEF InSection
  <1>2. CASE NoSecrets(t)
    <2>1. /\ pc[t] \in {"factory", "format"} /\ pc'[t] \in {"format", "done"} /\ secrets = <<>>
          /\ UNCHANGED <<secrets, lock, value, built, snapshot, text, known, registered>>
          /\ \A w \in Threads \ {t} : pc'[w] = pc[w]
      BY <1>0, <1>2 DEF NoSecrets, NextPass, Goto, TypeOK
    <2>2. ~known[t]
      BY <2>1 DEF Registry, Meeting, Entries
    <2>3. TypeOK'
      BY <1>0, <1>2 DEF NoSecrets, NextPass, Goto, TypeOK
    <2>4. QED
      BY <1>0, <2>1, <2>2, <2>3, OneThreadMoves DEF InSection
  <1>3. CASE Bind(t)
    <2>1. /\ pc[t] \in {"factory", "format"} /\ pc'[t] \in {"factory-scrub", "format-scrub"}
          /\ snapshot'[t] = secrets
          /\ UNCHANGED <<secrets, lock, value, built, text, known, registered>>
          /\ \A w \in Threads \ {t} : pc'[w] = pc[w] /\ snapshot'[w] = snapshot[w]
      BY <1>0, <1>3 DEF Bind, Goto, TypeOK
    <2>2. known[t] => value[t] \in Entries(secrets) /\ text[t] \in {"plain", "redacted"}
      BY DEF Registry, Meeting
    <2>3. TypeOK'
      BY <1>0, <1>3 DEF Bind, Goto, TypeOK
    <2>4. QED
      BY <1>0, <2>1, <2>2, <2>3, OneThreadMoves DEF InSection
  <1>4. CASE Scrub(t)
    <2>1. /\ pc[t] \in {"factory-scrub", "format-scrub"} /\ pc'[t] \in {"format", "done"}
          /\ text'[t] = IF text[t] = "plain" THEN Scrubbed(snapshot[t], value[t]) ELSE text[t]
          /\ UNCHANGED <<secrets, lock, value, built, snapshot, known, registered>>
          /\ \A w \in Threads \ {t} : pc'[w] = pc[w] /\ text'[w] = text[w]
      BY <1>0, <1>4 DEF Scrub, NextPass, Goto, TypeOK
    <2>2. known[t] => value[t] \in Entries(secrets) /\ text'[t] = "redacted"
      <3>1. known[t] =>
              /\ value[t] \in Entries(secrets) /\ text[t] \in {"plain", "redacted"}
              /\ value[t] \in Entries(snapshot[t]) /\ LongestFirst(snapshot[t])
        BY <2>1 DEF Registry, Meeting
      <3>2. snapshot[t] \in Seq(Values)
        BY <1>0 DEF TypeOK
      <3>3. QED
        BY <2>1, <3>1, <3>2, ScrubbedWhole
    <2>3. TypeOK'
      BY <1>0, <1>4 DEF Scrub, NextPass, Goto, TypeOK, Scrubbed
    <2>4. QED
      BY <1>0, <2>1, <2>2, <2>3, OneThreadMoves DEF InSection
  <1>5. QED
    BY <1>1, <1>2, <1>3, <1>4 DEF Logging

LEMMA AgainKeeps ==
  ASSUME Registry, NEW t \in Threads, NEW v \in Values, Again(t, v)
  PROVE  Registry'
  <1>0. TypeOK /\ registered \subseteq Entries(secrets)
    BY DEF Registry, NoLostRegistration
  <1>1. /\ pc[t] = "done" /\ pc'[t] = "start" /\ known'[t] = FALSE
        /\ UNCHANGED <<secrets, lock, registered>>
        /\ \A w \in Threads \ {t} :
             /\ pc'[w] = pc[w] /\ value'[w] = value[w] /\ built'[w] = built[w]
             /\ snapshot'[w] = snapshot[w] /\ text'[w] = text[w] /\ known'[w] = known[w]
    BY <1>0 DEF Again, Goto, TypeOK
  <1>2. TypeOK'
    <2>1. <<>> \in Seq(Values)
      OBVIOUS
    <2>2. QED
      BY <1>0, <2>1 DEF Again, Goto, TypeOK
  <1>3. QED
    BY <1>0, <1>1, <1>2, OneThreadMoves DEF InSection

LEMMA RegistryNext == Registry /\ [Next]_vars => Registry'
  <1> SUFFICES ASSUME Registry, [Next]_vars PROVE Registry'
    OBVIOUS
  <1>1. CASE Next
    BY <1>1, RegisteringKeeps, LoggingKeeps, AgainKeeps DEF Next
  <1>2. CASE UNCHANGED vars
    BY <1>2 DEF vars, Registry, TypeOK, Mutex, InSection, LongestFirst, NoLostRegistration,
                Writing, Meeting
  <1>3. QED
    BY <1>1, <1>2

(* Lists stay sequences of values, threads where the code has a place for  *)
(* them, and the lock with a thread or free (TypeOK).                      *)
THEOREM TypeCorrect == Spec => []TypeOK
  <1>1. Registry => TypeOK
    BY DEF Registry
  <1>2. QED
    BY <1>1, RegistryInit, RegistryNext, PTL DEF Spec

(* Any number of threads may register and log at once: no registration is  *)
(* lost (logging.py 184-186, 199-203).                                     *)
THEOREM RegistrationsStay == Spec => []NoLostRegistration
  <1>1. Registry => NoLostRegistration
    BY DEF Registry
  <1>2. QED
    BY <1>1, RegistryInit, RegistryNext, PTL DEF Spec

(* Every line about a value registered before the call to the logger is    *)
(* redacted whole, though the list it is scrubbed with may be replaced     *)
(* during the call (logging.py 15-19, 176-190).                            *)
THEOREM KnownSecretsAreScrubbed == Spec => []KnownSecretsScrubbed
  <1>1. Registry => KnownSecretsScrubbed
    BY DEF Registry, Meeting, KnownSecretsScrubbed
  <1>2. QED
    BY <1>1, RegistryInit, RegistryNext, PTL DEF Spec
=============================================================================
