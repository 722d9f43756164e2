----------------------------- MODULE Validators -----------------------------
(***************************************************************************)
(* agent/init/validators.py as pure operators: what a call to a service    *)
(* may come to, what each validator makes of it, and the provider a key's  *)
(* prefix speaks of.  A text that is empty, or blank and stripped, is "".  *)
(***************************************************************************)
EXTENDS Integers

(* What _get_json brings: a status and whether the body is what a good     *)
(* answer holds.  NoAnswer is a URLError; Broken is what it lets through:  *)
(* an answer that times out or breaks off, an address that is none.        *)
Statuses == {200, 401, 403, 404, 429, 500}
NoAnswer == [status |-> 0, good |-> FALSE]
Broken == [status |-> -1, good |-> FALSE]
Answers == [status : Statuses, good : BOOLEAN] \union {NoAnswer, Broken}

(* Addresses a call can be made to: not empty, and with a host.            *)
Callable(url) == url \notin {"", "nohost"}

(* Any 200 will do.                                                        *)
ProviderAccepts(url, key, answer) ==
  key # "" /\ Callable(url) /\ answer.status = 200

ProviderBreaks(url, key, answer) == key # "" /\ url # "" /\ answer = Broken

(* A 200 of Telegram's must say ok and name the bot.                       *)
TelegramAccepts(token, answer) == token # "" /\ answer.status = 200 /\ answer.good

TelegramBreaks(token, answer) == token # "" /\ answer = Broken

(* detect_provider_from_key, by the prefix of the key.                     *)
Prefixes == {"sk-or-", "gsk_", "sk-", "none"}
DetectProvider ==
  [prefix \in Prefixes |->
     CASE prefix = "sk-or-" -> "openrouter"
       [] prefix = "gsk_"   -> "groq"
       [] prefix = "sk-"    -> "openai-suspect"
       [] OTHER             -> "unknown"]
=============================================================================
