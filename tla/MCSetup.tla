------------------------------- MODULE MCSetup -------------------------------
(* Values of Setup's constants for TLC: keys with a known prefix and one   *)
(* with none; a custom provider answered in full and with a line blank.    *)
EXTENDS Setup, TLC

SomePrefixes == ("gsk_k" :> "gsk_") @@ ("sk-or-k" :> "sk-or-") @@ ("plain" :> "none")

SomeCustoms == {Provider("custom", "my.host", "MY_PROVIDER_KEY", "m"),
                Provider("custom", "my.host", "GROQ_API_KEY", ""),
                Provider("custom", "", "GROQ_API_KEY", "m")}
=============================================================================
