---------------------------- MODULE MCDeployment ----------------------------
(* Files for TLC: the wizard's for two providers, one with the second as a *)
(* fallback of the first, one the wizard makes for a provider of the       *)
(* person's own, one that is no YAML.                                      *)
EXTENDS Deployment

OpenRouter == SetupConfig("openrouter", "openrouter.ai", "OPENROUTER_API_KEY", "m")
Groq == SetupConfig("groq", "api.groq.com", "GROQ_API_KEY", "n")
Custom == SetupConfig("custom", "my.host", "MY_KEY", "m")

WithFallback ==
  [OpenRouter EXCEPT
     !.providers = [p \in {"openrouter", "groq"} |->
                      IF p = "groq" THEN Groq.providers["groq"] ELSE @["openrouter"]],
     !.fallback = <<Ref("groq", "n")>>]

SomeFiles == {ConfigFile(c) : c \in {OpenRouter, Groq, WithFallback, Custom}}
             \union {[form |-> "malformed"]}
FallbackFile == {ConfigFile(WithFallback)}

SomeEnvs == {SetupEnv("OPENROUTER_API_KEY"), SetupEnv("MY_KEY"),
             SetupEnv("OPENROUTER_API_KEY") \union SetupEnv("GROQ_API_KEY")}
=============================================================================
