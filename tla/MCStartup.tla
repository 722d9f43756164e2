------------------------------ MODULE MCStartup ------------------------------
(* Configurations for TLC: every specification of one provider, alone and  *)
(* behind a good primary, and every way a reference or a list goes wrong.  *)
EXTENDS Startup

Models == {"m", "n"}
Good == ProviderSpec("openai_compatible", "main.host", "MAIN_API_KEY", {"m"})
SpareSpecs ==
  {ProviderSpec(kind, url, var, models) :
     kind \in {"openai_compatible", "anthropic"}, url \in {NoUrl, "spare.host"},
     var \in {NoKeyEnv, "SPARE_TOKEN"}, models \in {{}, {"n"}, {"*"}}}

Providers(spare) == [p \in {"main", "spare"} |-> IF p = "main" THEN Good ELSE spare]
AgentOf(ref) == [g \in {Group} |-> ref]
AConfig(providers, agents, fallback) ==
  [providers |-> providers, agents |-> agents, fallback |-> fallback, extra |-> FALSE]

Spare == ProviderSpec("openai_compatible", "spare.host", "SPARE_TOKEN", {"*"})
Main == Ref("main", "m")

SpareUnused == {AConfig(Providers(s), AgentOf(Main), <<>>) : s \in SpareSpecs}
SpareFallback == {AConfig(Providers(s), AgentOf(Main), <<Ref("spare", "n")>>) : s \in SpareSpecs}
SparePrimary == {AConfig(Providers(s), AgentOf(Ref("spare", "n")), <<Main>>) : s \in SpareSpecs}

Twice(refs) == refs \o refs
Lists ==
  {<<Main>>, <<Ref("spare", "n"), Ref("spare", "m")>>, Twice(<<Ref("spare", "n")>>),
   <<Ref("spare", "")>>, <<Ref("other", "n")>>, <<Ref("main", "n")>>,
   [i \in 1 .. 5 |-> Ref("spare", <<"a", "b", "c", "d", "e">>[i])],
   [i \in 1 .. 6 |-> Ref("spare", <<"a", "b", "c", "d", "e", "f">>[i])]}

OddLists == {AConfig(Providers(Spare), AgentOf(Main), list) : list \in Lists}
OddAgents ==
  {AConfig(Providers(Spare), agents, <<>>) :
     agents \in {AgentOf(Ref("", "m")), AgentOf(Ref("other", "m")), [g \in {"helper"} |-> Main]}}

Configs ==
  SpareUnused \union SpareFallback \union SparePrimary \union OddLists \union OddAgents
  \union {[AConfig(Providers(Spare), AgentOf(Main), <<>>) EXCEPT !.extra = TRUE]}

AllFiles == {ConfigFile(c) : c \in Configs} \union
            {NoConfig, [form |-> "undecodable"], [form |-> "malformed"]}

Lines == {<<>>, <<"">>, <<"c1">>, <<"c1", "", "c2">>, <<"c1", "word">>}
=============================================================================
