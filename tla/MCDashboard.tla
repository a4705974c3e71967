---------------------------- MODULE MCDashboard ----------------------------
(* web and web2 are one stack after another on the host; far has their name *)
(* on another environment, and the environment of old is gone.  An agent    *)
(* may run with web, and Restruo itself far away, or on its own.            *)
EXTENDS Dashboard

CONSTANTS host, remote, lost, web, web2, far, old, agent, app, lone,
          WebName, AgentImage, RestruoImage, Tag

MCEnvOf == [x \in Things |-> CASE x \in {far, app} -> remote
                              [] x = old -> lost
                              [] x \notin {far, app, old} -> host]
MCNameOf == [s \in Stacks |-> WebName]
MCProjectOf == [c \in Containers |-> IF c = lone THEN None ELSE WebName]
MCCreatedFrom == [c \in Containers |-> IF c = agent THEN AgentImage ELSE RestruoImage]
MCEnv == [s \in Stacks |-> [v \in {Tag} |-> IF s = web THEN AgentImage ELSE Unset]]

Plain == [op |-> "plain", variable |-> Tag, text |-> RestruoImage]
Needed == [op |-> "?", variable |-> Tag, text |-> Empty]
MCFiles == [s \in Stacks |-> CASE s = far -> {{Plain}}
                              [] s = web -> {{Needed, Plain}}
                              [] s \notin {far, web} -> {{}}]
=============================================================================
