---------------------------- MODULE MCAgentLoop ----------------------------
(* An instance of AgentLoop for TLC.                                        *)
EXTENDS AgentLoop

Step(commands, holes, risky) ==
  [commands |-> commands, holes |-> holes, risky |-> risky]

Prose == Step(0, 0, "no")
Clean == Step(1, 0, "no")
Open == Step(1, 2, "no")
Wipe == Step(2, 0, "first")
Drop == Step(1, 0, "other")

\* nothing to run, too shallow, with placeholders (one, and two of which one
\* has its text only), with destructive commands of both kinds
MCDrafts == {<<>>, <<<<Prose>>>>, <<<<Clean>>>>, <<<<Clean, Open>>>>,
             <<<<Step(0, 1, "no"), Clean>>, <<Open, Open>>>>,
             <<<<Wipe, Clean>>>>, <<<<Clean, Drop>>, <<Clean>>>>}

MCReplies == {<<t>> : t \in {"web_search", "url_fetch", "ask_human"}}
             \union {<<"web_search", "url_fetch">>,
                     <<"url_fetch", "url_fetch", "web_search">>}
=============================================================================
