----------------------------- MODULE PlaybookMC -----------------------------
(* Instances of Playbook for TLC. *)
EXTENDS Playbook

MCHostOrder == <<"db1", "localhost", "web1">>
MCInvHosts == {"db1", "web1"}

(* A group with a host of its own and of a child group, one with an unknown  *)
(* child, and one that has the name of a host.                               *)
MCGroups ==
  [site |-> [hosts |-> {"web1"}, children |-> {"dbs", "web1"}],
   dbs  |-> [hosts |-> {"db1"}, children |-> {"nowhere"}],
   web1 |-> [hosts |-> {"web1"}, children |-> {}]]

P(pattern, sets, tasks, handlers) ==
  [pattern |-> pattern, setsVar |-> sets, tasks |-> tasks, handlers |-> handlers]
File(plays) == [parses |-> TRUE, plays |-> plays]
Broken == [parses |-> FALSE, plays |-> <<>>]

(* Two hosts in either order with handlers; one host after many; a pattern   *)
(* that matches nothing; two files with what the first leaves behind; facts *)
(* set by tasks and handlers; a file that does not parse after one that ran. *)
MCCommandLines == {
  <<File(<<P("all", FALSE, <<"register", "task">>, <<"task", "task">>)>>)>>,
  <<File(<<P("site", TRUE, <<"task">>, <<>>), P("web1", FALSE, <<"task">>, <<"task">>)>>)>>,
  <<File(<<P("localhost", TRUE, <<"set_fact">>, <<>>),
           P("none", FALSE, <<"task">>, <<"task">>),
           P("localhost", FALSE, <<"task", "block">>, <<>>)>>)>>,
  <<File(<<P("dbs", TRUE, <<"block", "set_fact">>, <<>>)>>),
    File(<<P("*", FALSE, <<"task">>, <<"register">>)>>)>>,
  <<File(<<P("site", FALSE, <<"set_fact", "task">>, <<"set_fact">>),
           P("all", TRUE, <<"register">>, <<>>)>>)>>,
  <<File(<<P("db1", FALSE, <<"task">>, <<>>)>>), Broken>> }
=============================================================================
