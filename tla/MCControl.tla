----------------------------- MODULE MCControl -----------------------------
(***************************************************************************)
(* Instances of ControlClients for TLC.                                     *)
(***************************************************************************)
EXTENDS ControlClients

CONSTANTS a, ghost, c1, c2

Cmd(verb, units) ==
  [verb |-> verb, units |-> units, wait |-> FALSE, no_block |-> FALSE,
   mode |-> "replace", now |-> FALSE, uid |-> "manager", size |-> 1, resp |-> 1]

\* The client under test runs anything
Starts ==
  {Cmd("start", <<a>>), [Cmd("start", <<a, ghost>>) EXCEPT !.size = 2],
   [Cmd("start", <<a>>) EXCEPT !.wait = TRUE],
   [Cmd("start", <<a, ghost>>) EXCEPT !.mode = "ignore-dependencies", !.wait = TRUE],
   [Cmd("start", <<>>) EXCEPT !.mode = "ignore-dependencies"]}
Stops ==
  {Cmd("stop", <<a>>), [Cmd("stop", <<a>>) EXCEPT !.mode = "replace-irreversibly"],
   [Cmd("restart", <<a>>) EXCEPT !.wait = TRUE], Cmd("try_restart", <<a>>)}
Others ==
  {Cmd("is_active", <<a>>), Cmd("is_failed", <<a, ghost>>), Cmd("is_system_running", <<>>),
   Cmd("reset_failed", <<a>>),
   [Cmd("shutdown", <<>>) EXCEPT !.uid = "another"],
   [Cmd("list_units", <<>>) EXCEPT !.resp = 2], [Cmd("list_units", <<>>) EXCEPT !.resp = 4],
   [Cmd("mask", <<a>>) EXCEPT !.size = 4], Cmd("unmask", <<a>>),
   Cmd("restart_or_start", <<a>>), Cmd("kill", <<a>>), Cmd("kill", <<ghost>>),
   Cmd("shutdown", <<>>),
   Cmd("enable", <<a>>), [Cmd("enable", <<a>>) EXCEPT !.now = TRUE], Cmd("disable", <<a>>),
   Cmd("edit", <<a>>)}

ClientsMenu ==
  [c \in Clients |->
     CASE c = c1 -> Starts \cup Stops \cup Others
       [] OTHER -> {Cmd("stop", <<a>>),
                     [Cmd("start", <<a>>) EXCEPT !.mode = "ignore-dependencies"]}]
=============================================================================
