----------------------------- MODULE MCProject -----------------------------
(***************************************************************************)
(* Project with two runs of init and three edits; the other directory has a  *)
(* file a server can be started from, which allows the gated tools.        *)
(***************************************************************************)
EXTENDS Project

Plainly == [cli |-> Unset, locator |-> Unset, project_dir |-> Unset, cwd |-> "here"]
MCLaunches ==
  {Plainly,
   [Plainly EXCEPT !.project_dir = "elsewhere"],
   [Plainly EXCEPT !.project_dir = "here", !.cwd = "elsewhere"],
   [Plainly EXCEPT !.cli = "nowhere"],
   [Plainly EXCEPT !.locator = "elsewhere"],
   [Plainly EXCEPT !.cli = "here", !.locator = "elsewhere"]}

Bare == [k \in Key |-> Unset]
MCEnvirons ==
  {Bare,
   [Bare EXCEPT !["SHDOC_DOC_ID"] = "good"],
   [Bare EXCEPT !["SHDOC_DOC_ID"] = "good", ![FLAG] = "good"],
   [Bare EXCEPT !["SHDOC_API_KEY"] = "good", ![FLAG] = "other"]}

Line(k, kind, v, open) == [key |-> k, kind |-> kind, value |-> v, open |-> open]
MCLines ==
  {Line("SHDOC_API_KEY", "plain", "good", TRUE),
   Line("SHDOC_API_KEY", "exported", "good", FALSE),
   Line("SHDOC_API_KEY", "quoted", "good", FALSE),
   Line("SHDOC_DOC_ID", "exported", "other", TRUE),
   Line(FLAG, "commented", "good", FALSE),
   Line(FLAG, "plain", "good", TRUE),
   Line(FLAG, "plain", "other", FALSE),
   Line(LEVEL, "plain", "other", FALSE)}

MCElsewhere ==
  [there |-> TRUE, kinds |-> [k \in Key |-> {"plain"}],
   value |-> [k \in Key |-> "good"], open |-> Nothing, additions |-> 0]
=============================================================================
