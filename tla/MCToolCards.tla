---------------------------- MODULE MCToolCards ----------------------------
(***************************************************************************)
(* ToolCards for TLC: a tool and a tool its subagent calls.                *)
(***************************************************************************)
EXTENDS ToolCards, TLC

CONSTANTS agent, inner, b1, b2

MCTools   == {agent, inner}
MCParent  == [t \in MCTools |-> IF t = inner THEN agent ELSE Top]
MCBrowsers == {b1, b2}
Symmetry   == Permutations(MCBrowsers)
=============================================================================
