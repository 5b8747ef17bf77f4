-------------------------- MODULE MCPromptSession --------------------------
(* A small session: prompts, a slash command, a shell command, one          *)
(* notification of each kind and a scheduled prompt, two turns in flight.   *)
EXTENDS PromptSession

CONSTANTS p1, p2, s1, b1, n1, n2, a1, u1, r1, i1

NoPairs == {}
OneTask == {{n1, n2}}
=============================================================================
