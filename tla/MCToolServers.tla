--------------------------- MODULE MCToolServers ----------------------------
(***************************************************************************)
(* Two tool servers for TLC.                                               *)
(***************************************************************************)
EXTENDS ToolServersProperties

CONSTANTS s1, s2, g1, c1, c2, a, b, l1, l2, h1

MCServers == {s1, s2}
MCGoals == {g1}
MCCheckpoints == {c1, c2}
MCSessions == {a, b}

\* A note of one line, and one whose second line reads like a heading, or is one.
MCHeadings == {h1, "## MANUAL"}
MCLines == {l1, l2} \cup MCHeadings
MCNotes == {<<l1>>, <<l2, h1>>, <<l2, "## MANUAL">>}
MCLists == {Unsaid, NoList, {<<l1>>}}
MCValues == {"on", "off"}

\* Calls of one family at a time, but for the last.
Only(family, n, crashes) ==
  [f \in Families |-> IF f = family THEN n ELSE IF f = "crash" THEN crashes ELSE 0]

MCBudgets == {Only("goal", 5, 1), Only("state", 3, 1), Only("memory", 3, 1),
              Only("notepad", 3, 1),
              [f \in Families |-> IF f = "crash" THEN 0 ELSE 1]}
=============================================================================
