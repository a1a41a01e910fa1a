------------------------------ MODULE MCShell ------------------------------
(***************************************************************************)
(* The cast of the records: a may sit in the pane or run without one, c is *)
(* its child, b comes to the pane later or is a background job of it, with *)
(* a session of its own or the child's resumed.                            *)
(***************************************************************************)
EXTENDS Shell, TLC

CONSTANTS a, b, c, sa, sb, sc

MCProc == {a, b, c}
MCSid == {sa, sb, sc}
MCMayBe == (a :> {"pane", "headless"}) @@ (b :> {"pane", "job"}) @@ (c :> {"child"})
MCMaySid == (a :> {sa}) @@ (b :> {sb, sc}) @@ (c :> {sc})
MCParentOf == (a :> None) @@ (b :> None) @@ (c :> a)
=============================================================================
