---------------------------- MODULE MCTunnelStore ----------------------------
(* Names and bodies are interchangeable for TLC: TunnelStore compares them and *)
(* does nothing else with them.                                             *)
EXTENDS TunnelStore

World(ios, mishaps, most) == [ios |-> ios, mishaps |-> mishaps, most |-> most]

\* Saves fail and the app is killed; configurations vanish; profiles turn up.
StoreWorlds ==
  {World(TRUE, {"item", "save", "crash"}, 1), World(FALSE, {"item", "save", "crash"}, 1),
   World(FALSE, {"deleted"}, 1),
   World(TRUE, {"added", "item"}, 2), World(FALSE, {"added", "crash"}, 1)}

\* Nothing goes wrong.
CalmWorlds == {World(TRUE, {}, 0)}

Interchangeable == Permutations(Names) \cup Permutations(Bodies)
=============================================================================
