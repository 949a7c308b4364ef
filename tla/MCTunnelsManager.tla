-------------------------- MODULE MCTunnelsManager --------------------------
(* The worlds in which TLC explores TunnelsManager. *)
EXTENDS TunnelsManagerSlot

World(tunnels, asyncStart, faults, outside, edits) ==
  [tunnels |-> tunnels, ios |-> TRUE, asyncStart |-> asyncStart,
   faults |-> faults, outside |-> outside, edits |-> edits]

OnMacOS(w) == [w EXCEPT !.ios = FALSE]

\* Failing starts; sessions that lag, start and vanish on their own; edits; a new
\* tunnel that cannot be saved, in the macOS build.
RoughWorlds ==
  {World({1, 2}, FALSE, {"start"}, FALSE, {}),
   World({1, 2}, TRUE, {}, TRUE, {}),
   World({1, 2}, FALSE, {}, FALSE, Editing),
   OnMacOS(World({1, 2}, FALSE, {"edit"}, FALSE, {"add", "modify"}))}

\* No start fails and sessions follow at once; a new tunnel may fail to be saved.
SmoothWorlds ==
  {World({1, 2, 3}, FALSE, {}, FALSE, {"remove"}),
   World({1, 2}, FALSE, {"edit"}, FALSE, Editing),
   OnMacOS(World({1, 2}, FALSE, {}, FALSE, {"add"}))}

\* A switch; restarts; failures at every point.
LiveWorlds ==
  {World({1, 2}, FALSE, {}, FALSE, {}),
   World({1, 2}, FALSE, {}, FALSE, {"modify"}),
   World({1, 2}, FALSE, {"start"}, FALSE, {})}

FailingWorlds == {World({1, 2}, FALSE, {"start"}, FALSE, {})}
ModifyingWorlds == {World({1, 2}, FALSE, {}, FALSE, {"modify"})}
AddingWorlds == {World({1, 2}, FALSE, {}, FALSE, {"add"})}
=============================================================================
