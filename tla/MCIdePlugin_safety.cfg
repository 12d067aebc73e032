\* Two editors, one of them starts its server by itself; three spawns.
CONSTANTS
  Editors = {e1, e2}
  Dialogs = {d1}
  Processes = {p1, p2, p3}
  NoProcess = NoProcess
  AutoStart = {e1}
  MaxCrashes = 1
SPECIFICATION Spec
INVARIANTS
  TypeOK
  BarFollowsHandle
  ServersTracked
  ListedEditors
SYMMETRY ProcessSymmetry
