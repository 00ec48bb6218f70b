CONSTANT Graphs <- AllGraphs

SPECIFICATION Spec

INVARIANTS
  GroupsDisjoint
  MeaningKept
