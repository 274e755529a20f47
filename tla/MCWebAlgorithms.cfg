SPECIFICATION Spec
CONSTANTS
  GraphLinks = 4
  LayoutEdges = 5
CHECK_DEADLOCK FALSE

INVARIANT Investigations
INVARIANT Explanations
INVARIANT Agents
INVARIANT Drawings
