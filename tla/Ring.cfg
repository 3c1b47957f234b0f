CONSTANTS
  Half = 4
SPECIFICATION Spec
INVARIANTS FindsFirst JavaFindsSame PythonMissesNeighbours
PROPERTIES OnlyNeighboursMove
