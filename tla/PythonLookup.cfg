CONSTANTS
  Half = 4
SPECIFICATION Spec
INVARIANTS PythonFindsFirst
