\* All inputs of up to five characters.
SPECIFICATION Spec
CONSTANTS
  Args <- MCArgs
  Code = {0, 1, 127, 255}
  MaxLen = 5
INVARIANTS SplitExact BatchesExact
