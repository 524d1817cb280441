\* Deleting a key with two children.
SPECIFICATION Spec
CONSTANTS
  MaxKey = 7
  Val = {1}

PROPERTY DeleteKeepsOthers
