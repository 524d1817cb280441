\* Six keys in the AVL tree, four nodes in the list, eleven keys in a B-tree of
\* order 5.
SPECIFICATION LibSpec
CONSTANTS
  MaxKey = 6
  Val = {1, 2}
  MaxNode = 4
  MaxData = 5
  M = 5
  MaxBKey = 11
CHECK_DEADLOCK FALSE
INVARIANTS Shape Links
PROPERTIES KeywordTreeSpec LinkedListSpec BTreeKeeps
