\* Two children, created, updated and deleted, of a parent that is edited or goes.
SPECIFICATION MCSpec
CONSTANTS
  None = None
  Children = {a, b}
  a = a
  b = b
  Hards = {1, 2}
  ParentHards = {1, 2}
  MaxOps = 2
  MaxEdits = 1
  MaxDrops = 1
INVARIANT NoPhantomChild
PROPERTY UsedSettles
PROPERTY ChildDeletionCompletes
CHECK_DEADLOCK FALSE
