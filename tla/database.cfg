CONSTANTS
  Task = {t1, t2}
  Line = {l1, l2}
  NoLine = NoLine
SPECIFICATION Spec
INVARIANTS
  FileCurrent
  ReturnedIsSaved
