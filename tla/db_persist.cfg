CONSTANTS
  Task = {t1, t2}
  Line = {l1}
  NoLine = NoLine
SPECIFICATION Spec
PROPERTY LinesPersist
