SPECIFICATION Spec
CONSTANT Absent = Absent
INVARIANTS
  
  SavesAreAccepted
  NothingIsHidden
PROPERTIES
  UndoGivesBack
  
\* A page may rest: the bounds on edits end its behaviours.
CHECK_DEADLOCK FALSE
