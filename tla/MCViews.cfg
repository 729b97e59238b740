SPECIFICATION Spec
CONSTANT Absent = Absent
INVARIANTS
  
  FiguresAddUp
  NothingIsMissed

  
\* A page may rest: the bounds on messages and clicks end its behaviours.
CHECK_DEADLOCK FALSE
