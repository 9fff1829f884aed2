\* Two names; the application and the listeners add, remove and distribute.
CONSTANTS
  Names = {n1, n2}
  MaxMessages = 2
  MaxAdds = 3
  MaxRemovals = 2
SPECIFICATION Spec
INVARIANTS
  TypeOK
  BrokenForACause
  RegistrationsLast
PROPERTY DispatcherSpec
\* The object stops at undefined behaviour and when the calls are used up.
CHECK_DEADLOCK FALSE
