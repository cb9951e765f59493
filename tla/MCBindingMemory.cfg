CONSTANTS
  w1 = w1
  w2 = w2
  all = all
  NULL = NULL
  MaxBind = 4
  Widget <- MCWidget
  Tag <- MCTag
  EventType <- MCEventType
  Callback <- MCCallback
SPECIFICATION Spec
INVARIANT NothingLeaked
INVARIANT RegistrationOrder
PROPERTY ImplementsList
PROPERTY CallsReturn
\* A write into a freed node stops the model.
CHECK_DEADLOCK FALSE
