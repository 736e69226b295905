SPECIFICATION Spec
CONSTANTS
  t1 = t1
  t2 = t2
  t3 = t3
  k1 = k1
  k2 = k2
  None = None
INVARIANTS ChildrenHandled AnswerIsOwn 
PROPERTIES  ServerLive LogWorks
CHECK_DEADLOCK FALSE
