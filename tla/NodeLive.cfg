SPECIFICATION Spec
CONSTANT None = None
 
PROPERTIES EveryCallEnds  
CHECK_DEADLOCK FALSE
