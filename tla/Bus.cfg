SPECIFICATION Spec
CONSTANTS
  Components = {"transport", "queues", "clocks", "dispatcher", "filters"}
  Ifaces = {i, j}
  MaxFrames = 3
  a = a
  b = b
  None = None
INVARIANTS DeliveredInOrder IntactDelivered WantedArrives
   
SYMMETRY InterfaceSymmetry
CHECK_DEADLOCK FALSE
