CONSTANT Modes = {"usb", "memory", "none"}
SPECIFICATION Spec

  
  
PROPERTIES
  DataServed
  CloseServed
CHECK_DEADLOCK FALSE
