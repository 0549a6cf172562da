SPECIFICATION LiveSpec
CONSTANTS
  d = d  w = w
  w1 = w1  w2 = w2  w3 = w3
  t1 = t1  t2 = t2
PROPERTIES
  DrawerFollows LockReturned LowMemoryEnds AlarmsDelivered
