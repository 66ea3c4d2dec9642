SPECIFICATION FairSpec
CONSTANTS
  Browsers = {u1}
  Absent = Absent
PROPERTIES
  InteropIsServed
  OrdersAreSettled
  ShownAgain
