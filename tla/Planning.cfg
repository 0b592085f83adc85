\* Three orders on two lines, the second slower and not for every product.
SPECIFICATION Spec
CONSTANTS
  o1 = o1
  o2 = o2
  o3 = o3
  Orders = {o1, o2, o3}
  OrderOf <- SmallOrders
  Lines = {1, 2}
  LineOf <- SmallLines
  Attendances <- FullOrShort
  DaySeconds = 4
  LastDay = 1
  Horizon = 2
  MaxPlans = 1
INVARIANTS
  NoDoubleBooking
  PlanCoversOrder
CHECK_DEADLOCK FALSE
