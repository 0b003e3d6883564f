SPECIFICATION CartSpec
CONSTANTS
  CartId = {c1, c2}
  NoCart = NoCart
  Product = {sold, retired}
  Retired = {retired}
  Quantity = {1}
  Session = {s1, s2}
PROPERTY
  RetiredNotOrdered
CHECK_DEADLOCK FALSE
