\* One indent, with two RFQs when one request runs at a time and with one RFQ
\* when two do.
SPECIFICATION Spec
CONSTANTS
  Clients = {c1, c2}
  Indents = {i1}
  r1 = r1
  r2 = r2
  Rfqs = {r1, r2}
  Suppliers = {s1, s2}
  Rates = {1, 2}
  Asked <- OneIfCrowded
  MaxPos = 2
SYMMETRY Symmetry
INVARIANTS
  OneSelected
  ConvertsOnce
  ConvertedIsOrdered
  OnlyApprovedIsSourced
PROPERTIES
  OrderedAsSelected
CHECK_DEADLOCK FALSE
