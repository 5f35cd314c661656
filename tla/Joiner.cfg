SPECIFICATION Spec
CONSTANTS
  s1 = s1
  a1 = a1
  a2 = a2
  card = card
  email = email
  k1 = k1
  k2 = k2
  None = None
  NoKey = NoKey
  Payments = {1, 2}
  Entities = {card, email}
  Key <- MCKey
  Source = {s1}
  Of <- MCOf
  Agg = {a1, a2}
  AggOf <- MCAggOf
  Released <- MCReleased
  MaxDisruptions = 2
  MaxLag = 1
INVARIANT NoLeftovers
PROPERTY DecidesSequentially
CHECK_DEADLOCK FALSE
