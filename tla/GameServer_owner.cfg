SPECIFICATION Spec
CONSTANTS
  Ki = {k1, k2}
  NoKi = NoKi
  MaxAdds = 2
  MaxArrivals = 3
INVARIANTS
  OwnerlessMeansEmpty
CHECK_DEADLOCK FALSE
