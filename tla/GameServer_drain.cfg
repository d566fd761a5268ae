SPECIFICATION Spec
CONSTANTS
  Ki = {k1, k2}
  NoKi = NoKi
  MaxAdds = 2
  MaxArrivals = 3
INVARIANTS
  TimersOutliveJoins
CHECK_DEADLOCK FALSE
