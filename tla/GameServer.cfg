SPECIFICATION FairSpec
CONSTANTS
  Ki = {k1, k2}
  NoKi = NoKi
  MaxAdds = 3
  MaxArrivals = 3
INVARIANTS
  TypeOK
  NobodyAbandoned
  OneConnectionPerPlayer
  TrackingIsRight
  OwnerIsRight
  MemberListsAreCurrent
PROPERTIES
  HandOffIsServed
  EmptyServerEnds
CHECK_DEADLOCK FALSE
