SPECIFICATION AddressFormSpec
CONSTANTS
  Places = {"a1", "a2"}
  Texts = {"x"}
  Trips = {1, 2}
  NoPlace = NoPlace
  EmptyText = EmptyText
CHECK_DEADLOCK FALSE
INVARIANT SetDefaultServed
