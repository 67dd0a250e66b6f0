SPECIFICATION Spec
CONSTANTS
  Messages = {m1, m2, m3, m4}
  Nothing = Nothing
INVARIANTS TypeOK StreamsAgree InFlightBounded
PROPERTY EverythingArrives
