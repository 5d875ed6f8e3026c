\* The dashboard, between the collector's ticks and the Berths page.
SPECIFICATION ViewSpec
CONSTANTS
  Absent = Absent
  c1 = c1
  b1 = b1
  b2 = b2
  MapCabinets = {c1}
  MapBerths = {b1, b2}
  ServedBy <- MCServedBy
  Metered = {b1}
  CACHE_FRESH_FOR = 1
  OFFLINE_AFTER = 1
  STALE_AFTER = 0
  VESSEL_FRESH_FOR = 2
  Unanswered <- MCUnanswered
  MaxViewTime = 3
  MaxEvents = 2
INVARIANT
  OptionalOnlyAdds
CHECK_DEADLOCK FALSE
