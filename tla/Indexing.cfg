SPECIFICATION FairSpec
CONSTANTS
  o1 = o1 o2 = o2 v1 = v1 v2 = v2 a1 = a1 a2 = a2 r1 = r1
  cron = cron command = command by_venue = by_venue errors = errors expiry = expiry
  Absent = Absent
  Offers = {o1, o2}
  Venues = {v1, v2}
  VenueOf <- OneOfferEach
  Addresses = {a1, a2}
  Requests = {r1}
  OfferJobs = {cron, command}
  Commands = {command}
  VenueJob = by_venue ErrorJob = errors ExpiryJob = expiry
  OfferChunk = 1
  VenueChunk = 1
  ErrorChunk = 2
  MaxChanges = 2
  MaxFaults = 2
INVARIANTS StaleOffersAreTracked IndexedOffersAreKnown
PROPERTIES IndexCatchesUp
CHECK_DEADLOCK FALSE
