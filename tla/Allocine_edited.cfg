\* The price of a showing is edited, then its quantity, and the cinema synchronised.
SPECIFICATION Spec
CONSTANTS
  s1 = s1 s2 = s2 s3 = s3 cron = cron job = job
  Absent = Absent None = None
  Showings = {s1}
  Popular = {s1}
  Syncs = {cron}
  Cron = cron
  Amounts = {1, 2}
  VenueQuantity = 1
  ChunkSize = 2
  MaxEdits = 2
  MaxFaults = 0
INVARIANTS EveryEditStands
CHECK_DEADLOCK FALSE
