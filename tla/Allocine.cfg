\* A cinema is synchronised every day and once by a worker, while its stocks are
\* edited, deleted and booked, prices change and processes are killed.
SPECIFICATION FairSpec
CONSTANTS
  s1 = s1 s2 = s2 s3 = s3 cron = cron job = job
  Absent = Absent None = None
  Showings = {s1, s2}
  Popular = {s1}
  Syncs = {cron, job}
  Cron = cron
  Amounts = {1, 2}
  VenueQuantity = 1
  ChunkSize = 2
  MaxEdits = 2
  MaxFaults = 1
INVARIANTS TypeOK CountersExact LastEditStands
PROPERTIES DeletionsStand AnnouncedAreSold
CHECK_DEADLOCK FALSE
