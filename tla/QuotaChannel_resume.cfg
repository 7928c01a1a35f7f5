SPECIFICATION FairSpec
CONSTANTS
  Apps = {a1}
  Service = Service
  Cron = Cron
  MaxDay = 2
  BusyDays = {0}
  MaxCopies = 1
  MaxFaults = 1
CHECK_DEADLOCK FALSE
PROPERTIES
  EverythingResumes
