SPECIFICATION MailSpec
CONSTANTS
  Writers = {"sensor", "backfill"}
  Mails <- MCMails
  Events = {"meeting"}
  Calendar <- MCCalendar
  None = None
  MaxFaults = 1
  MaxBackfills = 1
  MaxRebuilds = 1
  ChunkSize = 5
  ChunkOverlap = 1
  MinChunkSize = 2
INVARIANTS
  DoneIsStored
  TextIsOfRow
  PassedIsMet
PROPERTIES
  EventuallyProcessed
