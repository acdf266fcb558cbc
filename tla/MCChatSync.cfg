SPECIFICATION SyncSpec
CONSTANTS
  N = 2
  Attachments = {2}
  MaxStamp = 2
  Sockets = {d1}
  Devices = {d1}
  Limit = 1
  MaxEvents = 2
PROPERTY EventuallyUpToDate
