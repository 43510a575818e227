SPECIFICATION StoreSpec
CONSTANTS
  Data = {seeded, work}
  Seeded = seeded
  Provider = TRUE
  Faults = {"open"}
PROPERTY NeverClobbersUnread
