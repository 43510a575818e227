SPECIFICATION StoreSpec
CONSTANTS
  Data = {seeded, work}
  Seeded = seeded
  Provider = TRUE
  Faults = {"open", "flush"}
PROPERTIES SavesAreSafe NeverClobbersOpenable LoadKeepsData
