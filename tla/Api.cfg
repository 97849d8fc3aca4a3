SPECIFICATION Spec
CONSTANTS
  u1 = u1
  u2 = u2
  w1 = w1
  w2 = w2
  User <- Users
  Family <- Families
  Command <- SomeCommands
  Attribute <- SomeAttributes
  Number <- Numbers
  Text <- Texts
  Word <- Words
INVARIANTS TypeOK Answered ShownCanBeStored
PROPERTIES StatusIsTrue ClockAsHanded
SYMMETRY Interchangeable
