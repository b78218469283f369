SPECIFICATION ServicesSpec
CONSTANTS
  Calls = {r1, r2, r3}
  Guest = guest
  Account = account
  Collections = {"data"}
  TermsUpdate = 2
  LastDay = 3
  Nothing = Nothing
  Models = {m1, m2}
  Admins = {r1, r2, r3}
  Options = {1, 2}
  DefaultOption = 2
  DefaultUpper = 2
  Places = {10, 20}
  Length = 2
  Requests = {r1, r2, r3}
  Visitor = visitor
  Member = member
  Messages = {m1, m2}
  ChipNames = {"chip"}
  Nobody = Nobody
SYMMETRY Interchangeable
INVARIANTS
  ServicesTypeOK
  OneRowPerClient
  ConsentIsTheLastWord
  PlacesAreDistinct
  DefaultsFitTheirLimits
  FileOptionsGoWithTheKind
  OneOpenLabelEach
PROPERTIES
  LabelsAreDeletedByTheirCreator
CHECK_DEADLOCK FALSE
