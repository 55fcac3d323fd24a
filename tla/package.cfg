SPECIFICATION Spec
CONSTANTS
  pd1 = pd1
  pd2 = pd2
  pd3 = pd3
  rd1 = rd1
  rd2 = rd2
  rd3 = rd3
  box = box
  huge = huge
  sick = sick
  odd = odd
  K1 = K1
  K2 = K2
  K3 = K3
  v = v
  arch = arch
  fire = fire
  heating = heating
  system = system
  heat = heat
  Idle = {system}
  File = {pd1, pd2, pd3, rd1, rd2, rd3, box, huge, sick, odd}
  Content = {pd1, pd2, pd3, rd1, rd2, box, huge, sick, odd}
  NoHash = NoHash
  MaxFileBytes = 3
  MaxBatchBytes = 5
  ParcelOf <- ParcelDef
  Members <- MembersDef
  MaxBatch = 2
  Key = {K1, K2, K3}
  Volume = {v}
  Blank = Blank
  NoFile = NoFile
  Unread = Unread
  SoleHead = TRUE
  NoBound = NoBound
  NoValue = NoValue
  One = 1000
  NoNumber = NoNumber
  NoRoom = NoRoom
  NoSpot = NoSpot
  KindTokens <- Tokens
  Cipher <- Ciphers
  Unparsed = Unparsed
  NoRooms = NoRooms
  Passport <- PassportDef
  Says <- SaysDef
  Rows <- RowsDef
  Crops <- CropsDef
  Raster = {pd2, rd2}
  Matrix <- MatrixDef
  FreeSearch <- FreeSearchDef
  MaxFiles = 3
  MaxUnread = 1
  MaxChoices = 2
  NoRun = NoRun
INVARIANTS EtalonIsLast VerdictIsGrounded OneVerdictPerRoom NumberIsACell ChangesAreRead CatalogAgrees
PROPERTY OthersUnmoved
CHECK_DEADLOCK FALSE
