SPECIFICATION Spec
CONSTANTS
  NoFinding = NoFinding
  NoPaper = NoPaper
  Catalog <- CatalogDef
  NoObject = NoObject
  Setting <- SettingDef
  Sites <- SitesDef
  Colleague <- ColleagueDef
  File = {"pd", "rd"}
  FileStage <- FileStageDef
  Unapproved = {}
  Kit = {"pd", "rd"}
  Id = {1, 2}
  Value = {1, 2}
  Machine <- MachineDef
  MaxProcess = 2
  MaxLoads = 1
  MaxPress = 3
  MaxTrouble = 1
INVARIANTS TypeOK IdleShowsServer
PROPERTIES DownloadedIsFinal FilesShowScreen
CHECK_DEADLOCK FALSE
