SPECIFICATION FairSpec
CONSTANTS
  File = {"scan", "sheet", "print", "text", "box", "member", "table", "torn", "bad", "absent", "odd"}
  Value = {"AB-1", "CYR-1", "K1", "K2", "1", "3", "7", "Ivanov", "PD", "RD", "AR", "KR", "AR 12", "stem"}
  Twin <- Twins
  Blank = "-"
  NoAnswer = NoAnswer
  Tesseract = TRUE
  Rapid = TRUE
  Locked <- LockedDef
  Configured = TRUE
  MaxApprovalGap = 2
  Packages <- PackagesDef
  Form <- FormDef
  Stored = {"scan", "sheet", "print", "text", "box", "member", "table", "torn", "bad", "odd"}
  Members <- MembersDef
  Text <- TextDef
  Pages <- PagesDef
  Damage <- DamageDef
  Name <- NameDef
  Entry <- EntryDef
  ParseAttempts = 3
  MaxFault = 2
  NoFile = "none"
INVARIANTS TypeOK ReadAsAlone 
PROPERTY RunEnds
CHECK_DEADLOCK FALSE
