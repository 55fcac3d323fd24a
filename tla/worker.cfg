SPECIFICATION FairSpec
CONSTANTS
  Process = {p1, p2}
  Client = {c1, c2}
  NoProcess = NoProcess
  MaxSubmit = 2
PROPERTIES
  WaitMeansRun
  ImplementsRunService
  EverySubmitIsRun
  WaitersReturn
